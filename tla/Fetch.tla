------------------------------- MODULE Fetch -------------------------------
(***************************************************************************)
(* fetch and the bodies of requests and responses (web_fetch.go,           *)
(* web_request.go, web_response.go, the body streams of                    *)
(* web_streams_readable.go).                                               *)
(*                                                                         *)
(* fetch runs in the task that calls it and returns a settled promise.  A  *)
(* response's body stays in the socket: read() of its stream, and text()   *)
(* and its like, pull it chunk by chunk, and block in recv while another   *)
(* task may use the same response.  The kernel gives the lowest free       *)
(* descriptor to a new socket, so a descriptor closed twice may belong to  *)
(* another response the second time.                                       *)
(*                                                                         *)
(* Chunks are the results of the network runtime's reads; the plain and    *)
(* the chunked transfer only differ in how those are found.  Methods,      *)
(* statuses, addresses and header text are left out, but for the outcomes  *)
(* of a round they decide; fetch's signal is one for all fetches.          *)
(***************************************************************************)
EXTENDS Integers, Sequences, FiniteSets, SequencesExt, FiniteSetsExt

CONSTANTS
    Task,           \* tasks of the program
    Request,        \* requests of the program, all with a body
    Menu,           \* what programs use: "responses", "requests" or both
    MaxConnections, \* bound: sockets opened, by fetches and redirects
    MaxChunks,      \* bound: chunks of a response's body
    MaxRedirects    \* redirects a fetch follows (20 in the code)

FetchAssumption ==
    /\ Menu \subseteq SUBSET {"responses", "requests"}
    /\ {MaxConnections, MaxChunks, MaxRedirects} \subseteq Nat
    /\ Request \cap (1 .. MaxConnections) = {}

Conn == 1 .. MaxConnections
FD == 0 .. MaxConnections - 1
NoConn == 0
NoFD == -1

VARIABLES
    files,      \* the kernel's table: the connection of each descriptor
    read,       \* per connection, chunks the program has received
    response,   \* per connection, the response made of it
    request,    \* per request, [used, locked, read]
    pc,         \* per task, the fetch or the pull it is blocked in
    aborted,    \* whether the signal has aborted
    handed,     \* history: what each body was given out to, in order: the whole of it to
                \* text(), its like or a fetch, some to a "reader", or to a "copy"
    overlapped, \* history: responses used while a pull of them was blocked
    cut,        \* history: responses whose body ended early
    leaked,     \* history: connections whose header could not be parsed
    menu        \* what this program uses

vars == <<files, read, response, request, pc, aborted, handed, overlapped, cut, leaked, menu>>

NoResponse == [made |-> FALSE, fd |-> NoFD, live |-> FALSE, calls |-> FALSE,
               used |-> FALSE, locked |-> FALSE, data |-> <<>>, index |-> 0]

Idle == [at |-> "idle"]
Connect(n) == [at |-> "connect", redirects |-> n]
Await(fd, n) == [at |-> "headers", fd |-> fd, redirects |-> n]
Pull(c, what, i) == [at |-> "pull", response |-> c, what |-> what, index |-> i]

Opened == Max({0} \cup {c \in Conn : read[c] >= 0})
Live(c) == response[c].live

Init ==
    /\ files = [fd \in FD |-> NoConn]
    /\ read = [c \in Conn |-> -1]
    /\ response = [c \in Conn |-> NoResponse]
    /\ request = [q \in Request |-> [used |-> FALSE, locked |-> FALSE, read |-> FALSE]]
    /\ pc = [t \in Task |-> Idle]
    /\ aborted = FALSE
    /\ handed = [x \in Conn \cup Request |-> <<>>]
    /\ overlapped = {}
    /\ cut = {}
    /\ leaked = {}
    /\ menu \in Menu

-----------------------------------------------------------------------------
(* Some of a body is given out; to a reader and to copies it is noted once. *)
Hand(s, to) == IF to # "whole" /\ to \in Range(s) THEN s ELSE Append(s, to)
HandOut(x, to) == handed' = [handed EXCEPT ![x] = Hand(@, to)]

(* Mutant of Close: the descriptor is forgotten and stays open. *)
CloseForgotten(fd) == files[fd] \in Conn \cup {NoConn} /\ UNCHANGED files

(* fetch.  An aborted signal throws before a round, and after every wait.  *)
Close(fd) == files' = [files EXCEPT ![fd] = NoConn]
Throw(t) == pc' = [pc EXCEPT ![t] = Idle]

Usable(b) == ~b.used /\ ~b.locked

BeginRound(t, n) == pc' = [pc EXCEPT ![t] = IF aborted THEN Idle ELSE Connect(n)]

FetchURL(t) ==
    /\ pc[t] = Idle
    /\ BeginRound(t, 0)
    /\ UNCHANGED <<files, read, response, request, aborted, handed, overlapped, cut, leaked>>

FetchRequest(t, q) ==
    /\ pc[t] = Idle
    /\ Usable(request[q])
    /\ request' = [request EXCEPT ![q].used = TRUE]
    /\ HandOut(q, "whole")
    /\ BeginRound(t, 0)
    /\ UNCHANGED <<files, read, response, aborted, overlapped, cut, leaked>>

(* Resolving or connecting fails, or the socket gets the lowest descriptor. *)
ConnectFails(t) ==
    /\ pc[t].at = "connect"
    /\ Throw(t)
    /\ UNCHANGED <<files, read, response, request, aborted, handed, overlapped, cut, leaked>>

Connects(t) ==
    /\ pc[t].at = "connect"
    /\ Opened < MaxConnections
    /\ LET fd == Min({f \in FD : files[f] = NoConn}) IN
       /\ files' = [files EXCEPT ![fd] = Opened + 1]
       /\ pc' = [pc EXCEPT ![t] = Await(fd, pc[t].redirects)]
    /\ read' = [read EXCEPT ![Opened + 1] = 0]
    /\ UNCHANGED <<response, request, aborted, handed, overlapped, cut, leaked>>

(* The request's body is written short, the signal has aborted, no header  *)
(* came, a redirect in mode "error" or to an invalid URL or one too many:  *)
(* the socket is closed first.                                             *)
RoundFails(t) ==
    /\ pc[t].at = "headers"
    /\ Close(pc[t].fd)
    /\ Throw(t)
    /\ UNCHANGED <<read, response, request, aborted, handed, overlapped, cut, leaked>>

HeaderCame(t) == pc[t].at = "headers" /\ ~aborted /\ files[pc[t].fd] # NoConn

(* A header field with an invalid name or value throws past the close. *)
HeaderInvalid(t) ==
    /\ HeaderCame(t)
    /\ leaked' = leaked \cup {files[pc[t].fd]}
    /\ Throw(t)
    /\ UNCHANGED <<files, read, response, request, aborted, handed, overlapped, cut>>

Redirects(t) ==
    /\ HeaderCame(t)
    /\ pc[t].redirects < MaxRedirects
    /\ Close(pc[t].fd)
    /\ BeginRound(t, pc[t].redirects + 1)
    /\ UNCHANGED <<read, response, request, aborted, handed, overlapped, cut, leaked>>

Responds(t) ==
    /\ HeaderCame(t)
    /\ LET c == files[pc[t].fd] IN
       /\ ~response[c].made
       /\ response' = [response EXCEPT ![c] =
             [NoResponse EXCEPT !.made = TRUE, !.fd = pc[t].fd, !.live = TRUE, !.calls = TRUE]]
    /\ pc' = [pc EXCEPT ![t] = Idle]
    /\ UNCHANGED <<files, read, request, aborted, handed, overlapped, cut, leaked>>

-----------------------------------------------------------------------------
(* Bodies of responses. *)
Pulled(c) == \E t \in Task : pc[t].at = "pull" /\ pc[t].response = c
Touch(c) == overlapped' = IF Pulled(c) THEN overlapped \cup {c} ELSE overlapped

GetReader(t, c) ==
    /\ pc[t] = Idle /\ response[c].made
    /\ response' = [response EXCEPT ![c].locked = TRUE]
    /\ UNCHANGED <<files, read, request, pc, aborted, handed, overlapped, cut, leaked>>

ReleaseLock(t, c) ==
    /\ pc[t] = Idle /\ response[c].locked
    /\ response' = [response EXCEPT ![c].locked = FALSE]
    /\ UNCHANGED <<files, read, request, pc, aborted, handed, overlapped, cut, leaked>>

(* read() disturbs the body, and pulls when the queue has nothing for it. *)
Read(t, c) ==
    /\ pc[t] = Idle /\ response[c].made /\ response[c].locked
    /\ LET queued == response[c].index < Len(response[c].data) IN
       /\ response' = [response EXCEPT ![c].used = TRUE,
                          ![c].index = IF queued THEN @ + 1 ELSE @]
       /\ pc' = IF ~queued /\ response[c].calls
                THEN [pc EXCEPT ![t] = Pull(c, "read", response[c].index)]
                ELSE pc
       /\ IF queued THEN HandOut(c, "reader") ELSE UNCHANGED handed
    /\ Touch(c)
    /\ UNCHANGED <<files, read, request, aborted, cut, leaked>>

(* The state after text(), or clone(), saw the body complete. *)
Finish(t, c, what, r) ==
    /\ response' = [response EXCEPT ![c] =
          [r EXCEPT !.live = FALSE, !.used = IF what = "text" THEN TRUE ELSE @]]
    /\ IF what = "text" THEN HandOut(c, "whole") ELSE UNCHANGED handed
    /\ pc' = [pc EXCEPT ![t] = Idle]

(* text(), arrayBuffer(), bytes(), blob(), formData(), json(), and clone() *)
(* check that the body is unused, pull all of it, and then mark it used.   *)
Consume(t, c, what) ==
    /\ pc[t] = Idle /\ response[c].made
    /\ Usable(response[c])
    /\ IF Live(c) /\ response[c].calls
       THEN pc' = [pc EXCEPT ![t] = Pull(c, what, 0)] /\ UNCHANGED <<response, handed>>
       ELSE Finish(t, c, what, response[c])
    /\ Touch(c)
    /\ UNCHANGED <<files, read, request, aborted, cut, leaked>>

(* cancel() calls the callback that closes the socket. *)
Cancel(t, c) ==
    /\ pc[t] = Idle /\ response[c].made
    /\ IF response[c].calls
       THEN /\ Close(response[c].fd)
            /\ cut' = cut \cup {c}
            /\ response' = [response EXCEPT ![c].used = TRUE, ![c].live = FALSE, ![c].calls = FALSE]
       ELSE response' = [response EXCEPT ![c].used = TRUE] /\ UNCHANGED <<files, cut>>
    /\ Touch(c)
    /\ UNCHANGED <<read, request, pc, aborted, handed, leaked>>

(* recv returns a chunk: it is added to $bodyData and to the queue, which  *)
(* always hold the same.  read() then looks at the index it took.          *)
ChunkComes(t) ==
    /\ pc[t].at = "pull" /\ ~aborted
    /\ LET c == pc[t].response
           from == files[response[c].fd]
           data == Append(response[c].data, <<from, read[from] + 1>>)
           grown == [response[c] EXCEPT !.data = data] IN
       /\ from # NoConn /\ read[from] < MaxChunks
       /\ read' = [read EXCEPT ![from] = @ + 1]
       /\ IF pc[t].what = "read"
          THEN /\ response' = [response EXCEPT ![c] = [grown EXCEPT !.index = pc[t].index + 1]]
               /\ pc' = [pc EXCEPT ![t] = Idle]
               /\ HandOut(c, "reader")
          ELSE IF grown.live /\ grown.calls
               THEN response' = [response EXCEPT ![c] = grown] /\ UNCHANGED <<pc, handed>>
               ELSE Finish(t, c, pc[t].what, grown)
    /\ UNCHANGED <<files, request, aborted, overlapped, cut, leaked>>

(* recv returns nothing: the peer ended, the connection failed, or the     *)
(* descriptor is closed.  All are the end of the body.                     *)
BodyEnds(t) ==
    /\ pc[t].at = "pull" /\ ~aborted
    /\ LET c == pc[t].response
           ended == [response[c] EXCEPT !.live = FALSE, !.calls = FALSE] IN
       /\ Close(response[c].fd)
       /\ IF pc[t].what = "read"
          THEN /\ response' = [response EXCEPT ![c] =
                     IF pc[t].index < Len(ended.data) THEN [ended EXCEPT !.index = pc[t].index + 1] ELSE ended]
               /\ pc' = [pc EXCEPT ![t] = Idle]
               /\ IF pc[t].index < Len(ended.data) THEN HandOut(c, "reader") ELSE UNCHANGED handed
          ELSE Finish(t, c, pc[t].what, ended)
    /\ UNCHANGED <<read, request, aborted, overlapped, cut, leaked>>

(* The signal has aborted: the socket is closed and the pull throws, out   *)
(* of text() before it has marked the body used.                           *)
PullAborts(t) ==
    /\ pc[t].at = "pull" /\ aborted
    /\ LET c == pc[t].response IN
       /\ Close(response[c].fd)
       /\ cut' = cut \cup {c}
       /\ response' = [response EXCEPT ![c].live = FALSE, ![c].calls = FALSE]
    /\ Throw(t)
    /\ UNCHANGED <<read, request, aborted, handed, overlapped, leaked>>

Abort ==
    /\ ~aborted
    /\ aborted' = TRUE
    /\ UNCHANGED <<files, read, response, request, pc, handed, overlapped, cut, leaked>>

-----------------------------------------------------------------------------
(* Bodies of requests are in memory: nothing blocks. *)
LockRequest(t, q) ==
    /\ pc[t] = Idle
    /\ request' = [request EXCEPT ![q].locked = ~@]
    /\ UNCHANGED <<files, read, response, pc, aborted, handed, overlapped, cut, leaked>>

(* read() of the body's stream, whose one chunk is the body, marks it used *)
(* and gives it out, whatever text() or a fetch has taken before.          *)
ReadRequest(t, q) ==
    /\ pc[t] = Idle /\ request[q].locked
    /\ request' = [request EXCEPT ![q].used = TRUE, ![q].read = TRUE]
    /\ IF request[q].read THEN UNCHANGED handed ELSE HandOut(q, "reader")
    /\ UNCHANGED <<files, read, response, pc, aborted, overlapped, cut, leaked>>

(* cancel() leaves the chunk in the queue. *)
CancelRequest(t, q) ==
    /\ pc[t] = Idle
    /\ request' = [request EXCEPT ![q].used = TRUE]
    /\ UNCHANGED <<files, read, response, pc, aborted, handed, overlapped, cut, leaked>>

(* new Request(request) copies the bytes, and neither looks at nor changes *)
(* the state of the body.                                                  *)
CopyRequest(t, q) ==
    /\ pc[t] = Idle
    /\ HandOut(q, "copy")
    /\ UNCHANGED <<files, read, response, request, pc, aborted, overlapped, cut, leaked>>

ConsumeRequest(t, q) ==
    /\ pc[t] = Idle
    /\ Usable(request[q])
    /\ request' = [request EXCEPT ![q].used = TRUE]
    /\ HandOut(q, "whole")
    /\ UNCHANGED <<files, read, response, pc, aborted, overlapped, cut, leaked>>

(* After an overlap nothing is promised, and the bound on programs is that *)
(* they begin nothing more: what is blocked goes on to its end.            *)
Begins(t) ==
    /\ overlapped = {}
    /\ \/ FetchURL(t)
       \/ \E c \in Conn :
             /\ "responses" \in menu
             /\ \/ GetReader(t, c)
                \/ ReleaseLock(t, c)
                \/ Read(t, c)
                \/ Cancel(t, c)
                \/ \E what \in {"text", "clone"} : Consume(t, c, what)
       \/ \E q \in Request :
             /\ "requests" \in menu
             /\ \/ FetchRequest(t, q)
                \/ LockRequest(t, q)
                \/ ReadRequest(t, q)
                \/ CancelRequest(t, q)
                \/ CopyRequest(t, q)
                \/ ConsumeRequest(t, q)

Continues(t) ==
    \/ ConnectFails(t)
    \/ Connects(t)
    \/ RoundFails(t)
    \/ HeaderInvalid(t)
    \/ Redirects(t)
    \/ Responds(t)
    \/ ChunkComes(t)
    \/ BodyEnds(t)
    \/ PullAborts(t)

Next ==
    /\ \/ \E t \in Task : Begins(t) \/ Continues(t)
       \/ Abort
    /\ UNCHANGED menu

Spec == Init /\ [][Next]_vars

-----------------------------------------------------------------------------
TypeOK ==
    /\ files \in [FD -> Conn \cup {NoConn}]
    /\ read \in [Conn -> -1 .. MaxChunks]
    /\ \A c \in Conn :
          /\ response[c].fd \in FD \cup {NoFD}
          /\ Range(response[c].data) \subseteq Conn \X (1 .. MaxChunks)
    /\ request \in [Request -> [used : BOOLEAN, locked : BOOLEAN, read : BOOLEAN]]
    /\ aborted \in BOOLEAN
    /\ overlapped \cup cut \cup leaked \subseteq Conn

(* Until a response is used while a pull of it is blocked, every           *)
(* descriptor in the table is that of a fetch waiting for its header or of *)
(* a response whose body has not ended, one holder each, but for those a   *)
(* bad header left behind; and each live response's descriptor is its own. *)
SocketsHeld ==
    overlapped = {} =>
        /\ \A c \in Conn : Live(c) => files[response[c].fd] = c
        /\ \A fd \in FD : files[fd] \in Conn \ leaked =>
              Cardinality({c \in Conn : Live(c) /\ response[c].fd = fd}
                  \cup {t \in Task : pc[t].at = "headers" /\ pc[t].fd = fd}) = 1

(* What text(), its like and a fetch take whole was given to no reader and *)
(* to none of them before. A copy may have been made, and what was taken   *)
(* whole is given out again by a reader, or copied: the code does both.    *)
WholeOnce(s) == \A i, j \in DOMAIN s : i < j /\ s[j] = "whole" => s[i] = "copy"

(* So it is with a request's body in any case.  With that of a response it *)
(* is until the response is used while a pull of it is blocked, and until  *)
(* then the body is a prefix of what came on its own connection, nothing   *)
(* missing.                                                                *)
BodyTakenOnce ==
    /\ \A q \in Request : WholeOnce(handed[q])
    /\ overlapped = {} =>
          \A c \in Conn :
              /\ response[c].made =>
                    response[c].data = [i \in 1 .. read[c] |-> <<c, i>>]
              /\ response[c].index <= Len(response[c].data)
              /\ WholeOnce(handed[c])

(* Sockets and bodies have one holder each. *)
BodiesHeld == SocketsHeld /\ BodyTakenOnce

=============================================================================
