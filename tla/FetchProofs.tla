----------------------------- MODULE FetchProofs -----------------------------
(***************************************************************************)
(* For any tasks, requests and bounds, the sockets of fetch have one       *)
(* holder each and a body that is taken whole was out to nobody, until a   *)
(* response is used while a pull of it is blocked.  Headers: for any names *)
(* and values, an object answers with what its calls gave it.              *)
(***************************************************************************)
EXTENDS Fetch, SequenceTheorems, FiniteSetTheorems, WellFoundedInduction, TLAPS

CONSTANTS Object, Order, LowerOf, Invalid, Char, Texts, Arrays, MaxPairs    \* of Headers
VARIABLES entries, given, lost                                              \* of Headers

Fields == INSTANCE Headers

-----------------------------------------------------------------------------
(* The invariant                                                           *)

Body == [made : BOOLEAN, fd : FD \cup {NoFD}, live : BOOLEAN, calls : BOOLEAN,
         used : BOOLEAN, locked : BOOLEAN,
         data : Seq(Conn \X (1 .. MaxChunks)), index : Nat]

Connecting == [at : {"connect"}, redirects : Nat]
Waiting == [at : {"headers"}, fd : FD, redirects : Nat]
Pulling == [at : {"pull"}, response : Conn, what : {"read", "text", "clone"}, index : Nat]

(* What bodies are given out to; nothing yet, but to copies; and a body    *)
(* whose whole is taken before the rest and that is used once it is out.   *)
To == {"whole", "reader", "copy"}
Open(s) == \A i \in DOMAIN s : s[i] = "copy"
Kept(s, used) == WholeOnce(s) /\ (Open(s) \/ used)

(* A pull for the whole of a body is of one that is not out; one for a     *)
(* reader, of one that is used.                                            *)
May(what, s, used) == (what = "text" => Open(s)) /\ (what = "read" => used)

Types ==
    /\ files \in [FD -> Conn \cup {NoConn}]
    /\ read \in [Conn -> -1 .. MaxChunks]
    /\ response \in [Conn -> Body]
    /\ request \in [Request -> [used : BOOLEAN, locked : BOOLEAN, read : BOOLEAN]]
    /\ pc \in [Task -> {Idle} \cup Connecting \cup Waiting \cup Pulling]
    /\ aborted \in BOOLEAN
    /\ handed \in [Conn \cup Request -> Seq(To)]
    /\ overlapped \subseteq Conn /\ cut \subseteq Conn /\ leaked \subseteq Conn

(* Connections are numbered in the order in which they were opened.        *)
Known == {c \in Conn : read[c] >= 0}
Numbered == \E n \in 0 .. MaxConnections : Known = 1 .. n

(* A connection has one descriptor at most.                                *)
Descriptors ==
    /\ \A f \in FD : files[f] \in Known \cup {NoConn}
    /\ \A f, g \in FD : files[f] = files[g] /\ files[f] # NoConn => f = g

(* What is not a response yet has nothing; a body that is live is the one  *)
(* whose pull and cancel go to the socket.                                 *)
Responses ==
    \A c \in Conn :
        /\ response[c].live = response[c].calls
        /\ response[c].made => response[c].fd \in FD /\ c \in Known
        /\ ~response[c].made => ~response[c].live /\ ~response[c].locked

PullsMade == \A t \in Task : pc[t].at = "pull" => response[pc[t].response].made

RequestsTaken ==
    \A q \in Request : Kept(handed[q], request[q].used)

Base == Types /\ Numbered /\ Descriptors /\ Responses /\ PullsMade /\ RequestsTaken

(* A live body has its own socket.                                         *)
LiveOpen == \A c \in Conn : Live(c) => files[response[c].fd] = c

(* A fetch that waits for a header has a socket nobody else has.           *)
Waits(t) == pc[t].at = "headers"

FetchersHold ==
    /\ \A t \in Task : Waits(t) => /\ files[pc[t].fd] # NoConn
                                   /\ ~response[files[pc[t].fd]].made
    /\ \A t, u \in Task : Waits(t) /\ Waits(u) /\ pc[t].fd = pc[u].fd => t = u

(* Every socket has a holder, but for those a bad header left behind.      *)
SocketsOwned ==
    \A f \in FD : files[f] # NoConn =>
        \/ files[f] \in leaked
        \/ Live(files[f]) /\ response[files[f]].fd = f
        \/ \E t \in Task : Waits(t) /\ pc[t].fd = f

(* A body is what came on its connection; whoever was given it, or some of *)
(* it, left it used.                                                       *)
BodiesExact ==
    \A c \in Conn :
        /\ response[c].made =>
              /\ response[c].data = [i \in 1 .. read[c] |-> <<c, i>>]
              /\ response[c].index <= Len(response[c].data)
        /\ ~response[c].made => response[c] = NoResponse /\ read[c] <= 0 /\ Open(handed[c])
        /\ Kept(handed[c], response[c].used)

(* A pull is of a live body, alone, and at a place in it. *)
PullsAlone ==
    /\ \A t \in Task : pc[t].at = "pull" =>
          /\ Live(pc[t].response)
          /\ pc[t].index <= Len(response[pc[t].response].data)
          /\ May(pc[t].what, handed[pc[t].response], response[pc[t].response].used)
    /\ \A t, u \in Task :
          pc[t].at = "pull" /\ pc[u].at = "pull" /\ pc[t].response = pc[u].response => t = u

Undisturbed == LiveOpen /\ FetchersHold /\ SocketsOwned /\ BodiesExact /\ PullsAlone

FInv == Base /\ (overlapped = {} => Undisturbed)

-----------------------------------------------------------------------------
(* Numbers, places and descriptors                                         *)

LEMMA Bounds ==
    ASSUME FetchAssumption
    PROVE  /\ MaxConnections \in Nat /\ MaxChunks \in Nat /\ MaxRedirects \in Nat
           /\ Conn \subseteq Nat /\ FD \subseteq Nat /\ NoConn \notin Conn
           /\ Request \cap Conn = {}
  BY DEF FetchAssumption, Conn, FD, NoConn

(* The least of a set of numbers. *)
LEMMA NatMin ==
    ASSUME NEW T, T \subseteq Nat, T # {}
    PROVE  Min(T) \in T
  <1> DEFINE R == {p \in Nat \X Nat : p[1] < p[2]}
  <1>1. IsWellFoundedOn(R, Nat)
    BY NatLessThanWellFounded DEF OpToRel
  <1>2. PICK x \in T : \A y \in T : ~(<<y, x>> \in R)
    <2> HIDE DEF R
    <2> QED BY <1>1, WFMin
  <1>3. ASSUME NEW y \in T PROVE x <= y
    <2>1. x \in Nat /\ y \in Nat
      OBVIOUS
    <2>2. <<y, x>> \in R <=> y < x
      BY <2>1
    <2> QED BY <1>2, <2>1, <2>2
  <1> QED BY <1>3 DEF Min

(* The connections opened so far are the first ones. *)
LEMMA OpenedIs ==
    ASSUME FetchAssumption, Numbered
    PROVE  Opened \in 0 .. MaxConnections /\ Known = 1 .. Opened
  <1>1. PICK n \in 0 .. MaxConnections : Known = 1 .. n
    BY DEF Numbered
  <1>2. n \in Nat /\ n \in {0} \cup Known /\ \A x \in {0} \cup Known : x \in Nat /\ n >= x
    BY <1>1, Bounds
  <1>3. \A m \in {0} \cup Known : (\A x \in {0} \cup Known : m >= x) => m = n
    BY <1>2
  <1>4. Max({0} \cup Known) = n
    <2>1. PICK S : S = {0} \cup Known
      OBVIOUS
    <2> QED BY <1>2, <1>3, <2>1 DEF Max
  <1> QED BY <1>1, <1>4 DEF Opened, Known

(* While not every connection has been opened, a descriptor is free.       *)
LEMMA FreeDescriptor ==
    ASSUME FetchAssumption, Base, Opened < MaxConnections
    PROVE  /\ Min({f \in FD : files[f] = NoConn}) \in FD
           /\ files[Min({f \in FD : files[f] = NoConn})] = NoConn
  <1> DEFINE T == {f \in FD : files[f] = NoConn}
  <1>1. Opened \in Nat /\ MaxConnections \in Nat /\ Known = 1 .. Opened /\ FD \subseteq Nat
    BY OpenedIs, Bounds DEF Base
  <1>2. T # {}
    <2> SUFFICES ASSUME T = {} PROVE FALSE
      OBVIOUS
    <2>1. files \in [FD -> Known]
      BY DEF Base, Types, Descriptors
    <2>2. IsFiniteSet(FD) /\ Cardinality(FD) = MaxConnections
      <3>1. 0 \in Int /\ MaxConnections - 1 \in Int
        BY <1>1
      <3>2. /\ IsFiniteSet(0 .. MaxConnections - 1)
            /\ Cardinality(0 .. MaxConnections - 1)
                 = IF 0 > MaxConnections - 1 THEN 0 ELSE (MaxConnections - 1) - 0 + 1
        BY <3>1, FS_Interval
      <3> QED BY <1>1, <3>2 DEF FD
    <2>3. IsFiniteSet(Known) /\ Cardinality(Known) = Opened
      <3>1. IsFiniteSet(1 .. Opened) /\ Cardinality(1 .. Opened) = IF 1 > Opened THEN 0 ELSE Opened - 1 + 1
        BY <1>1, FS_Interval
      <3> QED BY <1>1, <3>1
    <2>4. \E f, g \in FD : f # g /\ files[f] = files[g]
      <3>1. PICK S, K, h : S = FD /\ K = Known /\ h = files
        OBVIOUS
      <3>2. /\ IsFiniteSet(S) /\ IsFiniteSet(K) /\ Cardinality(K) < Cardinality(S)
            /\ h \in [S -> K]
        BY <2>1, <2>2, <2>3, <3>1
      <3>3. \E f, g \in S : f # g /\ h[f] = h[g]
        BY <3>2, FS_PigeonHole
      <3> QED BY <3>1, <3>3
    <2> QED BY <2>1, <2>4, Bounds DEF Base, Descriptors, Known
  <1>3. T \subseteq Nat
    BY <1>1
  <1>4. Min(T) \in T
    <2> HIDE DEF T
    <2> QED BY <1>2, <1>3, NatMin
  <1> QED BY <1>4

(* What is noted when some of a body is given out. *)
LEMMA HandIs ==
    ASSUME NEW s \in Seq(To), NEW to \in To
    PROVE  /\ Hand(s, to) \in Seq(To)
           /\ WholeOnce(s) /\ (to = "whole" => Open(s)) => WholeOnce(Hand(s, to))
           /\ to = "copy" /\ Open(s) => Open(Hand(s, to))
  <1>1. CASE Hand(s, to) = s /\ to # "whole"
    BY <1>1
  <1>2. CASE Hand(s, to) = Append(s, to)
    <2>1. PICK u : u = Append(s, to)
      OBVIOUS
    <2>2. /\ Len(s) \in Nat /\ DOMAIN s = 1 .. Len(s)
          /\ u \in Seq(To) /\ DOMAIN u = 1 .. Len(s) + 1
          /\ \A i \in 1 .. Len(s) : u[i] = s[i]
          /\ u[Len(s) + 1] = to
      BY <2>1
    <2>3. ASSUME WholeOnce(s), to = "whole" => Open(s),
                 NEW i \in DOMAIN u, NEW j \in DOMAIN u, i < j, u[j] = "whole"
          PROVE  u[i] = "copy"
      <3>1. i \in 1 .. Len(s)
        BY <2>2, <2>3
      <3>2. CASE j \in 1 .. Len(s)
        BY <2>2, <2>3, <3>1, <3>2 DEF WholeOnce
      <3>3. CASE j = Len(s) + 1
        BY <2>2, <2>3, <3>1, <3>3 DEF Open
      <3> QED BY <2>2, <3>2, <3>3
    <2>4. WholeOnce(s) /\ (to = "whole" => Open(s)) => WholeOnce(u)
      BY <2>3 DEF WholeOnce
    <2>5. to = "copy" /\ Open(s) => Open(u)
      BY <2>2 DEF Open
    <2> QED BY <1>2, <2>1, <2>2, <2>4, <2>5
  <1> QED BY <1>1, <1>2 DEF Hand

LEMMA HandedOut ==
    ASSUME handed \in [Conn \cup Request -> Seq(To)], NEW x \in Conn \cup Request, NEW to \in To,
           HandOut(x, to) \/ handed' = handed
    PROVE  /\ handed' \in [Conn \cup Request -> Seq(To)]
           /\ \A y \in (Conn \cup Request) \ {x} : handed'[y] = handed[y]
           /\ WholeOnce(handed[x]) /\ (to = "whole" => Open(handed[x])) => WholeOnce(handed'[x])
           /\ to = "copy" /\ Open(handed[x]) => Open(handed'[x])
  <1>1. CASE handed' = handed
    BY <1>1
  <1>2. CASE HandOut(x, to)
    <2>1. handed[x] \in Seq(To)
      OBVIOUS
    <2>2. Hand(handed[x], to) \in Seq(To)
      BY <2>1, HandIs
    <2>3. handed' = [handed EXCEPT ![x] = Hand(handed[x], to)]
      BY <1>2 DEF HandOut
    <2>4. /\ handed' \in [Conn \cup Request -> Seq(To)] /\ handed'[x] = Hand(handed[x], to)
          /\ \A y \in (Conn \cup Request) \ {x} : handed'[y] = handed[y]
      BY <2>2, <2>3
    <2> QED BY <2>1, <2>4, HandIs
  <1> QED BY <1>1, <1>2

(* Where a task is. *)
LEMMA Places ==
    ASSUME Types, NEW t \in Task
    PROVE  /\ pc[t].at \in {"idle", "connect", "headers", "pull"}
           /\ pc[t].at = "idle" <=> pc[t] = Idle
           /\ pc[t].at = "connect" => pc[t].redirects \in Nat
           /\ pc[t].at = "headers" => pc[t].fd \in FD /\ pc[t].redirects \in Nat
           /\ pc[t].at = "pull" => /\ pc[t].response \in Conn /\ pc[t].index \in Nat
                                   /\ pc[t].what \in {"read", "text", "clone"}
  <1>1. pc[t] \in {Idle} \cup Connecting \cup Waiting \cup Pulling
    BY DEF Types
  <1>2. CASE pc[t] = Idle
    BY <1>2 DEF Idle
  <1>3. CASE pc[t] \in Connecting
    BY <1>3 DEF Connecting, Idle
  <1>4. CASE pc[t] \in Waiting
    BY <1>4 DEF Waiting, Idle
  <1>5. CASE pc[t] \in Pulling
    BY <1>5 DEF Pulling, Idle
  <1> QED BY <1>1, <1>2, <1>3, <1>4, <1>5

LEMMA Moved ==
    ASSUME Types, NEW t \in Task, NEW x, pc' = [pc EXCEPT ![t] = x]
    PROVE  pc'[t] = x /\ \A u \in Task \ {t} : pc'[u] = pc[u]
  BY DEF Types

(* Places as the actions write them. *)
LEMMA NewPlaces ==
    /\ Idle \in {Idle} /\ Idle.at = "idle"
    /\ \A n \in Nat : Connect(n) \in Connecting /\ Connect(n).at = "connect" /\ Connect(n).redirects = n
    /\ \A f \in FD, n \in Nat : /\ Await(f, n) \in Waiting /\ Await(f, n).at = "headers"
                                /\ Await(f, n).fd = f
    /\ \A c \in Conn, w \in {"read", "text", "clone"}, i \in Nat :
          /\ Pull(c, w, i) \in Pulling /\ Pull(c, w, i).at = "pull"
          /\ Pull(c, w, i).response = c /\ Pull(c, w, i).what = w /\ Pull(c, w, i).index = i
  BY DEF Idle, Connect, Await, Pull, Connecting, Waiting, Pulling

LEMMA NothingOut == Open(<<>>) /\ Kept(<<>>, FALSE)
  BY DEF Open, Kept, WholeOnce

(* Nothing has happened at first. *)
LEMMA FetchInit == ASSUME FetchAssumption, Init PROVE FInv
  <1>1. /\ Types /\ Descriptors /\ Responses /\ PullsMade /\ RequestsTaken
    <2>1. NoResponse \in Body
      BY DEF NoResponse, Body
    <2>2. Types
      <3>1. /\ files \in [FD -> Conn \cup {NoConn}]
            /\ response \in [Conn -> Body]
            /\ request \in [Request -> [used : BOOLEAN, locked : BOOLEAN, read : BOOLEAN]]
        BY <2>1 DEF Init
      <3>2. read \in [Conn -> -1 .. MaxChunks] /\ handed \in [Conn \cup Request -> Seq(To)]
        <4>1. <<>> \in Seq(To)
          OBVIOUS
        <4> QED BY <4>1, Bounds DEF Init
      <3>3. pc \in [Task -> {Idle} \cup Connecting \cup Waiting \cup Pulling]
        BY DEF Init
      <3> QED BY <3>1, <3>2, <3>3 DEF Init, Types
    <2>3. Descriptors /\ RequestsTaken
      BY Bounds, NothingOut DEF Init, Descriptors, RequestsTaken
    <2>4. Responses /\ PullsMade
      BY DEF Init, Responses, PullsMade, NoResponse, Idle
    <2> QED BY <2>2, <2>3, <2>4
  <1>2. Numbered
    <2>1. Known = 1 .. 0
      BY Bounds DEF Init, Known
    <2> QED BY <2>1, Bounds DEF Numbered
  <1>3. BodiesExact
    <2>1. ASSUME NEW c \in Conn
          PROVE  /\ response[c] = NoResponse /\ ~response[c].made /\ response[c].used = FALSE
                 /\ handed[c] = <<>> /\ read[c] = -1
      BY Bounds DEF Init, NoResponse
    <2>2. ASSUME NEW c \in Conn
          PROVE  Open(handed[c]) /\ Kept(handed[c], response[c].used)
      <3>1. handed[c] = <<>> /\ response[c].used = FALSE
        BY <2>1
      <3> QED BY <3>1, NothingOut
    <2>3. ASSUME NEW c \in Conn
          PROVE  /\ response[c].made =>
                       /\ response[c].data = [i \in 1 .. read[c] |-> <<c, i>>]
                       /\ response[c].index <= Len(response[c].data)
                 /\ ~response[c].made => response[c] = NoResponse /\ read[c] <= 0 /\ Open(handed[c])
                 /\ Kept(handed[c], response[c].used)
      <3>1. -1 <= 0
        OBVIOUS
      <3>2. read[c] <= 0
        BY <2>1, <3>1
      <3>3. ~response[c].made /\ response[c] = NoResponse
        BY <2>1
      <3> QED BY <2>2, <3>2, <3>3, Zenon
    <2> QED BY <2>3 DEF BodiesExact
  <1>4. Undisturbed
    BY <1>3, Bounds DEF Init, Undisturbed, LiveOpen, Live, FetchersHold, Waits, SocketsOwned, PullsAlone,
                        NoResponse, Idle
  <1> QED BY <1>1, <1>2, <1>4 DEF FInv, Base

-----------------------------------------------------------------------------
(* Kinds of steps                                                          *)

Place == {Idle} \cup Connecting \cup Waiting \cup Pulling

(* Sockets and responses stay as they are, and so do those who hold them.  *)
LEMMA QuietStep ==
    ASSUME FetchAssumption, FInv,
           UNCHANGED <<files, read, response, overlapped, leaked>>,
           aborted' \in BOOLEAN, cut' \subseteq Conn,
           request' \in [Request -> [used : BOOLEAN, locked : BOOLEAN, read : BOOLEAN]],
           handed' \in [Conn \cup Request -> Seq(To)], \A c \in Conn : handed'[c] = handed[c],
           RequestsTaken',
           pc' \in [Task -> Place],
           \A u \in Task : \/ pc'[u] = pc[u]
                           \/ pc[u].at \notin {"headers", "pull"} /\ pc'[u].at \notin {"headers", "pull"}
    PROVE  FInv'
  <1>1. Types'
    BY DEF FInv, Base, Types, Place
  <1>2. Known' = Known
    BY DEF Known
  <1>3. Numbered' /\ Descriptors' /\ Responses'
    BY <1>2 DEF FInv, Base, Numbered, Descriptors, Responses
  <1>4. PullsMade'
    BY DEF FInv, Base, PullsMade
  <1>5. ASSUME Undisturbed PROVE Undisturbed'
    <2>1. LiveOpen'
      BY <1>5 DEF Undisturbed, LiveOpen, Live
    <2>2. FetchersHold'
      BY <1>5 DEF Undisturbed, FetchersHold, Waits
    <2>3. SocketsOwned'
      BY <1>5 DEF Undisturbed, SocketsOwned, Waits, Live
    <2>4. BodiesExact'
      BY <1>5 DEF Undisturbed, BodiesExact
    <2>5. PullsAlone'
      <3>1. Types /\ PullsAlone
        BY <1>5 DEF Undisturbed, FInv, Base
      <3>2. ASSUME NEW u \in Task, pc'[u].at = "pull" PROVE pc'[u] = pc[u] /\ pc[u].response \in Conn
        BY <3>1, <3>2, Places
      <3>3. ASSUME NEW u \in Task, pc'[u].at = "pull"
            PROVE  /\ response'[pc'[u].response].live
                   /\ pc'[u].index <= Len(response'[pc'[u].response].data)
                   /\ May(pc'[u].what, handed'[pc'[u].response], response'[pc'[u].response].used)
        <4>1. PICK d \in Conn : d = pc[u].response
          BY <3>2, <3>3
        <4>2. handed'[d] = handed[d] /\ response'[d] = response[d]
          OBVIOUS
        <4>3. pc[u].at = "pull" /\ pc'[u] = pc[u]
          BY <3>2, <3>3
        <4>4. /\ response[d].live /\ pc[u].index <= Len(response[d].data)
              /\ May(pc[u].what, handed[d], response[d].used)
          BY <3>1, <4>1, <4>3 DEF PullsAlone, Live
        <4>5. pc'[u].response = d
          BY <4>1, <4>3
        <4> QED BY <4>2, <4>3, <4>4, <4>5
      <3>4. \A u, v \in Task :
               pc'[u].at = "pull" /\ pc'[v].at = "pull" /\ pc'[u].response = pc'[v].response => u = v
        BY <3>1, <3>2 DEF PullsAlone
      <3> QED BY <3>3, <3>4 DEF PullsAlone, Live
    <2> QED BY <2>1, <2>2, <2>3, <2>4, <2>5 DEF Undisturbed
  <1> QED BY <1>1, <1>3, <1>4, <1>5 DEF FInv, Base

(* The body of response c becomes b, and its socket may be closed.         *)
LEMMA BodyBase ==
    ASSUME FetchAssumption, FInv, NEW c \in Conn, response[c].made,
           NEW b \in Body, b.made, b.fd = response[c].fd, b.live = b.calls,
           response' = [response EXCEPT ![c] = b],
           UNCHANGED <<request, aborted, leaked>>,
           cut' \subseteq Conn, overlapped' \subseteq Conn,
           files' = files \/ Close(response[c].fd),
           read' \in [Conn -> -1 .. MaxChunks], Known' = Known,
           handed' \in [Conn \cup Request -> Seq(To)], \A q \in Request : handed'[q] = handed[q],
           pc' \in [Task -> Place],
           \A u \in Task : \/ pc'[u] = pc[u]
                           \/ pc'[u].at = "pull" => pc'[u].response = c
    PROVE  Base'
  <1>1. files' \in [FD -> Conn \cup {NoConn}] /\ \A f \in FD : files'[f] \in {files[f], NoConn}
    BY DEF Close, FInv, Base, Types
  <1>2. response' \in [Conn -> Body] /\ response'[c] = b /\ \A d \in Conn \ {c} : response'[d] = response[d]
    BY DEF FInv, Base, Types
  <1>3. Types'
    BY <1>1, <1>2 DEF FInv, Base, Types, Place
  <1>4. Numbered'
    BY DEF FInv, Base, Numbered
  <1>5. Descriptors'
    <2>1. /\ \A f \in FD : files[f] \in Known \cup {NoConn}
          /\ \A f, g \in FD : files[f] = files[g] /\ files[f] # NoConn => f = g
      BY DEF FInv, Base, Descriptors
    <2>2. Known' = Known
      OBVIOUS
    <2>3. \A f \in FD : files'[f] \in {files[f], NoConn}
      BY <1>1
    <2> QED BY ONLY <2>1, <2>2, <2>3 DEF Descriptors
  <1>6. Responses'
    BY <1>2 DEF FInv, Base, Responses
  <1>7. PullsMade'
    BY <1>2, Places DEF FInv, Base, PullsMade
  <1>8. RequestsTaken'
    BY DEF FInv, Base, RequestsTaken
  <1> QED BY <1>3, <1>4, <1>5, <1>6, <1>7, <1>8 DEF Base

(* A step of the one consumer of c: the body becomes b, everything else of *)
(* it stays exact.                                                         *)
BodyStep(c, b) ==
    /\ b \in Body /\ b.made /\ b.fd = response[c].fd
    /\ response' = [response EXCEPT ![c] = b] /\ leaked' = leaked
    /\ \/ files' = files /\ b.live = response[c].live
       \/ Close(response[c].fd) /\ response[c].live /\ ~b.live
    /\ \A d \in Conn \ {c} : read'[d] = read[d] /\ handed'[d] = handed[d]
    /\ b.data = [i \in 1 .. read'[c] |-> <<c, i>>] /\ b.index <= Len(b.data)
    /\ Kept(handed'[c], b.used)
    /\ \A u \in Task : \/ pc'[u] = pc[u]
                       \/ /\ pc[u].at # "headers" /\ pc'[u].at # "headers"
                          /\ pc'[u].at = "pull" => pc'[u].response = c
    /\ \A u \in Task : pc'[u].at = "pull" /\ pc'[u].response = c =>
           /\ b.live /\ pc'[u].index <= Len(b.data)
           /\ May(pc'[u].what, handed'[c], b.used)
    /\ \A u, v \in Task : /\ pc'[u].at = "pull" /\ pc'[u].response = c
                          /\ pc'[v].at = "pull" /\ pc'[v].response = c
                          => u = v

LEMMA BodyAlone ==
    ASSUME FetchAssumption, FInv, Undisturbed, NEW c \in Conn, response[c].made,
           NEW b, BodyStep(c, b)
    PROVE  Undisturbed'
  <1> USE DEF BodyStep
  <1>1. response'[c] = b /\ \A d \in Conn \ {c} : response'[d] = response[d]
    BY DEF FInv, Base, Types
  <1>2. response[c].fd \in FD /\ \A f \in FD : files[f] \in Conn \cup {NoConn}
    BY DEF FInv, Base, Types, Responses
  <1>3. /\ \A f \in FD : files'[f] \in {files[f], NoConn}
        /\ files' # files => \A f \in FD : files'[f] = IF f = response[c].fd THEN NoConn ELSE files[f]
    BY <1>2 DEF Close, FInv, Base, Types
  <1>4. \A d \in Conn : Live(d) => response[d].made /\ response[d].fd \in FD
    BY DEF FInv, Base, Responses, Live
  <1>5. LiveOpen'
    BY <1>1, <1>2, <1>3, <1>4 DEF Undisturbed, LiveOpen, Live
  <1>6. FetchersHold'
    <2>1. ASSUME NEW u \in Task, Waits(u)'
          PROVE  Waits(u) /\ pc'[u] = pc[u] /\ pc[u].fd \in FD /\ files[pc[u].fd] # NoConn
                 /\ ~response[files[pc[u].fd]].made
      BY <2>1, Places DEF Undisturbed, FetchersHold, Waits, FInv, Base
    <2>2. ASSUME NEW u \in Task, Waits(u)'
          PROVE  files'[pc'[u].fd] = files[pc[u].fd] /\ ~response'[files[pc[u].fd]].made
      <3>1. files[pc[u].fd] # c /\ files[pc[u].fd] \in Conn
        BY <2>1, <2>2, <1>2
      <3>2. Live(c) => pc[u].fd # response[c].fd
        BY <3>1 DEF Undisturbed, LiveOpen
      <3> QED BY <2>1, <2>2, <3>1, <3>2, <1>1, <1>3 DEF Live, Waits
    <2> QED BY <2>1, <2>2 DEF Undisturbed, FetchersHold, Waits
  <1>7. SocketsOwned'
    <2> SUFFICES ASSUME NEW f \in FD, files'[f] # NoConn
                 PROVE  \/ files'[f] \in leaked'
                        \/ response'[files'[f]].live /\ response'[files'[f]].fd = f
                        \/ \E t \in Task : Waits(t)' /\ pc'[t].fd = f
      BY DEF SocketsOwned, Live, Waits
    <2>1. files'[f] = files[f] /\ files[f] \in Conn
      BY <1>2, <1>3
    <2>2. CASE files[f] \in leaked
      BY <2>1, <2>2
    <2>3. CASE Live(files[f]) /\ response[files[f]].fd = f
      <3>1. CASE files[f] = c
        <4>1. b.live
          BY <2>1, <2>3, <3>1, <1>2, <1>3, Bounds DEF Close, FInv, Base, Types, Live
        <4> QED BY <2>1, <2>3, <3>1, <4>1, <1>1
      <3>2. CASE files[f] # c
        BY <2>1, <2>3, <3>2, <1>1 DEF Live
      <3> QED BY <3>1, <3>2
    <2>4. CASE \E t \in Task : Waits(t) /\ pc[t].fd = f
      BY <2>4 DEF Waits
    <2> QED BY <2>1, <2>2, <2>3, <2>4 DEF Undisturbed, SocketsOwned
  <1>8. BodiesExact'
    <2>1. ASSUME NEW d \in Conn \ {c}
          PROVE  response'[d] = response[d] /\ read'[d] = read[d] /\ handed'[d] = handed[d]
      BY <1>1
    <2>2. BodiesExact
      BY DEF Undisturbed
    <2>3. /\ response'[c].made /\ response'[c].data = [i \in 1 .. read'[c] |-> <<c, i>>]
          /\ response'[c].index <= Len(response'[c].data)
          /\ Kept(handed'[c], response'[c].used)
      BY <1>1
    <2>4. ASSUME NEW d \in Conn
          PROVE  /\ response'[d].made =>
                       /\ response'[d].data = [i \in 1 .. read'[d] |-> <<d, i>>]
                       /\ response'[d].index <= Len(response'[d].data)
                 /\ ~response'[d].made => response'[d] = NoResponse /\ read'[d] <= 0 /\ Open(handed'[d])
                 /\ Kept(handed'[d], response'[d].used)
      <3>1. CASE d = c
        BY <2>3, <3>1
      <3>2. CASE d # c
        BY <2>1, <2>2, <3>2 DEF BodiesExact
      <3> QED BY <3>1, <3>2
    <2> QED BY <2>4 DEF BodiesExact
  <1>9. PullsAlone'
    <2>1. ASSUME NEW u \in Task, pc'[u].at = "pull", pc'[u].response # c
          PROVE  /\ pc'[u] = pc[u] /\ pc[u].response \in Conn \ {c}
                 /\ Live(pc[u].response) /\ pc[u].index <= Len(response[pc[u].response].data)
                 /\ May(pc[u].what, handed[pc[u].response], response[pc[u].response].used)
      BY <2>1, Places DEF Undisturbed, PullsAlone, FInv, Base
    <2>2. ASSUME NEW u \in Task, pc'[u].at = "pull"
          PROVE  /\ response'[pc'[u].response].live
                 /\ pc'[u].index <= Len(response'[pc'[u].response].data)
                 /\ May(pc'[u].what, handed'[pc'[u].response], response'[pc'[u].response].used)
      <3>1. CASE pc'[u].response = c
        BY <2>2, <3>1, <1>1
      <3>2. CASE pc'[u].response # c
        <4>1. PICK d \in Conn \ {c} : d = pc[u].response
          BY <2>1, <2>2, <3>2
        <4>2. response'[d] = response[d] /\ handed'[d] = handed[d]
          BY <1>1
        <4> QED BY <2>1, <2>2, <3>2, <4>1, <4>2 DEF Live
      <3> QED BY <3>1, <3>2
    <2>3. \A u, v \in Task :
             pc'[u].at = "pull" /\ pc'[v].at = "pull" /\ pc'[u].response = pc'[v].response => u = v
      BY <2>1 DEF Undisturbed, PullsAlone
    <2> QED BY <2>2, <2>3 DEF PullsAlone, Live
  <1> QED BY <1>5, <1>6, <1>7, <1>8, <1>9 DEF Undisturbed

-----------------------------------------------------------------------------
(* fetch, and the bodies of requests                                       *)

LEMMA RequestsKeep ==
    ASSUME FetchAssumption, FInv, NEW t \in Task,
           \/ FetchURL(t) \/ ConnectFails(t) \/ Abort
           \/ \E q \in Request : \/ FetchRequest(t, q) \/ LockRequest(t, q)
                                 \/ ReadRequest(t, q) \/ CancelRequest(t, q)
                                 \/ CopyRequest(t, q) \/ ConsumeRequest(t, q)
    PROVE  FInv'
  <1>1. /\ Types /\ RequestsTaken /\ pc \in [Task -> Place]
        /\ request \in [Request -> [used : BOOLEAN, locked : BOOLEAN, read : BOOLEAN]]
        /\ handed \in [Conn \cup Request -> Seq(To)]
        /\ aborted \in BOOLEAN /\ cut \subseteq Conn
    BY DEF FInv, Base, Types, Place
  <1>2. ASSUME NEW n \in Nat, BeginRound(t, n), pc[t].at \notin {"headers", "pull"}
        PROVE  /\ pc' \in [Task -> Place]
               /\ \A u \in Task : \/ pc'[u] = pc[u]
                                  \/ pc[u].at \notin {"headers", "pull"} /\ pc'[u].at \notin {"headers", "pull"}
    <2>1. PICK x \in {Idle} \cup Connecting :
              pc' = [pc EXCEPT ![t] = x] /\ x.at \notin {"headers", "pull"}
      BY <1>2, NewPlaces DEF BeginRound
    <2> QED BY <1>1, <1>2, <2>1 DEF Place
  <1>3. ASSUME NEW q \in Request, NEW to \in To, HandOut(q, to) \/ handed' = handed,
               to = "whole" => ~request[q].used,
               request' \in [Request -> [used : BOOLEAN, locked : BOOLEAN, read : BOOLEAN]],
               to # "copy" => request'[q].used,
               \A r \in Request : request[r].used => request'[r].used
        PROVE  /\ handed' \in [Conn \cup Request -> Seq(To)] /\ \A c \in Conn : handed'[c] = handed[c]
               /\ RequestsTaken'
    <2>1. /\ handed' \in [Conn \cup Request -> Seq(To)]
          /\ \A y \in (Conn \cup Request) \ {q} : handed'[y] = handed[y]
          /\ WholeOnce(handed[q]) /\ (to = "whole" => Open(handed[q])) => WholeOnce(handed'[q])
          /\ to = "copy" /\ Open(handed[q]) => Open(handed'[q])
      BY <1>1, <1>3, HandedOut
    <2>2. WholeOnce(handed'[q]) /\ (Open(handed'[q]) \/ request'[q].used)
      BY <1>1, <1>3, <2>1 DEF RequestsTaken, Kept
    <2>3. ASSUME NEW r \in Request \ {q} PROVE WholeOnce(handed'[r]) /\ (Open(handed'[r]) \/ request'[r].used)
      BY <1>1, <1>3, <2>1 DEF RequestsTaken, Kept
    <2>4. RequestsTaken'
      BY <2>2, <2>3 DEF RequestsTaken, Kept
    <2> QED BY <2>1, <2>4, Bounds
  <1>4. ASSUME NEW q \in Request,
               \/ request' = [request EXCEPT ![q].locked = ~@]
               \/ request' = [request EXCEPT ![q].used = TRUE]
               \/ request' = [request EXCEPT ![q].used = TRUE, ![q].read = TRUE]
               \/ request' = request
        PROVE  /\ request' \in [Request -> [used : BOOLEAN, locked : BOOLEAN, read : BOOLEAN]]
               /\ \A r \in Request : request[r].used => request'[r].used
               /\ \/ request' = [request EXCEPT ![q].used = TRUE]
                  \/ request' = [request EXCEPT ![q].used = TRUE, ![q].read = TRUE]
                  => request'[q].used
    <2>1. CASE request' = [request EXCEPT ![q].locked = ~@]
      <3>1. request' = [request EXCEPT ![q] = [request[q] EXCEPT !.locked = ~request[q].locked]]
        BY <2>1
      <3>2. /\ request'[q].used = request[q].used
            /\ \A r \in Request \ {q} : request'[r] = request[r]
        BY <1>1, <3>1
      <3> QED BY <1>1, <2>1, <3>2
    <2>2. CASE request' = [request EXCEPT ![q].used = TRUE]
      BY <1>1, <2>2
    <2>3. CASE request' = [request EXCEPT ![q].used = TRUE, ![q].read = TRUE]
      <3>1. PICK r : r = [request[q] EXCEPT !.used = TRUE, !.read = TRUE]
        OBVIOUS
      <3>2. request' = [request EXCEPT ![q] = r]
        BY <1>1, <2>3, <3>1
      <3>3. r \in [used : BOOLEAN, locked : BOOLEAN, read : BOOLEAN] /\ r.used
        BY <1>1, <3>1
      <3> QED BY <1>1, <3>2, <3>3
    <2>4. CASE request' = request
      BY <1>1, <2>4
    <2> QED BY <1>4, <2>1, <2>2, <2>3, <2>4
  <1>5. pc[t] = Idle => pc[t].at \notin {"headers", "pull"}
    BY DEF Idle
  <1>6. 0 \in Nat
    OBVIOUS
  <1>7. CASE FetchURL(t)
    <2>1. RequestsTaken'
      BY <1>1, <1>7 DEF FetchURL, RequestsTaken
    <2> QED BY <1>1, <1>2, <1>5, <1>6, <1>7, <2>1, QuietStep DEF FetchURL
  <1>8. CASE ConnectFails(t)
    <2>1. RequestsTaken'
      BY <1>1, <1>8 DEF ConnectFails, RequestsTaken
    <2>2. pc' = [pc EXCEPT ![t] = Idle] /\ pc[t].at = "connect"
      BY <1>8 DEF ConnectFails, Throw
    <2>3. /\ pc' \in [Task -> Place]
          /\ \A u \in Task : \/ pc'[u] = pc[u]
                             \/ pc[u].at \notin {"headers", "pull"} /\ pc'[u].at \notin {"headers", "pull"}
      BY <1>1, <2>2, NewPlaces DEF Place
    <2> QED BY <1>1, <1>8, <2>1, <2>3, QuietStep DEF ConnectFails
  <1>9. CASE Abort
    <2>1. RequestsTaken'
      BY <1>1, <1>9 DEF Abort, RequestsTaken
    <2> QED BY <1>1, <1>9, <2>1, QuietStep DEF Abort
  <1>10. ASSUME NEW q \in Request, FetchRequest(t, q) PROVE FInv'
    <2>1. /\ request' = [request EXCEPT ![q].used = TRUE] /\ ~request[q].used
          /\ HandOut(q, "whole") /\ BeginRound(t, 0) /\ pc[t] = Idle
          /\ UNCHANGED <<files, read, response, aborted, overlapped, cut, leaked>>
      BY <1>10 DEF FetchRequest, Usable
    <2>2. /\ handed' \in [Conn \cup Request -> Seq(To)] /\ \A c \in Conn : handed'[c] = handed[c]
          /\ RequestsTaken'
      BY <1>3, <1>4, <2>1 DEF To
    <2> QED BY <1>1, <1>2, <1>4, <1>5, <1>6, <2>1, <2>2, QuietStep
  <1>11. ASSUME NEW q \in Request, NEW to \in To, HandOut(q, to) \/ handed' = handed,
                to = "whole" => ~request[q].used,
                \/ request' = [request EXCEPT ![q].used = TRUE]
                \/ request' = [request EXCEPT ![q].used = TRUE, ![q].read = TRUE]
                \/ to = "copy" /\ request' = request
                \/ to = "copy" /\ request' = [request EXCEPT ![q].locked = ~@],
                UNCHANGED <<files, read, response, pc, aborted, overlapped, cut, leaked>>
         PROVE  FInv'
    <2>1. /\ handed' \in [Conn \cup Request -> Seq(To)] /\ \A c \in Conn : handed'[c] = handed[c]
          /\ RequestsTaken'
      BY <1>3, <1>4, <1>11
    <2> QED BY <1>1, <1>4, <1>11, <2>1, QuietStep
  <1>12. ASSUME NEW q \in Request, LockRequest(t, q) \/ CopyRequest(t, q) PROVE FInv'
    BY <1>11, <1>12 DEF LockRequest, CopyRequest, To
  <1>13. ASSUME NEW q \in Request, ReadRequest(t, q) \/ CancelRequest(t, q) PROVE FInv'
    BY <1>11, <1>13 DEF ReadRequest, CancelRequest, To
  <1>14. ASSUME NEW q \in Request, ConsumeRequest(t, q) PROVE FInv'
    BY <1>11, <1>14 DEF ConsumeRequest, Usable, To
  <1> QED BY <1>7, <1>8, <1>9, <1>10, <1>12, <1>13, <1>14

(* A socket is opened: the next connection gets the lowest descriptor.     *)
LEMMA ConnectKeeps ==
    ASSUME FetchAssumption, FInv, NEW t \in Task, Connects(t)
    PROVE  FInv'
  <1> DEFINE k == Opened + 1
             fd == Min({f \in FD : files[f] = NoConn})
  <1>1. /\ Types /\ Numbered /\ Descriptors /\ Responses /\ PullsMade /\ RequestsTaken
        /\ overlapped' = overlapped
    BY DEF FInv, Base, Connects
  <1>2. /\ Opened \in Nat /\ k \in Conn /\ k \notin Known /\ Known = 1 .. Opened
        /\ Opened < MaxConnections
    BY <1>1, OpenedIs, Bounds DEF Connects, Conn
  <1>3. fd \in FD /\ files[fd] = NoConn
    BY <1>2, FreeDescriptor DEF FInv
  <1>4. /\ pc[t].at = "connect" /\ pc[t].redirects \in Nat
        /\ files' = [files EXCEPT ![fd] = k]
        /\ read' = [read EXCEPT ![k] = 0]
        /\ pc' = [pc EXCEPT ![t] = Await(fd, pc[t].redirects)]
    BY <1>1, Places DEF Connects
  <1> HIDE DEF k, fd
  <1>5. /\ files'[fd] = k /\ \A f \in FD \ {fd} : files'[f] = files[f]
        /\ read'[k] = 0 /\ \A c \in Conn \ {k} : read'[c] = read[c]
        /\ Waits(t)' /\ ~Waits(t) /\ pc'[t].fd = fd /\ pc'[t].at # "pull" /\ pc[t].at # "pull"
        /\ \A u \in Task \ {t} : pc'[u] = pc[u]
    BY <1>1, <1>2, <1>3, <1>4, NewPlaces DEF Types, Waits
  <1>6. Types'
    <2>1. read' \in [Conn -> -1 .. MaxChunks] /\ files' \in [FD -> Conn \cup {NoConn}]
      BY <1>1, <1>2, <1>3, <1>4, Bounds DEF Types
    <2>2. pc' \in [Task -> {Idle} \cup Connecting \cup Waiting \cup Pulling]
      BY <1>1, <1>3, <1>4, NewPlaces DEF Types
    <2> QED BY <1>1, <2>1, <2>2 DEF Types, Connects
  <1>7. Known' = Known \cup {k}
    BY <1>2, <1>5 DEF Known
  <1>8. Numbered'
    <2>1. Known' = 1 .. Opened + 1 /\ Opened + 1 \in 0 .. MaxConnections
      BY <1>2, <1>7, Bounds DEF k
    <2> QED BY <2>1 DEF Numbered
  <1>9. Descriptors'
    BY <1>1, <1>2, <1>5, <1>7 DEF Descriptors
  <1>10. /\ response' = response /\ Responses'
    BY <1>1, <1>7 DEF Connects, Responses
  <1>11. PullsMade' /\ RequestsTaken'
    BY <1>1, <1>5 DEF Connects, PullsMade, RequestsTaken
  <1>12. ASSUME Undisturbed PROVE Undisturbed'
    <2>1. /\ LiveOpen /\ FetchersHold /\ SocketsOwned /\ BodiesExact /\ PullsAlone
          /\ handed' = handed /\ leaked' = leaked
      BY <1>12 DEF Undisturbed, Connects
    <2>2. ~response[k].made
      BY <1>1, <1>2 DEF Responses
    <2>3. LiveOpen'
      <3>1. \A c \in Conn : Live(c) => response[c].fd \in FD
        BY <1>1 DEF Responses, Live
      <3> QED BY <1>3, <1>5, <1>10, <2>1, <3>1, Bounds DEF LiveOpen, Live
    <2>4. FetchersHold'
      <3>1. \A u \in Task : Waits(u) => pc[u].fd \in FD \ {fd}
        BY <1>1, <1>3, <2>1, Places DEF FetchersHold, Waits
      <3>2. \A u \in Task \ {t} : Waits(u)' <=> Waits(u)
        BY <1>5 DEF Waits
      <3>3. files'[fd] # NoConn
        BY <1>2, <1>5, Bounds
      <3>4. ASSUME NEW u \in Task, Waits(u)'
            PROVE  files'[pc'[u].fd] # NoConn /\ ~response'[files'[pc'[u].fd]].made
        BY <1>5, <1>10, <2>1, <2>2, <3>1, <3>2, <3>3, <3>4 DEF FetchersHold
      <3>5. \A u, v \in Task : Waits(u)' /\ Waits(v)' /\ pc'[u].fd = pc'[v].fd => u = v
        BY <1>5, <2>1, <3>1, <3>2 DEF FetchersHold
      <3> QED BY <3>4, <3>5 DEF FetchersHold
    <2>5. SocketsOwned'
      <3>1. ASSUME NEW f \in FD \ {fd}, files[f] # NoConn
            PROVE  \/ files[f] \in leaked
                   \/ Live(files[f]) /\ response[files[f]].fd = f
                   \/ \E u \in Task : Waits(u)' /\ pc'[u].fd = f
        BY <1>5, <2>1, <3>1 DEF SocketsOwned, Waits
      <3> QED BY <1>5, <1>10, <2>1, <3>1 DEF SocketsOwned, Live
    <2>6. BodiesExact'
      <3>1. ASSUME NEW c \in Conn
            PROVE  response'[c] = response[c] /\ handed'[c] = handed[c]
                   /\ (c # k => read'[c] = read[c]) /\ (c = k => read'[c] = 0 /\ ~response[c].made)
        BY <1>5, <1>10, <2>1, <2>2
      <3>2. ASSUME NEW c \in Conn
            PROVE  /\ response[c].made =>
                         /\ response[c].data = [i \in 1 .. read'[c] |-> <<c, i>>]
                         /\ response[c].index <= Len(response[c].data)
                   /\ ~response[c].made => response[c] = NoResponse /\ read'[c] <= 0 /\ Open(handed[c])
                   /\ Kept(handed[c], response[c].used)
        <4>1. CASE c # k
          BY <2>1, <3>1, <4>1 DEF BodiesExact
        <4>2. CASE c = k
          <5>1. ~response[c].made /\ read'[c] <= 0
            BY <3>1, <4>2
          <5> QED BY <2>1, <5>1 DEF BodiesExact
        <4> QED BY <4>1, <4>2
      <3> QED BY <3>1, <3>2 DEF BodiesExact
    <2>7. PullsAlone'
      BY <1>5, <1>10, <2>1 DEF PullsAlone, Live
    <2> QED BY <2>3, <2>4, <2>5, <2>6, <2>7 DEF Undisturbed
  <1> QED BY <1>1, <1>6, <1>8, <1>9, <1>10, <1>11, <1>12 DEF FInv, Base

(* A round ends without a response: its socket is closed.                  *)
LEMMA RoundEnds ==
    ASSUME FetchAssumption, FInv, NEW t \in Task, RoundFails(t) \/ Redirects(t)
    PROVE  FInv'
  <1>1. /\ Types /\ Numbered /\ Descriptors /\ Responses /\ PullsMade /\ RequestsTaken
        /\ UNCHANGED <<read, response, request, aborted, handed, overlapped, cut, leaked>>
    BY DEF FInv, Base, RoundFails, Redirects
  <1>2. PICK fd \in FD : fd = pc[t].fd /\ Waits(t)
    BY <1>1, Places DEF RoundFails, Redirects, HeaderCame, Waits
  <1>3. PICK x \in {Idle} \cup Connecting :
            pc' = [pc EXCEPT ![t] = x] /\ x.at \notin {"headers", "pull"}
    <2>1. pc[t].redirects + 1 \in Nat
      BY <1>1, <1>2, Places DEF Waits
    <2> QED BY <2>1, NewPlaces DEF RoundFails, Throw, Redirects, BeginRound
  <1>4. /\ \A f \in FD : files'[f] = IF f = fd THEN NoConn ELSE files[f]
        /\ files' \in [FD -> Conn \cup {NoConn}]
    BY <1>1, <1>2 DEF RoundFails, Redirects, Close, Types
  <1>5. /\ pc'[t] = x /\ ~Waits(t)' /\ pc[t].at # "pull" /\ pc'[t].at # "pull"
        /\ \A u \in Task \ {t} : pc'[u] = pc[u]
        /\ pc' \in [Task -> {Idle} \cup Connecting \cup Waiting \cup Pulling]
    BY <1>1, <1>2, <1>3 DEF Types, Waits
  <1>6. Types'
    BY <1>1, <1>4, <1>5 DEF Types
  <1>7. Known' = Known
    BY <1>1 DEF Known
  <1>8. Numbered' /\ Descriptors' /\ Responses' /\ PullsMade' /\ RequestsTaken'
    BY <1>1, <1>4, <1>5, <1>7 DEF Numbered, Descriptors, Responses, PullsMade, RequestsTaken
  <1>9. ASSUME Undisturbed PROVE Undisturbed'
    <2>1. LiveOpen /\ FetchersHold /\ SocketsOwned /\ BodiesExact /\ PullsAlone
      BY <1>9 DEF Undisturbed
    <2>2. LiveOpen'
      <3>1. ASSUME NEW c \in Conn, Live(c) PROVE response[c].fd \in FD \ {fd}
        BY <1>1, <1>2, <2>1, <3>1 DEF Responses, LiveOpen, FetchersHold, Live
      <3> QED BY <1>1, <1>4, <2>1, <3>1 DEF LiveOpen, Live
    <2>3. FetchersHold'
      <3>1. \A u \in Task : Waits(u)' => /\ Waits(u) /\ pc'[u] = pc[u] /\ pc[u].fd \in FD \ {fd}
        BY <1>1, <1>2, <1>5, <2>1, Places DEF FetchersHold, Waits
      <3>2. \A u \in Task : Waits(u)' => files'[pc'[u].fd] = files[pc[u].fd]
        BY <1>4, <3>1
      <3> QED BY <1>1, <2>1, <3>1, <3>2 DEF FetchersHold
    <2>4. SocketsOwned'
      BY <1>1, <1>2, <1>4, <1>5, <2>1 DEF SocketsOwned, Waits, Live
    <2>5. BodiesExact'
      BY <1>1, <2>1 DEF BodiesExact
    <2>6. PullsAlone'
      BY <1>1, <1>5, <2>1 DEF PullsAlone, Live
    <2> QED BY <2>2, <2>3, <2>4, <2>5, <2>6 DEF Undisturbed
  <1> QED BY <1>1, <1>6, <1>8, <1>9 DEF FInv, Base

(* A bad header field: the socket stays open and is nobody's.              *)
LEMMA HeaderKeeps ==
    ASSUME FetchAssumption, FInv, NEW t \in Task, HeaderInvalid(t)
    PROVE  FInv'
  <1>1. /\ Types /\ Numbered /\ Descriptors /\ Responses /\ PullsMade /\ RequestsTaken
        /\ UNCHANGED <<files, read, response, request, aborted, handed, overlapped, cut>>
    BY DEF FInv, Base, HeaderInvalid
  <1>2. PICK fd \in FD : fd = pc[t].fd /\ Waits(t) /\ files[fd] \in Conn
    BY <1>1, Places DEF HeaderInvalid, HeaderCame, Waits, Types
  <1>3. pc' = [pc EXCEPT ![t] = Idle] /\ leaked' = leaked \cup {files[fd]}
    BY <1>2 DEF HeaderInvalid, Throw
  <1>4. /\ pc'[t] = Idle /\ ~Waits(t)' /\ pc[t].at # "pull" /\ pc'[t].at # "pull"
        /\ \A u \in Task \ {t} : pc'[u] = pc[u]
        /\ pc' \in [Task -> {Idle} \cup Connecting \cup Waiting \cup Pulling]
    BY <1>1, <1>2, <1>3, NewPlaces DEF Types, Waits
  <1>5. Types'
    BY <1>1, <1>2, <1>3, <1>4 DEF Types
  <1>6. Known' = Known
    BY <1>1 DEF Known
  <1>7. Numbered' /\ Descriptors' /\ Responses' /\ PullsMade' /\ RequestsTaken'
    BY <1>1, <1>4, <1>6 DEF Numbered, Descriptors, Responses, PullsMade, RequestsTaken
  <1>8. ASSUME Undisturbed PROVE Undisturbed'
    <2>1. LiveOpen /\ FetchersHold /\ SocketsOwned /\ BodiesExact /\ PullsAlone
      BY <1>8 DEF Undisturbed
    <2>2. LiveOpen'
      BY <1>1, <2>1 DEF LiveOpen, Live
    <2>3. FetchersHold'
      BY <1>1, <1>4, <2>1 DEF FetchersHold, Waits
    <2>4. SocketsOwned'
      BY <1>1, <1>2, <1>3, <1>4, <2>1 DEF SocketsOwned, Waits, Live
    <2>5. BodiesExact'
      BY <1>1, <2>1 DEF BodiesExact
    <2>6. PullsAlone'
      BY <1>1, <1>4, <2>1 DEF PullsAlone, Live
    <2> QED BY <2>2, <2>3, <2>4, <2>5, <2>6 DEF Undisturbed
  <1> QED BY <1>1, <1>5, <1>7, <1>8 DEF FInv, Base

(* The header came: the socket is now that of a live body with nothing     *)
(* read.                                                                   *)
LEMMA RespondKeeps ==
    ASSUME FetchAssumption, FInv, NEW t \in Task, Responds(t)
    PROVE  FInv'
  <1>1. /\ Types /\ Numbered /\ Descriptors /\ Responses /\ PullsMade /\ RequestsTaken
        /\ UNCHANGED <<files, read, request, aborted, handed, overlapped, cut, leaked>>
    BY DEF FInv, Base, Responds
  <1>2. PICK fd \in FD : fd = pc[t].fd /\ Waits(t) /\ files[fd] \in Conn /\ files[fd] \in Known
    BY <1>1, Places DEF Responds, HeaderCame, Waits, Types, Descriptors
  <1>3. PICK c \in Conn : c = files[fd]
    BY <1>2
  <1>4. PICK b : b = [NoResponse EXCEPT !.made = TRUE, !.fd = fd, !.live = TRUE, !.calls = TRUE]
    OBVIOUS
  <1>5. /\ ~response[c].made /\ response' = [response EXCEPT ![c] = b]
        /\ pc' = [pc EXCEPT ![t] = Idle]
    BY <1>2, <1>3, <1>4 DEF Responds
  <1>6. /\ b.made /\ b.fd = fd /\ b.live /\ b.calls /\ ~b.used /\ ~b.locked
        /\ b.data = <<>> /\ b.index = 0 /\ b \in Body
    <2>1. b = [made |-> TRUE, fd |-> fd, live |-> TRUE, calls |-> TRUE,
               used |-> FALSE, locked |-> FALSE, data |-> <<>>, index |-> 0]
      BY <1>4 DEF NoResponse
    <2> QED BY <2>1 DEF Body
  <1>7. /\ response'[c] = b /\ \A d \in Conn \ {c} : response'[d] = response[d]
        /\ response' \in [Conn -> Body]
    BY <1>1, <1>5, <1>6 DEF Types
  <1>8. /\ pc'[t] = Idle /\ ~Waits(t)' /\ pc[t].at # "pull" /\ pc'[t].at # "pull"
        /\ \A u \in Task \ {t} : pc'[u] = pc[u]
        /\ pc' \in [Task -> {Idle} \cup Connecting \cup Waiting \cup Pulling]
    BY <1>1, <1>2, <1>5, NewPlaces DEF Types, Waits
  <1>9. Types'
    BY <1>1, <1>7, <1>8 DEF Types
  <1>10. Known' = Known
    BY <1>1 DEF Known
  <1>11. Numbered' /\ Descriptors' /\ RequestsTaken'
    BY <1>1, <1>10 DEF Numbered, Descriptors, RequestsTaken
  <1>12. Responses'
    <2>1. b.live = b.calls /\ b.made /\ b.fd \in FD
      BY <1>6 DEF Body
    <2>2. response'[c].live = response'[c].calls /\ response'[c].made /\ response'[c].fd \in FD
      BY <1>7, <2>1
    <2> QED BY <1>1, <1>2, <1>3, <1>7, <1>10, <2>2 DEF Responses
  <1>13. PullsMade'
    <2>1. ASSUME NEW u \in Task, pc'[u].at = "pull"
          PROVE  response'[pc'[u].response].made
      <3>1. pc'[u] = pc[u] /\ pc[u].response \in Conn \ {c}
        BY <1>1, <1>5, <1>8, <2>1, Places DEF PullsMade
      <3> QED BY <1>1, <1>7, <2>1, <3>1 DEF PullsMade
    <2> QED BY <2>1 DEF PullsMade
  <1>14. ASSUME Undisturbed PROVE Undisturbed'
    <2>1. LiveOpen /\ FetchersHold /\ SocketsOwned /\ BodiesExact /\ PullsAlone
      BY <1>14 DEF Undisturbed
    <2>2. LiveOpen'
      BY <1>1, <1>3, <1>6, <1>7, <2>1 DEF LiveOpen, Live
    <2>3. FetchersHold'
      <3>1. ASSUME NEW u \in Task, Waits(u)'
            PROVE  /\ Waits(u) /\ pc'[u] = pc[u] /\ pc[u].fd \in FD \ {fd}
                   /\ files[pc[u].fd] \in Conn \ {c} /\ ~response[files[pc[u].fd]].made
        <4>1. u # t /\ pc'[u] = pc[u] /\ Waits(u)
          BY <1>8, <3>1 DEF Waits
        <4>2. pc[u].fd \in FD \ {fd} /\ files[pc[u].fd] # NoConn /\ ~response[files[pc[u].fd]].made
          BY <1>1, <1>2, <2>1, <4>1, Places DEF FetchersHold, Waits
        <4>3. files[pc[u].fd] # files[fd] /\ files[pc[u].fd] \in Conn
          BY <1>1, <4>2 DEF Descriptors, Types
        <4> QED BY <1>3, <4>1, <4>2, <4>3
      <3>2. \A u, v \in Task : Waits(u)' /\ Waits(v)' /\ pc'[u].fd = pc'[v].fd => u = v
        BY <2>1, <3>1 DEF FetchersHold
      <3>3. ASSUME NEW u \in Task, Waits(u)'
            PROVE  files'[pc'[u].fd] # NoConn /\ ~response'[files'[pc'[u].fd]].made
        BY <1>1, <1>7, <3>1, <3>3, Bounds
      <3> QED BY <3>2, <3>3 DEF FetchersHold
    <2>4. SocketsOwned'
      <3>1. ASSUME NEW f \in FD, files[f] # NoConn
            PROVE  \/ files[f] \in leaked
                   \/ response'[files[f]].live /\ response'[files[f]].fd = f
                   \/ \E u \in Task : Waits(u)' /\ pc'[u].fd = f
        <4>1. files[f] \in Conn
          BY <1>1, <3>1 DEF Types
        <4>2. CASE Live(files[f]) /\ response[files[f]].fd = f
          BY <1>1, <1>5, <1>7, <4>1, <4>2 DEF Responses, Live
        <4>3. ASSUME NEW u \in Task, Waits(u) /\ pc[u].fd = f
              PROVE  \/ response'[files[f]].live /\ response'[files[f]].fd = f
                     \/ Waits(u)' /\ pc'[u].fd = f
          BY <1>2, <1>3, <1>6, <1>7, <1>8, <4>3 DEF Waits
        <4> QED BY <2>1, <3>1, <4>2, <4>3 DEF SocketsOwned
      <3> QED BY <1>1, <3>1 DEF SocketsOwned, Live, Waits
    <2>5. BodiesExact'
      <3>1. read[c] = 0 /\ Open(handed[c])
        <4>1. read[c] >= 0 /\ read[c] \in Int
          BY <1>1, <1>2, <1>3, Bounds DEF Known, Types
        <4>2. read[c] <= 0 /\ Open(handed[c])
          BY <1>5, <2>1 DEF BodiesExact
        <4> QED BY <4>1, <4>2
      <3>2. <<>> = [i \in 1 .. 0 |-> <<c, i>>] /\ 0 <= Len(<<>>)
        OBVIOUS
      <3>3. /\ response'[c].made /\ response'[c].data = [i \in 1 .. read'[c] |-> <<c, i>>]
            /\ response'[c].index <= Len(response'[c].data)
            /\ Kept(handed'[c], response'[c].used)
        <4>1. WholeOnce(handed[c])
          BY <2>1 DEF BodiesExact, Kept
        <4>2. Kept(handed'[c], response'[c].used)
          BY <1>1, <3>1, <4>1 DEF Kept
        <4> QED BY <1>1, <1>6, <1>7, <3>1, <3>2, <4>2
      <3>4. ASSUME NEW d \in Conn \ {c}
            PROVE  response'[d] = response[d] /\ read'[d] = read[d] /\ handed'[d] = handed[d]
        BY <1>1, <1>7
      <3>5. ASSUME NEW d \in Conn
            PROVE  /\ response'[d].made =>
                         /\ response'[d].data = [i \in 1 .. read'[d] |-> <<d, i>>]
                         /\ response'[d].index <= Len(response'[d].data)
                   /\ ~response'[d].made => response'[d] = NoResponse /\ read'[d] <= 0 /\ Open(handed'[d])
                   /\ Kept(handed'[d], response'[d].used)
        <4>1. CASE d = c
          BY <3>3, <4>1
        <4>2. CASE d # c
          BY <2>1, <3>4, <4>2 DEF BodiesExact
        <4> QED BY <4>1, <4>2
      <3> QED BY <3>5 DEF BodiesExact
    <2>6. PullsAlone'
      <3>1. ASSUME NEW u \in Task, pc'[u].at = "pull"
            PROVE  pc'[u] = pc[u] /\ pc[u].response \in Conn \ {c}
        BY <1>1, <1>5, <1>8, <3>1, Places DEF PullsMade
      <3>2. ASSUME NEW u \in Task, pc'[u].at = "pull"
            PROVE  /\ response'[pc'[u].response].live
                   /\ pc'[u].index <= Len(response'[pc'[u].response].data)
                   /\ May(pc'[u].what, handed'[pc'[u].response], response'[pc'[u].response].used)
        BY <1>1, <1>7, <2>1, <3>1, <3>2 DEF PullsAlone, Live
      <3>3. \A u, v \in Task :
               pc'[u].at = "pull" /\ pc'[v].at = "pull" /\ pc'[u].response = pc'[v].response => u = v
        BY <2>1, <3>1 DEF PullsAlone
      <3> QED BY <3>2, <3>3 DEF PullsAlone, Live
    <2> QED BY <2>2, <2>3, <2>4, <2>5, <2>6 DEF Undisturbed
  <1> QED BY <1>1, <1>9, <1>11, <1>12, <1>13, <1>14 DEF FInv, Base

-----------------------------------------------------------------------------
(* The bodies of responses                                                 *)

(* What the invariant says of the body of one response. *)
LEMMA Made ==
    ASSUME FInv, NEW c \in Conn, response[c].made
    PROVE  /\ response[c] \in Body /\ response[c].fd \in FD /\ c \in Known
           /\ response[c].live = response[c].calls
           /\ response[c].live \in BOOLEAN /\ response[c].used \in BOOLEAN
           /\ response[c].data \in Seq(Conn \X (1 .. MaxChunks)) /\ response[c].index \in Nat
           /\ files \in [FD -> Conn \cup {NoConn}] /\ read \in [Conn -> -1 .. MaxChunks]
           /\ response \in [Conn -> Body]
           /\ handed \in [Conn \cup Request -> Seq(To)] /\ pc \in [Task -> Place]
           /\ overlapped \subseteq Conn /\ cut \subseteq Conn
  BY DEF FInv, Base, Types, Responses, Body, Place

LEMMA Exact ==
    ASSUME Undisturbed, NEW c \in Conn, response[c].made
    PROVE  /\ response[c].data = [i \in 1 .. read[c] |-> <<c, i>>]
           /\ response[c].index <= Len(response[c].data)
           /\ Kept(handed[c], response[c].used)
           /\ Live(c) => files[response[c].fd] = c
           /\ \A u \in Task : pc[u].at = "pull" /\ pc[u].response = c =>
                 /\ Live(c) /\ pc[u].index <= Len(response[c].data)
                 /\ May(pc[u].what, handed[c], response[c].used)
           /\ \A u, v \in Task : /\ pc[u].at = "pull" /\ pc[u].response = c
                                 /\ pc[v].at = "pull" /\ pc[v].response = c
                                 => u = v
  BY DEF Undisturbed, BodiesExact, LiveOpen, PullsAlone

LEMMA Touched ==
    ASSUME NEW c \in Conn, Touch(c), overlapped \subseteq Conn
    PROVE  /\ overlapped' \subseteq Conn
           /\ overlapped' = {} =>
                 overlapped = {} /\ \A u \in Task : ~(pc[u].at = "pull" /\ pc[u].response = c)
  BY DEF Touch, Pulled

(* Some of a body, or the whole of it, is given out. *)
LEMMA GivenOut ==
    ASSUME FetchAssumption, FInv, NEW c \in Conn, response[c].made,
           NEW to \in {"whole", "reader"}, HandOut(c, to) \/ handed' = handed
    PROVE  /\ handed' \in [Conn \cup Request -> Seq(To)]
           /\ \A q \in Request : handed'[q] = handed[q]
           /\ \A d \in Conn \ {c} : handed'[d] = handed[d]
           /\ \A used \in BOOLEAN :
                 (/\ Kept(handed[c], response[c].used) /\ (response[c].used => used)
                  /\ handed' # handed => used /\ (to = "whole" => Open(handed[c])))
                 => Kept(handed'[c], used)
  <1>1. handed \in [Conn \cup Request -> Seq(To)] /\ c \in Conn \cup Request /\ to \in To
    BY Made DEF To
  <1>2. /\ handed' \in [Conn \cup Request -> Seq(To)]
        /\ \A y \in (Conn \cup Request) \ {c} : handed'[y] = handed[y]
        /\ WholeOnce(handed[c]) /\ (to = "whole" => Open(handed[c])) => WholeOnce(handed'[c])
    BY <1>1, HandedOut
  <1>3. ASSUME NEW used \in BOOLEAN, Kept(handed[c], response[c].used), response[c].used => used,
               handed' # handed => used /\ (to = "whole" => Open(handed[c]))
        PROVE  Kept(handed'[c], used)
    <2>1. CASE handed' = handed
      BY <1>3, <2>1 DEF Kept
    <2>2. CASE handed' # handed
      BY <1>2, <1>3, <2>2 DEF Kept
    <2> QED BY <2>1, <2>2
  <1> QED BY <1>2, <1>3, Bounds

(* Locking and unlocking change nothing else. *)
LEMMA LockKeeps ==
    ASSUME FetchAssumption, FInv, NEW t \in Task, NEW c \in Conn, GetReader(t, c) \/ ReleaseLock(t, c)
    PROVE  FInv'
  <1>1. response[c].made
    BY DEF GetReader, ReleaseLock, FInv, Base, Responses
  <1>2. PICK lock \in BOOLEAN : response' = [response EXCEPT ![c].locked = lock]
    BY DEF GetReader, ReleaseLock
  <1>3. PICK b : b = [response[c] EXCEPT !.locked = lock]
    OBVIOUS
  <1>4. /\ b \in Body /\ b.made /\ b.fd = response[c].fd /\ b.live = response[c].live
        /\ b.live = b.calls /\ b.data = response[c].data /\ b.index = response[c].index
        /\ b.used = response[c].used
    BY <1>1, <1>3, Made DEF Body
  <1>5. /\ response' = [response EXCEPT ![c] = b]
        /\ UNCHANGED <<files, read, request, pc, aborted, handed, overlapped, cut, leaked>>
    BY <1>2, <1>3 DEF GetReader, ReleaseLock
  <1>6. Base'
    <2>1. Known' = Known
      BY <1>5 DEF Known
    <2> QED BY <1>1, <1>4, <1>5, <2>1, Made, BodyBase
  <1>7. ASSUME Undisturbed PROVE Undisturbed'
    <2>1. b.data = [i \in 1 .. read'[c] |-> <<c, i>>] /\ b.index <= Len(b.data)
      BY <1>1, <1>4, <1>5, <1>7, Exact
    <2>2. Kept(handed'[c], b.used)
      BY <1>1, <1>4, <1>5, <1>7, Exact
    <2>3. \A d \in Conn \ {c} : read'[d] = read[d] /\ handed'[d] = handed[d]
      BY <1>5
    <2>4. \A u \in Task : pc'[u].at = "pull" /\ pc'[u].response = c =>
              /\ b.live /\ pc'[u].index <= Len(b.data)
              /\ May(pc'[u].what, handed'[c], b.used)
      BY <1>1, <1>4, <1>5, <1>7, Exact DEF Live
    <2>5. \A u, v \in Task : /\ pc'[u].at = "pull" /\ pc'[u].response = c
                              /\ pc'[v].at = "pull" /\ pc'[v].response = c
                              => u = v
      BY <1>1, <1>5, <1>7, Exact
    <2>6. /\ \A u \in Task : pc'[u] = pc[u]
          /\ response' = [response EXCEPT ![c] = b]
          /\ files' = files /\ b.live = response[c].live /\ leaked' = leaked
      BY <1>4, <1>5
    <2>7. b \in Body /\ b.made /\ b.fd = response[c].fd
      BY <1>4
    <2>8. BodyStep(c, b)
      BY <1>1, <1>7, <2>1, <2>2, <2>3, <2>4, <2>5, <2>6, <2>7 DEF BodyStep
    <2> QED BY <1>1, <1>7, <2>8, BodyAlone
  <1> QED BY <1>5, <1>6, <1>7 DEF FInv

(* read() of a body begins. *)
LEMMA ReadKeeps ==
    ASSUME FetchAssumption, FInv, NEW t \in Task, NEW c \in Conn, Read(t, c)
    PROVE  FInv'
  <1>1. response[c].made /\ pc[t] = Idle /\ Touch(c)
    BY DEF Read
  <1>2. PICK i : i = IF response[c].index < Len(response[c].data) THEN response[c].index + 1
                                                                 ELSE response[c].index
    OBVIOUS
  <1>3. PICK b : b = [response[c] EXCEPT !.used = TRUE, !.index = i]
    OBVIOUS
  <1>4. i \in Nat /\ (response[c].index <= Len(response[c].data) => i <= Len(response[c].data))
    <2>1. response[c].index \in Nat /\ Len(response[c].data) \in Nat
      BY <1>1, Made
    <2>2. CASE response[c].index < Len(response[c].data)
      BY <1>2, <2>1, <2>2
    <2>3. CASE ~(response[c].index < Len(response[c].data))
      BY <1>2, <2>1, <2>3
    <2> QED BY <2>2, <2>3
  <1>5. /\ b \in Body /\ b.made /\ b.fd = response[c].fd /\ b.live = response[c].live
        /\ b.live = b.calls /\ b.data = response[c].data /\ b.index = i /\ b.used = TRUE
    BY <1>1, <1>3, <1>4, Made DEF Body
  <1>6. /\ response' = [response EXCEPT ![c] = b]
        /\ UNCHANGED <<files, read, request, aborted, cut, leaked>>
        /\ HandOut(c, "reader") \/ handed' = handed
    BY <1>1, <1>2, <1>3, Made DEF Read
  <1>7. \/ pc' = pc
        \/ response[c].calls /\ pc' = [pc EXCEPT ![t] = Pull(c, "read", response[c].index)]
    BY DEF Read
  <1>8. /\ pc' \in [Task -> Place] /\ \A u \in Task \ {t} : pc'[u] = pc[u]
        /\ \/ pc'[t] = pc[t]
           \/ /\ response[c].calls /\ pc'[t].at = "pull" /\ pc'[t].response = c
              /\ pc'[t].what = "read" /\ pc'[t].index = response[c].index
    <2>1. PICK x \in Place : /\ x = Pull(c, "read", response[c].index)
                             /\ x.at = "pull" /\ x.response = c /\ x.what = "read"
                             /\ x.index = response[c].index
      BY <1>1, Made, NewPlaces DEF Place
    <2> QED BY <1>1, <1>7, <2>1, Made
  <1>9. overlapped' \subseteq Conn
    BY <1>1, Made, Touched
  <1>10. Base'
    <2>1. Known' = Known
      BY <1>6 DEF Known
    <2>2. \A u \in Task : pc'[u] = pc[u] \/ (pc'[u].at = "pull" => pc'[u].response = c)
      BY <1>8
    <2>3. handed' \in [Conn \cup Request -> Seq(To)] /\ \A q \in Request : handed'[q] = handed[q]
      BY <1>1, <1>6, GivenOut
    <2>4. read' \in [Conn -> -1 .. MaxChunks] /\ cut' \subseteq Conn
      BY <1>1, <1>6, Made
    <2> QED BY <1>1, <1>5, <1>6, <1>8, <1>9, <2>1, <2>2, <2>3, <2>4, BodyBase
  <1>11. ASSUME overlapped' = {} PROVE Undisturbed'
    <2>1. Undisturbed /\ \A u \in Task : ~(pc[u].at = "pull" /\ pc[u].response = c)
      BY <1>1, <1>11, Made, Touched DEF FInv
    <2>2. b.data = [j \in 1 .. read'[c] |-> <<c, j>>] /\ b.index <= Len(b.data)
      BY <1>1, <1>4, <1>5, <1>6, <2>1, Exact
    <2>3. \A u \in Task : \/ pc'[u] = pc[u]
                          \/ pc[u].at # "headers" /\ pc'[u].at # "headers" /\ (pc'[u].at = "pull" => pc'[u].response = c)
      BY <1>1, <1>8 DEF Waits, Idle
    <2>4. \A u \in Task : pc'[u].at = "pull" /\ pc'[u].response = c => u = t
      BY <1>8, <2>1
    <2>7. pc'[t].at = "pull" /\ pc'[t].response = c =>
              b.live /\ pc'[t].index <= Len(b.data) /\ pc'[t].what = "read"
      <3>1. response[c].index <= Len(b.data)
        BY <1>1, <1>5, <2>1, Exact
      <3>2. response[c].calls => b.live
        BY <1>1, <1>5, Made
      <3>3. pc[t].at # "pull"
        BY <1>1 DEF Idle
      <3> QED BY <1>8, <3>1, <3>2, <3>3
    <2>5. Kept(handed'[c], b.used)
      <3>1. Kept(handed[c], response[c].used)
        BY <1>1, <2>1, Exact
      <3> QED BY <1>1, <1>5, <1>6, <3>1, GivenOut
    <2>6. \A d \in Conn \ {c} : read'[d] = read[d] /\ handed'[d] = handed[d]
      BY <1>1, <1>6, GivenOut
    <2>8. \A u \in Task : pc'[u].at = "pull" /\ pc'[u].response = c =>
              /\ b.live /\ pc'[u].index <= Len(b.data)
              /\ May(pc'[u].what, handed'[c], b.used)
      BY <1>5, <2>4, <2>7 DEF May
    <2>9. /\ files' = files /\ b.live = response[c].live /\ leaked' = leaked
          /\ \A u, v \in Task : /\ pc'[u].at = "pull" /\ pc'[u].response = c
                                /\ pc'[v].at = "pull" /\ pc'[v].response = c
                                => u = v
      BY <1>5, <1>6, <2>4
    <2>10. BodyStep(c, b)
      BY <1>1, <1>5, <1>6, <2>1, <2>2, <2>3, <2>5, <2>6, <2>8, <2>9 DEF BodyStep
    <2> QED BY <1>1, <2>1, <2>10, BodyAlone
  <1> QED BY <1>10, <1>11 DEF FInv

(* A text() or clone() that begins pulls a live body, and has what there   *)
(* is of another.                                                          *)
LEMMA ConsumeKeeps ==
    ASSUME FetchAssumption, FInv, NEW t \in Task, NEW c \in Conn,
           NEW what \in {"text", "clone"}, Consume(t, c, what)
    PROVE  FInv'
  <1>1. /\ response[c].made /\ pc[t] = Idle /\ Touch(c) /\ ~response[c].used
        /\ UNCHANGED <<files, read, request, aborted, cut, leaked>>
    BY DEF Consume, Usable
  <1>2. overlapped' \subseteq Conn
    BY <1>1, Made, Touched
  <1>3. Known' = Known
    BY <1>1 DEF Known
  <1>4. CASE Live(c) /\ response[c].calls
    <2>1. pc' = [pc EXCEPT ![t] = Pull(c, what, 0)] /\ response' = response /\ handed' = handed
      BY <1>4 DEF Consume
    <2>2. PICK b : b = response[c]
      OBVIOUS
    <2>3. response' = [response EXCEPT ![c] = b]
      BY <1>1, <2>1, <2>2, Made
    <2>4. /\ pc' \in [Task -> Place] /\ \A u \in Task \ {t} : pc'[u] = pc[u]
          /\ pc'[t].at = "pull" /\ pc'[t].response = c /\ pc'[t].what = what /\ pc'[t].index = 0
      <3>1. PICK x \in Place : /\ x = Pull(c, what, 0) /\ x.at = "pull" /\ x.response = c
                               /\ x.what = what /\ x.index = 0
        BY <1>1, NewPlaces DEF Place
      <3> QED BY <1>1, <2>1, <3>1, Made
    <2>5. Base'
      <3>1. \A u \in Task : pc'[u] = pc[u] \/ (pc'[u].at = "pull" => pc'[u].response = c)
        BY <2>4
      <3> QED BY <1>1, <1>2, <1>3, <2>1, <2>2, <2>3, <2>4, <3>1, Made, BodyBase
    <2>6. ASSUME overlapped' = {} PROVE Undisturbed'
      <3>1. Undisturbed /\ \A u \in Task : ~(pc[u].at = "pull" /\ pc[u].response = c)
        BY <1>1, <2>6, Made, Touched DEF FInv
      <3>2. b.data = [j \in 1 .. read'[c] |-> <<c, j>>] /\ b.index <= Len(b.data)
        BY <1>1, <2>2, <3>1, Exact
      <3>3. \A u \in Task : \/ pc'[u] = pc[u]
                            \/ pc[u].at # "headers" /\ pc'[u].at # "headers" /\ (pc'[u].at = "pull" => pc'[u].response = c)
        BY <1>1, <2>4 DEF Waits, Idle
      <3>4. Open(handed[c]) /\ Kept(handed'[c], b.used)
        <4>1. Kept(handed[c], response[c].used)
          BY <1>1, <3>1, Exact
        <4> QED BY <1>1, <2>1, <2>2, <4>1 DEF Kept
      <3>5. \A u \in Task : pc'[u].at = "pull" /\ pc'[u].response = c =>
                /\ u = t /\ b.live /\ pc'[u].index <= Len(b.data) /\ Open(handed'[c])
        <4>1. Len(b.data) >= 0
          BY <1>1, <2>2, Made
        <4> QED BY <1>4, <2>1, <2>2, <2>4, <3>1, <3>4, <4>1 DEF Live
      <3>6. \A d \in Conn \ {c} : read'[d] = read[d] /\ handed'[d] = handed[d]
        BY <1>1, <2>1
      <3>7. b \in Body /\ b.made /\ b.fd = response[c].fd /\ b.live = response[c].live
        BY <1>1, <2>2, Made
      <3>8. \A u \in Task : pc'[u].at = "pull" /\ pc'[u].response = c =>
                /\ b.live /\ pc'[u].index <= Len(b.data)
                /\ May(pc'[u].what, handed'[c], b.used)
        BY <2>4, <3>5 DEF May
      <3>9. \A u, v \in Task : /\ pc'[u].at = "pull" /\ pc'[u].response = c
                                /\ pc'[v].at = "pull" /\ pc'[v].response = c
                                => u = v
        BY <3>5
      <3>10. BodyStep(c, b)
        BY <1>1, <2>3, <3>1, <3>2, <3>3, <3>4, <3>6, <3>7, <3>8, <3>9 DEF BodyStep
      <3> QED BY <1>1, <3>1, <3>10, BodyAlone
    <2> QED BY <2>5, <2>6 DEF FInv
  <1>5. CASE ~(Live(c) /\ response[c].calls)
    <2>1. /\ Finish(t, c, what, response[c])
          /\ ~response[c].live /\ ~response[c].calls
      BY <1>1, <1>5, Made DEF Consume, Live
    <2>2. PICK b : b = [response[c] EXCEPT !.live = FALSE,
                                           !.used = IF what = "text" THEN TRUE ELSE response[c].used]
      OBVIOUS
    <2>3. /\ b \in Body /\ b.made /\ b.fd = response[c].fd /\ b.live = FALSE
          /\ b.live = b.calls /\ b.data = response[c].data /\ b.index = response[c].index
          /\ b.used = IF what = "text" THEN TRUE ELSE response[c].used
      BY <1>1, <2>1, <2>2, Made DEF Body
    <2>4. response' = [response EXCEPT ![c] = b]
      BY <2>1, <2>2 DEF Finish
    <2>5. pc' \in [Task -> Place] /\ \A u \in Task : pc'[u] = pc[u]
      BY <1>1, <2>1, Made, NewPlaces DEF Finish, Place
    <2>6. HandOut(c, "whole") \/ handed' = handed
      BY <2>1 DEF Finish
    <2>10. what = "clone" => handed' = handed
      BY <2>1 DEF Finish
    <2>7. Base'
      <3>1. handed' \in [Conn \cup Request -> Seq(To)] /\ \A q \in Request : handed'[q] = handed[q]
        BY <1>1, <2>6, GivenOut
      <3>2. read \in [Conn -> -1 .. MaxChunks] /\ cut \subseteq Conn
        BY <1>1, Made
      <3>3. read' \in [Conn -> -1 .. MaxChunks] /\ cut' \subseteq Conn
        BY <1>1, <3>2
      <3> QED BY <1>1, <1>2, <1>3, <2>3, <2>4, <2>5, <2>6, <3>1, <3>3, BodyBase
    <2>8. ASSUME overlapped' = {} PROVE Undisturbed'
      <3>1. Undisturbed /\ \A u \in Task : ~(pc[u].at = "pull" /\ pc[u].response = c)
        BY <1>1, <2>8, Made, Touched DEF FInv
      <3>2. b.data = [j \in 1 .. read'[c] |-> <<c, j>>] /\ b.index <= Len(b.data)
        BY <1>1, <2>3, <3>1, Exact
      <3>3. Kept(handed'[c], b.used)
        <4>1. Kept(handed[c], response[c].used) /\ Open(handed[c])
          BY <1>1, <3>1, Exact DEF Kept
        <4>2. b.used \in BOOLEAN /\ (handed' # handed => b.used) /\ (response[c].used => b.used)
          BY <1>1, <2>3, <2>10, Made
        <4> QED BY <1>1, <2>6, <4>1, <4>2, GivenOut
      <3>4. \A d \in Conn \ {c} : read'[d] = read[d] /\ handed'[d] = handed[d]
        BY <1>1, <2>6, GivenOut
      <3>5. ~(\E u \in Task : pc'[u].at = "pull" /\ pc'[u].response = c)
        BY <2>5, <3>1
      <3>6. files' = files /\ b.live = response[c].live /\ leaked' = leaked
        BY <1>1, <2>1, <2>3, Made
      <3>7. /\ \A u \in Task : pc'[u].at = "pull" /\ pc'[u].response = c =>
                  /\ b.live /\ pc'[u].index <= Len(b.data)
                  /\ May(pc'[u].what, handed'[c], b.used)
            /\ \A u, v \in Task : /\ pc'[u].at = "pull" /\ pc'[u].response = c
                                  /\ pc'[v].at = "pull" /\ pc'[v].response = c
                                  => u = v
        BY <3>5
      <3>8. BodyStep(c, b)
        BY <1>1, <2>3, <2>4, <2>5, <3>1, <3>2, <3>3, <3>4, <3>6, <3>7 DEF BodyStep
      <3> QED BY <1>1, <3>1, <3>8, BodyAlone
    <2> QED BY <2>7, <2>8 DEF FInv
  <1> QED BY <1>4, <1>5

(* What a task blocked in a pull waits for. *)
LEMMA PullIs ==
    ASSUME FInv, NEW t \in Task, pc[t].at = "pull"
    PROVE  /\ pc[t].response \in Conn /\ response[pc[t].response].made
           /\ pc[t].index \in Nat /\ pc[t].what \in {"read", "text", "clone"}
  BY Places DEF FInv, Base, PullsMade

(* One more chunk of a body. *)
LEMMA Grown ==
    ASSUME NEW c, NEW n \in Nat, NEW data, data = [i \in 1 .. n |-> <<c, i>>]
    PROVE  /\ Append(data, <<c, n + 1>>) = [i \in 1 .. n + 1 |-> <<c, i>>]
           /\ Len(data) = n /\ Len(Append(data, <<c, n + 1>>)) = n + 1
  <1> DEFINE more == [i \in 1 .. n + 1 |-> <<c, i>>]
  <1>1. data \in Seq({<<c, i>> : i \in 1 .. n}) /\ Len(data) = n
    OBVIOUS
  <1>2. Append(data, <<c, n + 1>>) = [i \in 1 .. n + 1 |-> IF i <= n THEN data[i] ELSE <<c, n + 1>>]
    BY <1>1
  <1>3. \A i \in 1 .. n + 1 : (IF i <= n THEN data[i] ELSE <<c, n + 1>>) = <<c, i>>
    OBVIOUS
  <1>4. Append(data, <<c, n + 1>>) = more
    BY <1>2, <1>3
  <1>5. Len(Append(data, <<c, n + 1>>)) = n + 1
    BY <1>1
  <1> QED BY <1>1, <1>4, <1>5

(* The last consumer of a body ends: the body is not live any more.        *)
LEMMA LastPull ==
    ASSUME FetchAssumption, FInv, Undisturbed, NEW t \in Task, pc[t].at = "pull",
           NEW c \in Conn, c = pc[t].response, response[c].made,
           NEW b \in Body, b.made, b.fd = response[c].fd, ~b.live,
           b.data = response[c].data, b.index <= Len(b.data),
           response' = [response EXCEPT ![c] = b],
           read' = read, leaked' = leaked, Close(response[c].fd),
           pc'[t] = Idle, \A u \in Task \ {t} : pc'[u] = pc[u],
           Kept(handed'[c], b.used),
           \A d \in Conn \ {c} : handed'[d] = handed[d]
    PROVE  Undisturbed'
  <1>1. /\ response[c].live
        /\ \A u \in Task \ {t} : ~(pc[u].at = "pull" /\ pc[u].response = c)
    BY Exact DEF Live
  <1>2. b.data = [i \in 1 .. read'[c] |-> <<c, i>>]
    BY Exact
  <1>3. ~(\E u \in Task : pc'[u].at = "pull" /\ pc'[u].response = c)
    BY <1>1 DEF Idle
  <1>4. \A u \in Task : \/ pc'[u] = pc[u]
                        \/ /\ pc[u].at # "headers" /\ pc'[u].at # "headers"
                           /\ pc'[u].at = "pull" => pc'[u].response = c
    BY DEF Idle
  <1>5. /\ \A u \in Task : pc'[u].at = "pull" /\ pc'[u].response = c =>
              /\ b.live /\ pc'[u].index <= Len(b.data)
              /\ May(pc'[u].what, handed'[c], b.used)
        /\ \A u, v \in Task : /\ pc'[u].at = "pull" /\ pc'[u].response = c
                              /\ pc'[v].at = "pull" /\ pc'[v].response = c
                              => u = v
    BY <1>3
  <1>6. \A d \in Conn \ {c} : read'[d] = read[d] /\ handed'[d] = handed[d]
    OBVIOUS
  <1>7. BodyStep(c, b)
    BY <1>1, <1>2, <1>4, <1>5, <1>6 DEF BodyStep
  <1> QED BY <1>7, BodyAlone

(* The signal has aborted. *)
LEMMA PullAbortKeeps ==
    ASSUME FetchAssumption, FInv, NEW t \in Task, PullAborts(t)
    PROVE  FInv'
  <1>1. PICK c \in Conn : c = pc[t].response /\ response[c].made /\ pc[t].at = "pull"
    BY PullIs DEF PullAborts
  <1>2. PICK b : b = [response[c] EXCEPT !.live = FALSE, !.calls = FALSE]
    OBVIOUS
  <1>3. /\ b \in Body /\ b.made /\ b.fd = response[c].fd /\ b.live = FALSE /\ b.calls = FALSE
        /\ b.data = response[c].data /\ b.index = response[c].index /\ b.used = response[c].used
    BY <1>1, <1>2, Made DEF Body
  <1>4. /\ response' = [response EXCEPT ![c] = b] /\ Close(response[c].fd)
        /\ cut' = cut \cup {c} /\ pc' = [pc EXCEPT ![t] = Idle]
        /\ UNCHANGED <<read, request, aborted, handed, overlapped, leaked>>
    BY <1>1, <1>2, Made DEF PullAborts, Throw
  <1>5. Base'
    <2>1. Known' = Known
      BY <1>4 DEF Known
    <2>2. /\ pc' \in [Task -> Place]
          /\ \A u \in Task : pc'[u] = pc[u] \/ (pc'[u].at = "pull" => pc'[u].response = c)
      BY <1>1, <1>4, Made, NewPlaces DEF Place
    <2>3. /\ read' = read /\ cut' \subseteq Conn /\ overlapped' \subseteq Conn
          /\ read \in [Conn -> -1 .. MaxChunks]
          /\ handed' = handed /\ handed \in [Conn \cup Request -> Seq(To)]
      BY <1>1, <1>4, Made
    <2> QED BY <1>1, <1>3, <1>4, <2>1, <2>2, <2>3, BodyBase
  <1>6. ASSUME Undisturbed PROVE Undisturbed'
    <2>1. b.index <= Len(b.data)
      BY <1>1, <1>3, <1>6, Exact
    <2>2. /\ Kept(handed'[c], b.used)
          /\ \A d \in Conn \ {c} : handed'[d] = handed[d]
      BY <1>1, <1>3, <1>4, <1>6, Exact
    <2>3. pc'[t] = Idle /\ \A u \in Task \ {t} : pc'[u] = pc[u]
      BY <1>1, <1>4, Made
    <2>4. /\ read' = read /\ leaked' = leaked /\ Close(response[c].fd)
          /\ response' = [response EXCEPT ![c] = b]
      BY <1>4
    <2> QED BY <1>1, <1>3, <1>6, <2>1, <2>2, <2>3, <2>4, LastPull
  <1> QED BY <1>4, <1>5, <1>6 DEF FInv

(* The body has ended, or is taken for ended. *)
LEMMA EndKeeps ==
    ASSUME FetchAssumption, FInv, NEW t \in Task, BodyEnds(t)
    PROVE  FInv'
  <1>1. PICK c \in Conn : c = pc[t].response /\ response[c].made /\ pc[t].at = "pull"
    BY PullIs DEF BodyEnds
  <1>2. PICK what \in {"read", "text", "clone"}, place \in Nat : what = pc[t].what /\ place = pc[t].index
    BY <1>1, PullIs
  <1>3. PICK i, used : /\ i = IF what = "read" /\ place < Len(response[c].data)
                              THEN place + 1 ELSE response[c].index
                       /\ used = IF what = "text" THEN TRUE ELSE response[c].used
    OBVIOUS
  <1>4. PICK b : b = [response[c] EXCEPT !.live = FALSE, !.calls = FALSE, !.index = i, !.used = used]
    OBVIOUS
  <1>5. /\ i \in Nat /\ used \in BOOLEAN /\ Len(response[c].data) \in Nat
        /\ response[c].index <= Len(response[c].data) => i <= Len(response[c].data)
    <2>1. response[c].index \in Nat /\ Len(response[c].data) \in Nat /\ response[c].used \in BOOLEAN
      BY <1>1, Made
    <2>2. used \in BOOLEAN
      BY <1>3, <2>1
    <2>3. CASE what = "read" /\ place < Len(response[c].data)
      <3>1. i = place + 1
        BY <1>3, <2>3
      <3> QED BY <2>1, <2>2, <2>3, <3>1
    <2>4. CASE ~(what = "read" /\ place < Len(response[c].data))
      <3>1. i = response[c].index
        BY <1>3, <2>4
      <3> QED BY <2>1, <2>2, <3>1
    <2> QED BY <2>3, <2>4
  <1>6. /\ b \in Body /\ b.made /\ b.fd = response[c].fd /\ b.live = FALSE /\ b.calls = FALSE
        /\ b.data = response[c].data /\ b.index = i /\ b.used = used
    <2>1. response[c] \in Body
      BY <1>1, Made
    <2> QED BY <1>1, <1>4, <1>5, <2>1 DEF Body
  <1>7. /\ Close(response[c].fd) /\ pc' = [pc EXCEPT ![t] = Idle]
        /\ HandOut(c, IF what = "text" THEN "whole" ELSE "reader") \/ handed' = handed
        /\ what = "clone" => handed' = handed
        /\ UNCHANGED <<read, request, aborted, overlapped, cut, leaked>>
    BY <1>1, <1>2 DEF BodyEnds, Finish
  <1>8. response' = [response EXCEPT ![c] = b]
    <2>1. PICK ended : ended = [response[c] EXCEPT !.live = FALSE, !.calls = FALSE]
      OBVIOUS
    <2>2. ended \in Body /\ ended.data = response[c].data
      <3>1. response[c] \in Body
        BY <1>1, Made
      <3> QED BY <2>1, <3>1 DEF Body
    <2>3. CASE what = "read"
      <3>1. response' = [response EXCEPT ![c] =
                 IF place < Len(ended.data) THEN [ended EXCEPT !.index = place + 1] ELSE ended]
        BY <1>1, <1>2, <2>1, <2>3 DEF BodyEnds
      <3>2. b = IF place < Len(ended.data) THEN [ended EXCEPT !.index = place + 1] ELSE ended
        BY <1>1, <1>3, <1>4, <2>1, <2>2, <2>3, Made DEF Body
      <3> QED BY <3>1, <3>2
    <2>4. CASE what # "read"
      <3>1. response' = [response EXCEPT ![c] =
                 [ended EXCEPT !.live = FALSE, !.used = IF what = "text" THEN TRUE ELSE @]]
        BY <1>1, <1>2, <2>1, <2>4 DEF BodyEnds, Finish
      <3>2. b = [ended EXCEPT !.live = FALSE, !.used = IF what = "text" THEN TRUE ELSE @]
        BY <1>1, <1>3, <1>4, <2>1, <2>2, <2>4, Made DEF Body
      <3> QED BY <3>1, <3>2
    <2> QED BY <2>3, <2>4
  <1>9. PICK to \in {"whole", "reader"} : /\ to = IF what = "text" THEN "whole" ELSE "reader"
                                          /\ HandOut(c, to) \/ handed' = handed
    BY <1>7
  <1>10. Base'
    <2>1. Known' = Known
      BY <1>7 DEF Known
    <2>2. /\ pc' \in [Task -> Place]
          /\ \A u \in Task : pc'[u] = pc[u] \/ (pc'[u].at = "pull" => pc'[u].response = c)
      BY <1>1, <1>7, Made, NewPlaces DEF Place
    <2>3. /\ read' = read /\ cut' \subseteq Conn /\ overlapped' \subseteq Conn
          /\ read \in [Conn -> -1 .. MaxChunks]
      BY <1>1, <1>7, Made
    <2>4. handed' \in [Conn \cup Request -> Seq(To)] /\ \A q \in Request : handed'[q] = handed[q]
      BY <1>1, <1>9, GivenOut
    <2> QED BY <1>1, <1>6, <1>7, <1>8, <1>9, <2>1, <2>2, <2>3, <2>4, BodyBase
  <1>11. ASSUME Undisturbed PROVE Undisturbed'
    <2>1. b.index <= Len(b.data)
      BY <1>1, <1>5, <1>6, <1>11, Exact
    <2>2. /\ Kept(handed'[c], b.used)
          /\ \A d \in Conn \ {c} : handed'[d] = handed[d]
      <3>1. /\ Kept(handed[c], response[c].used)
            /\ what = "text" => Open(handed[c])
            /\ what = "read" => response[c].used
        BY <1>1, <1>2, <1>11, Exact DEF May
      <3>2. /\ response[c].used => b.used
            /\ handed' # handed => b.used /\ (to = "whole" => Open(handed[c]))
        BY <1>3, <1>6, <1>7, <1>9, <3>1
      <3>3. b.used \in BOOLEAN
        BY <1>5, <1>6
      <3> QED BY <1>1, <1>9, <3>1, <3>2, <3>3, GivenOut
    <2>3. pc'[t] = Idle /\ \A u \in Task \ {t} : pc'[u] = pc[u]
      BY <1>1, <1>7, Made
    <2>4. /\ read' = read /\ leaked' = leaked /\ Close(response[c].fd)
          /\ response' = [response EXCEPT ![c] = b]
      BY <1>7, <1>8
    <2> QED BY <1>1, <1>6, <1>11, <2>1, <2>2, <2>3, <2>4, LastPull
  <1> QED BY <1>7, <1>10, <1>11 DEF FInv

(* A chunk comes. *)
LEMMA ChunkKeeps ==
    ASSUME FetchAssumption, FInv, NEW t \in Task, ChunkComes(t)
    PROVE  FInv'
  <1>1. PICK c \in Conn : c = pc[t].response /\ response[c].made /\ pc[t].at = "pull"
    BY PullIs DEF ChunkComes
  <1>2. PICK what \in {"read", "text", "clone"}, place \in Nat : what = pc[t].what /\ place = pc[t].index
    BY <1>1, PullIs
  <1>3. PICK from \in Conn : from = files[response[c].fd] /\ from \in Known
    <2>1. response[c].fd \in FD /\ Descriptors
      BY <1>1, Made DEF FInv, Base
    <2>2. files[response[c].fd] # NoConn
      BY <1>1 DEF ChunkComes
    <2>3. files[response[c].fd] \in Known
      BY <2>1, <2>2 DEF Descriptors
    <2> QED BY <2>3 DEF Known
  <1>4. /\ read[from] < MaxChunks /\ read' = [read EXCEPT ![from] = @ + 1]
        /\ UNCHANGED <<files, request, aborted, overlapped, cut, leaked>>
    BY <1>1, <1>3 DEF ChunkComes
  <1>5. PICK data : data = Append(response[c].data, <<from, read[from] + 1>>)
    OBVIOUS
  <1>6. /\ read[from] \in Nat /\ read[from] + 1 \in 1 .. MaxChunks
        /\ data \in Seq(Conn \X (1 .. MaxChunks)) /\ Len(data) = Len(response[c].data) + 1
        /\ Len(response[c].data) \in Nat
    <2>1. read[from] \in -1 .. MaxChunks /\ read[from] >= 0 /\ MaxChunks \in Nat
      BY <1>1, <1>3, Made, Bounds DEF Known
    <2>2. read[from] \in Nat /\ read[from] + 1 \in 1 .. MaxChunks
      BY <1>4, <2>1
    <2>3. PICK S : S = Conn \X (1 .. MaxChunks)
      OBVIOUS
    <2>4. response[c].data \in Seq(S) /\ <<from, read[from] + 1>> \in S
      BY <1>1, <2>2, <2>3, Made
    <2> QED BY <1>5, <2>2, <2>3, <2>4
  <1>7. PICK grown : grown = [response[c] EXCEPT !.data = data]
    OBVIOUS
  <1>8. /\ grown \in Body /\ grown.made /\ grown.fd = response[c].fd /\ grown.live = response[c].live
        /\ grown.calls = response[c].calls /\ grown.live = grown.calls /\ grown.data = data
        /\ grown.index = response[c].index /\ grown.used = response[c].used
    BY <1>1, <1>6, <1>7, Made DEF Body
  <1>9. /\ read' \in [Conn -> -1 .. MaxChunks] /\ read'[from] = read[from] + 1
        /\ \A d \in Conn \ {from} : read'[d] = read[d]
    <2>1. read \in [Conn -> -1 .. MaxChunks] /\ read[from] + 1 \in -1 .. MaxChunks
      <3>1. read \in [Conn -> -1 .. MaxChunks]
        BY <1>1, Made
      <3>2. MaxChunks \in Nat
        BY Bounds
      <3> QED BY <1>6, <3>1, <3>2
    <2> QED BY <1>4, <2>1
  <1>10. Known' = Known
    <2>1. read[from] >= 0 /\ read'[from] >= 0
      BY <1>6, <1>9
    <2>2. \A d \in Conn : read'[d] >= 0 <=> read[d] >= 0
      BY <1>9, <2>1
    <2> QED BY <2>2 DEF Known
  <1>11. cut' \subseteq Conn /\ overlapped' \subseteq Conn
    BY <1>1, <1>4, Made
  <1>12. ASSUME Undisturbed
         PROVE  /\ from = c /\ response[c].live
                /\ data = [i \in 1 .. read'[c] |-> <<c, i>>] /\ Len(data) = read[c] + 1
                /\ place + 1 <= Len(data) /\ response[c].index <= Len(data)
                /\ \A d \in Conn \ {c} : read'[d] = read[d]
    <2>1. from = c /\ response[c].live
      BY <1>1, <1>3, <1>12, Exact DEF Live
    <2>2. /\ response[c].data = [i \in 1 .. read[c] |-> <<c, i>>]
          /\ response[c].index <= Len(response[c].data) /\ place <= Len(response[c].data)
      BY <1>1, <1>2, <1>12, Exact
    <2>3. PICK n \in Nat : n = read[c]
      BY <1>6, <2>1
    <2>4. data = [i \in 1 .. n + 1 |-> <<c, i>>]
      BY <1>5, <2>1, <2>2, <2>3, Grown
    <2>5. Len(data) = n + 1
      BY <1>5, <2>1, <2>2, <2>3, Grown
    <2>6. Len(response[c].data) = n /\ n + 1 = read'[c]
      BY <1>5, <1>6, <1>9, <2>1, <2>2, <2>3, <2>5
    <2>7. response[c].index \in Nat /\ n \in Nat
      BY <1>1, Made
    <2>8. place + 1 <= Len(data) /\ response[c].index <= Len(data) /\ Len(data) = read[c] + 1
      BY <2>2, <2>3, <2>5, <2>6, <2>7
    <2>9. \A d \in Conn \ {c} : read'[d] = read[d]
      BY <1>9, <2>1
    <2> QED BY <2>1, <2>4, <2>6, <2>8, <2>9
  <1>13. CASE what = "read"
    <2>1. PICK b : b = [grown EXCEPT !.index = place + 1]
      OBVIOUS
    <2>2. /\ response' = [response EXCEPT ![c] = b] /\ pc' = [pc EXCEPT ![t] = Idle]
          /\ HandOut(c, "reader")
      BY <1>1, <1>2, <1>3, <1>5, <1>7, <1>13, <2>1 DEF ChunkComes
    <2>3. /\ b \in Body /\ b.made /\ b.fd = response[c].fd /\ b.live = response[c].live
          /\ b.live = b.calls /\ b.data = data /\ b.index = place + 1 /\ b.used = response[c].used
      BY <1>2, <1>8, <2>1 DEF Body
    <2>4. /\ pc' \in [Task -> Place] /\ pc'[t] = Idle /\ \A u \in Task \ {t} : pc'[u] = pc[u]
      BY <1>1, <2>2, Made, NewPlaces DEF Place
    <2>5. Base'
      <3>1. \A u \in Task : pc'[u] = pc[u] \/ (pc'[u].at = "pull" => pc'[u].response = c)
        BY <2>4 DEF Idle
      <3>2. handed' \in [Conn \cup Request -> Seq(To)] /\ \A q \in Request : handed'[q] = handed[q]
        BY <1>1, <2>2, GivenOut
      <3> QED BY <1>1, <1>4, <1>9, <1>10, <1>11, <2>2, <2>3, <2>4, <3>1, <3>2, BodyBase
    <2>6. ASSUME Undisturbed PROVE Undisturbed'
      <3>1. b.data = [i \in 1 .. read'[c] |-> <<c, i>>] /\ b.index <= Len(b.data)
        BY <1>12, <2>3, <2>6
      <3>2. \A u \in Task \ {t} : ~(pc[u].at = "pull" /\ pc[u].response = c)
        BY <1>1, <2>6, Exact
      <3>3. ~(\E u \in Task : pc'[u].at = "pull" /\ pc'[u].response = c)
        BY <2>4, <3>2 DEF Idle
      <3>4. /\ \A u \in Task : pc'[u].at = "pull" /\ pc'[u].response = c =>
                  /\ b.live /\ pc'[u].index <= Len(b.data)
                  /\ May(pc'[u].what, handed'[c], b.used)
            /\ \A u, v \in Task : /\ pc'[u].at = "pull" /\ pc'[u].response = c
                                  /\ pc'[v].at = "pull" /\ pc'[v].response = c
                                  => u = v
        BY <3>3
      <3>5. \A u \in Task : \/ pc'[u] = pc[u]
                            \/ /\ pc[u].at # "headers" /\ pc'[u].at # "headers"
                               /\ pc'[u].at = "pull" => pc'[u].response = c
        BY <1>1, <2>4 DEF Idle
      <3>6. /\ files' = files /\ leaked' = leaked
            /\ \A d \in Conn \ {c} : read'[d] = read[d] /\ handed'[d] = handed[d]
        BY <1>1, <1>4, <1>12, <2>2, <2>6, GivenOut
      <3>7. Kept(handed'[c], b.used)
        <4>1. Kept(handed[c], response[c].used) /\ response[c].used
          BY <1>1, <1>2, <1>13, <2>6, Exact DEF May
        <4> QED BY <1>1, <2>2, <2>3, <4>1, GivenOut
      <3>8. response' = [response EXCEPT ![c] = b]
        BY <2>2
      <3>9. BodyStep(c, b)
        BY <1>1, <2>3, <2>6, <3>1, <3>4, <3>5, <3>6, <3>7, <3>8 DEF BodyStep
      <3> QED BY <1>1, <2>6, <3>9, BodyAlone
    <2> QED BY <1>4, <2>5, <2>6 DEF FInv
  <1>14. CASE what # "read" /\ grown.live /\ grown.calls
    <2>1. /\ response' = [response EXCEPT ![c] = grown] /\ pc' = pc /\ handed' = handed
      BY <1>1, <1>2, <1>3, <1>5, <1>7, <1>14 DEF ChunkComes
    <2>2. Base'
      <3>1. \A u \in Task : pc'[u] = pc[u] \/ (pc'[u].at = "pull" => pc'[u].response = c)
        BY <2>1
      <3>2. /\ handed' \in [Conn \cup Request -> Seq(To)] /\ \A q \in Request : handed'[q] = handed[q]
            /\ pc' \in [Task -> Place]
        BY <1>1, <2>1, Made
      <3> QED BY <1>1, <1>4, <1>8, <1>9, <1>10, <1>11, <2>1, <3>1, <3>2, BodyBase
    <2>3. ASSUME Undisturbed PROVE Undisturbed'
      <3>1. grown.data = [i \in 1 .. read'[c] |-> <<c, i>>] /\ grown.index <= Len(grown.data)
        BY <1>8, <1>12, <2>3
      <3>2. \A u \in Task : pc'[u].at = "pull" /\ pc'[u].response = c =>
                /\ grown.live /\ pc'[u].index <= Len(grown.data)
                /\ May(pc'[u].what, handed'[c], grown.used)
        <4>1. ASSUME NEW u \in Task, pc[u].at = "pull", pc[u].response = c
              PROVE  /\ pc[u].index \in Nat /\ pc[u].index <= Len(response[c].data)
                     /\ May(pc[u].what, handed[c], response[c].used)
          BY <1>1, <2>3, <4>1, Exact, PullIs
        <4>2. /\ Len(response[c].data) <= Len(grown.data) /\ Len(response[c].data) \in Nat
              /\ Len(grown.data) \in Nat /\ grown.used = response[c].used /\ grown.live
          BY <1>5, <1>6, <1>8, <1>14
        <4>3. ASSUME NEW u \in Task, pc[u].at = "pull", pc[u].response = c
              PROVE  /\ grown.live /\ pc[u].index <= Len(grown.data)
                     /\ May(pc[u].what, handed[c], grown.used)
          BY ONLY <4>1, <4>2, <4>3
        <4> QED BY ONLY <2>1, <4>3
      <3>3. \A u, v \in Task : /\ pc'[u].at = "pull" /\ pc'[u].response = c
                              /\ pc'[v].at = "pull" /\ pc'[v].response = c
                              => u = v
        BY <1>1, <2>1, <2>3, Exact
      <3>4. /\ files' = files /\ leaked' = leaked
            /\ \A d \in Conn \ {c} : read'[d] = read[d] /\ handed'[d] = handed[d]
            /\ \A u \in Task : pc'[u] = pc[u]
        BY <1>4, <1>12, <2>1, <2>3
      <3>5. Kept(handed'[c], grown.used)
        BY <1>1, <1>8, <2>1, <2>3, Exact
      <3>6. response' = [response EXCEPT ![c] = grown]
        BY <2>1
      <3>7. BodyStep(c, grown)
        BY <1>1, <1>8, <2>3, <3>1, <3>2, <3>3, <3>4, <3>5, <3>6 DEF BodyStep
      <3> QED BY <1>1, <2>3, <3>7, BodyAlone
    <2> QED BY <1>4, <2>2, <2>3 DEF FInv
  <1>15. CASE what # "read" /\ ~(grown.live /\ grown.calls)
    <2>1. Finish(t, c, what, grown)
      BY <1>1, <1>2, <1>3, <1>5, <1>7, <1>15 DEF ChunkComes
    <2>2. PICK used : used = IF what = "text" THEN TRUE ELSE grown.used
      OBVIOUS
    <2>3. PICK b : b = [grown EXCEPT !.live = FALSE, !.used = used]
      OBVIOUS
    <2>4. used \in BOOLEAN /\ ~grown.calls
      BY <1>8, <1>15, <2>2 DEF Body
    <2>5. /\ response' = [response EXCEPT ![c] = b] /\ pc' = [pc EXCEPT ![t] = Idle]
          /\ HandOut(c, "whole") \/ handed' = handed
      BY <2>1, <2>2, <2>3 DEF Finish
    <2>6. b \in Body /\ b.made /\ b.fd = response[c].fd /\ b.live = b.calls
      BY <1>8, <2>3, <2>4 DEF Body
    <2>7. /\ handed' \in [Conn \cup Request -> Seq(To)]
          /\ \A q \in Request : handed'[q] = handed[q]
      BY <1>1, <2>5, GivenOut
    <2>8. Base'
      <3>1. /\ pc' \in [Task -> Place]
            /\ \A u \in Task : pc'[u] = pc[u] \/ (pc'[u].at = "pull" => pc'[u].response = c)
        BY <1>1, <2>5, Made, NewPlaces DEF Place
      <3> QED BY <1>1, <1>4, <1>9, <1>10, <1>11, <2>5, <2>6, <2>7, <3>1, BodyBase
    <2>9. ~Undisturbed
      BY <1>8, <1>12, <1>15
    <2> QED BY <1>4, <2>8, <2>9 DEF FInv
  <1> QED BY <1>13, <1>14, <1>15

(* cancel() of a body. *)
LEMMA CancelKeeps ==
    ASSUME FetchAssumption, FInv, NEW t \in Task, NEW c \in Conn, Cancel(t, c)
    PROVE  FInv'
  <1>1. response[c].made /\ Touch(c) /\ pc' = pc /\ UNCHANGED <<read, request, aborted, handed, leaked>>
    BY DEF Cancel
  <1>2. overlapped' \subseteq Conn
    BY <1>1, Made, Touched
  <1>3. Known' = Known
    BY <1>1 DEF Known
  <1>4. /\ response[c].calls \in BOOLEAN
        /\ response[c].live = response[c].calls
    BY <1>1, Made DEF Body
  <1>5. PICK b : b = [response[c] EXCEPT !.used = TRUE, !.live = FALSE, !.calls = FALSE]
    OBVIOUS
  <1>6. /\ b \in Body /\ b.made /\ b.fd = response[c].fd /\ b.live = FALSE /\ b.calls = FALSE
        /\ b.data = response[c].data /\ b.index = response[c].index /\ b.used = TRUE
    BY <1>1, <1>5, Made DEF Body
  <1>7. /\ response' = [response EXCEPT ![c] = b]
        /\ \/ response[c].calls /\ Close(response[c].fd) /\ cut' = cut \cup {c}
           \/ ~response[c].calls /\ files' = files /\ cut' = cut
    <2>1. CASE response[c].calls
      BY <1>1, <1>5, <2>1, Made DEF Cancel
    <2>2. CASE ~response[c].calls
      <3>1. b = [response[c] EXCEPT !.used = TRUE]
        BY <1>1, <1>4, <1>5, <2>2, Made DEF Body
      <3> QED BY <1>1, <2>2, <3>1, Made DEF Cancel
    <2> QED BY <2>1, <2>2
  <1>8. Base'
    <2>1. read' \in [Conn -> -1 .. MaxChunks] /\ pc' \in [Task -> Place] /\ cut' \subseteq Conn
      BY <1>1, <1>7, Made
    <2>2. handed' \in [Conn \cup Request -> Seq(To)] /\ \A q \in Request : handed'[q] = handed[q]
      BY <1>1, Made
    <2>3. \A u \in Task : pc'[u] = pc[u]
      BY <1>1
    <2>4. /\ files' = files \/ Close(response[c].fd)
          /\ UNCHANGED <<request, aborted, leaked>>
          /\ b.live = b.calls
      BY <1>1, <1>6, <1>7
    <2> QED BY <1>1, <1>2, <1>3, <1>6, <1>7, <2>1, <2>2, <2>3, <2>4, BodyBase
  <1>9. ASSUME overlapped' = {} PROVE Undisturbed'
    <2>1. Undisturbed /\ \A u \in Task : ~(pc[u].at = "pull" /\ pc[u].response = c)
      BY <1>1, <1>9, Made, Touched DEF FInv
    <2>2. b.data = [i \in 1 .. read'[c] |-> <<c, i>>] /\ b.index <= Len(b.data)
      BY <1>1, <1>6, <2>1, Exact
    <2>3. Kept(handed'[c], b.used)
      BY <1>1, <1>6, <2>1, Exact DEF Kept
    <2>4. ~(\E u \in Task : pc'[u].at = "pull" /\ pc'[u].response = c)
      BY <1>1, <2>1
    <2>5. /\ \A u \in Task : pc'[u].at = "pull" /\ pc'[u].response = c =>
                /\ b.live /\ pc'[u].index <= Len(b.data)
                /\ May(pc'[u].what, handed'[c], b.used)
          /\ \A u, v \in Task : /\ pc'[u].at = "pull" /\ pc'[u].response = c
                                /\ pc'[v].at = "pull" /\ pc'[v].response = c
                                => u = v
      BY <2>4
    <2>6. /\ \A d \in Conn \ {c} : read'[d] = read[d] /\ handed'[d] = handed[d]
          /\ \A u \in Task : pc'[u] = pc[u]
          /\ leaked' = leaked /\ response' = [response EXCEPT ![c] = b]
      BY <1>1, <1>7
    <2>7. \/ files' = files /\ b.live = response[c].live
          \/ Close(response[c].fd) /\ response[c].live /\ ~b.live
      BY <1>4, <1>6, <1>7
    <2>8. b \in Body /\ b.made /\ b.fd = response[c].fd
      BY <1>6
    <2>9. BodyStep(c, b)
      BY <1>1, <2>1, <2>2, <2>3, <2>5, <2>6, <2>7, <2>8 DEF BodyStep
    <2> QED BY <1>1, <2>1, <2>9, BodyAlone
  <1> QED BY <1>8, <1>9 DEF FInv

-----------------------------------------------------------------------------
(* The theorem                                                             *)

LEMMA FetchStep == ASSUME FetchAssumption, FInv, [Next]_vars PROVE FInv'
  <1>1. CASE UNCHANGED vars
    <2>1. /\ UNCHANGED <<files, read, response, overlapped, leaked>>
          /\ request' = request /\ handed' = handed /\ pc' = pc /\ aborted' = aborted /\ cut' = cut
      BY <1>1 DEF vars
    <2>2. /\ request \in [Request -> [used : BOOLEAN, locked : BOOLEAN, read : BOOLEAN]]
          /\ handed \in [Conn \cup Request -> Seq(To)] /\ pc \in [Task -> Place]
          /\ aborted \in BOOLEAN /\ cut \subseteq Conn
      BY DEF FInv, Base, Types, Place
    <2>3. RequestsTaken'
      BY <2>1 DEF FInv, Base, RequestsTaken
    <2> QED BY <2>1, <2>2, <2>3, QuietStep
  <1>2. ASSUME NEW t \in Task, Begins(t) PROVE FInv'
    <2>1. ASSUME NEW c \in Conn,
                 \/ GetReader(t, c) \/ ReleaseLock(t, c) \/ Read(t, c) \/ Cancel(t, c)
                 \/ \E what \in {"text", "clone"} : Consume(t, c, what)
          PROVE  FInv'
      BY <2>1, LockKeeps, ReadKeeps, CancelKeeps, ConsumeKeeps
    <2> QED BY <1>2, <2>1, RequestsKeep DEF Begins
  <1>3. ASSUME NEW t \in Task, Continues(t) PROVE FInv'
    BY <1>3, RequestsKeep, ConnectKeeps, RoundEnds, HeaderKeeps, RespondKeeps,
       ChunkKeeps, EndKeeps, PullAbortKeeps DEF Continues
  <1>4. ASSUME Abort PROVE FInv'
    <2>1. CASE Task = {}
      <3>1. /\ UNCHANGED <<files, read, response, overlapped, leaked>>
            /\ request' = request /\ handed' = handed /\ pc' = pc /\ aborted' = TRUE /\ cut' = cut
        BY <1>4 DEF Abort
      <3>2. /\ request \in [Request -> [used : BOOLEAN, locked : BOOLEAN, read : BOOLEAN]]
            /\ handed \in [Conn \cup Request -> Seq(To)] /\ pc \in [Task -> Place] /\ cut \subseteq Conn
        BY DEF FInv, Base, Types, Place
      <3>3. RequestsTaken'
        BY <3>1 DEF FInv, Base, RequestsTaken
      <3> QED BY <3>1, <3>2, <3>3, QuietStep
    <2>2. CASE Task # {}
      BY <1>4, <2>2, RequestsKeep
    <2> QED BY <2>1, <2>2
  <1> QED BY <1>1, <1>2, <1>3, <1>4 DEF Next

(* The invariant gives what the runs check. *)
LEMMA FetchHolds == ASSUME FetchAssumption, FInv PROVE TypeOK /\ BodiesHeld
  <1>1. Types /\ Responses
    BY DEF FInv, Base
  <1>2. TypeOK
    <2>1. ASSUME NEW c \in Conn
          PROVE  /\ response[c].fd \in FD \cup {NoFD}
                 /\ Range(response[c].data) \subseteq Conn \X (1 .. MaxChunks)
      <3>1. response[c] \in Body
        BY <1>1 DEF Types
      <3>2. PICK S, data : S = Conn \X (1 .. MaxChunks) /\ data = response[c].data
        OBVIOUS
      <3>3. data \in Seq(S)
        BY <3>1, <3>2 DEF Body
      <3>4. Range(data) \subseteq S
        BY <3>3 DEF Range
      <3> QED BY <3>1, <3>2, <3>4 DEF Body
    <2> QED BY <1>1, <2>1 DEF TypeOK, Types
  <1>3. SocketsHeld
    <2> SUFFICES ASSUME overlapped = {}
                 PROVE  /\ LiveOpen
                        /\ \A fd \in FD : files[fd] \in Conn \ leaked =>
                              Cardinality({c \in Conn : Live(c) /\ response[c].fd = fd}
                                  \cup {t \in Task : pc[t].at = "headers" /\ pc[t].fd = fd}) = 1
      BY DEF SocketsHeld, LiveOpen
    <2>1. LiveOpen /\ FetchersHold /\ SocketsOwned
      BY DEF FInv, Undisturbed
    <2>2. ASSUME NEW fd \in FD, files[fd] \in Conn \ leaked
          PROVE  Cardinality({c \in Conn : Live(c) /\ response[c].fd = fd}
                     \cup {t \in Task : pc[t].at = "headers" /\ pc[t].fd = fd}) = 1
      <3> DEFINE Bodies == {c \in Conn : Live(c) /\ response[c].fd = fd}
                 Fetchers == {t \in Task : pc[t].at = "headers" /\ pc[t].fd = fd}
      <3>1. /\ \A c \in Bodies : c = files[fd] /\ response[files[fd]].made
            /\ \A t \in Fetchers : ~response[files[fd]].made
            /\ \A t, u \in Fetchers : t = u
        BY <1>1, <2>1 DEF LiveOpen, FetchersHold, Waits, Responses, Live
      <3>2. Bodies # {} \/ Fetchers # {}
        BY <2>1, <2>2, Bounds DEF SocketsOwned, Waits
      <3>3. \E x : Bodies \cup Fetchers = {x}
        <4>1. CASE Bodies # {}
          <5>1. Fetchers = {} /\ Bodies = {files[fd]}
            <6> HIDE DEF Bodies, Fetchers
            <6> QED BY <3>1, <4>1
          <5> HIDE DEF Bodies, Fetchers
          <5> QED BY <5>1
        <4>2. CASE Bodies = {}
          <5> HIDE DEF Bodies, Fetchers
          <5>1. PICK t : t \in Fetchers
            BY <3>2, <4>2
          <5>2. Fetchers = {t}
            BY <3>1, <5>1
          <5> QED BY <4>2, <5>2
        <4> QED BY <4>1, <4>2
      <3> HIDE DEF Bodies, Fetchers
      <3>4. Cardinality(Bodies \cup Fetchers) = 1
        BY <3>3, FS_Singleton
      <3> QED BY <3>4 DEF Bodies, Fetchers
    <2> QED BY <2>1, <2>2
  <1>4. BodyTakenOnce
    <2>1. \A q \in Request : WholeOnce(handed[q])
      BY DEF FInv, Base, RequestsTaken, Kept
    <2>2. ASSUME overlapped = {}, NEW c \in Conn
          PROVE  /\ response[c].made => response[c].data = [i \in 1 .. read[c] |-> <<c, i>>]
                 /\ response[c].index <= Len(response[c].data)
                 /\ WholeOnce(handed[c])
      <3>1. BodiesExact
        BY <2>2 DEF FInv, Undisturbed
      <3>2. CASE response[c].made
        BY <3>1, <3>2 DEF BodiesExact, Kept
      <3>3. CASE ~response[c].made
        <4>1. response[c] = NoResponse /\ WholeOnce(handed[c])
          BY <3>1, <3>3 DEF BodiesExact, Kept
        <4>2. NoResponse.index = 0 /\ NoResponse.data = <<>>
          BY DEF NoResponse
        <4>3. 0 <= Len(<<>>)
          OBVIOUS
        <4> QED BY <3>3, <4>1, <4>2, <4>3
      <3> QED BY <3>2, <3>3
    <2> QED BY <2>1, <2>2 DEF BodyTakenOnce
  <1> QED BY <1>2, <1>3, <1>4 DEF BodiesHeld

(* Whatever the tasks do with fetches and bodies, until a response is used *)
(* while a pull of it is blocked every descriptor is that of one waiting   *)
(* fetch or one live body, a body is what came on its own connection with  *)
(* nothing missing, and what text() or its like takes whole was out to no  *)
(* reader and to no other text() before.  So it is with the body a request *)
(* gives to text() or to a fetch, in any case.  That a body taken whole is *)
(* given out again by a reader or as a copy is what the code does.         *)
THEOREM BodiesAreHeld == ASSUME FetchAssumption PROVE Spec => [](TypeOK /\ BodiesHeld)
  <1>1. Init => FInv
    BY FetchInit
  <1>2. FInv /\ [Next]_vars => FInv'
    BY FetchStep
  <1>3. FInv => TypeOK /\ BodiesHeld
    BY FetchHolds
  <1> QED BY <1>1, <1>2, <1>3, PTL DEF Spec

-----------------------------------------------------------------------------
(* Headers.  Numbers, recursion and sequences first.                       *)

(* A set of numbers has a least one. *)
LEMMA Least ==
    ASSUME NEW S \in SUBSET Nat, S # {}
    PROVE  \E x \in S : \A y \in S : x <= y
  <1> DEFINE R == {p \in Nat \X Nat : p[1] < p[2]}
  <1>1. IsWellFoundedOn(R, Nat)
    BY NatLessThanWellFounded DEF OpToRel
  <1>2. S \subseteq Nat
    OBVIOUS
  <1> HIDE DEF R
  <1>3. \E x \in S : \A y \in S : ~(<<y, x>> \in R)
    BY ONLY <1>1, <1>2, S # {}, WFMin, Zenon
  <1>4. PICK x \in S : \A y \in S : ~(<<y, x>> \in R)
    BY <1>3
  <1>5. ASSUME NEW y \in S
        PROVE  x <= y
    <2>1. x \in Nat /\ y \in Nat
      BY <1>2
    <2>2. <<y, x>> \in Nat \X Nat /\ <<y, x>>[1] = y /\ <<y, x>>[2] = x
      BY <2>1
    <2>3. ~(y < x)
      BY <1>4, <2>2 DEF R
    <2> QED BY <2>1, <2>3
  <1> QED BY <1>5

(* Induction up to a bound, on a set of numbers. *)
LEMMA Climb ==
    ASSUME NEW n \in Nat, NEW S \in SUBSET Nat, 0 \in S, \A m \in 1 .. n : m - 1 \in S => m \in S
    PROVE  n \in S
  <1> DEFINE Bad == {m \in 0 .. n : m \notin S}
  <1>1. ASSUME Bad # {}
        PROVE  FALSE
    <2>1. Bad \in SUBSET Nat
      OBVIOUS
    <2>2. PICK m \in Bad : \A k \in Bad : m <= k
      <3> HIDE DEF Bad
      <3> QED BY <1>1, <2>1, Least
    <2>3. m \in 1 .. n /\ m - 1 \in 0 .. n /\ ~(m <= m - 1)
      OBVIOUS
    <2>4. m - 1 \in S
      BY <2>2, <2>3
    <2> QED BY <2>3, <2>4
  <1> QED
    <2>1. n \in 0 .. n /\ n \notin Bad
      BY <1>1
    <2> QED BY <2>1

(* A function that starts with a and goes on by g is defined. *)
Follows(f, n, a, g) == f[0] = a /\ \A i \in 1 .. n : f[i] = g[i][f[i - 1]]

LEMMA GoesOn ==
    ASSUME NEW n \in Nat, NEW T, NEW g \in [1 .. n -> [T -> T]],
           NEW a \in T
    PROVE  \E f \in [0 .. n -> T] : Follows(f, n, a, g)
  <1> DEFINE Upto(m, f) == f[0] = a /\ \A i \in 1 .. m : f[i] = g[i][f[i - 1]]
             S == {m \in 0 .. n : \E f \in [0 .. m -> T] : Upto(m, f)}
  <1>1. 0 \in S
    <2> DEFINE h == [i \in 0 .. 0 |-> a]
    <2>1. h \in [0 .. 0 -> T] /\ Upto(0, h)
      OBVIOUS
    <2>2. 0 \in 0 .. n
      OBVIOUS
    <2> HIDE DEF h
    <2>3. \E f \in [0 .. 0 -> T] : Upto(0, f)
      BY <2>1
    <2> QED BY <2>2, <2>3
  <1>2. \A m \in 1 .. n : m - 1 \in S => m \in S
    <2> SUFFICES ASSUME NEW m \in 1 .. n, m - 1 \in S
                 PROVE  m \in S
      OBVIOUS
    <2>1. PICK f \in [0 .. m - 1 -> T] : Upto(m - 1, f)
      OBVIOUS
    <2> DEFINE h == [i \in 0 .. m |-> IF i = m THEN g[m][f[m - 1]] ELSE f[i]]
    <2>2. \A i \in 0 .. m - 1 : h[i] = f[i] /\ f[i] \in T
      OBVIOUS
    <2>3. h[m] = g[m][f[m - 1]] /\ h[m] \in T /\ h[m - 1] = f[m - 1]
      <3>1. m - 1 \in 0 .. m - 1 /\ m \in 0 .. m /\ m - 1 \in 0 .. m /\ m # m - 1
        OBVIOUS
      <3>2. f[m - 1] \in T
        BY <3>1
      <3> QED BY <3>1, <3>2
    <2>4. h \in [0 .. m -> T]
      <3>1. \A i \in 0 .. m : h[i] \in T
        <4> TAKE i \in 0 .. m
        <4>1. i = m \/ i \in 0 .. m - 1
          OBVIOUS
        <4> HIDE DEF h
        <4> QED BY <2>2, <2>3, <4>1
      <3> QED BY <3>1
    <2> HIDE DEF h
    <2>5. \A i \in 1 .. m : h[i] = g[i][h[i - 1]]
      <3> TAKE i \in 1 .. m
      <3>1. i = m \/ (i \in 1 .. m - 1 /\ i \in 0 .. m - 1 /\ i - 1 \in 0 .. m - 1)
        OBVIOUS
      <3> QED BY <2>1, <2>2, <2>3, <3>1
    <2>6. h[0] = a
      BY <2>1, <2>2
    <2>7. m \in 0 .. n /\ Upto(m, h)
      BY <2>5, <2>6
    <2> QED BY <2>4, <2>7
  <1>3. S \in SUBSET Nat
    OBVIOUS
  <1>4. n \in S
    <2> HIDE DEF S
    <2> QED BY ONLY n \in Nat, <1>1, <1>2, <1>3, Climb
  <1> QED BY <1>4 DEF Follows

(* When two sequences are equal. *)
LEMMA SameSeq ==
    ASSUME NEW T, NEW a \in Seq(T), NEW b \in Seq(T), Len(a) = Len(b),
           \A i \in 1 .. Len(a) : a[i] = b[i]
    PROVE  a = b
  OBVIOUS

LEMMA NoneIsEmpty ==
    ASSUME NEW T, NEW s \in Seq(T), Len(s) = 0
    PROVE  s = <<>>
  OBVIOUS

LEMMA SeqOver ==
    ASSUME NEW T, NEW U, U \subseteq T, NEW s \in Seq(U)
    PROVE  s \in Seq(T)
  <1>1. \A i \in 1 .. Len(s) : s[i] \in T
    OBVIOUS
  <1>2. s = [i \in 1 .. Len(s) |-> s[i]] /\ Len(s) \in Nat
    OBVIOUS
  <1> QED BY <1>1, <1>2

(* Sequences laid end to end. *)
LEMMA FlattenIs ==
    ASSUME NEW T, NEW s \in Seq(Seq(T))
    PROVE  \E f \in [0 .. Len(s) -> Seq(T)] :
              /\ f[0] = <<>> /\ \A i \in 1 .. Len(s) : f[i] = f[i - 1] \o s[i]
              /\ FlattenSeq(s) = f[Len(s)]
  <1>n. PICK n : n = Len(s)
    OBVIOUS
  <1>a. PICK A : A = Seq(T)
    OBVIOUS
  <1> DEFINE g == [i \in 1 .. n |-> [t \in A |-> t \o s[i]]]
  <1>1. n \in Nat /\ \A i \in 1 .. n : s[i] \in A
    BY <1>n, <1>a
  <1>2. g \in [1 .. n -> [A -> A]]
    <2>1. \A i \in 1 .. n : \A t \in A : t \o s[i] \in A
      BY <1>1, <1>a
    <2> QED BY <2>1
  <1>3. PICK f \in [0 .. n -> A] : f[0] = <<>> /\ \A i \in 1 .. n : f[i] = g[i][f[i - 1]]
    <2>1. <<>> \in A /\ n \in Nat
      BY <1>1, <1>a
    <2> HIDE DEF g
    <2>2. \E f \in [0 .. n -> A] : Follows(f, n, <<>>, g)
      BY ONLY <1>2, <2>1, GoesOn
    <2> QED BY <2>2 DEF Follows
  <1>4. \A i \in 1 .. n : i - 1 \in 0 .. n /\ f[i - 1] \in A /\ f[i] = f[i - 1] \o s[i]
    <2> TAKE i \in 1 .. n
    <2>1. i - 1 \in 0 .. n
      BY <1>1
    <2> QED BY <1>3, <2>1
  <1> HIDE DEF g
  <1>5. CASE n = 0
    <2>1. Len(s) = 0 /\ s = <<>>
      BY <1>n, <1>5, NoneIsEmpty
    <2>2. FlattenSeq(s) = <<>>
      BY <2>1 DEF FlattenSeq
    <2> QED BY <1>n, <1>a, <1>3, <1>4, <2>1, <2>2
  <1>6. CASE n # 0
    <2> DEFINE Is(h) == h = [i \in 1 .. n |-> IF i = 1 THEN s[i] ELSE h[i - 1] \o s[i]]
               k == [i \in 1 .. n |-> f[i]]
               c == CHOOSE h : Is(h)
    <2>1. Is(k)
      <3>1. ASSUME NEW i \in 1 .. n
            PROVE  f[i] = IF i = 1 THEN s[i] ELSE k[i - 1] \o s[i]
        <4>1. CASE i = 1
          <5>1. f[1] = f[0] \o s[1] /\ s[1] \in A
            <6>1. 1 \in 1 .. n /\ 1 - 1 = 0
              BY <4>1
            <6> QED BY <1>1, <1>4, <6>1
          <5>2. \A t \in A : <<>> \o t = t
            BY <1>a
          <5> QED BY <1>3, <4>1, <5>1, <5>2
        <4>2. CASE i # 1
          <5>1. i - 1 \in 1 .. n
            BY <1>1, <4>2
          <5>2. f[i] = f[i - 1] \o s[i]
            BY <1>4
          <5> QED BY <4>2, <5>1, <5>2
        <4> QED BY <4>1, <4>2
      <3> QED BY <3>1
    <2>2. Is(c)
      <3> HIDE DEF k, Is
      <3> QED BY <2>1
    <2>3. \A i \in 1 .. n : c[i] = IF i = 1 THEN s[i] ELSE c[i - 1] \o s[i]
      <3> HIDE DEF c
      <3> QED BY <2>2
    <2> HIDE DEF c
    <2> DEFINE S == {i \in 0 .. n : i = 0 \/ c[i] = f[i]}
    <2>4. 0 \in S
      BY <1>1
    <2>5. \A m \in 1 .. n : m - 1 \in S => m \in S
      <3> SUFFICES ASSUME NEW m \in 1 .. n, m - 1 \in S
                   PROVE  m \in S
        OBVIOUS
      <3>1. f[m] = f[m - 1] \o s[m] /\ s[m] \in A
        BY <1>1, <1>4
      <3>2. CASE m = 1
        <4>1. \A t \in A : <<>> \o t = t
          BY <1>a
        <4>2. f[1] = f[0] \o s[1] /\ s[1] \in A /\ c[1] = s[1]
          BY <2>3, <3>1, <3>2
        <4>3. c[m] = f[m]
          BY <1>3, <3>2, <4>1, <4>2
        <4> QED BY <4>3
      <3>3. CASE m # 1
        <4>1. c[m] = c[m - 1] \o s[m] /\ c[m - 1] = f[m - 1]
          <5>1. c[m - 1] = f[m - 1]
            BY <3>3
          <5> QED BY <2>3, <3>3, <5>1
        <4>2. c[m] = f[m]
          BY <3>1, <4>1
        <4> QED BY <4>2
      <3> QED BY <3>2, <3>3
    <2>6. n \in S
      <3>1. n \in Nat
        BY <1>1
      <3>2. S \in SUBSET Nat
        OBVIOUS
      <3> HIDE DEF S
      <3> QED BY ONLY <3>1, <3>2, <2>4, <2>5, Climb
    <2>7. c[n] = f[n]
      BY <1>1, <1>6, <2>6 DEF S
    <2>8. FlattenSeq(s) = c[n]
      BY <1>n, <1>6 DEF FlattenSeq, c
    <2> QED BY <1>n, <1>a, <1>3, <1>4, <2>7, <2>8
  <1> QED BY <1>5, <1>6

(* Laying one more at the end. *)
LEMMA FlattenAppend ==
    ASSUME NEW T, NEW s \in Seq(Seq(T)), NEW x \in Seq(T)
    PROVE  FlattenSeq(Append(s, x)) = FlattenSeq(s) \o x
  <1>n. PICK n : n = Len(s)
    OBVIOUS
  <1>t. PICK t : t = Append(s, x)
    OBVIOUS
  <1>1. /\ t \in Seq(Seq(T)) /\ Len(t) = n + 1 /\ n \in Nat /\ t[n + 1] = x
        /\ \A i \in 1 .. n : t[i] = s[i]
    BY <1>n, <1>t
  <1>2. PICK f \in [0 .. Len(s) -> Seq(T)] :
              /\ f[0] = <<>> /\ \A i \in 1 .. Len(s) : f[i] = f[i - 1] \o s[i]
              /\ FlattenSeq(s) = f[Len(s)]
    BY FlattenIs
  <1>3. PICK h \in [0 .. Len(t) -> Seq(T)] :
              /\ h[0] = <<>> /\ \A i \in 1 .. Len(t) : h[i] = h[i - 1] \o t[i]
              /\ FlattenSeq(t) = h[Len(t)]
    BY <1>1, FlattenIs
  <1> DEFINE S == {i \in 0 .. n : h[i] = f[i]}
  <1>4. 0 \in S
    BY <1>n, <1>1, <1>2, <1>3
  <1>5. \A m \in 1 .. n : m - 1 \in S => m \in S
    <2> SUFFICES ASSUME NEW m \in 1 .. n, m - 1 \in S
                 PROVE  m \in S
      OBVIOUS
    <2>1. m \in 1 .. Len(s) /\ m \in 1 .. Len(t) /\ m \in 0 .. n
      BY <1>n, <1>1
    <2>2. h[m] = h[m - 1] \o t[m] /\ f[m] = f[m - 1] \o s[m] /\ t[m] = s[m]
      BY <1>1, <1>2, <1>3, <2>1
    <2>3. h[m - 1] = f[m - 1]
      OBVIOUS
    <2> QED BY <2>1, <2>2, <2>3
  <1>6. n \in S
    <2>1. n \in Nat
      BY <1>1
    <2>2. S \in SUBSET Nat
      OBVIOUS
    <2> HIDE DEF S
    <2> QED BY ONLY <2>1, <2>2, <1>4, <1>5, Climb
  <1>7. h[n] = f[n]
    BY <1>6
  <1>8. h[n + 1] = h[n] \o t[n + 1]
    <2>1. PICK q : q = n + 1
      OBVIOUS
    <2>2. q \in 1 .. Len(t) /\ q - 1 = n
      BY <1>1, <2>1
    <2>3. h[q] = h[q - 1] \o t[q]
      BY <1>3, <2>2
    <2> QED BY <2>1, <2>2, <2>3
  <1> QED BY <1>n, <1>t, <1>1, <1>2, <1>3, <1>7, <1>8

(* The beginning of a sequence, and a piece after it. *)
LEMMA Onward ==
    ASSUME NEW T, NEW s \in Seq(T), NEW m \in 0 .. Len(s), NEW k \in 0 .. Len(s) - m
    PROVE  /\ SubSeq(s, m + 1, m + k) \in Seq(T) /\ Len(SubSeq(s, m + 1, m + k)) = k
           /\ \A i \in 1 .. k : SubSeq(s, m + 1, m + k)[i] = s[m + i]
           /\ SubSeq(s, 1, m) \o SubSeq(s, m + 1, m + k) = SubSeq(s, 1, m + k)
  <1>1. /\ SubSeq(s, m + 1, m + k) \in Seq(T) /\ Len(SubSeq(s, m + 1, m + k)) = k
        /\ \A i \in 1 .. k : SubSeq(s, m + 1, m + k)[i] = s[m + i]
    OBVIOUS
  <1>2. /\ SubSeq(s, 1, m + k) \in Seq(T) /\ Len(SubSeq(s, 1, m + k)) = m + k
        /\ SubSeq(s, 1, m) \in Seq(T) /\ Len(SubSeq(s, 1, m)) = m
        /\ \A i \in 1 .. m + k : SubSeq(s, 1, m + k)[i] = s[i]
        /\ \A i \in 1 .. m : SubSeq(s, 1, m)[i] = s[i]
    OBVIOUS
  <1>a. PICK a : a = SubSeq(s, 1, m)
    OBVIOUS
  <1>b. PICK b : b = SubSeq(s, m + 1, m + k)
    OBVIOUS
  <1>c. PICK c : c = SubSeq(s, 1, m + k)
    OBVIOUS
  <1>k. m \in Nat /\ k \in Nat
    OBVIOUS
  <1>3. a \in Seq(T) /\ b \in Seq(T) /\ c \in Seq(T) /\ Len(a) = m /\ Len(b) = k /\ Len(c) = m + k
    BY <1>a, <1>b, <1>c, <1>1, <1>2
  <1>4. /\ a \o b \in Seq(T) /\ Len(a \o b) = m + k
        /\ \A i \in 1 .. m : (a \o b)[i] = a[i]
        /\ \A i \in 1 .. k : (a \o b)[m + i] = b[i]
    <2>0. a \o b \in Seq(T) /\ Len(a \o b) = Len(a) + Len(b)
      <3>1. a \in Seq(T) /\ b \in Seq(T)
        BY <1>3
      <3> QED BY ONLY <3>1
    <2>1. a \o b \in Seq(T) /\ Len(a \o b) = m + k
      BY <1>3, <2>0
    <2>2. \A i \in 1 .. m : (a \o b)[i] = a[i]
      BY ONLY <1>3
    <2>3. \A i \in 1 .. k : (a \o b)[m + i] = b[i]
      BY ONLY <1>k, <1>3
    <2> QED BY <2>1, <2>2, <2>3
  <1>5. \A i \in 1 .. m + k : (a \o b)[i] = c[i]
    <2> TAKE i \in 1 .. m + k
    <2>1. CASE i <= m
      <3>1. i \in 1 .. m
        BY <2>1
      <3> QED BY <1>a, <1>c, <1>2, <1>4, <3>1
    <2>2. CASE i > m
      <3>1. PICK j : j = i - m
        OBVIOUS
      <3>2. j \in 1 .. k /\ m + j = i
        BY <2>2, <3>1
      <3>3. (a \o b)[i] = b[j]
        BY <1>4, <3>2
      <3>4. b[j] = s[i] /\ c[i] = s[i]
        BY <1>b, <1>c, <1>1, <1>2, <3>2
      <3> QED BY <3>3, <3>4
    <2>3. i <= m \/ i > m
      BY <1>k
    <2> QED BY ONLY <2>1, <2>2, <2>3
  <1>6. a \o b = c
    BY <1>3, <1>4, <1>5, SameSeq
  <1> QED BY <1>a, <1>b, <1>c, <1>1, <1>6

-----------------------------------------------------------------------------
(* What pieces laid end to end come to.                                    *)

LEMMA FlatTyped ==
    ASSUME NEW T, NEW s \in Seq(Seq(T))
    PROVE  FlattenSeq(s) \in Seq(T)
  <1>1. PICK f \in [0 .. Len(s) -> Seq(T)] : FlattenSeq(s) = f[Len(s)]
    BY FlattenIs
  <1>2. Len(s) \in 0 .. Len(s)
    OBVIOUS
  <1> QED BY <1>1, <1>2

LEMMA FlatOfNone ==
    ASSUME NEW T, NEW s \in Seq(Seq(T)), \A i \in 1 .. Len(s) : s[i] = <<>>
    PROVE  FlattenSeq(s) = <<>>
  <1>n. PICK n : n = Len(s)
    OBVIOUS
  <1>1. PICK f : /\ f[0] = <<>> /\ \A i \in 1 .. n : f[i] = f[i - 1] \o s[i]
                 /\ FlattenSeq(s) = f[n]
    BY <1>n, FlattenIs
  <1> DEFINE S == {i \in 0 .. n : f[i] = <<>>}
  <1>2. n \in Nat /\ S \in SUBSET Nat /\ 0 \in S
    BY <1>n, <1>1
  <1>3. \A m \in 1 .. n : m - 1 \in S => m \in S
    <2> SUFFICES ASSUME NEW m \in 1 .. n, m - 1 \in S
                 PROVE  m \in S
      OBVIOUS
    <2>1. f[m] = f[m - 1] \o s[m] /\ s[m] = <<>> /\ f[m - 1] = <<>>
      BY <1>n, <1>1
    <2>2. f[m] = <<>>
      BY <2>1
    <2> QED BY <2>2
  <1>4. n \in S
    <2> HIDE DEF S
    <2> QED BY ONLY <1>2, <1>3, Climb
  <1> QED BY <1>1, <1>4

LEMMA FlatOfOne ==
    ASSUME NEW T, NEW s \in Seq(Seq(T)), NEW k \in 1 .. Len(s),
           \A i \in 1 .. Len(s) : i # k => s[i] = <<>>
    PROVE  FlattenSeq(s) = s[k]
  <1>n. PICK n : n = Len(s)
    OBVIOUS
  <1>1. PICK f : /\ f[0] = <<>> /\ \A i \in 1 .. n : f[i] = f[i - 1] \o s[i]
                 /\ FlattenSeq(s) = f[n]
    BY <1>n, FlattenIs
  <1>0. s[k] \in Seq(T) /\ n \in Nat /\ k \in 1 .. n
    BY <1>n
  <1> DEFINE S == {i \in 0 .. n : f[i] = IF i < k THEN <<>> ELSE s[k]}
  <1>2. S \in SUBSET Nat /\ 0 \in S
    BY <1>0, <1>1
  <1>3. \A m \in 1 .. n : m - 1 \in S => m \in S
    <2> SUFFICES ASSUME NEW m \in 1 .. n, m - 1 \in S
                 PROVE  f[m] = IF m < k THEN <<>> ELSE s[k]
      OBVIOUS
    <2>1. f[m] = f[m - 1] \o s[m] /\ f[m - 1] = IF m - 1 < k THEN <<>> ELSE s[k]
      BY <1>1
    <2>2. CASE m < k
      <3>1. s[m] = <<>> /\ f[m - 1] = <<>>
        BY <1>n, <1>0, <2>1, <2>2
      <3> QED BY <2>1, <2>2, <3>1
    <2>3. CASE m = k
      <3>1. f[m - 1] = <<>> /\ s[m] = s[k]
        BY <1>0, <2>1, <2>3
      <3>2. <<>> \o s[k] = s[k]
        BY <1>0
      <3>3. f[m] = s[k]
        BY <2>1, <3>1, <3>2
      <3> QED BY <2>3, <3>3
    <2>4. CASE m > k
      <3>1. s[m] = <<>> /\ f[m - 1] = s[k]
        BY <1>n, <1>0, <2>1, <2>4
      <3>2. s[k] \o <<>> = s[k]
        BY <1>0
      <3>3. f[m] = s[k]
        BY <2>1, <3>1, <3>2
      <3> QED BY <1>0, <2>4, <3>3
    <2> QED BY <1>0, <2>2, <2>3, <2>4
  <1>4. n \in S
    <2> HIDE DEF S
    <2> QED BY ONLY <1>0, <1>2, <1>3, Climb
  <1> QED BY <1>0, <1>1, <1>4

LEMMA FlatOfSingles ==
    ASSUME NEW T, NEW v \in Seq(T)
    PROVE  FlattenSeq([i \in 1 .. Len(v) |-> <<v[i]>>]) = v
  <1>n. PICK n : n = Len(v)
    OBVIOUS
  <1>s. PICK s : s = [i \in 1 .. n |-> <<v[i]>>]
    OBVIOUS
  <1>0. n \in Nat /\ s \in Seq(Seq(T)) /\ Len(s) = n /\ \A i \in 1 .. n : s[i] = <<v[i]>>
    BY <1>n, <1>s
  <1>1. PICK f : /\ f[0] = <<>> /\ \A i \in 1 .. n : f[i] = f[i - 1] \o s[i]
                 /\ FlattenSeq(s) = f[n]
    BY <1>0, FlattenIs
  <1> DEFINE S == {i \in 0 .. n : f[i] = SubSeq(v, 1, i)}
  <1>2. S \in SUBSET Nat /\ 0 \in S
    <2>1. SubSeq(v, 1, 0) = <<>>
      OBVIOUS
    <2>2. 0 \in 0 .. n
      BY <1>0
    <2>3. f[0] = SubSeq(v, 1, 0)
      BY <1>1, <2>1
    <2> QED BY <1>0, <2>2, <2>3
  <1>3. \A m \in 1 .. n : m - 1 \in S => m \in S
    <2> SUFFICES ASSUME NEW m \in 1 .. n, m - 1 \in S
                 PROVE  f[m] = SubSeq(v, 1, m)
      OBVIOUS
    <2>1. f[m] = SubSeq(v, 1, m - 1) \o <<v[m]>>
      BY <1>0, <1>1
    <2>k. PICK l : l = m - 1
      OBVIOUS
    <2>2. l \in 0 .. Len(v) /\ 1 \in 0 .. Len(v) - l /\ l + 1 = m
      BY <1>0, <1>n, <2>k
    <2>3. /\ SubSeq(v, l + 1, l + 1) \in Seq(T) /\ Len(SubSeq(v, l + 1, l + 1)) = 1
          /\ \A i \in 1 .. 1 : SubSeq(v, l + 1, l + 1)[i] = v[l + i]
          /\ SubSeq(v, 1, l) \o SubSeq(v, l + 1, l + 1) = SubSeq(v, 1, l + 1)
      BY ONLY v \in Seq(T), <2>2, Onward
    <2>4. SubSeq(v, m, m) = <<v[m]>>
      <3>1. SubSeq(v, m, m) \in Seq(T) /\ Len(SubSeq(v, m, m)) = 1 /\ SubSeq(v, m, m)[1] = v[m]
        BY <2>2, <2>3
      <3>2. v[m] \in T
        BY <1>n
      <3>3. <<v[m]>> \in Seq(T) /\ Len(<<v[m]>>) = 1 /\ <<v[m]>>[1] = v[m]
        BY <3>2
      <3>4. \A i \in 1 .. Len(SubSeq(v, m, m)) : SubSeq(v, m, m)[i] = <<v[m]>>[i]
        BY <3>1, <3>3
      <3> QED BY <3>1, <3>3, <3>4, SameSeq
    <2> QED BY <2>1, <2>2, <2>3, <2>4, <2>k
  <1>4. n \in S
    <2> HIDE DEF S
    <2> QED BY ONLY <1>0, <1>2, <1>3, Climb
  <1>5. SubSeq(v, 1, n) = v
    BY <1>n
  <1> QED BY <1>n, <1>s, <1>1, <1>4, <1>5

(* The elements are those of the pieces. *)
LEMMA FlatMembers ==
    ASSUME NEW T, NEW s \in Seq(Seq(T))
    PROVE  /\ \A k \in 1 .. Len(FlattenSeq(s)) :
                 \E i \in 1 .. Len(s) : \E j \in 1 .. Len(s[i]) : FlattenSeq(s)[k] = s[i][j]
           /\ \A i \in 1 .. Len(s) : \A j \in 1 .. Len(s[i]) :
                 \E k \in 1 .. Len(FlattenSeq(s)) : FlattenSeq(s)[k] = s[i][j]
  <1>F. PICK F : F = FlattenSeq(s)
    OBVIOUS
  <1>n. PICK n : n = Len(s)
    OBVIOUS
  <1>1. PICK f \in [0 .. n -> Seq(T)] :
              /\ f[0] = <<>> /\ \A i \in 1 .. n : f[i] = f[i - 1] \o s[i]
              /\ F = f[n]
    BY <1>n, <1>F, FlattenIs
  <1> DEFINE From(m) == \A k \in 1 .. Len(f[m]) : \E i \in 1 .. m : \E j \in 1 .. Len(s[i]) : f[m][k] = s[i][j]
             Into(m) == \A i \in 1 .. m : \A j \in 1 .. Len(s[i]) : \E k \in 1 .. Len(f[m]) : f[m][k] = s[i][j]
             S == {m \in 0 .. n : From(m) /\ Into(m)}
  <1>2. n \in Nat /\ S \in SUBSET Nat /\ 0 \in S
    <2>1. From(0) /\ Into(0)
      <3>1. f[0] = <<>> /\ Len(<<>>) = 0 /\ 1 .. 0 = {}
        BY <1>1
      <3>2. 1 .. Len(f[0]) = {}
        BY ONLY <3>1
      <3> QED BY ONLY <3>1, <3>2
    <2>2. n \in Nat
      BY <1>n
    <2> QED BY <2>1, <2>2
  <1>3. \A m \in 1 .. n : m - 1 \in S => m \in S
    <2> SUFFICES ASSUME NEW m \in 1 .. n, m - 1 \in S
                 PROVE  m \in S
      OBVIOUS
    <2>0. m \in 0 .. n
      BY <1>2
    <2>a. PICK a : a = f[m - 1]
      OBVIOUS
    <2>b. PICK b : b = s[m]
      OBVIOUS
    <2>1. /\ a \in Seq(T) /\ b \in Seq(T) /\ f[m] = a \o b /\ m \in Nat
      <3>1. m \in 1 .. Len(s) /\ m - 1 \in 0 .. n
        BY <1>n, <1>2
      <3>2. s[m] \in Seq(T)
        BY <3>1
      <3>3. f[m - 1] \in Seq(T) /\ f[m] = f[m - 1] \o s[m]
        BY <1>1, <3>1
      <3> QED BY <2>a, <2>b, <3>2, <3>3
    <2>2. /\ Len(a \o b) = Len(a) + Len(b) /\ Len(a) \in Nat /\ Len(b) \in Nat
          /\ \A k \in 1 .. Len(a) : (a \o b)[k] = a[k]
          /\ \A k \in 1 .. Len(b) : (a \o b)[Len(a) + k] = b[k]
      BY <2>1
    <2>3. /\ \A k \in 1 .. Len(a) : \E i \in 1 .. m - 1 : \E j \in 1 .. Len(s[i]) : a[k] = s[i][j]
          /\ \A i \in 1 .. m - 1 : \A j \in 1 .. Len(s[i]) : \E k \in 1 .. Len(a) : a[k] = s[i][j]
      BY <2>a
    <2> HIDE DEF S
    <2>4. From(m)
      <3>0. ASSUME NEW k \in 1 .. Len(f[m])
            PROVE  k \in 1 .. Len(a) + Len(b) /\ f[m][k] = (a \o b)[k]
        BY <2>1, <2>2
      <3> SUFFICES ASSUME NEW k \in 1 .. Len(a) + Len(b)
                   PROVE  \E i \in 1 .. m : \E j \in 1 .. Len(s[i]) : (a \o b)[k] = s[i][j]
        BY <3>0
      <3>1. CASE k <= Len(a)
        <4>1. k \in 1 .. Len(a)
          BY <3>1
        <4>2. PICK i \in 1 .. m - 1 : \E j \in 1 .. Len(s[i]) : a[k] = s[i][j]
          BY <2>3, <4>1
        <4>3. i \in 1 .. m /\ (a \o b)[k] = a[k]
          BY <2>1, <2>2, <4>1
        <4> QED BY <4>2, <4>3
      <3>2. CASE k > Len(a)
        <4>1. PICK j : j = k - Len(a)
          OBVIOUS
        <4>2. j \in 1 .. Len(b) /\ Len(a) + j = k /\ m \in 1 .. m
          BY <2>1, <2>2, <3>2, <4>1
        <4>3. (a \o b)[k] = s[m][j]
          BY <2>b, <2>2, <4>2
        <4> QED BY <2>b, <4>2, <4>3
      <3> QED BY <2>2, <3>1, <3>2
    <2>5. Into(m)
      <3> SUFFICES ASSUME NEW i \in 1 .. m, NEW j \in 1 .. Len(s[i])
                   PROVE  \E k \in 1 .. Len(a) + Len(b) : (a \o b)[k] = s[i][j]
        BY <2>1, <2>2
      <3>1. CASE i = m
        <4>1. PICK k : k = Len(a) + j
          OBVIOUS
        <4>2. j \in 1 .. Len(b) /\ k \in 1 .. Len(a) + Len(b)
          BY <2>b, <2>2, <3>1, <4>1
        <4>3. (a \o b)[k] = s[i][j]
          BY <2>b, <2>2, <3>1, <4>1, <4>2
        <4> QED BY <4>2, <4>3
      <3>2. CASE i # m
        <4>1. i \in 1 .. m - 1
          BY <3>2
        <4>2. PICK k \in 1 .. Len(a) : a[k] = s[i][j]
          BY <2>3, <4>1
        <4>3. k \in 1 .. Len(a) + Len(b) /\ (a \o b)[k] = a[k]
          BY <2>2, <4>2
        <4> QED BY <4>2, <4>3
      <3> QED BY <3>1, <3>2
    <2> HIDE DEF From, Into
    <2> QED BY <2>0, <2>4, <2>5 DEF S
  <1>4. n \in S
    <2> HIDE DEF S
    <2> QED BY ONLY <1>2, <1>3, Climb
  <1> QED BY <1>n, <1>F, <1>1, <1>4

(* What holds of two elements in one piece, and of elements of an earlier  *)
(* and a later piece, holds of an earlier and a later element.             *)
LEMMA FlatOrdered ==
    ASSUME NEW T, NEW s \in Seq(Seq(T)), NEW R,
           \A i \in 1 .. Len(s) : \A j, l \in 1 .. Len(s[i]) : j < l => <<s[i][j], s[i][l]>> \in R,
           \A i, h \in 1 .. Len(s) : i < h =>
               \A j \in 1 .. Len(s[i]) : \A l \in 1 .. Len(s[h]) : <<s[i][j], s[h][l]>> \in R
    PROVE  \A k, l \in 1 .. Len(FlattenSeq(s)) : k < l => <<FlattenSeq(s)[k], FlattenSeq(s)[l]>> \in R
  <1>F. PICK F : F = FlattenSeq(s)
    OBVIOUS
  <1>n. PICK n : n = Len(s)
    OBVIOUS
  <1>1. PICK f \in [0 .. n -> Seq(T)] :
              /\ f[0] = <<>> /\ \A i \in 1 .. n : f[i] = f[i - 1] \o s[i]
              /\ F = f[n]
    BY <1>n, <1>F, FlattenIs
  <1> DEFINE From(m) == \A k \in 1 .. Len(f[m]) : \E i \in 1 .. m : \E j \in 1 .. Len(s[i]) : f[m][k] = s[i][j]
             Good(m) == \A k, l \in 1 .. Len(f[m]) : k < l => <<f[m][k], f[m][l]>> \in R
             S == {m \in 0 .. n : From(m) /\ Good(m)}
  <1>2. n \in Nat /\ S \in SUBSET Nat /\ 0 \in S
    <2>1. From(0) /\ Good(0)
      BY <1>1
    <2>2. n \in Nat
      BY <1>n
    <2> QED BY <2>1, <2>2
  <1>3. \A m \in 1 .. n : m - 1 \in S => m \in S
    <2> SUFFICES ASSUME NEW m \in 1 .. n, m - 1 \in S
                 PROVE  m \in S
      OBVIOUS
    <2>0. m \in 0 .. n
      BY <1>2
    <2>a. PICK a : a = f[m - 1]
      OBVIOUS
    <2>b. PICK b : b = s[m]
      OBVIOUS
    <2>1. /\ a \in Seq(T) /\ b \in Seq(T) /\ f[m] = a \o b /\ m \in Nat
      <3>1. m \in 1 .. Len(s) /\ m - 1 \in 0 .. n
        BY <1>n, <1>2
      <3>2. s[m] \in Seq(T)
        BY <3>1
      <3>3. f[m - 1] \in Seq(T) /\ f[m] = f[m - 1] \o s[m]
        BY <1>1, <3>1
      <3> QED BY <2>a, <2>b, <3>2, <3>3
    <2>2. /\ Len(a \o b) = Len(a) + Len(b) /\ Len(a) \in Nat /\ Len(b) \in Nat
          /\ \A k \in 1 .. Len(a) : (a \o b)[k] = a[k]
          /\ \A k \in 1 .. Len(b) : (a \o b)[Len(a) + k] = b[k]
      BY <2>1
    <2>3. /\ \A k \in 1 .. Len(a) : \E i \in 1 .. m - 1 : \E j \in 1 .. Len(s[i]) : a[k] = s[i][j]
          /\ \A k, l \in 1 .. Len(a) : k < l => <<a[k], a[l]>> \in R
      BY <2>a
    <2> HIDE DEF S
    <2>6. ASSUME NEW k \in 1 .. Len(a) + Len(b), k > Len(a)
          PROVE  k - Len(a) \in 1 .. Len(b) /\ (a \o b)[k] = b[k - Len(a)]
      <3>1. PICK j : j = k - Len(a)
        OBVIOUS
      <3>2. j \in 1 .. Len(b) /\ Len(a) + j = k
        BY <2>2, <2>6, <3>1
      <3> QED BY <2>2, <3>1, <3>2
    <2>4. From(m)
      <3>0. ASSUME NEW k \in 1 .. Len(f[m])
            PROVE  k \in 1 .. Len(a) + Len(b) /\ f[m][k] = (a \o b)[k]
        BY <2>1, <2>2
      <3> SUFFICES ASSUME NEW k \in 1 .. Len(a) + Len(b)
                   PROVE  \E i \in 1 .. m : \E j \in 1 .. Len(s[i]) : (a \o b)[k] = s[i][j]
        BY <3>0
      <3>1. CASE k <= Len(a)
        <4>1. k \in 1 .. Len(a)
          BY <3>1
        <4>2. PICK i \in 1 .. m - 1 : \E j \in 1 .. Len(s[i]) : a[k] = s[i][j]
          BY <2>3, <4>1
        <4>3. i \in 1 .. m /\ (a \o b)[k] = a[k]
          BY <2>1, <2>2, <4>1
        <4> QED BY <4>2, <4>3
      <3>2. CASE k > Len(a)
        <4>1. m \in 1 .. m
          BY <2>1
        <4> QED BY <2>b, <2>6, <3>2, <4>1
      <3> QED BY <2>2, <3>1, <3>2
    <2>5. Good(m)
      <3> SUFFICES ASSUME NEW k \in 1 .. Len(a) + Len(b), NEW l \in 1 .. Len(a) + Len(b), k < l
                   PROVE  <<(a \o b)[k], (a \o b)[l]>> \in R
        BY <2>1, <2>2
      <3>1. CASE l <= Len(a)
        <4>1. k \in 1 .. Len(a) /\ l \in 1 .. Len(a)
          BY <2>2, <3>1
        <4> QED BY <2>2, <2>3, <4>1
      <3>2. CASE k <= Len(a) /\ l > Len(a)
        <4>1. k \in 1 .. Len(a)
          BY <3>2
        <4>2. PICK i \in 1 .. m - 1 : \E j \in 1 .. Len(s[i]) : a[k] = s[i][j]
          BY <2>3, <4>1
        <4>3. i \in 1 .. Len(s) /\ m \in 1 .. Len(s) /\ i < m
          BY <1>n, <4>2
        <4>4. l - Len(a) \in 1 .. Len(s[m]) /\ (a \o b)[l] = s[m][l - Len(a)]
          BY <2>b, <2>6, <3>2
        <4>5. (a \o b)[k] = a[k]
          BY <2>2, <4>1
        <4> QED BY <4>2, <4>3, <4>4, <4>5
      <3>3. CASE k > Len(a)
        <4>1. /\ k - Len(a) \in 1 .. Len(b) /\ (a \o b)[k] = b[k - Len(a)]
              /\ l - Len(a) \in 1 .. Len(b) /\ (a \o b)[l] = b[l - Len(a)]
          BY <2>2, <2>6, <3>3
        <4>2. k - Len(a) < l - Len(a) /\ m \in 1 .. Len(s)
          BY <1>n, <2>2
        <4> QED BY <2>b, <4>1, <4>2
      <3>4. l <= Len(a) \/ (k <= Len(a) /\ l > Len(a)) \/ k > Len(a)
        <4>1. Len(a) \in Nat /\ Len(b) \in Nat
          BY <2>2
        <4> QED BY ONLY <4>1, k \in 1 .. Len(a) + Len(b), l \in 1 .. Len(a) + Len(b)
      <3> QED BY ONLY <3>1, <3>2, <3>3, <3>4
    <2> HIDE DEF From, Good
    <2> QED BY <2>0, <2>4, <2>5 DEF S
  <1>4. n \in S
    <2> HIDE DEF S
    <2> QED BY ONLY <1>2, <1>3, Climb
  <1> QED BY <1>n, <1>F, <1>1, <1>4

(* Laying the pieces of one after those of another. *)
LEMMA FlatJoins ==
    ASSUME NEW T, NEW s \in Seq(Seq(T)), NEW t \in Seq(Seq(T))
    PROVE  FlattenSeq(s \o t) = FlattenSeq(s) \o FlattenSeq(t)
  <1>n. PICK n : n = Len(s)
    OBVIOUS
  <1>m. PICK m : m = Len(t)
    OBVIOUS
  <1>u. PICK u : u = s \o t
    OBVIOUS
  <1>0. /\ n \in Nat /\ m \in Nat /\ u \in Seq(Seq(T)) /\ Len(u) = n + m
        /\ \A i \in 1 .. n : u[i] = s[i]
        /\ \A i \in 1 .. m : u[n + i] = t[i] /\ t[i] \in Seq(T)
    BY <1>n, <1>m, <1>u
  <1>1. PICK f \in [0 .. n -> Seq(T)] :
              f[0] = <<>> /\ (\A i \in 1 .. n : f[i] = f[i - 1] \o s[i]) /\ FlattenSeq(s) = f[n]
    BY <1>n, FlattenIs
  <1>2. PICK g \in [0 .. m -> Seq(T)] :
              g[0] = <<>> /\ (\A i \in 1 .. m : g[i] = g[i - 1] \o t[i]) /\ FlattenSeq(t) = g[m]
    BY <1>m, FlattenIs
  <1>3. PICK h \in [0 .. n + m -> Seq(T)] :
              h[0] = <<>> /\ (\A i \in 1 .. n + m : h[i] = h[i - 1] \o u[i]) /\ FlattenSeq(u) = h[n + m]
    <2>1. \E h \in [0 .. Len(u) -> Seq(T)] :
             h[0] = <<>> /\ (\A i \in 1 .. Len(u) : h[i] = h[i - 1] \o u[i]) /\ FlattenSeq(u) = h[Len(u)]
      <3>1. u \in Seq(Seq(T))
        BY <1>0
      <3> QED BY ONLY <3>1, FlattenIs
    <2>2. Len(u) = n + m
      BY <1>0
    <2> QED BY ONLY <2>1, <2>2
  <1>4. h[n] = f[n]
    <2> DEFINE S == {i \in 0 .. n : h[i] = f[i]}
    <2>1. S \in SUBSET Nat /\ 0 \in S
      BY <1>0, <1>1, <1>3
    <2>2. \A k \in 1 .. n : k - 1 \in S => k \in S
      <3> SUFFICES ASSUME NEW k \in 1 .. n, k - 1 \in S
                   PROVE  h[k] = f[k]
        OBVIOUS
      <3>1. k \in 1 .. n + m /\ h[k - 1] = f[k - 1] /\ u[k] = s[k]
        <4>1. n \in Nat /\ m \in Nat /\ u[k] = s[k]
          BY ONLY <1>0, k \in 1 .. n
        <4>2. h[k - 1] = f[k - 1]
          OBVIOUS
        <4>3. k \in 1 .. n + m
          BY ONLY <4>1, k \in 1 .. n
        <4> QED BY ONLY <4>1, <4>2, <4>3
      <3>2. f[k] = f[k - 1] \o s[k]
        BY ONLY <1>1, k \in 1 .. n
      <3>3. h[k] = h[k - 1] \o u[k]
        BY ONLY <1>3, <3>1
      <3> QED BY ONLY <3>1, <3>2, <3>3
    <2>3. n \in S
      <3> HIDE DEF S
      <3> QED BY ONLY <1>0, <2>1, <2>2, Climb
    <2> QED BY <2>3
  <1>5. h[n + m] = f[n] \o g[m]
    <2> DEFINE S == {i \in 0 .. m : h[n + i] = f[n] \o g[i]}
    <2>a. f[n] \in Seq(T)
      BY <1>0, <1>1
    <2>1. S \in SUBSET Nat /\ 0 \in S
      <3>1. f[n] \o <<>> = f[n] /\ n + 0 = n
        BY <1>0, <2>a
      <3>2. h[n + 0] = f[n] \o g[0] /\ 0 \in 0 .. m
        BY <1>0, <1>2, <1>4, <3>1
      <3> QED BY <3>2, <1>0
    <2>2. \A k \in 1 .. m : k - 1 \in S => k \in S
      <3> SUFFICES ASSUME NEW k \in 1 .. m, k - 1 \in S
                   PROVE  k \in S
        OBVIOUS
      <3>q. PICK q : q = n + k
        OBVIOUS
      <3>1. q \in 1 .. n + m /\ q - 1 = n + (k - 1)
        BY <1>0, <3>q
      <3>2. h[q] = h[q - 1] \o u[q] /\ u[q] = t[k] /\ g[k] = g[k - 1] \o t[k]
        BY <1>0, <1>2, <1>3, <3>1, <3>q
      <3>3. h[q - 1] = f[n] \o g[k - 1]
        BY <3>1
      <3>4. g[k - 1] \in Seq(T) /\ t[k] \in Seq(T)
        BY <1>0, <1>2
      <3>5. (f[n] \o g[k - 1]) \o t[k] = f[n] \o (g[k - 1] \o t[k])
        <4>1. \A x, y, z \in Seq(T) : (x \o y) \o z = x \o (y \o z)
          BY ONLY ConcatAssociative
        <4> QED BY ONLY <2>a, <3>4, <4>1
      <3>6. h[n + k] = f[n] \o g[k] /\ k \in 0 .. m
        BY <3>q, <3>2, <3>3, <3>5
      <3> QED BY <3>6
    <2>3. m \in S
      <3> HIDE DEF S
      <3> QED BY ONLY <1>0, <2>1, <2>2, Climb
    <2> QED BY <2>3
  <1> QED BY <1>u, <1>1, <1>2, <1>3, <1>4, <1>5

-----------------------------------------------------------------------------
(* The values of a name in a list.                                         *)

(* What an object keeps: names in lower case, and values to be sent.       *)
Sendable(w) == Fields!ValidValue(w) /\ Fields!Trim(w) = w
KeptPairs == {p \in Fields!Names \X Seq(Char) : Sendable(p[2])}

(* What a pair of the iteration can be. *)
Word == Seq(Char) \cup
           {Fields!JoinedValues(Fields!ValuesOf(list, n)) : list \in Seq(KeptPairs), n \in Fields!Names}
Entry == Fields!Names \X Word

LEMMA EntryIs ==
    /\ \A p \in Entry : p[1] \in Fields!Names /\ p[2] \in Word
    /\ \A n \in Fields!Names : \A w \in Word : <<n, w>> \in Entry /\ <<n, w>>[1] = n /\ <<n, w>>[2] = w
  BY DEF Entry

LEMMA OneIs ==
    ASSUME NEW T
    PROVE  <<>> \in Seq(T) /\ \A x \in T : <<x>> \in Seq(T) /\ Len(<<x>>) = 1 /\ <<x>>[1] = x
  OBVIOUS

LEMMA ListIs ==
    ASSUME NEW T, NEW n \in Nat, NEW s, s = [i \in 1 .. n |-> s[i]], \A i \in 1 .. n : s[i] \in T
    PROVE  s \in Seq(T) /\ Len(s) = n
  OBVIOUS

LEMMA SameFlat == \A q : Fields!FlattenSeq(q) = FlattenSeq(q)
  BY DEF Fields!FlattenSeq, FlattenSeq

Chosen(list, n) == [i \in DOMAIN list |-> IF list[i][1] = n THEN <<list[i][2]>> ELSE <<>>]

LEMMA ChosenTyped ==
    ASSUME NEW list \in Seq(Entry), NEW n
    PROVE  /\ Chosen(list, n) \in Seq(Seq(Word)) /\ Len(Chosen(list, n)) = Len(list)
           /\ Fields!ValuesOf(list, n) = FlattenSeq(Chosen(list, n))
           /\ Fields!ValuesOf(list, n) \in Seq(Word)
           /\ \A i \in 1 .. Len(list) :
                 Chosen(list, n)[i] = IF list[i][1] = n THEN <<list[i][2]>> ELSE <<>>
  <1>k. PICK k : k = Len(list)
    OBVIOUS
  <1>1. k \in Nat /\ DOMAIN list = 1 .. k /\ \A i \in 1 .. k : list[i] \in Entry
    BY <1>k
  <1>2. \A i \in 1 .. k : list[i][2] \in Word
    BY <1>1, EntryIs
  <1>c. PICK c : c = Chosen(list, n)
    OBVIOUS
  <1>3. c = [i \in 1 .. k |-> IF list[i][1] = n THEN <<list[i][2]>> ELSE <<>>]
    BY <1>1, <1>c DEF Chosen
  <1>4. \A i \in 1 .. k : c[i] = IF list[i][1] = n THEN <<list[i][2]>> ELSE <<>>
    BY <1>3
  <1>5. \A i \in 1 .. k : c[i] \in Seq(Word)
    <2>1. <<>> \in Seq(Word) /\ \A x \in Word : <<x>> \in Seq(Word)
      BY ONLY OneIs
    <2> QED BY <1>2, <1>4, <2>1
  <1>6. c \in Seq(Seq(Word)) /\ Len(c) = k
    BY <1>1, <1>3, <1>5
  <1>7. Fields!ValuesOf(list, n) = FlattenSeq(c)
    <2>1. Fields!ValuesOf(list, n) = FlattenSeq(Chosen(list, n))
      <3>1. Fields!ValuesOf(list, n) = Fields!FlattenSeq(Chosen(list, n))
        BY DEF Fields!ValuesOf, Chosen
      <3> QED BY <3>1, SameFlat
    <2> QED BY <1>c, <2>1
  <1>8. FlattenSeq(c) \in Seq(Word)
    BY <1>6, FlatTyped
  <1> QED BY <1>k, <1>c, <1>4, <1>6, <1>7, <1>8

(* c has a piece for each entry of list, with its value if it is of n. *)
Picks(c, list, n) ==
    /\ c \in Seq(Seq(Word))
    /\ Len(c) = Len(list) /\ Fields!ValuesOf(list, n) = FlattenSeq(c)
    /\ \A i \in 1 .. Len(list) : c[i] = IF list[i][1] = n THEN <<list[i][2]>> ELSE <<>>

LEMMA ValuesAs == \A list \in Seq(Entry) : \A n : \E c : Picks(c, list, n)
  <1> SUFFICES ASSUME NEW list \in Seq(Entry), NEW n
               PROVE  Picks(Chosen(list, n), list, n)
    OBVIOUS
  <1> QED BY ChosenTyped DEF Picks

LEMMA ValuesNone ==
    ASSUME NEW list \in Seq(Entry), NEW n, \A i \in 1 .. Len(list) : list[i][1] # n
    PROVE  Fields!ValuesOf(list, n) = <<>>
  <1>c. PICK c : c = Chosen(list, n)
    OBVIOUS
  <1>1. /\ c \in Seq(Seq(Word)) /\ Fields!ValuesOf(list, n) = FlattenSeq(c) /\ Len(c) = Len(list)
        /\ \A i \in 1 .. Len(list) : c[i] = IF list[i][1] = n THEN <<list[i][2]>> ELSE <<>>
    BY <1>c, ChosenTyped
  <1>2. \A i \in 1 .. Len(c) : c[i] = <<>>
    BY <1>1
  <1> QED BY ONLY <1>1, <1>2, FlatOfNone

LEMMA ValuesSome ==
    ASSUME NEW list \in Seq(Entry), NEW i \in 1 .. Len(list)
    PROVE  Fields!ValuesOf(list, list[i][1]) # <<>>
  <1>n. PICK n : n = list[i][1]
    OBVIOUS
  <1>c. PICK c : c = Chosen(list, n)
    OBVIOUS
  <1>v. PICK v : v = FlattenSeq(c)
    OBVIOUS
  <1>1. /\ c \in Seq(Seq(Word)) /\ Fields!ValuesOf(list, n) = v
        /\ i \in 1 .. Len(c) /\ c[i] = <<list[i][2]>>
    BY <1>c, <1>n, <1>v, ChosenTyped
  <1>2. Len(c[i]) = 1
    BY <1>1
  <1>3. \E k \in 1 .. Len(v) : v[k] = c[i][1]
    <2>1. \A l \in 1 .. Len(c) : \A j \in 1 .. Len(c[l]) : \E k \in 1 .. Len(v) : v[k] = c[l][j]
      <3>1. c \in Seq(Seq(Word)) /\ v = FlattenSeq(c)
        BY <1>v, <1>1
      <3>2. \A l \in 1 .. Len(c) : \A j \in 1 .. Len(c[l]) :
               \E k \in 1 .. Len(FlattenSeq(c)) : FlattenSeq(c)[k] = c[l][j]
        BY ONLY <3>1, FlatMembers
      <3> QED BY ONLY <3>1, <3>2
    <2>2. 1 \in 1 .. Len(c[i])
      BY <1>2
    <2> QED BY <1>1, <2>1, <2>2
  <1>4. v # <<>>
    BY <1>3
  <1> QED BY <1>1, <1>4, <1>n

LEMMA ValuesOfOne ==
    ASSUME NEW p \in Entry, NEW n
    PROVE  Fields!ValuesOf(<<p>>, n) = IF p[1] = n THEN <<p[2]>> ELSE <<>>
  <1>l. PICK l : l = <<p>>
    OBVIOUS
  <1>1. l \in Seq(Entry) /\ Len(l) = 1 /\ l[1] = p
    BY <1>l, OneIs
  <1>c. PICK c : c = Chosen(l, n)
    OBVIOUS
  <1>2. /\ c \in Seq(Seq(Word)) /\ Len(c) = 1 /\ Fields!ValuesOf(l, n) = FlattenSeq(c)
        /\ c[1] = IF p[1] = n THEN <<p[2]>> ELSE <<>>
    BY <1>1, <1>c, ChosenTyped
  <1>3. 1 \in 1 .. Len(c) /\ \A i \in 1 .. Len(c) : i # 1 => c[i] = <<>>
    BY <1>2
  <1>4. FlattenSeq(c) = c[1]
    BY ONLY <1>2, <1>3, FlatOfOne
  <1> QED BY <1>l, <1>2, <1>4

LEMMA ValuesJoin ==
    ASSUME NEW a \in Seq(Entry), NEW b \in Seq(Entry), NEW n
    PROVE  Fields!ValuesOf(a \o b, n) = Fields!ValuesOf(a, n) \o Fields!ValuesOf(b, n)
  <1>u. PICK u : u = a \o b
    OBVIOUS
  <1>1. /\ u \in Seq(Entry) /\ Len(u) = Len(a) + Len(b) /\ Len(a) \in Nat /\ Len(b) \in Nat
        /\ \A i \in 1 .. Len(a) : u[i] = a[i]
        /\ \A i \in 1 .. Len(b) : u[Len(a) + i] = b[i]
    BY <1>u
  <1>p. PICK x, y, z : Picks(x, a, n) /\ Picks(y, b, n) /\ Picks(z, u, n)
    BY <1>1, ValuesAs, Zenon
  <1>2. /\ x \in Seq(Seq(Word)) /\ Len(x) = Len(a) /\ Fields!ValuesOf(a, n) = FlattenSeq(x)
        /\ \A i \in 1 .. Len(a) : x[i] = IF a[i][1] = n THEN <<a[i][2]>> ELSE <<>>
    BY ONLY <1>p, Zenon DEF Picks
  <1>3. /\ y \in Seq(Seq(Word)) /\ Len(y) = Len(b) /\ Fields!ValuesOf(b, n) = FlattenSeq(y)
        /\ \A i \in 1 .. Len(b) : y[i] = IF b[i][1] = n THEN <<b[i][2]>> ELSE <<>>
    BY ONLY <1>p, Zenon DEF Picks
  <1>4. /\ z \in Seq(Seq(Word)) /\ Len(z) = Len(u) /\ Fields!ValuesOf(u, n) = FlattenSeq(z)
        /\ \A i \in 1 .. Len(u) : z[i] = IF u[i][1] = n THEN <<u[i][2]>> ELSE <<>>
    BY ONLY <1>p, Zenon DEF Picks
  <1>5. /\ x \o y \in Seq(Seq(Word)) /\ Len(x \o y) = Len(x) + Len(y)
        /\ \A i \in 1 .. Len(x) : (x \o y)[i] = x[i]
        /\ \A i \in 1 .. Len(y) : (x \o y)[Len(x) + i] = y[i]
    <2>1. x \in Seq(Seq(Word)) /\ y \in Seq(Seq(Word))
      BY <1>2, <1>3
    <2> QED BY ONLY <2>1
  <1>6. ASSUME NEW i \in 1 .. Len(z)
        PROVE  z[i] = (x \o y)[i]
    <2>1. CASE i <= Len(a)
      <3>1. i \in 1 .. Len(a) /\ i \in 1 .. Len(u)
        BY <1>1, <1>4, <2>1
      <3>2. z[i] = x[i]
        BY <1>1, <1>2, <1>4, <3>1
      <3> QED BY <1>2, <1>5, <3>1, <3>2
    <2>2. CASE i > Len(a)
      <3>1. PICK j : j = i - Len(a)
        OBVIOUS
      <3>2. j \in 1 .. Len(b) /\ Len(a) + j = i /\ i \in 1 .. Len(u)
        BY <1>1, <1>4, <2>2, <3>1
      <3>3. u[i] = b[j] /\ z[i] = IF u[i][1] = n THEN <<u[i][2]>> ELSE <<>>
        BY <1>1, <1>4, <3>2
      <3>4. z[i] = y[j]
        BY <1>3, <3>2, <3>3
      <3> QED BY <1>2, <1>3, <1>5, <3>2, <3>4
    <2>3. i <= Len(a) \/ i > Len(a)
      BY <1>1, <1>4
    <2> QED BY ONLY <2>1, <2>2, <2>3
  <1>7. z = x \o y
    <2>1. z \in Seq(Seq(Word)) /\ x \o y \in Seq(Seq(Word)) /\ Len(z) = Len(x \o y)
      BY <1>1, <1>2, <1>3, <1>4, <1>5
    <2> QED BY ONLY <2>1, <1>6, SameSeq
  <1>8. FlattenSeq(x \o y) = FlattenSeq(x) \o FlattenSeq(y)
    BY ONLY <1>2, <1>3, FlatJoins
  <1> QED BY <1>u, <1>2, <1>3, <1>4, <1>7, <1>8

LEMMA ValuesEmpty == \A n : Fields!ValuesOf(<<>>, n) = <<>>
  <1> TAKE n
  <1>1. <<>> \in Seq(Entry) /\ Len(<<>>) = 0
    OBVIOUS
  <1>2. \A i \in 1 .. Len(<<>>) : <<>>[i][1] # n
    BY <1>1
  <1> QED BY <1>1, <1>2, ValuesNone

LEMMA ValuesFlat ==
    ASSUME NEW s \in Seq(Seq(Entry)), NEW n
    PROVE  Fields!ValuesOf(FlattenSeq(s), n) = FlattenSeq([i \in 1 .. Len(s) |-> Fields!ValuesOf(s[i], n)])
  <1>k. PICK k : k = Len(s)
    OBVIOUS
  <1>v. PICK v : v = [i \in 1 .. k |-> Fields!ValuesOf(s[i], n)]
    OBVIOUS
  <1>1. k \in Nat /\ (\A i \in 1 .. k : s[i] \in Seq(Entry)) /\ \A i \in 1 .. k : v[i] = Fields!ValuesOf(s[i], n)
    BY <1>k, <1>v
  <1>2. \A i \in 1 .. k : v[i] \in Seq(Word)
    BY <1>1, ChosenTyped
  <1>3. v \in Seq(Seq(Word)) /\ Len(v) = k
    BY <1>v, <1>1, <1>2
  <1>4. PICK f \in [0 .. k -> Seq(Entry)] :
              f[0] = <<>> /\ (\A i \in 1 .. k : f[i] = f[i - 1] \o s[i]) /\ FlattenSeq(s) = f[k]
    BY <1>k, FlattenIs
  <1>5. PICK h : h[0] = <<>> /\ (\A i \in 1 .. k : h[i] = h[i - 1] \o v[i]) /\ FlattenSeq(v) = h[k]
    BY <1>3, FlattenIs
  <1> DEFINE S == {i \in 0 .. k : Fields!ValuesOf(f[i], n) = h[i]}
  <1>6. S \in SUBSET Nat
    BY <1>1
  <1>7. 0 \in S
    BY <1>1, <1>4, <1>5, ValuesEmpty
  <1>8. \A m \in 1 .. k : m - 1 \in S => m \in S
    <2> SUFFICES ASSUME NEW m \in 1 .. k, m - 1 \in S
                 PROVE  m \in S
      OBVIOUS
    <2>1. m - 1 \in 0 .. k /\ m \in 0 .. k
      BY <1>1
    <2>2. f[m - 1] \in Seq(Entry) /\ s[m] \in Seq(Entry) /\ f[m] = f[m - 1] \o s[m]
      BY <1>1, <1>4, <2>1
    <2>3. Fields!ValuesOf(f[m - 1] \o s[m], n) = Fields!ValuesOf(f[m - 1], n) \o Fields!ValuesOf(s[m], n)
      BY ONLY <2>2, ValuesJoin
    <2>4. Fields!ValuesOf(f[m], n) = h[m]
      BY <1>1, <1>5, <2>2, <2>3
    <2> QED BY <2>1, <2>4
  <1>9. k \in S
    <2> HIDE DEF S
    <2> QED BY ONLY <1>1, <1>6, <1>7, <1>8, Climb
  <1> QED BY <1>k, <1>v, <1>4, <1>5, <1>9

(* A list made of pieces with the values of the entries of another.        *)
LEMMA SameValues ==
    ASSUME NEW list \in Seq(Entry), NEW s \in Seq(Seq(Entry)), NEW n,
           Len(s) = Len(list),
           \A i \in 1 .. Len(s) : Fields!ValuesOf(s[i], n) = IF list[i][1] = n THEN <<list[i][2]>> ELSE <<>>
    PROVE  Fields!ValuesOf(FlattenSeq(s), n) = Fields!ValuesOf(list, n)
  <1>v. PICK v : v = [i \in 1 .. Len(s) |-> Fields!ValuesOf(s[i], n)]
    OBVIOUS
  <1>c. PICK c : c = Chosen(list, n)
    OBVIOUS
  <1>1. /\ c \in Seq(Seq(Word)) /\ Len(c) = Len(list) /\ Fields!ValuesOf(list, n) = FlattenSeq(c)
        /\ \A i \in 1 .. Len(list) : c[i] = IF list[i][1] = n THEN <<list[i][2]>> ELSE <<>>
    BY <1>c, ChosenTyped
  <1>2. \A i \in 1 .. Len(s) : v[i] = c[i]
    BY <1>1, <1>v
  <1>3. v = [i \in 1 .. Len(s) |-> v[i]] /\ c = [i \in 1 .. Len(s) |-> c[i]]
    <2>1. DOMAIN c = 1 .. Len(s) /\ c = [i \in DOMAIN c |-> c[i]]
      BY <1>1
    <2> QED BY <1>v, <2>1
  <1>4. v = c
    BY ONLY <1>2, <1>3
  <1>5. Fields!ValuesOf(FlattenSeq(s), n) = FlattenSeq(v)
    BY <1>v, ValuesFlat
  <1> QED BY <1>1, <1>4, <1>5

-----------------------------------------------------------------------------
(* Trimming, and what an object keeps.                                     *)

LEMMA EndsOf ==
    ASSUME NEW n \in Nat, NEW S \in SUBSET (0 .. n), S # {}
    PROVE  /\ Fields!Min(S) \in S /\ \A y \in S : Fields!Min(S) <= y
           /\ Fields!Max(S) \in S /\ \A y \in S : y <= Fields!Max(S)
  <1>1. \E x \in S : \A y \in S : x <= y
    <2>1. S \in SUBSET Nat
      OBVIOUS
    <2> QED BY <2>1, Least
  <1>2. \E x \in S : \A y \in S : x >= y
    <2> DEFINE R == {k \in 0 .. n : n - k \in S}
    <2>1. R \in SUBSET Nat
      OBVIOUS
    <2>2. R # {}
      <3>1. PICK y \in S : TRUE
        OBVIOUS
      <3>2. n - y \in 0 .. n /\ n - (n - y) = y
        OBVIOUS
      <3> QED BY <3>2
    <2>3. PICK k \in R : \A l \in R : k <= l
      <3> HIDE DEF R
      <3> QED BY <2>1, <2>2, Least
    <2>4. \A y \in S : n - k >= y
      <3> TAKE y \in S
      <3>1. n - y \in 0 .. n /\ n - (n - y) = y
        OBVIOUS
      <3>2. k <= n - y
        BY <2>3, <3>1
      <3> QED BY <3>2
    <2> QED BY <2>4
  <1> QED BY <1>1, <1>2 DEF Fields!Min, Fields!Max

LEMMA TrimIs ==
    ASSUME NEW text \in Seq(Char)
    PROVE  Fields!Trim(text) \in Seq(Char) /\ Fields!Trim(Fields!Trim(text)) = Fields!Trim(text)
  <1> DEFINE K(s) == {i \in DOMAIN s : s[i] \notin Fields!Whitespace}
  <1>n. PICK n : n = Len(text)
    OBVIOUS
  <1>1. n \in Nat /\ DOMAIN text = 1 .. n
    BY <1>n
  <1>2. CASE K(text) = {}
    <2>1. Fields!Trim(text) = <<>>
      BY <1>2 DEF Fields!Trim
    <2>2. K(<<>>) = {}
      OBVIOUS
    <2>3. Fields!Trim(<<>>) = <<>>
      BY <2>2 DEF Fields!Trim
    <2> QED BY <2>1, <2>3, OneIs
  <1>3. CASE K(text) # {}
    <2>a. PICK a : a = Fields!Min(K(text))
      OBVIOUS
    <2>b. PICK b : b = Fields!Max(K(text))
      OBVIOUS
    <2>1. a \in K(text) /\ b \in K(text) /\ a <= b
      <3>1. K(text) \in SUBSET (0 .. n)
        BY <1>1
      <3> HIDE DEF K
      <3> QED BY <1>1, <1>3, <2>a, <2>b, <3>1, EndsOf
    <2>2. a \in 1 .. n /\ b \in 1 .. n /\ text[a] \notin Fields!Whitespace /\ text[b] \notin Fields!Whitespace
      BY <1>1, <2>1
    <2>t. PICK t : t = SubSeq(text, a, b)
      OBVIOUS
    <2>3. Fields!Trim(text) = t
      BY <1>3, <2>a, <2>b, <2>t DEF Fields!Trim
    <2>m. PICK m : m = b - a + 1
      OBVIOUS
    <2>4. /\ t \in Seq(Char) /\ Len(t) = m /\ m \in Nat /\ m >= 1
          /\ t[1] = text[a] /\ t[m] = text[b] /\ DOMAIN t = 1 .. m
      <3>1. t \in Seq(Char) /\ Len(t) = m /\ \A i \in 1 .. m : t[i] = text[a + i - 1]
        BY <1>n, <1>1, <2>1, <2>2, <2>t, <2>m
      <3>2. m \in Nat /\ 1 \in 1 .. m /\ m \in 1 .. m /\ a + 1 - 1 = a /\ a + m - 1 = b
        BY <1>1, <2>1, <2>2, <2>m
      <3>3. t[1] = text[a + 1 - 1] /\ t[m] = text[a + m - 1]
        BY <3>1, <3>2
      <3> QED BY <3>1, <3>2, <3>3
    <2>5. 1 \in K(t) /\ m \in K(t) /\ K(t) \in SUBSET (1 .. m) /\ K(t) # {}
      BY <2>2, <2>4
    <2>6. Fields!Min(K(t)) = 1 /\ Fields!Max(K(t)) = m
      <3>0. K(t) \in SUBSET (0 .. m)
        BY <2>4, <2>5
      <3> HIDE DEF K
      <3>1. /\ Fields!Min(K(t)) \in K(t) /\ \A y \in K(t) : Fields!Min(K(t)) <= y
            /\ Fields!Max(K(t)) \in K(t) /\ \A y \in K(t) : y <= Fields!Max(K(t))
        BY <2>4, <2>5, <3>0, EndsOf
      <3>2. /\ Fields!Min(K(t)) \in 1 .. m /\ Fields!Max(K(t)) \in 1 .. m
            /\ Fields!Min(K(t)) <= 1 /\ m <= Fields!Max(K(t))
        BY <2>5, <3>1
      <3> QED BY <2>4, <3>2
    <2>7. SubSeq(t, 1, m) = t
      BY <2>4
    <2>8. Fields!Trim(t) = t
      BY <2>5, <2>6, <2>7 DEF Fields!Trim
    <2> QED BY <2>3, <2>4, <2>8
  <1> QED BY <1>2, <1>3

LEMMA KeptIs ==
    /\ KeptPairs \subseteq Entry
    /\ \A p \in KeptPairs : p[1] \in Fields!Names /\ p[2] \in Seq(Char) /\ Sendable(p[2])
    /\ \A n \in Fields!Names : \A w \in Seq(Char) : Sendable(w) => <<n, w>> \in KeptPairs
    /\ \A list \in Seq(KeptPairs) : list \in Seq(Entry)
  <1>1. KeptPairs \subseteq Entry
    BY DEF KeptPairs, Entry, Word
  <1>2. \A p \in KeptPairs : p[1] \in Fields!Names /\ p[2] \in Seq(Char) /\ Sendable(p[2])
    BY DEF KeptPairs
  <1>3. \A n \in Fields!Names : \A w \in Seq(Char) : Sendable(w) => <<n, w>> \in KeptPairs
    BY DEF KeptPairs
  <1>4. \A list \in Seq(KeptPairs) : list \in Seq(Entry)
    BY <1>1, SeqOver
  <1> QED BY <1>1, <1>2, <1>3, <1>4

LEMMA PairKept ==
    ASSUME Fields!HeadersAssumption, NEW name, NEW text \in Texts, Fields!Accepted(name, text)
    PROVE  /\ Fields!Pair(name, text) \in KeptPairs
           /\ Fields!Pair(name, text)[1] = LowerOf[name] /\ Fields!Pair(name, text)[2] = Fields!Trim(text)
  <1>1. name \in DOMAIN LowerOf /\ Fields!ValidValue(Fields!Trim(text))
    BY DEF Fields!Accepted
  <1>2. LowerOf[name] \in Fields!Names /\ text \in Seq(Char)
    BY <1>1 DEF Fields!HeadersAssumption
  <1>3. Fields!Trim(text) \in Seq(Char) /\ Sendable(Fields!Trim(text))
    BY <1>1, <1>2, TrimIs DEF Sendable
  <1>4. <<LowerOf[name], Fields!Trim(text)>> \in KeptPairs
    BY <1>2, <1>3, KeptIs
  <1> QED BY <1>4 DEF Fields!Pair

(* A list without a name, and with a value in place of all it had.         *)
LEMMA WithoutIs ==
    ASSUME NEW list \in Seq(KeptPairs), NEW n
    PROVE  /\ Fields!Without(list, n) \in Seq(KeptPairs)
           /\ \A m : Fields!ValuesOf(Fields!Without(list, n), m) =
                        IF m = n THEN <<>> ELSE Fields!ValuesOf(list, m)
  <1>k. PICK k : k = Len(list)
    OBVIOUS
  <1>s. PICK s : s = [i \in 1 .. k |-> IF list[i][1] = n THEN <<>> ELSE <<list[i]>>]
    OBVIOUS
  <1>1. /\ k \in Nat /\ DOMAIN list = 1 .. k /\ list \in Seq(Entry)
        /\ \A i \in 1 .. k : list[i] \in KeptPairs /\ list[i] \in Entry
    BY <1>k, KeptIs
  <1>2. \A i \in 1 .. k : s[i] = IF list[i][1] = n THEN <<>> ELSE <<list[i]>>
    BY <1>s
  <1>3. \A i \in 1 .. k : s[i] \in Seq(KeptPairs) /\ s[i] \in Seq(Entry)
    BY <1>1, <1>2, OneIs
  <1>4. s \in Seq(Seq(KeptPairs)) /\ s \in Seq(Seq(Entry)) /\ Len(s) = k
    <2>1. s = [i \in 1 .. k |-> s[i]]
      BY <1>s
    <2> QED BY ONLY <2>1, <1>1, <1>3, ListIs
  <1>5. Fields!Without(list, n) = FlattenSeq(s)
    <2>1. Fields!Without(list, n) = Fields!FlattenSeq(s)
      BY <1>1, <1>s DEF Fields!Without
    <2> QED BY <2>1, SameFlat
  <1>6. FlattenSeq(s) \in Seq(KeptPairs)
    BY <1>4, FlatTyped
  <1>7. ASSUME NEW m
        PROVE  Fields!ValuesOf(FlattenSeq(s), m) = IF m = n THEN <<>> ELSE Fields!ValuesOf(list, m)
    <2>1. CASE m = n
      <3>1. \A j \in 1 .. Len(FlattenSeq(s)) : FlattenSeq(s)[j][1] # n
        <4> TAKE j \in 1 .. Len(FlattenSeq(s))
        <4>1. PICK i \in 1 .. Len(s) : \E l \in 1 .. Len(s[i]) : FlattenSeq(s)[j] = s[i][l]
          BY ONLY <1>4, FlatMembers
        <4>2. PICK l \in 1 .. Len(s[i]) : FlattenSeq(s)[j] = s[i][l]
          BY <4>1
        <4>3. list[i][1] # n /\ s[i] = <<list[i]>>
          BY <1>2, <1>4, <4>2
        <4>4. s[i][l] = list[i]
          BY <4>3
        <4> QED BY <4>2, <4>3, <4>4
      <3>2. FlattenSeq(s) \in Seq(Entry)
        BY <1>6, KeptIs
      <3> QED BY <2>1, <3>1, <3>2, ValuesNone
    <2>2. CASE m # n
      <3>1. ASSUME NEW i \in 1 .. Len(s)
            PROVE  Fields!ValuesOf(s[i], m) = IF list[i][1] = m THEN <<list[i][2]>> ELSE <<>>
        <4>1. i \in 1 .. k
          BY <1>4
        <4>2. CASE list[i][1] = n
          BY <1>2, <2>2, <4>1, <4>2, ValuesEmpty
        <4>3. CASE list[i][1] # n
          <5>1. s[i] = <<list[i]>> /\ list[i] \in Entry
            BY <1>1, <1>2, <4>1, <4>3
          <5> QED BY <5>1, ValuesOfOne
        <4> QED BY <4>2, <4>3
      <3>2. Len(s) = Len(list)
        BY <1>k, <1>4
      <3>3. Fields!ValuesOf(FlattenSeq(s), m) = Fields!ValuesOf(list, m)
        BY ONLY <1>1, <1>4, <3>1, <3>2, SameValues
      <3> QED BY <2>2, <3>3
    <2> QED BY <2>1, <2>2
  <1> QED BY <1>5, <1>6, <1>7

LEMMA AppendIs ==
    ASSUME NEW list \in Seq(KeptPairs), NEW p \in KeptPairs
    PROVE  /\ Append(list, p) \in Seq(KeptPairs)
           /\ \A m : Fields!ValuesOf(Append(list, p), m) =
                        IF m = p[1] THEN Append(Fields!ValuesOf(list, m), p[2]) ELSE Fields!ValuesOf(list, m)
  <1>1. list \in Seq(Entry) /\ p \in Entry /\ <<p>> \in Seq(Entry)
    BY KeptIs, OneIs
  <1>2. Append(list, p) = list \o <<p>>
    OBVIOUS
  <1>3. ASSUME NEW m
        PROVE  Fields!ValuesOf(list \o <<p>>, m) =
                  IF m = p[1] THEN Append(Fields!ValuesOf(list, m), p[2]) ELSE Fields!ValuesOf(list, m)
    <2>v. PICK v : v = Fields!ValuesOf(list, m)
      OBVIOUS
    <2>1. v \in Seq(Word)
      BY <1>1, <2>v, ChosenTyped
    <2>2. Fields!ValuesOf(list \o <<p>>, m) = v \o Fields!ValuesOf(<<p>>, m)
      BY <1>1, <2>v, ValuesJoin
    <2>3. Fields!ValuesOf(<<p>>, m) = IF p[1] = m THEN <<p[2]>> ELSE <<>>
      BY <1>1, ValuesOfOne
    <2>4. v \o <<>> = v /\ v \o <<p[2]>> = Append(v, p[2])
      BY <2>1
    <2> QED BY <2>2, <2>3, <2>4, <2>v
  <1>4. Append(list, p) \in Seq(KeptPairs)
    OBVIOUS
  <1> QED BY <1>2, <1>3, <1>4

LEMMA ReplacedIs ==
    ASSUME NEW list \in Seq(KeptPairs), NEW p \in KeptPairs
    PROVE  /\ Fields!Replaced(list, p) \in Seq(KeptPairs)
           /\ \A m : Fields!ValuesOf(Fields!Replaced(list, p), m) =
                        IF m = p[1] THEN <<p[2]>> ELSE Fields!ValuesOf(list, m)
  <1>k. PICK k : k = Len(list)
    OBVIOUS
  <1> DEFINE found == {i \in DOMAIN list : list[i][1] = p[1]}
  <1>1. /\ k \in Nat /\ DOMAIN list = 1 .. k /\ list \in Seq(Entry) /\ p \in Entry
        /\ \A i \in 1 .. k : list[i] \in KeptPairs /\ list[i] \in Entry
    BY <1>k, KeptIs
  <1>2. CASE found = {}
    <2>1. Fields!Replaced(list, p) = Append(list, p)
      BY <1>2 DEF Fields!Replaced
    <2>2. \A i \in 1 .. Len(list) : list[i][1] # p[1]
      BY <1>2, <1>k, <1>1
    <2>3. Fields!ValuesOf(list, p[1]) = <<>>
      BY <1>1, <2>2, ValuesNone
    <2>4. Append(<<>>, p[2]) = <<p[2]>>
      OBVIOUS
    <2>5. /\ Append(list, p) \in Seq(KeptPairs)
          /\ \A m : Fields!ValuesOf(Append(list, p), m) =
                       IF m = p[1] THEN Append(Fields!ValuesOf(list, m), p[2]) ELSE Fields!ValuesOf(list, m)
      BY ONLY list \in Seq(KeptPairs), p \in KeptPairs, AppendIs
    <2> QED BY ONLY <2>1, <2>3, <2>4, <2>5
  <1>3. CASE found # {}
    <2>f. PICK f : f = Fields!Min(found)
      OBVIOUS
    <2>1. f \in found /\ f \in 1 .. k /\ list[f][1] = p[1]
      <3>1. found \in SUBSET (0 .. k)
        BY <1>1
      <3>2. f \in found
        <4> HIDE DEF found
        <4> QED BY <1>1, <1>3, <2>f, <3>1, EndsOf
      <3> QED BY <1>1, <3>2
    <2>s. PICK s : s = [i \in 1 .. k |-> CASE i \notin found -> <<list[i]>>
                                          [] found # {} /\ i = Fields!Min(found) -> <<p>>
                                          [] OTHER -> <<>>]
      OBVIOUS
    <2>2. \A i \in 1 .. k : s[i] = IF list[i][1] # p[1] THEN <<list[i]>> ELSE IF i = f THEN <<p>> ELSE <<>>
      <3> TAKE i \in 1 .. k
      <3>1. i \in found <=> list[i][1] = p[1]
        BY <1>1
      <3> HIDE DEF found
      <3>2. s[i] = CASE i \notin found -> <<list[i]>>
                     [] found # {} /\ i = f -> <<p>>
                     [] OTHER -> <<>>
        BY <2>s, <2>f
      <3> QED BY <1>3, <2>1, <3>1, <3>2
    <2>3. \A i \in 1 .. k : s[i] \in Seq(KeptPairs) /\ s[i] \in Seq(Entry)
      BY <1>1, <2>2, OneIs
    <2>4. s \in Seq(Seq(KeptPairs)) /\ s \in Seq(Seq(Entry)) /\ Len(s) = k
      <3> HIDE DEF found
      <3>1. s = [i \in 1 .. k |-> s[i]]
        BY <2>s
      <3> QED BY ONLY <3>1, <1>1, <2>3, ListIs
    <2>5. Fields!Replaced(list, p) = FlattenSeq(s)
      <3>1. Fields!Replaced(list, p) = Fields!FlattenSeq(s)
        BY <1>1, <1>3, <2>s DEF Fields!Replaced
      <3> QED BY <3>1, SameFlat
    <2> HIDE DEF found
    <2>6. FlattenSeq(s) \in Seq(KeptPairs)
      BY <2>4, FlatTyped
    <2>7. ASSUME NEW m
          PROVE  Fields!ValuesOf(FlattenSeq(s), m) = IF m = p[1] THEN <<p[2]>> ELSE Fields!ValuesOf(list, m)
      <3>1. CASE m # p[1]
        <4>1. ASSUME NEW i \in 1 .. Len(s)
              PROVE  Fields!ValuesOf(s[i], m) = IF list[i][1] = m THEN <<list[i][2]>> ELSE <<>>
          <5>1. i \in 1 .. k /\ list[i] \in Entry
            BY <1>1, <2>4
          <5>2. Fields!ValuesOf(<<list[i]>>, m) = IF list[i][1] = m THEN <<list[i][2]>> ELSE <<>>
            BY <5>1, ValuesOfOne
          <5>3. Fields!ValuesOf(<<p>>, m) = <<>>
            BY <1>1, <3>1, ValuesOfOne
          <5> QED BY <2>2, <3>1, <5>1, <5>2, <5>3, ValuesEmpty
        <4>2. Len(s) = Len(list)
          BY <1>k, <2>4
        <4>3. Fields!ValuesOf(FlattenSeq(s), m) = Fields!ValuesOf(list, m)
          BY ONLY <1>1, <2>4, <4>1, <4>2, SameValues
        <4> QED BY <3>1, <4>3
      <3>2. CASE m = p[1]
        <4>v. PICK v : v = [i \in 1 .. Len(s) |-> Fields!ValuesOf(s[i], m)]
          OBVIOUS
        <4>1. Fields!ValuesOf(FlattenSeq(s), m) = FlattenSeq(v)
          BY <2>4, <4>v, ValuesFlat
        <4>2. \A i \in 1 .. k : v[i] = IF i = f THEN <<p[2]>> ELSE <<>>
          <5> TAKE i \in 1 .. k
          <5>1. v[i] = Fields!ValuesOf(s[i], m) /\ list[i] \in Entry
            BY <1>1, <2>4, <4>v
          <5>2. Fields!ValuesOf(<<list[i]>>, m) = IF list[i][1] = m THEN <<list[i][2]>> ELSE <<>>
            BY <5>1, ValuesOfOne
          <5>3. Fields!ValuesOf(<<p>>, m) = <<p[2]>>
            BY <1>1, <3>2, ValuesOfOne
          <5> QED BY <2>1, <2>2, <3>2, <5>1, <5>2, <5>3, ValuesEmpty
        <4>3. \A i \in 1 .. k : v[i] \in Seq(Word)
          BY <1>1, <4>2, EntryIs, OneIs
        <4>4. v \in Seq(Seq(Word)) /\ Len(v) = k
          BY <1>1, <2>4, <4>v, <4>3
        <4>5. f \in 1 .. Len(v) /\ \A i \in 1 .. Len(v) : i # f => v[i] = <<>>
          BY <2>1, <4>2, <4>4
        <4>6. FlattenSeq(v) = v[f]
          BY ONLY <4>4, <4>5, FlatOfOne
        <4> QED BY <2>1, <3>2, <4>1, <4>2, <4>6
      <3> QED BY <3>1, <3>2
    <2> QED BY <2>5, <2>6, <2>7
  <1> QED BY <1>2, <1>3

-----------------------------------------------------------------------------
(* The names of a list in their order.                                     *)

(* Where a name comes in the order of names. *)
Rk(n) == CHOOSE a \in 1 .. Len(Order) : Order[a] = n

LEMMA RkIs ==
    ASSUME Fields!HeadersAssumption, NEW m \in Fields!Names, NEW n \in Fields!Names
    PROVE  Rk(m) \in Nat /\ (Rk(m) = Rk(n) => m = n) /\ (Fields!Greater(m, n) <=> Rk(n) < Rk(m))
  <1>l. PICK l : l = Len(Order)
    OBVIOUS
  <1>1. /\ l \in Nat /\ DOMAIN Order = 1 .. l
        /\ \A a, b \in 1 .. l : Order[a] = Order[b] => a = b
    BY <1>l DEF Fields!HeadersAssumption, Fields!IsInjective
  <1>2. \A x \in Fields!Names : \E a \in 1 .. l : Order[a] = x
    BY <1>1 DEF Fields!Names, Fields!Range
  <1>3. \A x \in Fields!Names : Rk(x) \in 1 .. l /\ Order[Rk(x)] = x
    BY <1>l, <1>2 DEF Rk
  <1>4. \A a \in 1 .. l : \A x \in Fields!Names : Order[a] = x => a = Rk(x)
    BY <1>1, <1>3
  <1>5. Fields!Greater(m, n) <=> Rk(n) < Rk(m)
    <2>1. ASSUME Fields!Greater(m, n)
          PROVE  Rk(n) < Rk(m)
      <3>1. PICK a \in 1 .. l, b \in 1 .. l : b < a /\ Order[a] = m /\ Order[b] = n
        BY <1>1, <2>1 DEF Fields!Greater
      <3>2. a = Rk(m) /\ b = Rk(n)
        BY <1>4, <3>1
      <3> QED BY <3>1, <3>2
    <2>2. ASSUME Rk(n) < Rk(m)
          PROVE  Fields!Greater(m, n)
      <3>1. /\ Rk(m) \in DOMAIN Order /\ Rk(n) \in DOMAIN Order
            /\ Order[Rk(m)] = m /\ Order[Rk(n)] = n
        BY <1>1, <1>3
      <3> QED BY <2>2, <3>1 DEF Fields!Greater
    <2> QED BY <2>1, <2>2
  <1>6. Rk(m) \in Nat
    BY <1>1, <1>3
  <1>7. Rk(m) = Rk(n) => m = n
    BY <1>3
  <1> QED BY <1>5, <1>6, <1>7

LEMMA UniqueIs ==
    ASSUME NEW list \in Seq(KeptPairs)
    PROVE  \E u : /\ u = Fields!UniqueNames(list) /\ u \in Seq(Fields!Names)
                  /\ \A i, j \in 1 .. Len(u) : i < j => u[i] # u[j]
                  /\ \A i \in 1 .. Len(u) : \E j \in 1 .. Len(list) : list[j][1] = u[i]
                  /\ \A j \in 1 .. Len(list) : \E i \in 1 .. Len(u) : u[i] = list[j][1]
  <1>u. PICK u : u = Fields!UniqueNames(list)
    OBVIOUS
  <1>k. PICK k : k = Len(list)
    OBVIOUS
  <1> DEFINE Early(i) == \E j \in 1 .. i - 1 : list[j][1] = list[i][1]
  <1>s. PICK s : s = [i \in 1 .. k |-> IF Early(i) THEN <<>> ELSE <<list[i][1]>>]
    OBVIOUS
  <1>1. /\ k \in Nat /\ DOMAIN list = 1 .. k /\ \A i \in 1 .. k : list[i] \in KeptPairs
    BY <1>k
  <1>2. \A i \in 1 .. k : s[i] = IF Early(i) THEN <<>> ELSE <<list[i][1]>>
    BY <1>s
  <1>3. u = FlattenSeq(s)
    <2>1. u = Fields!FlattenSeq(s)
      BY <1>1, <1>s, <1>u DEF Fields!UniqueNames
    <2> QED BY <2>1, SameFlat
  <1>4. s = [i \in 1 .. k |-> s[i]]
    BY <1>s
  <1> HIDE DEF Early
  <1>5. \A i \in 1 .. k : list[i][1] \in Fields!Names
    BY <1>1, KeptIs
  <1>6. \A i \in 1 .. k : s[i] \in Seq(Fields!Names)
    BY <1>2, <1>5, OneIs
  <1>7. s \in Seq(Seq(Fields!Names)) /\ Len(s) = k
    BY ONLY <1>1, <1>4, <1>6, ListIs
  <1>8. u \in Seq(Fields!Names)
    BY <1>3, <1>7, FlatTyped
  <1>9. \A i \in 1 .. k : \A j \in 1 .. Len(s[i]) : ~Early(i) /\ j = 1 /\ s[i][j] = list[i][1]
    <2> TAKE i \in 1 .. k
    <2> TAKE j \in 1 .. Len(s[i])
    <2>1. CASE Early(i)
      <3>1. s[i] = <<>>
        BY <1>2, <2>1
      <3> QED BY <3>1
    <2>2. CASE ~Early(i)
      <3>1. s[i] = <<list[i][1]>>
        BY <1>2, <2>2
      <3> QED BY <2>2, <3>1
    <2> QED BY <2>1, <2>2
  <1>10. \A i, j \in 1 .. Len(u) : i < j => u[i] # u[j]
    <2>r. PICK R : R = {q \in Fields!Names \X Fields!Names : q[1] # q[2]}
      OBVIOUS
    <2>1. \A i \in 1 .. Len(s) : \A j, l \in 1 .. Len(s[i]) : j < l => <<s[i][j], s[i][l]>> \in R
      <3> TAKE i \in 1 .. Len(s)
      <3> TAKE j, l \in 1 .. Len(s[i])
      <3>1. j = 1 /\ l = 1
        BY <1>7, <1>9
      <3> QED BY <3>1
    <2>2. \A i, h \in 1 .. Len(s) : i < h =>
             \A j \in 1 .. Len(s[i]) : \A l \in 1 .. Len(s[h]) : <<s[i][j], s[h][l]>> \in R
      <3> SUFFICES ASSUME NEW i \in 1 .. Len(s), NEW h \in 1 .. Len(s), i < h,
                          NEW j \in 1 .. Len(s[i]), NEW l \in 1 .. Len(s[h])
                   PROVE  <<s[i][j], s[h][l]>> \in R
        OBVIOUS
      <3>1. s[i][j] = list[i][1] /\ s[h][l] = list[h][1] /\ ~Early(h)
        BY <1>7, <1>9
      <3>2. i \in 1 .. h - 1
        BY <1>1, <1>7
      <3>3. list[i][1] # list[h][1]
        BY <3>1, <3>2 DEF Early
      <3>4. list[i][1] \in Fields!Names /\ list[h][1] \in Fields!Names
        BY <1>5, <1>7
      <3> QED BY <2>r, <3>1, <3>3, <3>4
    <2>3. \A i, j \in 1 .. Len(FlattenSeq(s)) : i < j => <<FlattenSeq(s)[i], FlattenSeq(s)[j]>> \in R
      BY ONLY <1>7, <2>1, <2>2, FlatOrdered
    <2>4. \A x, y : <<x, y>> \in R => x # y
      BY <2>r
    <2> QED BY <1>3, <2>3, <2>4
  <1>11. /\ \A i \in 1 .. Len(u) : \E j \in 1 .. k : \E l \in 1 .. Len(s[j]) : u[i] = s[j][l]
         /\ \A j \in 1 .. k : \A l \in 1 .. Len(s[j]) : \E i \in 1 .. Len(u) : u[i] = s[j][l]
    <2>1. /\ \A i \in 1 .. Len(FlattenSeq(s)) :
                \E j \in 1 .. Len(s) : \E l \in 1 .. Len(s[j]) : FlattenSeq(s)[i] = s[j][l]
          /\ \A j \in 1 .. Len(s) : \A l \in 1 .. Len(s[j]) :
                \E i \in 1 .. Len(FlattenSeq(s)) : FlattenSeq(s)[i] = s[j][l]
      BY ONLY <1>7, FlatMembers
    <2> QED BY ONLY <1>3, <1>7, <2>1
  <1>12. \A i \in 1 .. Len(u) : \E j \in 1 .. k : list[j][1] = u[i]
    <2> TAKE i \in 1 .. Len(u)
    <2>1. PICK j \in 1 .. k : \E l \in 1 .. Len(s[j]) : u[i] = s[j][l]
      BY <1>11
    <2> QED BY <1>9, <2>1
  <1>13. \A j \in 1 .. k : \E i \in 1 .. Len(u) : u[i] = list[j][1]
    <2> TAKE j \in 1 .. k
    <2>s. PICK S : S = {h \in 1 .. k : list[h][1] = list[j][1]}
      OBVIOUS
    <2>1. S \in SUBSET Nat /\ S # {}
      BY <1>1, <2>s
    <2>2. PICK h \in S : \A x \in S : h <= x
      BY <2>1, Least
    <2>3. h \in 1 .. k /\ list[h][1] = list[j][1] /\ h \in Nat
      BY <2>1, <2>2, <2>s
    <2>4. ~Early(h)
      <3> SUFFICES ASSUME NEW x \in 1 .. h - 1, list[x][1] = list[h][1]
                   PROVE  FALSE
        BY DEF Early
      <3>1. x \in 1 .. k /\ x < h
        BY <1>1, <2>3
      <3>2. x \in S
        BY <2>s, <2>3, <3>1
      <3> QED BY <2>2, <2>3, <3>1, <3>2
    <2>5. s[h] = <<list[j][1]>>
      BY <1>2, <2>3, <2>4
    <2>6. 1 \in 1 .. Len(s[h]) /\ s[h][1] = list[j][1]
      BY <2>5
    <2> QED BY <1>11, <2>3, <2>6
  <1> QED BY <1>8, <1>10, <1>12, <1>13, <1>k, <1>u

Rising(t) == \A i, j \in 1 .. Len(t) : i < j => Rk(t[i]) < Rk(t[j])

(* A name goes after the last one that is not greater. *)
LEMMA InsertedIs ==
    ASSUME NEW t \in Seq(Fields!Names), NEW n \in Fields!Names
    PROVE  \E k \in 0 .. Len(t) :
              /\ Fields!Inserted(t, n) = (SubSeq(t, 1, k) \o <<n>>) \o SubSeq(t, k + 1, Len(t))
              /\ k # 0 => ~Fields!Greater(t[k], n)
              /\ \A i \in k + 1 .. Len(t) : Fields!Greater(t[i], n)
  <1>l. PICK l : l = Len(t)
    OBVIOUS
  <1>1. l \in Nat /\ DOMAIN t = 1 .. l
    BY <1>l
  <1>s. PICK S : S = {0} \cup {i \in DOMAIN t : ~Fields!Greater(t[i], n)}
    OBVIOUS
  <1>2. S \in SUBSET (0 .. l) /\ S # {}
    BY <1>1, <1>s
  <1>k. PICK k : k = Fields!Max(S)
    OBVIOUS
  <1>3. k \in S /\ \A y \in S : y <= k
    BY <1>1, <1>2, <1>k, EndsOf
  <1>4. k \in 0 .. l
    BY <1>2, <1>3
  <1>5. Fields!Inserted(t, n) = (SubSeq(t, 1, k) \o <<n>>) \o SubSeq(t, k + 1, Len(t))
    <2>1. (1 + k) - 1 = k /\ 1 + k = k + 1
      BY <1>1, <1>4
    <2>2. Fields!Inserted(t, n) = Fields!InsertAt(t, 1 + k, n)
      BY <1>k, <1>s DEF Fields!Inserted
    <2>3. Fields!InsertAt(t, 1 + k, n) = SubSeq(t, 1, (1 + k) - 1) \o <<n>> \o SubSeq(t, 1 + k, Len(t))
      BY DEF Fields!InsertAt
    <2> QED BY <2>1, <2>2, <2>3
  <1>6. k # 0 => ~Fields!Greater(t[k], n)
    BY <1>3, <1>s
  <1>7. \A i \in k + 1 .. Len(t) : Fields!Greater(t[i], n)
    <2> TAKE i \in k + 1 .. Len(t)
    <2>1. i \in DOMAIN t /\ ~(i <= k)
      BY <1>1, <1>4, <1>l
    <2>2. i \notin S
      BY <1>3, <2>1
    <2> QED BY <1>s, <2>1, <2>2
  <1> QED BY <1>4, <1>5, <1>6, <1>7, <1>l

LEMMA InsertKeeps ==
    ASSUME Fields!HeadersAssumption, NEW t \in Seq(Fields!Names), NEW n \in Fields!Names,
           Rising(t), \A i \in 1 .. Len(t) : t[i] # n
    PROVE  \E r : /\ r = Fields!Inserted(t, n) /\ r \in Seq(Fields!Names) /\ Rising(r)
                  /\ \A i \in 1 .. Len(r) : r[i] = n \/ \E j \in 1 .. Len(t) : r[i] = t[j]
                  /\ \E i \in 1 .. Len(r) : r[i] = n
                  /\ \A j \in 1 .. Len(t) : \E i \in 1 .. Len(r) : r[i] = t[j]
  <1>r. PICK r : r = Fields!Inserted(t, n)
    OBVIOUS
  <1>l. PICK l : l = Len(t)
    OBVIOUS
  <1>1. l \in Nat /\ \A i \in 1 .. l : t[i] \in Fields!Names
    BY <1>l
  <1>2. PICK k \in 0 .. l :
              /\ r = (SubSeq(t, 1, k) \o <<n>>) \o SubSeq(t, k + 1, l)
              /\ k # 0 => ~Fields!Greater(t[k], n)
              /\ \A i \in k + 1 .. l : Fields!Greater(t[i], n)
    BY <1>l, <1>r, InsertedIs
  <1>a. PICK a : a = SubSeq(t, 1, k)
    OBVIOUS
  <1>b. PICK b : b = SubSeq(t, k + 1, l)
    OBVIOUS
  <1>3. /\ a \in Seq(Fields!Names) /\ Len(a) = k /\ \A i \in 1 .. k : a[i] = t[i]
    BY <1>l, <1>1, <1>a
  <1>4. /\ b \in Seq(Fields!Names) /\ Len(b) = l - k /\ \A i \in 1 .. l - k : b[i] = t[k + i]
    BY <1>l, <1>1, <1>b
  <1>c. PICK c : c = a \o <<n>>
    OBVIOUS
  <1>5. /\ c \in Seq(Fields!Names) /\ Len(c) = k + 1 /\ c[k + 1] = n /\ \A i \in 1 .. k : c[i] = t[i]
    <2>1. a \in Seq(Fields!Names) /\ <<n>> \in Seq(Fields!Names) /\ Len(<<n>>) = 1 /\ <<n>>[1] = n
      BY <1>3, OneIs
    <2>2. /\ c \in Seq(Fields!Names) /\ Len(c) = Len(a) + 1 /\ c[Len(a) + 1] = n
          /\ \A i \in 1 .. Len(a) : c[i] = a[i]
      BY ONLY <1>c, <2>1
    <2> QED BY <1>3, <2>2
  <1>6. /\ r \in Seq(Fields!Names) /\ Len(r) = l + 1
        /\ \A i \in 1 .. k : r[i] = t[i]
        /\ r[k + 1] = n
        /\ \A i \in 1 .. l - k : r[k + 1 + i] = t[k + i]
    <2>1. r = c \o b
      BY <1>2, <1>a, <1>b, <1>c
    <2>2. c \in Seq(Fields!Names) /\ b \in Seq(Fields!Names)
      BY <1>4, <1>5
    <2>3. /\ r \in Seq(Fields!Names) /\ Len(r) = Len(c) + Len(b)
          /\ \A i \in 1 .. Len(c) : r[i] = c[i]
          /\ \A i \in 1 .. Len(b) : r[Len(c) + i] = b[i]
      BY ONLY <2>1, <2>2
    <2>4. Len(r) = l + 1
      BY <1>1, <1>4, <1>5, <2>3
    <2>5. \A i \in 1 .. k : r[i] = t[i]
      <3> TAKE i \in 1 .. k
      <3>1. i \in 1 .. Len(c)
        BY <1>5
      <3> QED BY <1>5, <2>3, <3>1
    <2>6. r[k + 1] = n
      <3>1. k + 1 \in 1 .. Len(c)
        BY <1>5
      <3> QED BY <1>5, <2>3, <3>1
    <2>7. \A i \in 1 .. l - k : r[k + 1 + i] = t[k + i]
      BY <1>4, <1>5, <2>3
    <2> QED BY <2>3, <2>4, <2>5, <2>6, <2>7
  <1>7. \A i \in 1 .. l : i <= k => Rk(t[i]) < Rk(n)
    <2> SUFFICES ASSUME NEW i \in 1 .. l, i <= k
                 PROVE  Rk(t[i]) < Rk(n)
      OBVIOUS
    <2>1. k \in 1 .. l /\ t[k] \in Fields!Names /\ t[i] \in Fields!Names
      BY <1>1
    <2>2. ~(Rk(n) < Rk(t[k])) /\ Rk(t[k]) # Rk(n)
      <3>1. t[k] # n
        BY <1>l, <2>1
      <3>2. ~Fields!Greater(t[k], n)
        BY <1>2, <2>1
      <3> QED BY <2>1, <3>1, <3>2, RkIs
    <2>3. Rk(t[k]) \in Nat /\ Rk(n) \in Nat /\ Rk(t[i]) \in Nat
      BY <2>1, RkIs
    <2>4. i = k \/ Rk(t[i]) < Rk(t[k])
      <3>1. i = k \/ i < k
        BY <1>1
      <3> QED BY <1>l, <2>1, <3>1 DEF Rising
    <2> QED BY <2>2, <2>3, <2>4
  <1>8. \A i \in 1 .. l : i > k => Rk(n) < Rk(t[i])
    <2> SUFFICES ASSUME NEW i \in 1 .. l, i > k
                 PROVE  Rk(n) < Rk(t[i])
      OBVIOUS
    <2>1. i \in k + 1 .. l
      BY <1>1
    <2>2. Fields!Greater(t[i], n) /\ t[i] \in Fields!Names
      BY <1>1, <1>2, <2>1
    <2> QED BY <2>2, RkIs
  <1>9. ASSUME NEW i \in 1 .. l + 1
        PROVE  \/ i \in 1 .. l /\ i <= k /\ r[i] = t[i]
               \/ i = k + 1 /\ r[i] = n
               \/ i - 1 \in 1 .. l /\ i - 1 > k /\ r[i] = t[i - 1]
    <2>1. CASE i <= k
      <3>1. i \in 1 .. k /\ i \in 1 .. l
        BY <1>1, <2>1
      <3> QED BY <1>6, <2>1, <3>1
    <2>2. CASE i = k + 1
      BY <1>6, <2>2
    <2>3. CASE i > k + 1
      <3>1. PICK j : j = i - k - 1
        OBVIOUS
      <3>2. j \in 1 .. l - k /\ k + 1 + j = i /\ k + j = i - 1 /\ i - 1 \in 1 .. l /\ i - 1 > k
        BY <1>1, <2>3, <3>1
      <3>3. r[k + 1 + j] = t[k + j]
        BY <1>6, <3>2
      <3> QED BY <3>2, <3>3
    <2> QED BY <1>1, <2>1, <2>2, <2>3
  <1>10. Rising(r)
    <2> SUFFICES ASSUME NEW i \in 1 .. l + 1, NEW j \in 1 .. l + 1, i < j
                 PROVE  Rk(r[i]) < Rk(r[j])
      BY <1>6 DEF Rising
    <2>t. \A x, y \in 1 .. l : x < y => Rk(t[x]) < Rk(t[y])
      BY <1>l DEF Rising
    <2>1. CASE i \in 1 .. l /\ i <= k /\ r[i] = t[i]
      <3>1. CASE j \in 1 .. l /\ j <= k /\ r[j] = t[j]
        BY <2>1, <2>t, <3>1
      <3>2. CASE j = k + 1 /\ r[j] = n
        BY <1>7, <2>1, <3>2
      <3>3. CASE j - 1 \in 1 .. l /\ j - 1 > k /\ r[j] = t[j - 1]
        <4>1. i < j - 1
          BY <1>1, <2>1, <3>3
        <4> QED BY <2>1, <2>t, <3>3, <4>1
      <3> QED BY <1>9, <3>1, <3>2, <3>3
    <2>2. CASE i = k + 1 /\ r[i] = n
      <3>1. j - 1 \in 1 .. l /\ j - 1 > k /\ r[j] = t[j - 1]
        <4>1. ~(j <= k) /\ j # k + 1
          BY <1>1, <2>2
        <4> QED BY <1>9, <4>1
      <3> QED BY <1>8, <2>2, <3>1
    <2>3. CASE i - 1 \in 1 .. l /\ i - 1 > k /\ r[i] = t[i - 1]
      <3>1. j - 1 \in 1 .. l /\ j - 1 > k /\ r[j] = t[j - 1]
        <4>1. ~(j <= k) /\ j # k + 1
          BY <1>1, <2>3
        <4> QED BY <1>9, <4>1
      <3>2. i - 1 < j - 1
        BY <1>1
      <3> QED BY <2>3, <2>t, <3>1, <3>2
    <2> QED BY <1>9, <2>1, <2>2, <2>3
  <1>11. \A i \in 1 .. Len(r) : r[i] = n \/ \E j \in 1 .. l : r[i] = t[j]
    BY <1>6, <1>9
  <1>12. \E i \in 1 .. Len(r) : r[i] = n
    <2>1. k + 1 \in 1 .. Len(r)
      BY <1>1, <1>6
    <2> QED BY <1>6, <2>1
  <1>13. \A j \in 1 .. l : \E i \in 1 .. Len(r) : r[i] = t[j]
    <2> TAKE j \in 1 .. l
    <2>1. CASE j <= k
      <3>1. j \in 1 .. k /\ j \in 1 .. Len(r)
        BY <1>1, <1>6, <2>1
      <3> QED BY <1>6, <3>1
    <2>2. CASE j > k
      <3>1. PICK i : i = j - k
        OBVIOUS
      <3>2. i \in 1 .. l - k /\ k + i = j /\ k + 1 + i \in 1 .. Len(r)
        BY <1>1, <1>6, <2>2, <3>1
      <3> QED BY <1>6, <3>2
    <2> QED BY <1>1, <2>1, <2>2
  <1> QED BY <1>6, <1>10, <1>11, <1>12, <1>13, <1>l, <1>r

LEMMA InsertTyped ==
    \A t \in Seq(Fields!Names) : \A n \in Fields!Names : Fields!Inserted(t, n) \in Seq(Fields!Names)
  <1> TAKE t \in Seq(Fields!Names)
  <1> TAKE n \in Fields!Names
  <1>1. PICK k \in 0 .. Len(t) : Fields!Inserted(t, n) = (SubSeq(t, 1, k) \o <<n>>) \o SubSeq(t, k + 1, Len(t))
    BY InsertedIs
  <1>2. SubSeq(t, 1, k) \in Seq(Fields!Names) /\ SubSeq(t, k + 1, Len(t)) \in Seq(Fields!Names)
    OBVIOUS
  <1>3. <<n>> \in Seq(Fields!Names)
    BY OneIs
  <1> QED BY <1>1, <1>2, <1>3

LEMMA SortedFollows ==
    ASSUME NEW names \in Seq(Fields!Names)
    PROVE  \E f : /\ f[0] = <<>> /\ \A i \in 1 .. Len(names) : f[i] = Fields!Inserted(f[i - 1], names[i])
                  /\ Fields!Sorted(names) = f[Len(names)]
  <1>n. PICK n : n = Len(names)
    OBVIOUS
  <1>A. PICK A : A = Seq(Fields!Names)
    OBVIOUS
  <1> DEFINE g == [i \in 1 .. n |-> [t \in A |-> Fields!Inserted(t, names[i])]]
  <1>1. n \in Nat /\ \A i \in 1 .. n : names[i] \in Fields!Names
    BY <1>n
  <1>2. g \in [1 .. n -> [A -> A]]
    <2>1. \A i \in 1 .. n : \A t \in A : Fields!Inserted(t, names[i]) \in A
      BY <1>1, <1>A, InsertTyped
    <2> QED BY <2>1
  <1>3. PICK f \in [0 .. n -> A] : f[0] = <<>> /\ \A i \in 1 .. n : f[i] = g[i][f[i - 1]]
    <2>1. <<>> \in A /\ n \in Nat
      BY <1>1, <1>A
    <2> HIDE DEF g
    <2>2. \E f \in [0 .. n -> A] : Follows(f, n, <<>>, g)
      BY ONLY <1>2, <2>1, GoesOn
    <2> QED BY <2>2 DEF Follows
  <1>4. \A i \in 1 .. n : i - 1 \in 0 .. n /\ f[i] = Fields!Inserted(f[i - 1], names[i])
    <2> TAKE i \in 1 .. n
    <2>1. i - 1 \in 0 .. n
      BY <1>1
    <2>2. f[i - 1] \in A
      BY <2>1
    <2> QED BY <1>3, <2>1, <2>2
  <1> HIDE DEF g
  <1> DEFINE Is(h) == h = [i \in 0 .. Len(names) |-> IF i = 0 THEN <<>> ELSE Fields!Inserted(h[i - 1], names[i])]
             c == CHOOSE h : Is(h)
  <1>5. Is(f)
    <2>1. \A i \in 0 .. n : f[i] = IF i = 0 THEN <<>> ELSE Fields!Inserted(f[i - 1], names[i])
      <3> TAKE i \in 0 .. n
      <3>1. i = 0 \/ i \in 1 .. n
        BY <1>1
      <3> QED BY <1>1, <1>3, <1>4, <3>1
    <2>2. f = [i \in 0 .. n |-> f[i]]
      OBVIOUS
    <2> QED BY <1>n, <2>1, <2>2
  <1>6. Is(c)
    <2> HIDE DEF Is
    <2> QED BY <1>5
  <1>7. \A i \in 0 .. n : c[i] = IF i = 0 THEN <<>> ELSE Fields!Inserted(c[i - 1], names[i])
    <2> HIDE DEF c
    <2> QED BY <1>n, <1>6
  <1>8. Fields!Sorted(names) = c[n]
    BY <1>n DEF Fields!Sorted
  <1> HIDE DEF c, Is
  <1>9. c[0] = <<>> /\ \A i \in 1 .. n : c[i] = Fields!Inserted(c[i - 1], names[i])
    <2>1. 0 \in 0 .. n /\ \A i \in 1 .. n : i \in 0 .. n /\ i # 0
      BY <1>1
    <2> QED BY <1>7, <2>1
  <1> QED BY <1>n, <1>8, <1>9

LEMMA SortedIs ==
    ASSUME Fields!HeadersAssumption, NEW names \in Seq(Fields!Names),
           \A i, j \in 1 .. Len(names) : i < j => names[i] # names[j]
    PROVE  /\ Fields!Sorted(names) \in Seq(Fields!Names) /\ Rising(Fields!Sorted(names))
           /\ \A i \in 1 .. Len(Fields!Sorted(names)) :
                 \E j \in 1 .. Len(names) : Fields!Sorted(names)[i] = names[j]
           /\ \A j \in 1 .. Len(names) :
                 \E i \in 1 .. Len(Fields!Sorted(names)) : Fields!Sorted(names)[i] = names[j]
  <1>n. PICK n : n = Len(names)
    OBVIOUS
  <1>0. n \in Nat /\ \A i \in 1 .. n : names[i] \in Fields!Names
    BY <1>n
  <1>1. PICK f : /\ f[0] = <<>> /\ \A i \in 1 .. n : f[i] = Fields!Inserted(f[i - 1], names[i])
                 /\ Fields!Sorted(names) = f[n]
    BY <1>n, SortedFollows
  <1> DEFINE From(m) == \A i \in 1 .. Len(f[m]) : \E j \in 1 .. m : f[m][i] = names[j]
             Into(m) == \A j \in 1 .. m : \E i \in 1 .. Len(f[m]) : f[m][i] = names[j]
             S == {m \in 0 .. n : f[m] \in Seq(Fields!Names) /\ Rising(f[m]) /\ From(m) /\ Into(m)}
  <1>2. S \in SUBSET Nat
    BY <1>0
  <1>3. 0 \in S
    <2>1. f[0] \in Seq(Fields!Names) /\ Len(f[0]) = 0
      BY <1>1
    <2>2. Rising(f[0]) /\ From(0) /\ Into(0)
      BY <2>1 DEF Rising
    <2> HIDE DEF From, Into
    <2> QED BY <1>0, <2>1, <2>2
  <1>4. \A m \in 1 .. n : m - 1 \in S => m \in S
    <2> SUFFICES ASSUME NEW m \in 1 .. n, m - 1 \in S
                 PROVE  m \in S
      OBVIOUS
    <2>a. PICK a : a = f[m - 1]
      OBVIOUS
    <2>1. /\ a \in Seq(Fields!Names) /\ Rising(a)
          /\ \A i \in 1 .. Len(a) : \E j \in 1 .. m - 1 : a[i] = names[j]
          /\ \A j \in 1 .. m - 1 : \E i \in 1 .. Len(a) : a[i] = names[j]
      BY <2>a
    <2>2. names[m] \in Fields!Names /\ \A i \in 1 .. Len(a) : a[i] # names[m]
      <3>1. \A j \in 1 .. m - 1 : names[j] # names[m]
        <4> TAKE j \in 1 .. m - 1
        <4>1. j \in 1 .. Len(names) /\ m \in 1 .. Len(names) /\ j < m
          BY <1>0, <1>n
        <4> QED BY <4>1
      <3> QED BY <1>0, <2>1, <3>1
    <2>4. PICK r : /\ r = Fields!Inserted(a, names[m]) /\ r \in Seq(Fields!Names) /\ Rising(r)
                   /\ \A i \in 1 .. Len(r) : r[i] = names[m] \/ \E j \in 1 .. Len(a) : r[i] = a[j]
                   /\ \E i \in 1 .. Len(r) : r[i] = names[m]
                   /\ \A j \in 1 .. Len(a) : \E i \in 1 .. Len(r) : r[i] = a[j]
      BY ONLY Fields!HeadersAssumption, <2>1, <2>2, InsertKeeps
    <2>r. r = f[m]
      BY <1>1, <2>a, <2>4
    <2>5. From(m)
      <3> SUFFICES ASSUME NEW i \in 1 .. Len(r)
                   PROVE  \E j \in 1 .. m : r[i] = names[j]
        BY <2>r
      <3>1. CASE r[i] = names[m]
        <4>1. m \in 1 .. m
          BY <1>0
        <4> QED BY <3>1, <4>1
      <3>2. CASE \E j \in 1 .. Len(a) : r[i] = a[j]
        <4>1. PICK j \in 1 .. m - 1 : r[i] = names[j]
          BY <2>1, <3>2
        <4>2. j \in 1 .. m
          BY <1>0
        <4> QED BY <4>1, <4>2
      <3> QED BY <2>4, <3>1, <3>2
    <2>6. Into(m)
      <3> SUFFICES ASSUME NEW j \in 1 .. m
                   PROVE  \E i \in 1 .. Len(r) : r[i] = names[j]
        BY <2>r
      <3>1. CASE j = m
        BY <2>4, <3>1
      <3>2. CASE j # m
        <4>1. j \in 1 .. m - 1
          BY <1>0, <3>2
        <4>2. PICK h \in 1 .. Len(a) : a[h] = names[j]
          BY <2>1, <4>1
        <4> QED BY <2>4, <4>2
      <3> QED BY <3>1, <3>2
    <2>7. m \in 0 .. n
      BY <1>0
    <2> HIDE DEF From, Into
    <2> QED BY <2>r, <2>4, <2>5, <2>6, <2>7
  <1>5. n \in S
    <2> HIDE DEF S
    <2> QED BY ONLY <1>0, <1>2, <1>3, <1>4, Climb
  <1>6. f[n] \in Seq(Fields!Names) /\ Rising(f[n]) /\ From(n) /\ Into(n)
    <2> HIDE DEF From, Into
    <2> QED BY <1>5
  <1> QED BY <1>n, <1>1, <1>6

(* The names that iteration goes through. *)
LEMMA NamesAre ==
    ASSUME Fields!HeadersAssumption, NEW list \in Seq(KeptPairs)
    PROVE  \E s : /\ s = Fields!Sorted(Fields!UniqueNames(list)) /\ s \in Seq(Fields!Names) /\ Rising(s)
                  /\ \A i \in 1 .. Len(s) : \E j \in 1 .. Len(list) : list[j][1] = s[i]
                  /\ \A j \in 1 .. Len(list) : \E i \in 1 .. Len(s) : s[i] = list[j][1]
  <1>1. PICK u : /\ u = Fields!UniqueNames(list) /\ u \in Seq(Fields!Names)
                 /\ \A i, j \in 1 .. Len(u) : i < j => u[i] # u[j]
                 /\ \A i \in 1 .. Len(u) : \E j \in 1 .. Len(list) : list[j][1] = u[i]
                 /\ \A j \in 1 .. Len(list) : \E i \in 1 .. Len(u) : u[i] = list[j][1]
    BY UniqueIs
  <1>2. /\ Fields!Sorted(u) \in Seq(Fields!Names) /\ Rising(Fields!Sorted(u))
        /\ \A i \in 1 .. Len(Fields!Sorted(u)) : \E j \in 1 .. Len(u) : Fields!Sorted(u)[i] = u[j]
        /\ \A j \in 1 .. Len(u) : \E i \in 1 .. Len(Fields!Sorted(u)) : Fields!Sorted(u)[i] = u[j]
    BY ONLY Fields!HeadersAssumption, <1>1, SortedIs
  <1>3. PICK s : s = Fields!Sorted(u)
    OBVIOUS
  <1>4. \A i \in 1 .. Len(s) : \E j \in 1 .. Len(list) : list[j][1] = s[i]
    <2> TAKE i \in 1 .. Len(s)
    <2>1. PICK j \in 1 .. Len(u) : s[i] = u[j]
      BY ONLY <1>2, <1>3, i \in 1 .. Len(s)
    <2>2. \A h \in 1 .. Len(u) : \E l \in 1 .. Len(list) : list[l][1] = u[h]
      BY ONLY <1>1
    <2>3. PICK l \in 1 .. Len(list) : list[l][1] = u[j]
      BY ONLY <2>2, j \in 1 .. Len(u), Zenon
    <2> QED BY ONLY <2>1, <2>3, l \in 1 .. Len(list)
  <1>5. \A j \in 1 .. Len(list) : \E i \in 1 .. Len(s) : s[i] = list[j][1]
    <2> TAKE j \in 1 .. Len(list)
    <2>1. PICK h \in 1 .. Len(u) : u[h] = list[j][1]
      BY ONLY <1>1, j \in 1 .. Len(list)
    <2> QED BY ONLY <1>2, <1>3, <2>1
  <1> QED BY ONLY <1>1, <1>2, <1>3, <1>4, <1>5
-----------------------------------------------------------------------------
(* What iteration goes through.                                            *)

LEMMA PairsAre ==
    ASSUME Fields!HeadersAssumption, NEW list \in Seq(KeptPairs), NEW n \in Fields!Names
    PROVE  \E p : /\ p = Fields!PairsOf(list, n) /\ p \in Seq(Entry)
                  /\ \A i \in 1 .. Len(p) : p[i][1] = n
                  /\ \A m : m # n => Fields!ValuesOf(p, m) = <<>>
                  /\ Fields!ValuesOf(p, n) = IF n = "set-cookie" THEN Fields!ValuesOf(list, n)
                                             ELSE <<Fields!JoinedValues(Fields!ValuesOf(list, n))>>
  <1>p. PICK p : p = Fields!PairsOf(list, n)
    OBVIOUS
  <1>v. PICK v : v = Fields!ValuesOf(list, n)
    OBVIOUS
  <1>1. list \in Seq(Entry) /\ v \in Seq(Word)
    <2>1. list \in Seq(Entry)
      BY KeptIs
    <2> QED BY <1>v, <2>1, ChosenTyped
  <1>2. CASE n = "set-cookie"
    <2>k. PICK k : k = Len(v)
      OBVIOUS
    <2>1. k \in Nat /\ DOMAIN v = 1 .. k /\ \A i \in 1 .. k : v[i] \in Word
      BY <1>1, <2>k
    <2>2. p = [i \in 1 .. k |-> <<n, v[i]>>]
      <3>1. p = Fields!CookiePairs(list)
        BY <1>p, <1>2 DEF Fields!PairsOf
      <3>2. Fields!GetSetCookie(list) = v
        BY <1>v, <1>2 DEF Fields!GetSetCookie
      <3> QED BY <1>2, <2>1, <3>1, <3>2 DEF Fields!CookiePairs
    <2>3. \A i \in 1 .. k : p[i] = <<n, v[i]>>
      BY <2>2
    <2>4. \A i \in 1 .. k : p[i] \in Entry /\ p[i][1] = n /\ p[i][2] = v[i]
      <3> TAKE i \in 1 .. k
      <3>1. v[i] \in Word /\ p[i] = <<n, v[i]>>
        BY <2>1, <2>3
      <3>2. <<n, v[i]>> \in Entry /\ <<n, v[i]>>[1] = n /\ <<n, v[i]>>[2] = v[i]
        BY <3>1, EntryIs
      <3> QED BY ONLY <3>1, <3>2
    <2>5. p \in Seq(Entry) /\ Len(p) = k
      <3>1. p = [i \in 1 .. k |-> p[i]]
        BY <2>2
      <3> QED BY ONLY <2>1, <2>4, <3>1, ListIs
    <2>6. \A m : m # n => Fields!ValuesOf(p, m) = <<>>
      <3> SUFFICES ASSUME NEW m, m # n
                   PROVE  Fields!ValuesOf(p, m) = <<>>
        OBVIOUS
      <3>1. \A i \in 1 .. Len(p) : p[i][1] # m
        BY <2>4, <2>5
      <3> QED BY ONLY <2>5, <3>1, ValuesNone
    <2>7. Fields!ValuesOf(p, n) = v
      <3>c. PICK c : c = Chosen(p, n)
        OBVIOUS
      <3>1. Fields!ValuesOf(p, n) = FlattenSeq(c)
        BY <2>5, <3>c, ChosenTyped
      <3>2. c = [i \in 1 .. k |-> <<v[i]>>]
        <4>1. DOMAIN p = 1 .. k
          BY <2>2
        <4>2. c = [i \in 1 .. k |-> IF p[i][1] = n THEN <<p[i][2]>> ELSE <<>>]
          BY <3>c, <4>1 DEF Chosen
        <4>3. \A i \in 1 .. k : (IF p[i][1] = n THEN <<p[i][2]>> ELSE <<>>) = <<v[i]>>
          BY <2>4
        <4> QED BY <4>2, <4>3
      <3>3. FlattenSeq([i \in 1 .. Len(v) |-> <<v[i]>>]) = v
        BY ONLY <1>1, FlatOfSingles
      <3> QED BY <2>k, <3>1, <3>2, <3>3
    <2> QED BY <1>2, <1>p, <1>v, <2>4, <2>5, <2>6, <2>7
  <1>3. CASE n # "set-cookie"
    <2>j. PICK j : j = Fields!JoinedValues(v)
      OBVIOUS
    <2>1. j \in Word
      BY <1>v, <2>j DEF Word
    <2>e. PICK e : e = <<n, j>>
      OBVIOUS
    <2>2. e \in Entry /\ e[1] = n /\ e[2] = j
      BY <2>1, <2>e, EntryIs
    <2>3. p = <<e>>
      BY <1>3, <1>p, <1>v, <2>j, <2>e DEF Fields!PairsOf, Fields!RegularPair
    <2>4. p \in Seq(Entry) /\ Len(p) = 1 /\ p[1] = e
      BY <2>2, <2>3, OneIs
    <2>5. \A m : Fields!ValuesOf(p, m) = IF n = m THEN <<j>> ELSE <<>>
      <3> TAKE m
      <3>1. Fields!ValuesOf(<<e>>, m) = IF e[1] = m THEN <<e[2]>> ELSE <<>>
        BY <2>2, ValuesOfOne
      <3> QED BY <2>2, <2>3, <3>1
    <2>6. \A i \in 1 .. Len(p) : p[i][1] = n
      BY <2>2, <2>4
    <2> QED BY <1>3, <1>p, <1>v, <2>j, <2>4, <2>5, <2>6
  <1> QED BY <1>2, <1>3

LEMMA NormalizedIs ==
    ASSUME Fields!HeadersAssumption, NEW list \in Seq(KeptPairs)
    PROVE  \E q : /\ q = Fields!NormalizedPairs(list) /\ q \in Seq(Entry)
                  /\ \A n \in Fields!Names :
                        Fields!ValuesOf(q, n) =
                           IF n = "set-cookie" THEN Fields!ValuesOf(list, n)
                           ELSE IF Fields!ValuesOf(list, n) = <<>> THEN <<>>
                           ELSE <<Fields!JoinedValues(Fields!ValuesOf(list, n))>>
                  /\ \A i, j \in 1 .. Len(q) : i < j => ~Fields!Greater(q[i][1], q[j][1])
  <1>q. PICK q : q = Fields!NormalizedPairs(list)
    OBVIOUS
  <1>1. PICK s : /\ s = Fields!Sorted(Fields!UniqueNames(list)) /\ s \in Seq(Fields!Names) /\ Rising(s)
                 /\ \A i \in 1 .. Len(s) : \E j \in 1 .. Len(list) : list[j][1] = s[i]
                 /\ \A j \in 1 .. Len(list) : \E i \in 1 .. Len(s) : s[i] = list[j][1]
    BY NamesAre
  <1>k. PICK k : k = Len(s)
    OBVIOUS
  <1>2. k \in Nat /\ DOMAIN s = 1 .. k /\ list \in Seq(Entry) /\ \A i \in 1 .. k : s[i] \in Fields!Names
    <2>1. list \in Seq(Entry)
      BY KeptIs
    <2> QED BY <1>1, <1>k, <2>1
  <1>t. PICK t : t = [i \in 1 .. k |-> Fields!PairsOf(list, s[i])]
    OBVIOUS
  <1>3. q = FlattenSeq(t)
    <2>1. q = Fields!FlattenSeq([i \in DOMAIN s |-> Fields!PairsOf(list, s[i])])
      BY <1>1, <1>q DEF Fields!NormalizedPairs
    <2>2. [i \in DOMAIN s |-> Fields!PairsOf(list, s[i])] = t
      BY <1>2, <1>t
    <2> QED BY <2>1, <2>2, SameFlat
  <1>4. ASSUME NEW i \in 1 .. k
        PROVE  /\ t[i] \in Seq(Entry)
               /\ \A j \in 1 .. Len(t[i]) : t[i][j][1] = s[i]
               /\ \A m : m # s[i] => Fields!ValuesOf(t[i], m) = <<>>
               /\ Fields!ValuesOf(t[i], s[i]) = IF s[i] = "set-cookie" THEN Fields!ValuesOf(list, s[i])
                                                ELSE <<Fields!JoinedValues(Fields!ValuesOf(list, s[i]))>>
    <2>1. t[i] = Fields!PairsOf(list, s[i]) /\ s[i] \in Fields!Names
      BY <1>2, <1>t
    <2>2. \E p : /\ p = Fields!PairsOf(list, s[i]) /\ p \in Seq(Entry)
                 /\ \A j \in 1 .. Len(p) : p[j][1] = s[i]
                 /\ \A m : m # s[i] => Fields!ValuesOf(p, m) = <<>>
                 /\ Fields!ValuesOf(p, s[i]) = IF s[i] = "set-cookie" THEN Fields!ValuesOf(list, s[i])
                                               ELSE <<Fields!JoinedValues(Fields!ValuesOf(list, s[i]))>>
      BY <2>1, PairsAre
    <2> QED BY ONLY <2>1, <2>2
  <1>5. t \in Seq(Seq(Entry)) /\ Len(t) = k
    <2>1. t = [i \in 1 .. k |-> t[i]]
      BY <1>t
    <2>2. \A i \in 1 .. k : t[i] \in Seq(Entry)
      BY <1>4
    <2> QED BY ONLY <1>2, <2>1, <2>2, ListIs
  <1>6. q \in Seq(Entry)
    BY <1>3, <1>5, FlatTyped
  <1>7. ASSUME NEW n \in Fields!Names
        PROVE  Fields!ValuesOf(q, n) =
                  IF n = "set-cookie" THEN Fields!ValuesOf(list, n)
                  ELSE IF Fields!ValuesOf(list, n) = <<>> THEN <<>>
                  ELSE <<Fields!JoinedValues(Fields!ValuesOf(list, n))>>
    <2>v. PICK v : v = [i \in 1 .. k |-> Fields!ValuesOf(t[i], n)]
      OBVIOUS
    <2>1. Fields!ValuesOf(q, n) = FlattenSeq(v)
      <3>1. Fields!ValuesOf(FlattenSeq(t), n) = FlattenSeq([i \in 1 .. Len(t) |-> Fields!ValuesOf(t[i], n)])
        BY ONLY <1>5, ValuesFlat
      <3> QED BY <1>3, <1>5, <2>v, <3>1
    <2>2. \A i \in 1 .. k : v[i] = Fields!ValuesOf(t[i], n)
      BY <2>v
    <2>3. v \in Seq(Seq(Word)) /\ Len(v) = k
      <3>1. v = [i \in 1 .. k |-> v[i]]
        BY <2>v
      <3>2. \A i \in 1 .. k : v[i] \in Seq(Word)
        <4> TAKE i \in 1 .. k
        <4>1. t[i] \in Seq(Entry)
          BY <1>4
        <4>2. Fields!ValuesOf(t[i], n) \in Seq(Word)
          BY ONLY <4>1, ChosenTyped
        <4> QED BY ONLY <2>2, <4>2, i \in 1 .. k
      <3> QED BY ONLY <1>2, <3>1, <3>2, ListIs
    <2>4. CASE \E i \in 1 .. k : s[i] = n
      <3>1. PICK i \in 1 .. k : s[i] = n
        BY <2>4
      <3>2. \A j \in 1 .. k : j # i => s[j] # n
        <4> SUFFICES ASSUME NEW j \in 1 .. k, j # i, s[j] = n
                     PROVE  FALSE
          OBVIOUS
        <4>1. j < i \/ i < j
          BY <1>2
        <4>2. Rk(s[j]) < Rk(s[i]) \/ Rk(s[i]) < Rk(s[j])
          BY <1>1, <1>k, <4>1 DEF Rising
        <4>3. Rk(n) \in Nat
          BY RkIs
        <4> QED BY <3>1, <4>2, <4>3
      <3>3. \A j \in 1 .. Len(v) : j # i => v[j] = <<>>
        <4> SUFFICES ASSUME NEW j \in 1 .. k, j # i
                     PROVE  v[j] = <<>>
          BY <2>3
        <4>1. n # s[j]
          BY <3>2
        <4>2. Fields!ValuesOf(t[j], n) = <<>>
          BY <1>4, <4>1
        <4> QED BY <2>2, <4>2
      <3>4. FlattenSeq(v) = v[i]
        <4>1. i \in 1 .. Len(v)
          BY <2>3
        <4> QED BY ONLY <2>3, <3>3, <4>1, FlatOfOne
      <3>5. v[i] = IF n = "set-cookie" THEN Fields!ValuesOf(list, n)
                   ELSE <<Fields!JoinedValues(Fields!ValuesOf(list, n))>>
        <4>1. Fields!ValuesOf(t[i], s[i]) = IF s[i] = "set-cookie" THEN Fields!ValuesOf(list, s[i])
                                            ELSE <<Fields!JoinedValues(Fields!ValuesOf(list, s[i]))>>
          BY <1>4
        <4> QED BY <2>2, <3>1, <4>1
      <3>6. Fields!ValuesOf(list, n) # <<>>
        <4>1. PICK j \in 1 .. Len(list) : list[j][1] = n
          BY <1>1, <1>k, <3>1
        <4> QED BY <1>2, <4>1, ValuesSome
      <3> QED BY <2>1, <3>4, <3>5, <3>6
    <2>5. CASE ~\E i \in 1 .. k : s[i] = n
      <3>1. \A i \in 1 .. Len(v) : v[i] = <<>>
        <4> SUFFICES ASSUME NEW i \in 1 .. k
                     PROVE  v[i] = <<>>
          BY <2>3
        <4>1. n # s[i]
          BY <2>5
        <4>2. Fields!ValuesOf(t[i], n) = <<>>
          BY <1>4, <4>1
        <4> QED BY <2>2, <4>2
      <3>2. FlattenSeq(v) = <<>>
        BY ONLY <2>3, <3>1, FlatOfNone
      <3>3. \A j \in 1 .. Len(list) : list[j][1] # n
        BY <1>1, <1>k, <2>5
      <3>4. Fields!ValuesOf(list, n) = <<>>
        BY <1>2, <3>3, ValuesNone
      <3> QED BY <2>1, <3>2, <3>4
    <2> QED BY <2>4, <2>5
  <1>8. \A i, j \in 1 .. Len(q) : i < j => ~Fields!Greater(q[i][1], q[j][1])
    <2>r. PICK R : R = {x \in Entry \X Entry : ~Fields!Greater(x[1][1], x[2][1])}
      OBVIOUS
    <2>1. \A x, y \in Entry : <<x, y>> \in R <=> ~Fields!Greater(x[1], y[1])
      BY <2>r
    <2>2. \A i \in 1 .. Len(t) : \A j, l \in 1 .. Len(t[i]) : j < l => <<t[i][j], t[i][l]>> \in R
      <3> SUFFICES ASSUME NEW i \in 1 .. k, NEW j \in 1 .. Len(t[i]), NEW l \in 1 .. Len(t[i])
                   PROVE  <<t[i][j], t[i][l]>> \in R
        BY <1>5
      <3>1. t[i][j] \in Entry /\ t[i][l] \in Entry /\ t[i][j][1] = s[i] /\ t[i][l][1] = s[i]
        <4>1. t[i] \in Seq(Entry)
          BY <1>4
        <4>2. \A x \in 1 .. Len(t[i]) : t[i][x][1] = s[i]
          BY <1>4
        <4>3. \A x \in 1 .. Len(t[i]) : t[i][x] \in Entry
          BY ONLY <4>1
        <4> QED BY ONLY <4>2, <4>3, j \in 1 .. Len(t[i]), l \in 1 .. Len(t[i])
      <3>2. ~Fields!Greater(s[i], s[i])
        <4>1. s[i] \in Fields!Names
          BY <1>2
        <4>2. Rk(s[i]) \in Nat /\ (Fields!Greater(s[i], s[i]) <=> Rk(s[i]) < Rk(s[i]))
          BY <4>1, RkIs
        <4> QED BY ONLY <4>2
      <3> QED BY ONLY <2>1, <3>1, <3>2
    <2>3. \A i, h \in 1 .. Len(t) : i < h =>
             \A j \in 1 .. Len(t[i]) : \A l \in 1 .. Len(t[h]) : <<t[i][j], t[h][l]>> \in R
      <3> SUFFICES ASSUME NEW i \in 1 .. k, NEW h \in 1 .. k, i < h,
                          NEW j \in 1 .. Len(t[i]), NEW l \in 1 .. Len(t[h])
                   PROVE  <<t[i][j], t[h][l]>> \in R
        BY <1>5
      <3>1. t[i][j] \in Entry /\ t[h][l] \in Entry /\ t[i][j][1] = s[i] /\ t[h][l][1] = s[h]
        <4>1. /\ t[i] \in Seq(Entry) /\ t[h] \in Seq(Entry)
              /\ (\A x \in 1 .. Len(t[i]) : t[i][x][1] = s[i])
              /\ (\A x \in 1 .. Len(t[h]) : t[h][x][1] = s[h])
          BY <1>4
        <4>2. t[i][j] \in Entry /\ t[h][l] \in Entry
          BY ONLY <4>1, j \in 1 .. Len(t[i]), l \in 1 .. Len(t[h])
        <4> QED BY ONLY <4>1, <4>2, j \in 1 .. Len(t[i]), l \in 1 .. Len(t[h])
      <3>2. ~Fields!Greater(s[i], s[h])
        <4>1. s[i] \in Fields!Names /\ s[h] \in Fields!Names
          BY <1>2
        <4>2. Rk(s[i]) < Rk(s[h])
          BY <1>1, <1>k DEF Rising
        <4>3. Rk(s[i]) \in Nat /\ Rk(s[h]) \in Nat /\ (Fields!Greater(s[i], s[h]) <=> Rk(s[h]) < Rk(s[i]))
          BY <4>1, RkIs
        <4> QED BY ONLY <4>2, <4>3
      <3> QED BY ONLY <2>1, <3>1, <3>2
    <2>4. \A i, j \in 1 .. Len(FlattenSeq(t)) : i < j => <<FlattenSeq(t)[i], FlattenSeq(t)[j]>> \in R
      BY ONLY <1>5, <2>2, <2>3, FlatOrdered
    <2> SUFFICES ASSUME NEW i \in 1 .. Len(q), NEW j \in 1 .. Len(q), i < j
                 PROVE  ~Fields!Greater(q[i][1], q[j][1])
      OBVIOUS
    <2>5. q[i] \in Entry /\ q[j] \in Entry
      BY <1>6
    <2>6. <<q[i], q[j]>> \in R
      BY ONLY <1>3, <2>4, i \in 1 .. Len(q), j \in 1 .. Len(q), i < j
    <2> QED BY <2>1, <2>5, <2>6
  <1> QED BY <1>6, <1>7, <1>8, <1>q
-----------------------------------------------------------------------------
(* What holds of the objects after every call.                             *)

(* The values v hold of the list, names left aside. *)
HoldOf(v, list, names) ==
    /\ DOMAIN v = Fields!Names /\ names \subseteq Fields!Names
    /\ \A n \in Fields!Names \ names : v[n] = Fields!ValuesOf(list, n)

(* e are the entries of the objects made, g what the calls gave them, and  *)
(* l the names whose values were lost.                                     *)
FieldsGood(e, g, l) ==
    /\ DOMAIN e \subseteq Object /\ DOMAIN g = DOMAIN e /\ DOMAIN l = DOMAIN e
    /\ \A o \in DOMAIN e : e[o] \in Seq(KeptPairs) /\ Fields!Fits(e[o]) /\ HoldOf(g[o], e[o], l[o])

LEMMA BecomeGood ==
    ASSUME FieldsGood(entries, given, lost), NEW o \in Object, NEW list \in Seq(KeptPairs), NEW v, NEW names,
           HoldOf(v, list, names), Fields!Become(o, list, v, names)
    PROVE  FieldsGood(entries', given', lost')
  <1>1. /\ Fields!Fits(list)
        /\ entries' = [x \in DOMAIN entries \cup {o} |-> IF x = o THEN list ELSE entries[x]]
        /\ given' = [x \in DOMAIN entries \cup {o} |-> IF x = o THEN v ELSE given[x]]
        /\ lost' = [x \in DOMAIN entries \cup {o} |-> IF x = o THEN names ELSE lost[x]]
    BY DEF Fields!Become, Fields!Made
  <1>2. DOMAIN entries' = DOMAIN entries \cup {o} /\ DOMAIN given' = DOMAIN entries' /\ DOMAIN lost' = DOMAIN entries'
    BY <1>1
  <1>3. DOMAIN entries' \subseteq Object
    BY <1>2 DEF FieldsGood
  <1>4. ASSUME NEW x \in DOMAIN entries'
        PROVE  entries'[x] \in Seq(KeptPairs) /\ Fields!Fits(entries'[x]) /\ HoldOf(given'[x], entries'[x], lost'[x])
    <2>1. CASE x = o
      <3>1. entries'[x] = list /\ given'[x] = v /\ lost'[x] = names
        BY <1>1, <1>2, <2>1
      <3> QED BY <1>1, <3>1
    <2>2. CASE x # o
      <3>1. x \in DOMAIN entries /\ entries'[x] = entries[x] /\ given'[x] = given[x] /\ lost'[x] = lost[x]
        BY <1>1, <1>2, <2>2
      <3> QED BY <3>1 DEF FieldsGood
    <2> QED BY <2>1, <2>2
  <1> QED BY <1>2, <1>3, <1>4 DEF FieldsGood

LEMMA ByName == \A list : HoldOf(Fields!ValuesByName(list), list, {})
  BY DEF HoldOf, Fields!ValuesByName

LEMMA LiteralGood ==
    ASSUME Fields!HeadersAssumption, FieldsGood(entries, given, lost), NEW o \in Object,
           NEW pairs \in Fields!SeqOf((DOMAIN LowerOf \cup Invalid) \X Texts, 2),
           Fields!NewFromLiteral(o, pairs)
    PROVE  FieldsGood(entries', given', lost')
  <1>A. PICK A : A = (DOMAIN LowerOf \cup Invalid) \X Texts
    OBVIOUS
  <1>1. PICK k \in Nat : pairs \in [1 .. k -> A]
    <2>1. pairs \in UNION {[1 .. m -> A] : m \in 0 .. 2}
      BY <1>A DEF Fields!SeqOf
    <2>2. PICK F \in {[1 .. m -> A] : m \in 0 .. 2} : pairs \in F
      BY ONLY <2>1
    <2>3. PICK m \in 0 .. 2 : F = [1 .. m -> A]
      BY ONLY <2>2
    <2>4. m \in Nat /\ pairs \in [1 .. m -> A]
      BY ONLY <2>2, <2>3
    <2> QED BY ONLY <2>4
  <1>l. PICK list : list = Fields!PairsGiven(pairs)
    OBVIOUS
  <1>2. /\ Fields!Become(o, list, Fields!ValuesByName(list), {})
        /\ \A i \in DOMAIN pairs : Fields!Accepted(pairs[i][1], pairs[i][2])
    BY <1>l DEF Fields!NewFromLiteral
  <1>3. \A i \in 1 .. k : list[i] \in KeptPairs
    <2> TAKE i \in 1 .. k
    <2>1. DOMAIN pairs = 1 .. k /\ pairs[i] \in (DOMAIN LowerOf \cup Invalid) \X Texts
      BY <1>A, <1>1
    <2>2. Fields!Accepted(pairs[i][1], pairs[i][2]) /\ pairs[i][2] \in Texts
      BY <1>2, <2>1
    <2>3. Fields!Pair(pairs[i][1], pairs[i][2]) \in KeptPairs
      BY <2>2, PairKept
    <2> QED BY <1>l, <2>1, <2>3 DEF Fields!PairsGiven
  <1>4. list \in Seq(KeptPairs)
    <2>1. list = [i \in 1 .. k |-> list[i]]
      BY <1>1, <1>l DEF Fields!PairsGiven
    <2> QED BY ONLY <2>1, <1>1, <1>3, ListIs
  <1> QED BY ONLY FieldsGood(entries, given, lost), o \in Object, <1>2, <1>4, ByName, BecomeGood

LEMMA CopyGood ==
    ASSUME FieldsGood(entries, given, lost), NEW o \in Object, NEW other, Fields!NewFromHeaders(o, other)
    PROVE  FieldsGood(entries', given', lost')
  <1>1. other \in DOMAIN entries /\ Fields!Become(o, entries[other], given[other], lost[other])
    BY DEF Fields!NewFromHeaders, Fields!Made
  <1>2. entries[other] \in Seq(KeptPairs) /\ HoldOf(given[other], entries[other], lost[other])
    BY <1>1 DEF FieldsGood
  <1> QED BY ONLY FieldsGood(entries, given, lost), o \in Object, <1>1, <1>2, BecomeGood

LEMMA AcceptableIs ==
    ASSUME Fields!HeadersAssumption, NEW pairs \in Arrays
    PROVE  Fields!Acceptable(pairs) \in Seq(KeptPairs)
  <1> DEFINE A == (DOMAIN LowerOf \cup Invalid) \X Texts
             piece(i) == IF Fields!Accepted(pairs[i][1], pairs[i][2])
                         THEN <<Fields!Pair(pairs[i][1], pairs[i][2])>> ELSE <<>>
  <1>1. pairs \in Seq(A)
    BY DEF Fields!HeadersAssumption
  <1>k. PICK k \in Nat : k = Len(pairs)
    BY <1>1
  <1>2. DOMAIN pairs = 1 .. k /\ \A i \in 1 .. k : pairs[i][2] \in Texts
    BY <1>1, <1>k
  <1>3. \A i \in 1 .. k : piece(i) \in Seq(KeptPairs)
    <2> TAKE i \in 1 .. k
    <2>1. CASE Fields!Accepted(pairs[i][1], pairs[i][2])
      <3>1. Fields!Pair(pairs[i][1], pairs[i][2]) \in KeptPairs
        BY <1>2, <2>1, PairKept
      <3> HIDE DEF A
      <3> QED BY <2>1, <3>1, OneIs
    <2>2. CASE ~Fields!Accepted(pairs[i][1], pairs[i][2])
      BY <2>2, OneIs
    <2> QED BY <2>1, <2>2
  <1>c. PICK c : c = [i \in 1 .. k |-> piece(i)]
    OBVIOUS
  <1>4. Fields!Acceptable(pairs) = FlattenSeq(c)
    <2>1. Fields!Acceptable(pairs) = Fields!FlattenSeq([i \in DOMAIN pairs |-> piece(i)])
      BY DEF Fields!Acceptable
    <2> QED BY <1>2, <1>c, <2>1, SameFlat
  <1> HIDE DEF A, piece
  <1>5. c \in Seq(Seq(KeptPairs))
    BY <1>3, <1>c
  <1> QED BY <1>4, <1>5, FlatTyped

LEMMA ArrayGood ==
    ASSUME Fields!HeadersAssumption, FieldsGood(entries, given, lost), NEW o \in Object,
           NEW pairs \in Arrays, Fields!NewFromArray(o, pairs)
    PROVE  FieldsGood(entries', given', lost')
  <1>l. PICK list : list = Fields!Acceptable(pairs)
    OBVIOUS
  <1>n. PICK names : names = {list[i][1] : i \in DOMAIN list}
    OBVIOUS
  <1>1. Fields!Become(o, <<>>, Fields!ValuesByName(list), names)
    BY <1>l, <1>n DEF Fields!NewFromArray
  <1>2. list \in Seq(KeptPairs) /\ list \in Seq(Entry)
    BY <1>l, AcceptableIs, KeptIs
  <1>3. names \subseteq Fields!Names
    BY <1>2, <1>n, KeptIs
  <1>4. \A n \in Fields!Names \ names : Fields!ValuesByName(list)[n] = Fields!ValuesOf(<<>>, n)
    <2> TAKE n \in Fields!Names \ names
    <2>1. \A i \in 1 .. Len(list) : list[i][1] # n
      BY <1>2, <1>n
    <2>2. Fields!ValuesOf(list, n) = <<>>
      BY <1>2, <2>1, ValuesNone
    <2> QED BY <2>2, ValuesEmpty DEF Fields!ValuesByName
  <1>5. HoldOf(Fields!ValuesByName(list), <<>>, names)
    BY <1>3, <1>4 DEF HoldOf, Fields!ValuesByName
  <1>6. <<>> \in Seq(KeptPairs)
    BY OneIs
  <1> QED BY ONLY FieldsGood(entries, given, lost), o \in Object, <1>1, <1>5, <1>6, BecomeGood

LEMMA AppendDirectGood ==
    ASSUME Fields!HeadersAssumption, FieldsGood(entries, given, lost), NEW o \in DOMAIN entries,
           NEW name, NEW text \in Texts, Fields!AppendDirect(o, name, text)
    PROVE  FieldsGood(entries', given', lost')
  <1>p. PICK p : p = Fields!Pair(name, text)
    OBVIOUS
  <1>n. PICK n : n = LowerOf[name]
    OBVIOUS
  <1>1. /\ Fields!Accepted(name, text)
        /\ Fields!Become(o, Append(entries[o], p), [given[o] EXCEPT ![n] = Append(@, Fields!Trim(text))], lost[o])
    BY <1>p, <1>n DEF Fields!AppendDirect
  <1>2. p \in KeptPairs /\ p[1] = n /\ p[2] = Fields!Trim(text)
    BY <1>p, <1>n, <1>1, PairKept
  <1>3. n \in Fields!Names
    BY <1>2, KeptIs
  <1>a. PICK a : a = entries[o]
    OBVIOUS
  <1>4. a \in Seq(KeptPairs) /\ HoldOf(given[o], a, lost[o]) /\ o \in Object
    BY <1>a DEF FieldsGood
  <1>b. PICK b : b = Append(a, p)
    OBVIOUS
  <1>5. /\ b \in Seq(KeptPairs)
        /\ \A m : Fields!ValuesOf(b, m) =
                     IF m = n THEN Append(Fields!ValuesOf(a, n), p[2]) ELSE Fields!ValuesOf(a, m)
    <2>1. /\ Append(a, p) \in Seq(KeptPairs)
          /\ \A m : Fields!ValuesOf(Append(a, p), m) =
                       IF m = p[1] THEN Append(Fields!ValuesOf(a, m), p[2]) ELSE Fields!ValuesOf(a, m)
      BY ONLY <1>2, <1>4, AppendIs
    <2> QED BY ONLY <1>2, <1>b, <2>1
  <1>v. PICK v : v = [given[o] EXCEPT ![n] = Append(@, p[2])]
    OBVIOUS
  <1>6. HoldOf(v, b, lost[o])
    <2>1. DOMAIN v = Fields!Names /\ \A m \in Fields!Names : v[m] = IF m = n THEN Append(given[o][n], p[2])
                                                                  ELSE given[o][m]
      BY <1>4, <1>v DEF HoldOf
    <2>2. \A m \in Fields!Names \ lost[o] : given[o][m] = Fields!ValuesOf(a, m)
      BY <1>4 DEF HoldOf
    <2>3. \A m \in Fields!Names \ lost[o] : v[m] = Fields!ValuesOf(b, m)
      BY ONLY <1>5, <2>1, <2>2
    <2> QED BY <1>4, <2>1, <2>3 DEF HoldOf
  <1>7. Fields!Become(o, b, v, lost[o])
    BY <1>1, <1>2, <1>a, <1>b, <1>v
  <1> QED BY ONLY FieldsGood(entries, given, lost), <1>4, <1>5, <1>6, <1>7, BecomeGood

LEMMA DeleteGood ==
    ASSUME Fields!HeadersAssumption, FieldsGood(entries, given, lost), NEW o \in DOMAIN entries,
           NEW name, Fields!Delete(o, name)
    PROVE  FieldsGood(entries', given', lost')
  <1>n. PICK n : n = LowerOf[name]
    OBVIOUS
  <1>1. n \in Fields!Names
    BY <1>n DEF Fields!Delete, Fields!HeadersAssumption
  <1>a. PICK a : a = entries[o]
    OBVIOUS
  <1>b. PICK b : b = Fields!Without(a, n)
    OBVIOUS
  <1>v. PICK v : v = [given[o] EXCEPT ![n] = <<>>]
    OBVIOUS
  <1>2. Fields!Become(o, b, v, lost[o] \ {n})
    BY <1>v, <1>n, <1>a, <1>b DEF Fields!Delete
  <1>3. a \in Seq(KeptPairs) /\ HoldOf(given[o], a, lost[o]) /\ o \in Object
    BY <1>a DEF FieldsGood
  <1>4. /\ b \in Seq(KeptPairs)
        /\ \A m : Fields!ValuesOf(b, m) = IF m = n THEN <<>> ELSE Fields!ValuesOf(a, m)
    <2>1. /\ Fields!Without(a, n) \in Seq(KeptPairs)
          /\ \A m : Fields!ValuesOf(Fields!Without(a, n), m) = IF m = n THEN <<>> ELSE Fields!ValuesOf(a, m)
      BY ONLY <1>3, WithoutIs
    <2> QED BY ONLY <1>b, <2>1
  <1>5. HoldOf(v, b, lost[o] \ {n})
    <2>1. DOMAIN v = Fields!Names /\ \A m \in Fields!Names : v[m] = IF m = n THEN <<>> ELSE given[o][m]
      BY <1>3, <1>v DEF HoldOf
    <2>2. \A m \in Fields!Names \ lost[o] : given[o][m] = Fields!ValuesOf(a, m)
      BY <1>3 DEF HoldOf
    <2>3. \A m \in Fields!Names \ (lost[o] \ {n}) : v[m] = Fields!ValuesOf(b, m)
      BY ONLY <1>4, <2>1, <2>2
    <2> QED BY <1>3, <2>1, <2>3 DEF HoldOf
  <1> QED BY ONLY FieldsGood(entries, given, lost), <1>2, <1>3, <1>4, <1>5, BecomeGood

LEMMA SetGood ==
    ASSUME Fields!HeadersAssumption, FieldsGood(entries, given, lost), NEW o \in DOMAIN entries,
           NEW name, NEW text \in Texts, Fields!Set(o, name, text)
    PROVE  FieldsGood(entries', given', lost')
  <1>p. PICK p : p = Fields!Pair(name, text)
    OBVIOUS
  <1>n. PICK n : n = LowerOf[name]
    OBVIOUS
  <1>w. PICK w : w = Fields!Trim(text)
    OBVIOUS
  <1>a. PICK a : a = entries[o]
    OBVIOUS
  <1>b. PICK b : b = Fields!Replaced(a, p)
    OBVIOUS
  <1>1. Fields!Accepted(name, text) /\ Fields!Become(o, b, [given[o] EXCEPT ![n] = <<w>>], lost[o] \ {n})
    BY <1>p, <1>n, <1>w, <1>a, <1>b DEF Fields!Set
  <1>2. p \in KeptPairs /\ p[1] = n /\ p[2] = w
    BY <1>p, <1>n, <1>w, <1>1, PairKept
  <1>3. n \in Fields!Names
    BY <1>2, KeptIs
  <1>4. a \in Seq(KeptPairs) /\ HoldOf(given[o], a, lost[o]) /\ o \in Object
    BY <1>a DEF FieldsGood
  <1>5. /\ b \in Seq(KeptPairs)
        /\ \A m : Fields!ValuesOf(b, m) = IF m = n THEN <<w>> ELSE Fields!ValuesOf(a, m)
    <2>1. /\ Fields!Replaced(a, p) \in Seq(KeptPairs)
          /\ \A m : Fields!ValuesOf(Fields!Replaced(a, p), m) =
                       IF m = p[1] THEN <<p[2]>> ELSE Fields!ValuesOf(a, m)
      BY ONLY <1>2, <1>4, ReplacedIs
    <2> QED BY ONLY <1>2, <1>b, <2>1
  <1>v. PICK v : v = [given[o] EXCEPT ![n] = <<w>>]
    OBVIOUS
  <1>6. HoldOf(v, b, lost[o] \ {n})
    <2>1. DOMAIN v = Fields!Names /\ \A m \in Fields!Names : v[m] = IF m = n THEN <<w>> ELSE given[o][m]
      BY <1>4, <1>v DEF HoldOf
    <2>2. \A m \in Fields!Names \ lost[o] : given[o][m] = Fields!ValuesOf(a, m)
      BY <1>4 DEF HoldOf
    <2>3. \A m \in Fields!Names \ (lost[o] \ {n}) : v[m] = Fields!ValuesOf(b, m)
      BY ONLY <1>5, <2>1, <2>2
    <2> QED BY <1>4, <2>1, <2>3 DEF HoldOf
  <1>7. Fields!Become(o, b, v, lost[o] \ {n})
    BY <1>1, <1>v
  <1> QED BY ONLY FieldsGood(entries, given, lost), <1>4, <1>5, <1>6, <1>7, BecomeGood

LEMMA FieldsStep ==
    ASSUME Fields!HeadersAssumption, FieldsGood(entries, given, lost), [Fields!Next]_(Fields!vars)
    PROVE  FieldsGood(entries', given', lost')
  <1>1. CASE Fields!Next
    <2>1. ASSUME NEW o \in Object, NEW pairs \in Fields!SeqOf((DOMAIN LowerOf \cup Invalid) \X Texts, 2),
                 Fields!NewFromLiteral(o, pairs)
          PROVE  FieldsGood(entries', given', lost')
      BY <2>1, LiteralGood
    <2>2. ASSUME NEW o \in Object, NEW other \in Object, Fields!NewFromHeaders(o, other)
          PROVE  FieldsGood(entries', given', lost')
      BY <2>2, CopyGood
    <2>3. ASSUME NEW o \in Object, NEW pairs \in Arrays, Fields!NewFromArray(o, pairs)
          PROVE  FieldsGood(entries', given', lost')
      BY <2>3, ArrayGood
    <2>4. ASSUME NEW o \in DOMAIN entries, NEW name \in DOMAIN LowerOf \cup Invalid, Fields!Delete(o, name)
          PROVE  FieldsGood(entries', given', lost')
      BY <2>4, DeleteGood
    <2>5. ASSUME NEW o \in DOMAIN entries, NEW name \in DOMAIN LowerOf \cup Invalid, NEW text \in Texts,
                 Fields!AppendDirect(o, name, text)
          PROVE  FieldsGood(entries', given', lost')
      BY <2>5, AppendDirectGood
    <2>6. ASSUME NEW o \in DOMAIN entries, NEW name \in DOMAIN LowerOf \cup Invalid, NEW text \in Texts,
                 Fields!Set(o, name, text)
          PROVE  FieldsGood(entries', given', lost')
      BY <2>6, SetGood
    <2> QED BY <1>1, <2>1, <2>2, <2>3, <2>4, <2>5, <2>6 DEF Fields!Next, Fields!Made
  <1>2. CASE UNCHANGED Fields!vars
    BY <1>2 DEF Fields!vars
  <1> QED BY <1>1, <1>2

LEMMA FieldsAgree ==
    ASSUME Fields!HeadersAssumption, FieldsGood(entries, given, lost)
    PROVE  Fields!TypeOK /\ Fields!HeadersAgree
  <1>1. Fields!TypeOK
    <2>1. \A o \in DOMAIN entries :
             Fields!Fits(entries[o]) /\ DOMAIN given[o] = Fields!Names /\ lost[o] \subseteq Fields!Names
      BY DEF FieldsGood, HoldOf
    <2> QED BY <2>1 DEF Fields!TypeOK, Fields!Made, FieldsGood
  <1>2. Fields!HeadersAgree
    <2> SUFFICES ASSUME NEW o \in DOMAIN entries
                 PROVE  LET list == entries[o]
                            pairs == Fields!NormalizedPairs(list)
                            Joint(n) == IF given[o][n] = <<>> THEN <<>>
                                        ELSE << Fields!JoinedValues(given[o][n]) >>
                        IN /\ \A n \in Fields!Names \ lost[o] :
                                 /\ Fields!Has(list, n) <=> given[o][n] # <<>>
                                 /\ Fields!Get(list, n) = IF given[o][n] = <<>> THEN "null" ELSE Joint(n)[1]
                                 /\ Fields!ValuesOf(pairs, n) =
                                       IF n = "set-cookie" THEN given[o][n] ELSE Joint(n)
                           /\ "set-cookie" \notin lost[o] => Fields!GetSetCookie(list) = given[o]["set-cookie"]
                           /\ \A i, j \in DOMAIN pairs :
                                 i < j => ~\E a, b \in DOMAIN Order :
                                             a < b /\ Order[a] = Fields!Keys(list)[j]
                                                   /\ Order[b] = Fields!Keys(list)[i]
                           /\ \A i \in DOMAIN list :
                                 /\ Fields!Range(list[i][2]) \cap Fields!Forbidden = {}
                                 /\ Fields!Trim(list[i][2]) = list[i][2]
      BY DEF Fields!HeadersAgree, Fields!Made
    <2>l. PICK list : list = entries[o]
      OBVIOUS
    <2>g. PICK g : g = given[o]
      OBVIOUS
    <2>m. PICK names : names = lost[o]
      OBVIOUS
    <2>1. list \in Seq(KeptPairs) /\ HoldOf(g, list, names)
      BY <2>l, <2>g, <2>m DEF FieldsGood
    <2>2. \A n \in Fields!Names \ names : g[n] = Fields!ValuesOf(list, n)
      BY <2>1 DEF HoldOf
    <2>3. "set-cookie" \in Fields!Names
      BY DEF Fields!HeadersAssumption
    <2>4. list \in Seq(Entry)
      BY <2>1, KeptIs
    <2>5. PICK q : /\ q = Fields!NormalizedPairs(list) /\ q \in Seq(Entry)
                   /\ \A n \in Fields!Names :
                         Fields!ValuesOf(q, n) =
                            IF n = "set-cookie" THEN Fields!ValuesOf(list, n)
                            ELSE IF Fields!ValuesOf(list, n) = <<>> THEN <<>>
                            ELSE <<Fields!JoinedValues(Fields!ValuesOf(list, n))>>
                   /\ \A i, j \in 1 .. Len(q) : i < j => ~Fields!Greater(q[i][1], q[j][1])
      BY <2>1, NormalizedIs
    <2>6. ASSUME NEW n \in Fields!Names \ names
          PROVE  /\ Fields!Has(list, n) <=> g[n] # <<>>
                 /\ Fields!Get(list, n) = IF g[n] = <<>> THEN "null" ELSE Fields!JoinedValues(g[n])
                 /\ Fields!ValuesOf(q, n) = IF n = "set-cookie" THEN g[n]
                                            ELSE IF g[n] = <<>> THEN <<>> ELSE <<Fields!JoinedValues(g[n])>>
      <3>1. Fields!Has(list, n) <=> Fields!ValuesOf(list, n) # <<>>
        <4>1. ASSUME Fields!Has(list, n)
              PROVE  Fields!ValuesOf(list, n) # <<>>
          <5>1. PICK i \in 1 .. Len(list) : list[i][1] = n
            BY <2>4, <4>1 DEF Fields!Has
          <5>2. Fields!ValuesOf(list, list[i][1]) # <<>>
            BY ONLY <2>4, <5>1, ValuesSome
          <5> QED BY ONLY <5>1, <5>2
        <4>2. ASSUME ~Fields!Has(list, n)
              PROVE  Fields!ValuesOf(list, n) = <<>>
          <5>1. \A i \in 1 .. Len(list) : list[i][1] # n
            BY <2>4, <4>2 DEF Fields!Has
          <5> QED BY ONLY <2>4, <5>1, ValuesNone
        <4> QED BY <4>1, <4>2
      <3>2. Fields!Get(list, n) = IF Fields!ValuesOf(list, n) = <<>> THEN "null"
                                  ELSE Fields!JoinedValues(Fields!ValuesOf(list, n))
        BY DEF Fields!Get
      <3> QED BY ONLY <2>2, <2>5, <3>1, <3>2, n \in Fields!Names \ names
    <2>7. "set-cookie" \notin names => Fields!GetSetCookie(list) = g["set-cookie"]
      BY <2>2, <2>3 DEF Fields!GetSetCookie
    <2>8. ASSUME NEW i \in DOMAIN q, NEW j \in DOMAIN q, i < j
          PROVE  ~\E a, b \in DOMAIN Order :
                    a < b /\ Order[a] = Fields!Keys(list)[j] /\ Order[b] = Fields!Keys(list)[i]
      <3>1. Fields!Keys(list)[i] = q[i][1] /\ Fields!Keys(list)[j] = q[j][1]
        BY <2>5 DEF Fields!Keys
      <3>2. ~Fields!Greater(q[i][1], q[j][1])
        BY <2>5, <2>8
      <3> QED BY <3>1, <3>2 DEF Fields!Greater
    <2>9. ASSUME NEW i \in DOMAIN list
          PROVE  Fields!Range(list[i][2]) \cap Fields!Forbidden = {} /\ Fields!Trim(list[i][2]) = list[i][2]
      <3>1. list[i] \in KeptPairs
        BY <2>1
      <3>2. Sendable(list[i][2])
        BY <3>1, KeptIs
      <3> QED BY <3>2 DEF Sendable, Fields!ValidValue
    <2>10. \A n : (IF g[n] = <<>> THEN <<>> ELSE <<Fields!JoinedValues(g[n])>>)[1] =
                     IF g[n] = <<>> THEN <<>>[1] ELSE Fields!JoinedValues(g[n])
      OBVIOUS
    <2> QED BY ONLY <2>l, <2>g, <2>m, <2>5, <2>6, <2>7, <2>8, <2>9, <2>10
  <1> QED BY <1>1, <1>2

(* However an object of headers is made, and after any append, set and     *)
(* delete, has, get and getSetCookie give the values that the calls gave   *)
(* each name, in their order; iteration goes by name and gives a name's    *)
(* values joined, and each cookie by itself; and no value kept has a line  *)
(* end or space around it (web_headers.go).  Of a name to which an array   *)
(* gave values nothing is said until it is set or deleted.                 *)
THEOREM HeadersAnswerRight ==
    ASSUME Fields!HeadersAssumption
    PROVE  Fields!Spec => [](Fields!TypeOK /\ Fields!HeadersAgree)
  <1> DEFINE Inv == FieldsGood(entries, given, lost)
  <1>1. Fields!Init => Inv
    BY DEF Fields!Init, FieldsGood
  <1>2. Inv /\ [Fields!Next]_(Fields!vars) => Inv'
    BY FieldsStep
  <1>3. Inv => Fields!TypeOK /\ Fields!HeadersAgree
    BY FieldsAgree
  <1> HIDE DEF Inv
  <1> QED BY <1>1, <1>2, <1>3, PTL DEF Fields!Spec

=============================================================================
