------------------------------ MODULE Network ------------------------------
(***************************************************************************)
(* One HTTP exchange of the network runtime (net_stream_amd64.go, and the  *)
(* request in one call of net_amd64.go and net_ipv6_amd64.go).             *)
(*                                                                         *)
(* The socket does not block: a call that would is repeated after a yield, *)
(* and only then can the abort signal have changed, so an abort is a step  *)
(* of a call that waits.  The kernel takes and gives any part of what is   *)
(* asked for.  The peer sends the bytes of one of Responses, the bytes     *)
(* being symbols ("semi" is the semicolon), and may end the connection     *)
(* after any of them: end of file and error are one.                       *)
(*                                                                         *)
(* The caller keeps to the order of fetch (web_fetch.go), and closes when  *)
(* a call has failed or has returned nothing.                              *)
(***************************************************************************)
EXTENDS Integers, Sequences, FiniteSets, SequencesExt

CONSTANTS
    Byte,           \* the bytes, as symbols
    RequestHead,    \* bytes of the request's head
    RequestBody,    \* bytes of the request's body
    Responses,      \* what peers send: [header, chunked, parts]
    WriteLimit,     \* bytes of one write of a body (64 KiB in the code)
    ChunkLimit,     \* size of a wire chunk (64 MiB)
    ReadLimit,      \* bytes of one plain read (64 KiB)
    Capacity        \* bytes a buffer of a whole response begins with (64 KiB)

VARIABLES
    socket,     \* "none", "open" or "closed"
    closes,     \* history: closes of the descriptor
    stage,      \* of the caller: "new", "open", "sent", "body" or "over"
    call,       \* the call in progress and the place in it
    aborted,    \* whether the abort signal has aborted
    sent,       \* bytes of the buffer being written, R13
    accepted,   \* history: bytes the peer has taken
    response,   \* what this peer sends
    pos,        \* bytes the program has read
    ended,      \* whether a read has met the end
    buffer,     \* bytes the call has read so far
    room,       \* capacity of its buffer
    size,       \* value of the digits of the size line, and their number
    results     \* history: what the reads returned

vars == <<socket, closes, stage, call, aborted, sent, accepted, response, pos,
          ended, buffer, room, size, results>>

CRLF == <<"CR", "LF">>
Marker == CRLF \o CRLF
Digit == [d \in {"0", "1", "2", "f"} |->
            CASE d = "0" -> 0 [] d = "1" -> 1 [] d = "2" -> 2 [] d = "f" -> 15]

(* The number of the first n digits of a line. *)
DigitValue(d) == IF d \in DOMAIN Digit THEN Digit[d] ELSE 0
Value(ds, n) ==
    LET value[i \in 0 .. Len(ds)] == IF i = 0 THEN 0 ELSE 16 * value[i - 1] + DigitValue(ds[i])
    IN  value[n]

(* The headers' bytes end with an empty line. *)
HeaderComplete(b) == Len(b) >= 4 /\ SubSeq(b, Len(b) - 3, Len(b)) = Marker

(* A chunk as a peer writes it: digits, an extension, the end of the line, *)
(* the payload and its end, each of which it may get wrong.                *)
Encoded(c) == c.digits \o c.extension \o c.line \o c.payload \o c.last
Piece(r, i) == IF r.chunked THEN Encoded(r.parts[i]) ELSE r.parts[i]
Wire(r) == r.header \o FlattenSeq([i \in 1 .. Len(r.parts) |-> Piece(r, i)])

(* What a chunk stands for, from the way it was made. *)
Numeral(ds) == ds # <<>> /\ \A i \in DOMAIN ds : ds[i] \in DOMAIN Digit
Sound(c) ==
    /\ Numeral(c.digits) /\ Value(c.digits, Len(c.digits)) = Len(c.payload)
    /\ Len(c.payload) <= ChunkLimit
    /\ c.line = CRLF /\ c.last = CRLF
Meaning(c) == IF Sound(c) THEN c.payload ELSE <<>>

(* What peers may get wrong of a chunk: whatever does not make bytes that  *)
(* read as another one.                                                    *)
ChunkShape == [digits : Seq(Byte \ {"CR", "semi"}), extension : Seq(Byte), line : Seq(Byte),
               payload : Seq(Byte), last : Seq(Byte)]
Framed(c) ==
    /\ c.extension = <<>> \/ (c.extension[1] = "semi" /\ \A i \in DOMAIN c.extension : c.extension[i] # "CR")
    /\ Len(c.line) = 2 /\ c.line[1] = "CR"
    /\ Numeral(c.digits) /\ c.line = CRLF =>
          LET n == Value(c.digits, Len(c.digits))
              rest == c.payload \o c.last
          IN  n \in 1 .. ChunkLimit =>
                 /\ n + 2 <= Len(rest)
                 /\ SubSeq(rest, n + 1, n + 2) = CRLF => n = Len(c.payload) /\ c.last = CRLF

NetworkAssumption ==
    /\ {WriteLimit, ChunkLimit, ReadLimit, Capacity} \subseteq Nat \ {0}
    /\ {RequestHead, RequestBody} \subseteq Seq(Byte)
    /\ \A r \in Responses :
          /\ r.header \in Seq(Byte) /\ r.chunked \in BOOLEAN
          /\ HeaderComplete(r.header)
          /\ \A n \in 1 .. Len(r.header) - 1 : ~HeaderComplete(SubSeq(r.header, 1, n))
          /\ IF r.chunked THEN r.parts \in Seq(ChunkShape) /\ \A i \in DOMAIN r.parts : Framed(r.parts[i])
                          ELSE r.parts \in Seq(Seq(Byte))

Init ==
    /\ socket = "none" /\ closes = 0
    /\ stage = "new" /\ call = "none"
    /\ aborted = FALSE
    /\ sent = 0 /\ accepted = <<>>
    /\ response \in Responses
    /\ pos = 0 /\ ended = FALSE
    /\ buffer = <<>> /\ room = 0
    /\ size = [value |-> 0, digits |-> 0]
    /\ results = <<>>

-----------------------------------------------------------------------------
reading == <<response, pos, ended, buffer, room, size, results>>
writing == <<sent, accepted>>

CloseSocket == socket' = "closed" /\ closes' = closes + 1

(* socket and fcntl succeed or fail, and the signal is tested. *)
Begin(name) ==
    /\ stage = "new" /\ call = "none"
    /\ \/ stage' = "over" /\ UNCHANGED <<socket, closes, call>>
       \/ stage' = "over" /\ CloseSocket /\ UNCHANGED call
       \/ ~aborted /\ socket' = "open" /\ call' = name /\ UNCHANGED <<closes, stage>>
    /\ UNCHANGED <<aborted, writing, reading>>

OpenIPv4 == Begin("connect")
OpenIPv6 == Begin("connect")
RequestIPv4 == Begin("connectAll")
RequestIPv6 == Begin("connectAll")

Whole == call \in {"connectAll", "sendAll"}

Connects ==
    /\ call \in {"connect", "connectAll"}
    /\ call' = IF Whole THEN "sendAll" ELSE "send"
    /\ UNCHANGED <<socket, closes, stage, aborted, writing, reading>>

(* An open that fails closes its socket; a write leaves that to the caller. *)
OpenFails ==
    /\ CloseSocket
    /\ call' = "none" /\ stage' = "over"
    /\ UNCHANGED <<writing, reading>>

WriteFails ==
    /\ call' = "none" /\ stage' = "failed"
    /\ UNCHANGED <<socket, closes, writing, reading>>

(* The kernel takes up to limit bytes of what is left of the buffer. *)
Taken(b, limit) ==
    \E k \in 1 .. limit :
        /\ sent + k <= Len(b)
        /\ accepted' = accepted \o SubSeq(b, sent + 1, sent + k)
        /\ sent' = sent + k

Sends ==
    /\ call \in {"send", "sendAll"}
    /\ Taken(RequestHead, Len(RequestHead))
    /\ IF sent' < Len(RequestHead)
       THEN UNCHANGED <<stage, call, room>>
       ELSE IF Whole
            THEN call' = "all" /\ stage' = "body" /\ room' = Capacity
            ELSE call' = "none" /\ stage' = "open" /\ UNCHANGED room
    /\ UNCHANGED <<socket, closes, aborted, response, pos, ended, buffer, size, results>>

Write ==
    /\ stage = "open" /\ call = "none"
    /\ IF Len(RequestBody) > 0 /\ ~aborted
       THEN call' = "write" /\ sent' = 0 /\ UNCHANGED stage
       ELSE /\ stage' = IF aborted THEN "failed" ELSE "sent"
            /\ UNCHANGED <<call, sent>>
    /\ UNCHANGED <<socket, closes, aborted, accepted, reading>>

WritesPart ==
    /\ call = "write"
    /\ Taken(RequestBody, WriteLimit)
    /\ IF sent' < Len(RequestBody)
       THEN UNCHANGED <<stage, call>>
       ELSE call' = "none" /\ stage' = "sent"
    /\ UNCHANGED <<socket, closes, aborted, reading>>

PeerFails ==
    /\ \/ call \in {"connect", "connectAll", "send", "sendAll"} /\ OpenFails
       \/ call = "write" /\ WriteFails
    /\ UNCHANGED aborted

-----------------------------------------------------------------------------
(* Reads.  What a call returns goes to results, with whether the program   *)
(* had met neither the end nor an abort by then.                           *)
Returns(what, bytes, whole, next) ==
    /\ results' = Append(results, [what |-> what, bytes |-> bytes, whole |-> whole])
    /\ call' = "none"
    /\ stage' = next
    /\ buffer' = <<>>

Continue(place, bytes) ==
    /\ call' = place
    /\ buffer' = bytes
    /\ UNCHANGED <<stage, results>>

Arrive(k) ==
    /\ ~ended
    /\ pos + k <= Len(Wire(response))
    /\ pos' = pos + k

Came(k) == SubSeq(Wire(response), pos + 1, pos + k)

Chunking == {"size", "extension", "lf", "payload", "crlf"}
Reading(place) == IF place \in Chunking THEN "chunked" ELSE place

ReadCall(name, capacity) ==
    /\ IF aborted
       THEN Returns(Reading(name), <<>>, FALSE, "failed") /\ UNCHANGED <<room, size>>
       ELSE /\ Continue(name, <<>>)
            /\ room' = capacity
            /\ size' = [value |-> 0, digits |-> 0]
    /\ UNCHANGED <<socket, closes, aborted, writing, response, pos, ended>>

ReadHeaders ==
    /\ stage = "sent" /\ call = "none"
    /\ ReadCall("headers", Capacity)

(* The headers' bytes come one by one up to an empty line. *)
HeaderByte ==
    /\ call = "headers"
    /\ Arrive(1)
    /\ LET b == buffer \o Came(1) IN
       IF HeaderComplete(b) THEN Returns("headers", b, TRUE, "body") ELSE Continue("headers", b)
    /\ room' = IF Len(buffer) < room THEN room ELSE 2 * room
    /\ UNCHANGED <<socket, closes, aborted, writing, response, ended, size>>

ReadChunk ==
    /\ stage = "body" /\ call = "none" /\ ~response.chunked
    /\ ReadCall("chunk", ReadLimit)

ChunkBytes ==
    /\ call = "chunk"
    /\ \E k \in 1 .. room : Arrive(k) /\ Returns("chunk", Came(k), TRUE, "body")
    /\ UNCHANGED <<socket, closes, aborted, writing, response, ended, room, size>>

(* A whole response grows its buffer when it is full, and goes on. *)
AllBytes ==
    /\ call = "all"
    /\ LET limit == IF Len(buffer) < room THEN room ELSE 2 * room IN
       /\ room' = limit
       /\ \E k \in 1 .. limit - Len(buffer) : Arrive(k) /\ Continue("all", buffer \o Came(k))
    /\ UNCHANGED <<socket, closes, aborted, writing, response, ended, size>>

-----------------------------------------------------------------------------
(* One chunk of a chunked body.  Whatever is wrong returns nothing. *)
ReadChunked ==
    /\ stage = "body" /\ call = "none" /\ response.chunked
    /\ ReadCall("size", 0)

Empty == Returns("chunked", <<>>, TRUE, "failed") /\ UNCHANGED size

(* A byte of the size line: a digit, the start of an extension, a byte of  *)
(* it, or the end of the line, which needs a digit before it.              *)
SizeLine(b) ==
    CASE b = "CR" /\ size.digits > 0 -> Continue("lf", <<>>) /\ UNCHANGED size
      [] call = "extension" /\ b # "CR" -> Continue("extension", <<>>) /\ UNCHANGED size
      [] call = "size" /\ b = "semi" -> Continue("extension", <<>>) /\ UNCHANGED size
      [] call = "size" /\ b \in DOMAIN Digit /\ 16 * size.value + Digit[b] <= ChunkLimit ->
            /\ Continue("size", <<>>)
            /\ size' = [value |-> 16 * size.value + Digit[b], digits |-> size.digits + 1]
      [] OTHER -> Empty

SizeByte ==
    /\ call \in {"size", "extension"}
    /\ Arrive(1)
    /\ SizeLine(Came(1)[1])
    /\ UNCHANGED <<socket, closes, aborted, writing, response, ended, room>>

SizeLF ==
    /\ call = "lf"
    /\ Arrive(1)
    /\ IF Came(1) = <<"LF">> /\ size.value > 0
       THEN Continue("payload", <<>>) /\ UNCHANGED size
       ELSE Empty
    /\ room' = size.value
    /\ UNCHANGED <<socket, closes, aborted, writing, response, ended>>

PayloadBytes ==
    /\ call = "payload"
    /\ \E k \in 1 .. room - Len(buffer) :
          LET b == buffer \o Came(k) IN
          Arrive(k) /\ Continue(IF Len(b) < room THEN "payload" ELSE "crlf", b)
    /\ UNCHANGED <<socket, closes, aborted, writing, response, ended, room, size>>

(* Mutant of PayloadEnd: any two bytes end a payload. *)
PayloadEndUnread ==
    /\ call = "crlf"
    /\ \E k \in 1 .. room + 2 - Len(buffer) :
          LET b == buffer \o Came(k) IN
          /\ Arrive(k)
          /\ IF Len(b) < room + 2
             THEN Continue("crlf", b)
             ELSE Returns("chunked", SubSeq(b, 1, room), TRUE, "body")
    /\ UNCHANGED <<socket, closes, aborted, writing, response, ended, room, size>>

(* The two bytes after the payload are kept after it here, and are on the  *)
(* stack in the code.                                                      *)
PayloadEnd ==
    /\ call = "crlf"
    /\ \E k \in 1 .. room + 2 - Len(buffer) :
          LET b == buffer \o Came(k) IN
          /\ Arrive(k)
          /\ IF Len(b) < room + 2
             THEN Continue("crlf", b)
             ELSE IF SubSeq(b, room + 1, room + 2) = CRLF
                  THEN Returns("chunked", SubSeq(b, 1, room), TRUE, "body")
                  ELSE Returns("chunked", <<>>, TRUE, "failed")
    /\ UNCHANGED <<socket, closes, aborted, writing, response, ended, room, size>>

-----------------------------------------------------------------------------
(* The one call returns what came up to the end, or nothing, and closes. *)
AllReturns(bytes, whole) ==
    /\ Returns("all", bytes, whole, "over")
    /\ CloseSocket

Ends ==
    /\ call \in {"headers", "chunk", "all"} \cup Chunking
    /\ ended' = TRUE
    /\ CASE call = "headers" ->
              /\ Returns("headers", buffer, FALSE, IF buffer = <<>> THEN "failed" ELSE "body")
              /\ UNCHANGED <<socket, closes>>
         [] call = "all" -> AllReturns(buffer, TRUE)
         [] OTHER ->
              /\ Returns(Reading(call), <<>>, FALSE, "failed")
              /\ UNCHANGED <<socket, closes>>
    /\ UNCHANGED <<aborted, writing, response, pos, room, size>>

(* The signal aborts while the call in progress yields, or between calls. *)
Abort ==
    /\ ~aborted
    /\ aborted' = TRUE
    /\ CASE call = "none" -> UNCHANGED <<socket, closes, stage, call, writing, reading>>
         [] call \in {"connect", "connectAll", "send", "sendAll"} -> OpenFails
         [] call = "write" -> WriteFails
         [] call = "all" ->
              AllReturns(<<>>, FALSE) /\ UNCHANGED <<writing, response, pos, ended, room, size>>
         [] OTHER ->
              /\ Returns(Reading(call), <<>>, FALSE, "failed")
              /\ UNCHANGED <<socket, closes, writing, response, pos, ended, room, size>>

(* fetch, a pull or a cancel closes. *)
Close ==
    /\ call = "none" /\ stage \in {"open", "sent", "body", "failed"}
    /\ CloseSocket
    /\ stage' = "over"
    /\ UNCHANGED <<call, aborted, writing, reading>>

Next ==
    \/ OpenIPv4 \/ OpenIPv6 \/ RequestIPv4 \/ RequestIPv6
    \/ Connects \/ Sends \/ Write \/ WritesPart \/ PeerFails
    \/ ReadHeaders \/ HeaderByte
    \/ ReadChunk \/ ChunkBytes \/ AllBytes
    \/ ReadChunked \/ SizeByte \/ SizeLF \/ PayloadBytes \/ PayloadEnd
    \/ Ends \/ Abort \/ Close

Spec == Init /\ [][Next]_vars

-----------------------------------------------------------------------------
TypeOK ==
    /\ socket \in {"none", "open", "closed"}
    /\ stage \in {"new", "open", "sent", "body", "failed", "over"}
    /\ {sent, pos, room, size.value, size.digits} \subseteq Nat
    /\ pos <= Len(Wire(response))
    /\ {aborted, ended} \subseteq BOOLEAN

(* The bytes that plain reads have given out. *)
Given == FlattenSeq([i \in 1 .. Len(results) |->
                        IF results[i].what = "chunk" THEN results[i].bytes ELSE <<>>])

(* However the kernel cuts what is written: the peer has a prefix of the   *)
(* request, with nothing twice and nothing missing, and all of the head,   *)
(* or of it all, where the calls say so.                                   *)
RequestWhole ==
    /\ IsPrefix(accepted, RequestHead \o RequestBody)
    /\ stage = "open" /\ call = "none" => accepted = RequestHead
    /\ \A i \in DOMAIN results : results[i].what # "all" => accepted = RequestHead \o RequestBody

(* However what is read is cut: the headers end where they end and not a   *)
(* byte later, each chunk is the next chunk the peer made, and nothing is  *)
(* returned only for the last one, a wrong one, an end or an abort; plain  *)
(* reads give the body's bytes in order, and a request in one call all     *)
(* bytes the peer sent before the end.                                     *)
ResponseDecoded ==
    /\ \A i \in DOMAIN results :        \* the headers are the first
          LET r == results[i] IN
          /\ r.what = "headers" /\ r.whole => r.bytes = response.header
          /\ r.what = "chunked" =>
                r.bytes = IF r.whole THEN Meaning(response.parts[i - 1]) ELSE <<>>
          /\ r.what = "all" /\ r.whole => r.bytes = SubSeq(Wire(response), 1, pos)
    /\ IsPrefix(response.header \o Given, Wire(response))

(* Every way out closes the socket once. *)
ClosedOnce ==
    /\ closes <= 1
    /\ socket = "open" <=> stage \notin {"new", "over"} \/ call # "none"
    /\ socket = "closed" <=> closes = 1

(* The bytes of an exchange stay in step with the peer's, and its socket   *)
(* is closed once.                                                         *)
InStep == RequestWhole /\ ResponseDecoded /\ ClosedOnce

=============================================================================
