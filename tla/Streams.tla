------------------------------ MODULE Streams ------------------------------
(***************************************************************************)
(* Readable, writable and transform streams (web_streams_readable.go,      *)
(* web_streams_writable.go, web_streams_transform.go).                     *)
(*                                                                         *)
(* A readable stream is an array that only grows and an index; a consumer  *)
(* takes the index, may call the program back, and stores the index it     *)
(* computed from what it took.  In a callback the program may use the      *)
(* stream again, or block and let another task use it; a task's callbacks  *)
(* are a stack.                                                            *)
(*                                                                         *)
(* Left out, because nothing reads them: the state strings, stored errors, *)
(* high-water marks and desired sizes, hence the controllers' close,       *)
(* error and terminate and a writer's abort, which write nothing else; and *)
(* the promises of the operations, which have settled when they are made.  *)
(***************************************************************************)
EXTENDS Integers, Sequences, FiniteSets, SequencesExt

CONSTANTS
    Task,           \* tasks that use the streams
    Made,           \* readable streams the program constructs
    Branch,         \* the two streams a tee makes
    Reader,         \* readers
    HasPull,        \* constructed streams with a pull callback
    HasCancel,      \* constructed streams with a cancel callback
    HasWrite,       \* whether destinations have write and close callbacks
    Menu,           \* what programs do: each uses the operations of one menu
    MaxChunks,      \* bound: chunks put in one stream
    MaxCallbacks,   \* bound: callbacks of a task on top of one another
    MaxDelivered    \* bound: chunks delivered by one stream

Readable == Made \cup Branch
NoStream == "no stream"

StreamsAssumption ==
    /\ HasPull \subseteq Made /\ HasCancel \subseteq Made
    /\ HasWrite \in BOOLEAN
    /\ \A m \in Menu : m \subseteq {"read", "cancel", "tee", "pipe"}
    /\ NoStream \notin Readable
    /\ {MaxChunks, MaxCallbacks, MaxDelivered} \subseteq Nat

VARIABLES
    queue,      \* $queue: the chunks put in the stream so far
    index,      \* $queueIndex: chunks of the queue already taken
    locked,     \* the field locked
    reader,     \* $stream of each reader
    calls,      \* per task, the callbacks it is in, innermost last
    delivered,  \* history: positions of the queue handed to a consumer
    contended,  \* history: streams used by a consumer inside another's callback
    menu        \* the operations this program uses

vars == <<queue, index, locked, reader, calls, delivered, contended, menu>>

Chunk == Made \X (1 .. MaxChunks)

(* What a task goes on with when the callback returns. *)
Call ==
    [op : {"pull"}, stream : Readable, at : 0 .. MaxChunks]
        \cup [op : {"write"}, stream : Readable, at : 0 .. MaxChunks, len : 0 .. MaxChunks]
        \cup [op : {"close"}, stream : Readable, len : 0 .. MaxChunks]
        \cup [op : {"cancel"}]

Init ==
    /\ queue = [s \in Readable |-> <<>>]
    /\ index = [s \in Readable |-> 0]
    /\ locked = [s \in Readable |-> FALSE]
    /\ reader = [r \in Reader |-> NoStream]
    /\ calls = [t \in Task |-> <<>>]
    /\ delivered = [s \in Readable |-> <<>>]
    /\ contended = {}
    /\ menu \in Menu

-----------------------------------------------------------------------------
(* A consumer of s is in a callback when its task will store an index in s. *)
InUse(s) ==
    \E t \in Task : \E i \in DOMAIN calls[t] :
        calls[t][i].op # "cancel" /\ calls[t][i].stream = s

Use(s) == contended' = IF InUse(s) THEN contended \cup {s} ELSE contended

Push(t, c) == calls' = [calls EXCEPT ![t] = Append(@, c)]
Pop(t) == calls' = [calls EXCEPT ![t] = Front(@)]

MayCall(t) == Len(calls[t]) < MaxCallbacks

(* Mutant of Take: the index goes up by one instead. *)
TakeCounts(s, at) ==
    /\ Len(delivered[s]) < MaxDelivered
    /\ delivered' = [delivered EXCEPT ![s] = Append(@, at + 1)]
    /\ index' = [index EXCEPT ![s] = @ + 2]

(* The chunk after the at chunks a consumer saw taken: it is handed out,   *)
(* and the index is set from that number, whatever the index is now.       *)
Take(s, at) ==
    /\ Len(delivered[s]) < MaxDelivered
    /\ delivered' = [delivered EXCEPT ![s] = Append(@, at + 1)]
    /\ index' = [index EXCEPT ![s] = at + 1]

(* A locked stream is locked again without a check. *)
GetReader(t, s, r) ==
    /\ reader[r] = NoStream
    /\ s \in Made \/ queue[s] # <<>>
    /\ reader' = [reader EXCEPT ![r] = s]
    /\ locked' = [locked EXCEPT ![s] = TRUE]
    /\ UNCHANGED <<queue, index, calls, delivered, contended>>

ReleaseLock(t, r) ==
    /\ reader[r] # NoStream
    /\ locked' = [locked EXCEPT ![reader[r]] = FALSE]
    /\ reader' = [reader EXCEPT ![r] = NoStream]
    /\ UNCHANGED <<queue, index, calls, delivered, contended>>

(* read() with a chunk in the queue. *)
ReadQueued(t, r) ==
    LET s == reader[r] IN
    /\ s # NoStream
    /\ index[s] < Len(queue[s])
    /\ Take(s, index[s])
    /\ Use(s)
    /\ UNCHANGED <<queue, locked, reader, calls>>

(* read() with none calls pull once; without a pull callback it is done. *)
ReadPull(t, r) ==
    LET s == reader[r] IN
    /\ s # NoStream
    /\ index[s] >= Len(queue[s])
    /\ s \in HasPull
    /\ MayCall(t)
    /\ Push(t, [op |-> "pull", stream |-> s, at |-> index[s]])
    /\ Use(s)
    /\ UNCHANGED <<queue, index, locked, reader, delivered>>

(* pull returns: the read looks at the length again, not at the index. *)
PullReturns(t) ==
    /\ calls[t] # <<>>
    /\ LET c == Last(calls[t]) IN
       /\ c.op = "pull"
       /\ IF c.at < Len(queue[c.stream])
          THEN Take(c.stream, c.at)
          ELSE UNCHANGED <<index, delivered>>
    /\ Pop(t)
    /\ UNCHANGED <<queue, locked, reader, contended>>

(* The controller's enqueue, of a source or of a transform's readable. *)
Enqueue(t, s) ==
    /\ s \in Made
    /\ Len(queue[s]) < MaxChunks
    /\ queue' = [queue EXCEPT ![s] = Append(@, <<s, Len(@) + 1>>)]
    /\ UNCHANGED <<index, locked, reader, calls, delivered, contended>>

(* cancel of the stream or of a reader: the callback, if there is one, is  *)
(* called; the queue stays.                                                *)
Cancel(t, s) ==
    /\ s \in HasCancel
    /\ MayCall(t)
    /\ Push(t, [op |-> "cancel"])
    /\ UNCHANGED <<queue, index, locked, reader, delivered, contended>>

(* tee: two streams with the chunks not yet taken.  The original is locked *)
(* and keeps its index.  One tee is enough for Branch.                     *)
Tee(t, s) ==
    /\ s \in Made
    /\ index[s] < Len(queue[s])
    /\ \A b \in Branch : queue[b] = <<>>
    /\ locked' = [locked EXCEPT ![s] = TRUE]
    /\ queue' = [b \in Readable |->
                    IF b \in Branch
                    THEN SubSeq(queue[s], index[s] + 1, Len(queue[s]))
                    ELSE queue[b]]
    /\ UNCHANGED <<index, reader, calls, delivered, contended>>

(* pipeTo and pipeThrough write the chunks between the index and the       *)
(* length they read at the start, close the destination, and then store    *)
(* that length.  They never pull.  PipeFrom is the loop from one chunk on. *)
PipeFrom(t, rest, s, at, len) ==
    CASE at < len /\ HasWrite ->
            /\ Len(delivered[s]) < MaxDelivered
            /\ delivered' = [delivered EXCEPT ![s] = Append(@, at + 1)]
            /\ calls' = [calls EXCEPT ![t] =
                  Append(rest, [op |-> "write", stream |-> s, at |-> at + 1, len |-> len])]
            /\ UNCHANGED index
      [] at >= len /\ HasWrite ->
            /\ calls' = [calls EXCEPT ![t] =
                  Append(rest, [op |-> "close", stream |-> s, len |-> len])]
            /\ UNCHANGED <<index, delivered>>
      [] ~HasWrite ->
            /\ delivered' = [delivered EXCEPT ![s] = @ \o [i \in 1 .. len - at |-> at + i]]
            /\ index' = [index EXCEPT ![s] = len]
            /\ calls' = [calls EXCEPT ![t] = rest]

Pipe(t, s) ==
    /\ s \in Made \/ queue[s] # <<>>
    /\ MayCall(t)
    /\ PipeFrom(t, calls[t], s, index[s], Len(queue[s]))
    /\ Use(s)
    /\ UNCHANGED <<queue, locked, reader>>

WriteReturns(t) ==
    /\ calls[t] # <<>>
    /\ LET c == Last(calls[t]) IN
       c.op = "write" /\ PipeFrom(t, Front(calls[t]), c.stream, c.at, c.len)
    /\ UNCHANGED <<queue, locked, reader, contended>>

CloseReturns(t) ==
    /\ calls[t] # <<>>
    /\ LET c == Last(calls[t]) IN
       /\ c.op = "close"
       /\ index' = [index EXCEPT ![c.stream] = c.len]
    /\ Pop(t)
    /\ UNCHANGED <<queue, locked, reader, delivered, contended>>

CancelReturns(t) ==
    /\ calls[t] # <<>> /\ Last(calls[t]).op = "cancel"
    /\ Pop(t)
    /\ UNCHANGED <<queue, index, locked, reader, delivered, contended>>

Next ==
    /\ \E t \in Task :
        \/ \E r \in Reader :
              /\ "read" \in menu
              /\ \/ \E s \in Readable : GetReader(t, s, r)
                 \/ ReleaseLock(t, r)
                 \/ ReadQueued(t, r)
                 \/ ReadPull(t, r)
        \/ PullReturns(t)
        \/ \E s \in Readable :
              \/ Enqueue(t, s)
              \/ "cancel" \in menu /\ Cancel(t, s)
              \/ "tee" \in menu /\ Tee(t, s)
              \/ "pipe" \in menu /\ Pipe(t, s)
        \/ WriteReturns(t)
        \/ CloseReturns(t)
        \/ CancelReturns(t)
    /\ UNCHANGED menu

Spec == Init /\ [][Next]_vars

-----------------------------------------------------------------------------
TypeOK ==
    /\ queue \in [Readable -> BoundedSeq(Chunk, MaxChunks)]
    /\ index \in [Readable -> 0 .. MaxChunks]
    /\ locked \in [Readable -> BOOLEAN]
    /\ reader \in [Reader -> Readable \cup {NoStream}]
    /\ \A t \in Task : Len(calls[t]) <= MaxCallbacks + 1 /\ Range(calls[t]) \subseteq Call
    /\ \A s \in Readable : Range(delivered[s]) \subseteq 1 .. MaxChunks
    /\ contended \subseteq Readable

(* However reads, pulls and pipes overlap, the index never passes a chunk  *)
(* that no consumer was given; and of a stream whose consumers never       *)
(* overlapped the chunks are given in order and once each, and the index   *)
(* has counted them when no consumer is in a callback.                     *)
ChunksInOrder ==
    \A s \in Readable :
        /\ 1 .. index[s] \subseteq Range(delivered[s])
        /\ s \notin contended =>
              /\ \A i \in DOMAIN delivered[s] : delivered[s][i] = i
              /\ ~InUse(s) => index[s] = Len(delivered[s])

=============================================================================
