---------------------------- MODULE StreamsProofs ---------------------------
(***************************************************************************)
(* For any tasks, streams, readers and callbacks, chunks are delivered in  *)
(* order and once each by a stream whose consumers never overlap, and the  *)
(* index of a stream never passes a chunk that nobody was given.  Network: *)
(* for any bytes, requests, responses and limits, an exchange stays in     *)
(* step with its peer and closes its socket once.                          *)
(***************************************************************************)
EXTENDS Streams, SequenceTheorems, FiniteSetTheorems, WellFoundedInduction, TLAPS

CONSTANTS Byte, RequestHead, RequestBody, Responses,            \* of Network
          WriteLimit, ChunkLimit, ReadLimit, Capacity

VARIABLES socket, closes, stage, call, aborted, sent, accepted, response, pos, ended,
          buffer, room, size, results

Net == INSTANCE Network

-----------------------------------------------------------------------------
(* The inductive invariant                                                 *)

(* What a task goes on with, without the bounds of Call. *)
Frame ==
    [op : {"pull"}, stream : Readable, at : Nat]
        \cup [op : {"write"}, stream : Readable, at : Nat, len : Nat]
        \cup [op : {"close"}, stream : Readable, len : Nat]
        \cup [op : {"cancel"}]

Shapes ==
    /\ queue \in [Readable -> Seq(Made \X Nat)]
    /\ index \in [Readable -> Nat]
    /\ delivered \in [Readable -> Seq(Nat)]
    /\ calls \in [Task -> Seq(Frame)]
    /\ contended \subseteq Readable

(* How many chunks of its stream a consumer has seen handed out. *)
Seen(c) == IF c.op = "close" THEN c.len ELSE c.at

Consumes(c, s) == c.op # "cancel" /\ c.stream = s

(* The index of a stream counts chunks that are there and were handed out. *)
IndexRight(s) ==
    /\ index[s] <= Len(queue[s])
    /\ 1 .. index[s] \subseteq Range(delivered[s])

(* So does what a consumer will store, and where it is alone it is exactly *)
(* what was handed out; a pull then has not moved the index either.        *)
FrameRight(c, s) ==
    /\ Seen(c) <= Len(queue[s])
    /\ 1 .. Seen(c) \subseteq Range(delivered[s])
    /\ c.op = "write" => c.at <= c.len /\ c.len <= Len(queue[s])
    /\ s \notin contended =>
          /\ Len(delivered[s]) = Seen(c)
          /\ c.op = "pull" => index[s] = c.at

FramesRight ==
    \A s \in Readable, t \in Task : \A i \in 1 .. Len(calls[t]) :
        Consumes(calls[t][i], s) => FrameRight(calls[t][i], s)

OneConsumer ==
    \A s \in Readable \ contended : \A t, u \in Task :
        \A i \in 1 .. Len(calls[t]), j \in 1 .. Len(calls[u]) :
            Consumes(calls[t][i], s) /\ Consumes(calls[u][j], s) => t = u /\ i = j

(* What ChunksInOrder says of one stream. *)
Ordered(s) ==
    s \notin contended =>
        /\ \A i \in 1 .. Len(delivered[s]) : delivered[s][i] = i
        /\ ~InUse(s) => index[s] = Len(delivered[s])

(* A task keeps the callbacks rest and leaves the others, all of s. *)
Keeps(t, s, rest) ==
    /\ rest \in Seq(Frame)
    /\ Len(rest) <= Len(calls[t])
    /\ \A i \in 1 .. Len(rest) : rest[i] = calls[t][i]
    /\ \A i \in 1 .. Len(calls[t]) : i > Len(rest) => Consumes(calls[t][i], s)

(* None but what it leaves consumes s. *)
Alone(t, s, rest) ==
    \A u \in Task : \A i \in 1 .. Len(calls[u]) :
        Consumes(calls[u][i], s) => u = t /\ i > Len(rest)

IInv ==
    /\ Shapes
    /\ \A s \in Readable : IndexRight(s) /\ Ordered(s)
    /\ FramesRight
    /\ OneConsumer

-----------------------------------------------------------------------------
(* Sequences                                                               *)

LEMMA FrontFacts ==
    ASSUME NEW S, NEW q \in Seq(S), q # <<>>
    PROVE  /\ Front(q) \in Seq(S)
           /\ Len(q) \in Nat \ {0}
           /\ Len(Front(q)) = Len(q) - 1
           /\ \A i \in 1 .. Len(q) - 1 : Front(q)[i] = q[i]
           /\ Last(q) = q[Len(q)] /\ Last(q) \in S
  <1>1. Len(q) \in Nat \ {0}
    OBVIOUS
  <1>2. Last(q) = q[Len(q)] /\ Last(q) \in S
    BY <1>1 DEF Last
  <1>3. /\ Front(q) \in Seq(S)
        /\ Len(Front(q)) = Len(q) - 1
        /\ \A i \in 1 .. Len(q) - 1 : Front(q)[i] = q[i]
    <2> DEFINE n == Len(q) - 1
    <2>1. n \in Nat /\ 1 \in Int /\ n \in Int /\ \A i \in 1 .. n : q[i] \in S
      BY <1>1
    <2> HIDE DEF n
    <2>2. /\ SubSeq(q, 1, n) \in Seq(S)
          /\ Len(SubSeq(q, 1, n)) = IF 1 <= n THEN n - 1 + 1 ELSE 0
          /\ \A i \in 1 .. n - 1 + 1 : SubSeq(q, 1, n)[i] = q[1 + i - 1]
      BY <2>1, SubSeqProperties
    <2>3. Front(q) = SubSeq(q, 1, n)
      BY DEF Front, n
    <2>4. \A i \in 1 .. n : i \in 1 .. n - 1 + 1 /\ 1 + i - 1 = i
      BY <2>1
    <2>5. Len(Front(q)) = n
      BY <2>1, <2>2, <2>3
    <2>6. \A i \in 1 .. n : Front(q)[i] = q[i]
      BY <2>2, <2>3, <2>4
    <2> QED BY <2>2, <2>3, <2>5, <2>6 DEF n
  <1> QED BY <1>1, <1>2, <1>3

LEMMA RangeOfAppend ==
    ASSUME NEW S, NEW q \in Seq(S), NEW e \in S
    PROVE  Range(Append(q, e)) = Range(q) \cup {e}
  <1>1. /\ DOMAIN q = 1 .. Len(q)
        /\ DOMAIN Append(q, e) = 1 .. Len(q) + 1
        /\ Append(q, e)[Len(q) + 1] = e
        /\ \A i \in 1 .. Len(q) : Append(q, e)[i] = q[i]
        /\ Len(q) \in Nat
    OBVIOUS
  <1>2. 1 .. Len(q) + 1 = (1 .. Len(q)) \cup {Len(q) + 1}
    BY <1>1
  <1> QED BY <1>1, <1>2 DEF Range

(* InUse in terms of Consumes. *)
LEMMA InUseMeans ==
    ASSUME Shapes, NEW s
    PROVE  InUse(s) <=> \E t \in Task : \E i \in 1 .. Len(calls[t]) : Consumes(calls[t][i], s)
  <1>1. \A t \in Task : DOMAIN calls[t] = 1 .. Len(calls[t])
    BY DEF Shapes
  <1> QED BY <1>1 DEF InUse, Consumes

-----------------------------------------------------------------------------
(* Kinds of steps                                                          *)

(* Queues only grow. *)
LEMMA GrowthKeeps ==
    ASSUME IInv, UNCHANGED <<index, calls, delivered, contended>>,
           queue' \in [Readable -> Seq(Made \X Nat)],
           \A s \in Readable : Len(queue[s]) <= Len(queue'[s])
    PROVE  IInv'
  <1> USE DEF IInv
  <1>1. Shapes'
    BY DEF Shapes
  <1>2. \A s \in Readable : /\ index[s] \in Nat /\ Len(queue[s]) \in Nat /\ Len(queue'[s]) \in Nat
                            /\ Len(queue[s]) <= Len(queue'[s])
    BY DEF Shapes
  <1>3. ASSUME NEW s \in Readable PROVE IndexRight(s)' /\ Ordered(s)'
    <2>1. InUse(s)' <=> InUse(s)
      BY DEF InUse
    <2> QED BY <1>2, <2>1 DEF IndexRight, Ordered
  <1>4. FramesRight'
    <2> SUFFICES ASSUME NEW s \in Readable, NEW t \in Task, NEW i \in 1 .. Len(calls[t]),
                        Consumes(calls[t][i], s)
                 PROVE  FrameRight(calls[t][i], s)'
      BY DEF FramesRight, Consumes
    <2> DEFINE c == calls[t][i]
    <2>1. c \in Frame /\ FrameRight(c, s)
      <3>1. calls[t] \in Seq(Frame)
        BY DEF Shapes
      <3>2. c \in Frame
        BY <3>1
      <3> QED BY <3>2 DEF FramesRight
    <2>2. Seen(c) \in Nat /\ (c.op = "write" => c.len \in Nat)
      BY <2>1 DEF Frame, Seen, Consumes
    <2> QED BY <1>2, <2>1, <2>2 DEF FrameRight, Seen
  <1>5. OneConsumer'
    BY DEF OneConsumer, Consumes
  <1> QED BY <1>1, <1>3, <1>4, <1>5

(* A cancel callback begins or ends: the consumers stay as they are. *)
LEMMA CancelKeeps ==
    ASSUME IInv, UNCHANGED <<queue, index, delivered, contended>>, NEW t \in Task,
           \/ calls' = [calls EXCEPT ![t] = Append(@, [op |-> "cancel"])]
           \/ /\ calls[t] # <<>> /\ Last(calls[t]).op = "cancel"
              /\ calls' = [calls EXCEPT ![t] = Front(@)]
    PROVE  IInv'
  <1> USE DEF IInv
  <1>1. /\ Shapes'
        /\ \A u \in Task : \A i \in 1 .. Len(calls'[u]) :
              \/ i \in 1 .. Len(calls[u]) /\ calls'[u][i] = calls[u][i]
              \/ calls'[u][i].op = "cancel"
        /\ \A u \in Task : \A i \in 1 .. Len(calls[u]) :
              \/ i \in 1 .. Len(calls'[u]) /\ calls'[u][i] = calls[u][i]
              \/ calls[u][i].op = "cancel"
    <2>1. CASE calls' = [calls EXCEPT ![t] = Append(@, [op |-> "cancel"])]
      <3>1. [op |-> "cancel"] \in Frame
        BY DEF Frame
      <3>2. calls[t] \in Seq(Frame)
        BY DEF Shapes
      <3> DEFINE q == Append(calls[t], [op |-> "cancel"])
      <3>3. /\ q \in Seq(Frame) /\ Len(q) = Len(calls[t]) + 1 /\ Len(calls[t]) \in Nat
            /\ \A i \in 1 .. Len(calls[t]) : q[i] = calls[t][i]
            /\ q[Len(calls[t]) + 1].op = "cancel"
        BY <3>1, <3>2
      <3>4. \A u \in Task : calls'[u] = IF u = t THEN q ELSE calls[u]
        BY <2>1 DEF Shapes
      <3>5. calls' \in [Task -> Seq(Frame)]
        BY <2>1, <3>3 DEF Shapes
      <3> HIDE DEF q
      <3>6. Shapes'
        BY <3>5 DEF Shapes
      <3>7. ASSUME NEW u \in Task, NEW i \in 1 .. Len(calls'[u])
            PROVE  \/ i \in 1 .. Len(calls[u]) /\ calls'[u][i] = calls[u][i]
                   \/ calls'[u][i].op = "cancel"
        BY <3>3, <3>4
      <3>8. ASSUME NEW u \in Task, NEW i \in 1 .. Len(calls[u])
            PROVE  i \in 1 .. Len(calls'[u]) /\ calls'[u][i] = calls[u][i]
        BY <3>3, <3>4
      <3> QED BY <3>6, <3>7, <3>8
    <2>2. CASE /\ calls[t] # <<>> /\ Last(calls[t]).op = "cancel"
               /\ calls' = [calls EXCEPT ![t] = Front(@)]
      <3>1. calls[t] \in Seq(Frame)
        BY DEF Shapes
      <3> DEFINE q == Front(calls[t])
      <3>2. /\ q \in Seq(Frame) /\ Len(q) = Len(calls[t]) - 1 /\ Len(calls[t]) \in Nat \ {0}
            /\ \A i \in 1 .. Len(calls[t]) - 1 : q[i] = calls[t][i]
            /\ calls[t][Len(calls[t])].op = "cancel"
        BY <2>2, <3>1, FrontFacts
      <3>3. \A u \in Task : calls'[u] = IF u = t THEN q ELSE calls[u]
        BY <2>2 DEF Shapes
      <3>4. calls' \in [Task -> Seq(Frame)]
        BY <2>2, <3>2 DEF Shapes
      <3> HIDE DEF q
      <3>5. Shapes'
        BY <3>4 DEF Shapes
      <3>6. ASSUME NEW u \in Task, NEW i \in 1 .. Len(calls'[u])
            PROVE  i \in 1 .. Len(calls[u]) /\ calls'[u][i] = calls[u][i]
        BY <3>2, <3>3
      <3>7. ASSUME NEW u \in Task, NEW i \in 1 .. Len(calls[u])
            PROVE  \/ i \in 1 .. Len(calls'[u]) /\ calls'[u][i] = calls[u][i]
                   \/ calls[u][i].op = "cancel"
        BY <3>2, <3>3
      <3> QED BY <3>5, <3>6, <3>7
    <2> QED BY <2>1, <2>2
  <1>2. ASSUME NEW s \in Readable PROVE IndexRight(s)' /\ Ordered(s)'
    <2>1. InUse(s)' <=> InUse(s)
      <3>1. InUse(s)' <=> \E u \in Task : \E i \in 1 .. Len(calls'[u]) : Consumes(calls'[u][i], s)
        BY <1>1 DEF InUse, Consumes, Shapes
      <3> QED BY <1>1, <3>1, InUseMeans DEF Consumes
    <2> QED BY <2>1 DEF IndexRight, Ordered
  <1>3. FramesRight'
    BY <1>1 DEF FramesRight, FrameRight, Consumes, Seen
  <1>4. OneConsumer'
    BY <1>1 DEF OneConsumer, Consumes
  <1> QED BY <1>1, <1>2, <1>3, <1>4

(* A consumer of s moves: of the callbacks of its task it keeps rest and    *)
(* may enter c.  Where it is alone, it leaves no other consumer, what it    *)
(* has handed out is in order, and out of callbacks the index counts it.    *)
LEMMA ConsumerKeeps ==
    ASSUME IInv, NEW t \in Task, NEW s \in Readable, NEW enters \in BOOLEAN, NEW c,
           NEW rest, Keeps(t, s, rest),
           UNCHANGED queue,
           calls' = [calls EXCEPT ![t] = IF enters THEN Append(rest, c) ELSE rest],
           enters => c \in Frame /\ Consumes(c, s) /\ FrameRight(c, s)',
           index' \in [Readable -> Nat],
           delivered' \in [Readable -> Seq(Nat)],
           \A x \in Readable \ {s} : index'[x] = index[x] /\ delivered'[x] = delivered[x],
           contended \subseteq contended', contended' \subseteq contended \cup {s},
           IndexRight(s)',
           Range(delivered[s]) \subseteq Range(delivered'[s]),
           s \notin contended' =>
               /\ Alone(t, s, rest)
               /\ \A i \in 1 .. Len(delivered'[s]) : delivered'[s][i] = i
               /\ ~enters => index'[s] = Len(delivered'[s])
    PROVE  IInv'
  <1> USE DEF IInv, Keeps, Alone
  <1> DEFINE q == IF enters THEN Append(rest, c) ELSE rest
  <1>1. /\ q \in Seq(Frame) /\ Len(rest) \in Nat /\ Len(calls[t]) \in Nat
        /\ Len(q) = IF enters THEN Len(rest) + 1 ELSE Len(rest)
        /\ \A i \in 1 .. Len(rest) : q[i] = calls[t][i]
        /\ enters => q[Len(rest) + 1] = c
    BY DEF Shapes
  <1>2. \A u \in Task : calls'[u] = IF u = t THEN q ELSE calls[u]
    BY DEF Shapes
  <1> HIDE DEF q
  <1>3. Shapes'
    <2>1. calls' \in [Task -> Seq(Frame)]
      BY <1>1 DEF Shapes, q
    <2> QED BY <2>1 DEF Shapes
  <1>4. ASSUME NEW u \in Task, NEW i \in 1 .. Len(calls'[u])
        PROVE  \/ /\ i \in 1 .. Len(calls[u]) /\ calls'[u][i] = calls[u][i]
                  /\ u = t => i <= Len(rest)
               \/ enters /\ u = t /\ i = Len(rest) + 1 /\ calls'[u][i] = c
    BY <1>1, <1>2
  <1>5. ASSUME NEW u \in Task, NEW i \in 1 .. Len(calls[u])
        PROVE  \/ i \in 1 .. Len(calls'[u]) /\ calls'[u][i] = calls[u][i]
               \/ Consumes(calls[u][i], s)
    <2>1. CASE u # t
      BY <1>2, <2>1
    <2>2. CASE u = t /\ i > Len(rest)
      BY <2>2
    <2>3. CASE u = t /\ ~(i > Len(rest))
      BY <1>1, <1>2, <2>3
    <2> QED BY <2>1, <2>2, <2>3
  <1>6. FramesRight'
    <2> SUFFICES ASSUME NEW x \in Readable, NEW u \in Task, NEW i \in 1 .. Len(calls'[u]),
                        Consumes(calls'[u][i], x)
                 PROVE  FrameRight(calls[u][i], x)'
      BY DEF FramesRight, Consumes
    <2>1. CASE enters /\ u = t /\ i = Len(rest) + 1 /\ calls'[u][i] = c
      <3>1. x = s
        BY <2>1 DEF Consumes
      <3> QED BY <2>1, <3>1 DEF FrameRight, Seen
    <2>2. CASE /\ i \in 1 .. Len(calls[u]) /\ calls'[u][i] = calls[u][i]
               /\ u = t => i <= Len(rest)
      <3>1. FrameRight(calls[u][i], x)
        BY <2>2 DEF FramesRight
      <3>2. CASE x # s
        BY <2>2, <3>1, <3>2 DEF FrameRight, Seen
      <3>3. CASE x = s
        <4>1. s \in contended'
          <5>1. Consumes(calls[u][i], s) /\ (u = t => ~(i > Len(rest)))
            BY <1>1, <2>2, <3>3
          <5> QED BY <2>2, <5>1
        <4> QED BY <2>2, <3>1, <3>3, <4>1 DEF FrameRight, Seen
      <3> QED BY <3>2, <3>3
    <2> QED BY <1>4, <2>1, <2>2
  <1>7. OneConsumer'
    <2> SUFFICES ASSUME NEW x \in Readable \ contended', NEW u \in Task, NEW w \in Task,
                        NEW i \in 1 .. Len(calls'[u]), NEW j \in 1 .. Len(calls'[w]),
                        Consumes(calls'[u][i], x), Consumes(calls'[w][j], x)
                 PROVE  u = w /\ i = j
      BY SMTT(30) DEF OneConsumer, Consumes
    <2>1. CASE x # s
      <3>1. /\ i \in 1 .. Len(calls[u]) /\ calls'[u][i] = calls[u][i]
            /\ j \in 1 .. Len(calls[w]) /\ calls'[w][j] = calls[w][j]
        BY <1>4, <2>1 DEF Consumes
      <3>2. x \in Readable \ contended
        OBVIOUS
      <3>3. Consumes(calls[u][i], x) /\ Consumes(calls[w][j], x)
        BY <3>1
      <3> QED BY <3>1, <3>2, <3>3 DEF OneConsumer
    <2>2. CASE x = s
      <3>1. \A v \in Task : \A k \in 1 .. Len(calls'[v]) :
                Consumes(calls'[v][k], s) => v = t /\ k = Len(rest) + 1
        BY <1>1, <1>4, <2>2
      <3> QED BY <2>2, <3>1
    <2> QED BY <2>1, <2>2
  <1>8. ASSUME NEW x \in Readable PROVE IndexRight(x)' /\ Ordered(x)'
    <2>1. InUse(x)' <=> \E u \in Task : \E i \in 1 .. Len(calls'[u]) : Consumes(calls'[u][i], x)
      <3>1. \A u \in Task : DOMAIN calls'[u] = 1 .. Len(calls'[u])
        BY <1>3 DEF Shapes
      <3> QED BY <3>1, ZenonT(60) DEF InUse, Consumes
    <2>2. CASE x # s
      <3>1. InUse(x) => InUse(x)'
        <4>1. InUse(x) <=> \E u \in Task : \E i \in 1 .. Len(calls[u]) : Consumes(calls[u][i], x)
          BY InUseMeans
        <4>2. \A e : Consumes(e, x) => ~Consumes(e, s)
          BY <2>2 DEF Consumes
        <4>3. ASSUME NEW u \in Task, NEW i \in 1 .. Len(calls[u]), Consumes(calls[u][i], x)
              PROVE  i \in 1 .. Len(calls'[u]) /\ Consumes(calls'[u][i], x)
          <5>1. ~Consumes(calls[u][i], s)
            BY <4>2, <4>3
          <5> QED BY <1>5, <4>3, <5>1
        <4> QED BY <2>1, <4>1, <4>3
      <3> QED BY <2>2, <3>1 DEF IndexRight, Ordered
    <2>3. CASE x = s
      <3>1. ASSUME enters PROVE InUse(s)'
        <4>1. Len(rest) + 1 \in 1 .. Len(calls'[t]) /\ calls'[t][Len(rest) + 1] = c
          BY <1>1, <1>2, <3>1
        <4> QED BY <2>1, <2>3, <3>1, <4>1
      <3> QED BY <2>3, <3>1 DEF Ordered
    <2> QED BY <2>2, <2>3
  <1> QED BY <1>3, <1>6, <1>7, <1>8

(* A consumer that is not in a callback is alone if nobody uses its stream, *)
(* and remembers in contended if somebody does.                             *)
LEMMA UseMeans ==
    ASSUME IInv, NEW t \in Task, NEW s \in Readable, Use(s)
    PROVE  /\ Keeps(t, s, calls[t])
           /\ contended \subseteq contended' /\ contended' \subseteq contended \cup {s}
           /\ s \notin contended' =>
                /\ Alone(t, s, calls[t])
                /\ index[s] = Len(delivered[s])
                /\ \A i \in 1 .. Len(delivered[s]) : delivered[s][i] = i
  <1>1. calls[t] \in Seq(Frame) /\ Len(calls[t]) \in Nat
    BY DEF IInv, Shapes
  <1>2. Keeps(t, s, calls[t])
    BY <1>1 DEF Keeps
  <1>3. s \notin contended' => s \notin contended /\ ~InUse(s)
    BY DEF Use
  <1>4. ~InUse(s) => Alone(t, s, calls[t])
    BY InUseMeans DEF IInv, Alone
  <1> QED BY <1>2, <1>3, <1>4 DEF IInv, Use, Ordered

(* A consumer that returns from its callback leaves it, and is alone where  *)
(* consumers never overlapped.                                              *)
LEMMA ReturnMeans ==
    ASSUME IInv, NEW t \in Task, NEW s \in Readable, calls[t] # <<>>, Consumes(Last(calls[t]), s)
    PROVE  /\ Keeps(t, s, Front(calls[t]))
           /\ Last(calls[t]) \in Frame
           /\ FrameRight(Last(calls[t]), s)
           /\ s \notin contended =>
                /\ Alone(t, s, Front(calls[t]))
                /\ \A i \in 1 .. Len(delivered[s]) : delivered[s][i] = i
  <1> DEFINE n == Len(calls[t])
  <1>1. calls[t] \in Seq(Frame)
    BY DEF IInv, Shapes
  <1>2. /\ Front(calls[t]) \in Seq(Frame)
        /\ n \in Nat \ {0}
        /\ Len(Front(calls[t])) = n - 1
        /\ \A i \in 1 .. n - 1 : Front(calls[t])[i] = calls[t][i]
        /\ Last(calls[t]) = calls[t][n] /\ Last(calls[t]) \in Frame
    BY <1>1, FrontFacts
  <1>3. n \in 1 .. n /\ \A i \in 1 .. n : i > n - 1 => i = n
    BY <1>2
  <1>4. Keeps(t, s, Front(calls[t]))
    BY <1>2, <1>3 DEF Keeps
  <1>5. FrameRight(Last(calls[t]), s)
    BY <1>2, <1>3 DEF IInv, FramesRight
  <1>6. s \notin contended => Alone(t, s, Front(calls[t]))
    BY <1>2, <1>3 DEF IInv, OneConsumer, Alone
  <1> QED BY <1>2, <1>4, <1>5, <1>6 DEF IInv, Ordered

(* A chunk is handed out: the next one, if what was seen is right.          *)
LEMMA HandOut ==
    ASSUME Shapes, NEW s \in Readable, NEW at \in Nat, 1 .. at \subseteq Range(delivered[s]),
           delivered' = [delivered EXCEPT ![s] = Append(@, at + 1)]
    PROVE  /\ delivered' \in [Readable -> Seq(Nat)]
           /\ \A x \in Readable \ {s} : delivered'[x] = delivered[x]
           /\ Range(delivered[s]) \subseteq Range(delivered'[s])
           /\ 1 .. at + 1 \subseteq Range(delivered'[s])
           /\ Len(delivered[s]) \in Nat
           /\ Len(delivered'[s]) = Len(delivered[s]) + 1
           /\ (/\ Len(delivered[s]) = at
               /\ \A i \in 1 .. Len(delivered[s]) : delivered[s][i] = i)
              => \A i \in 1 .. Len(delivered'[s]) : delivered'[s][i] = i
  <1>1. delivered[s] \in Seq(Nat) /\ at + 1 \in Nat
    BY DEF Shapes
  <1> DEFINE q == Append(delivered[s], at + 1)
  <1>2. /\ q \in Seq(Nat) /\ Len(q) = Len(delivered[s]) + 1 /\ Len(delivered[s]) \in Nat
        /\ \A i \in 1 .. Len(delivered[s]) : q[i] = delivered[s][i]
        /\ q[Len(delivered[s]) + 1] = at + 1
    BY <1>1
  <1>3. Range(q) = Range(delivered[s]) \cup {at + 1}
    BY <1>1, RangeOfAppend
  <1>4. delivered'[s] = q /\ \A x \in Readable \ {s} : delivered'[x] = delivered[x]
    BY DEF Shapes
  <1>5. delivered' \in [Readable -> Seq(Nat)]
    BY <1>2 DEF Shapes
  <1> HIDE DEF q
  <1>6. 1 .. at + 1 = (1 .. at) \cup {at + 1}
    OBVIOUS
  <1>7. ASSUME Len(delivered[s]) = at, \A i \in 1 .. Len(delivered[s]) : delivered[s][i] = i,
               NEW i \in 1 .. Len(q)
        PROVE  q[i] = i
    BY <1>2, <1>7
  <1> QED BY <1>2, <1>3, <1>4, <1>5, <1>6, <1>7

(* read() of a chunk, at once or after a pull. *)
LEMMA TakeKeeps ==
    ASSUME IInv, NEW t \in Task, NEW s \in Readable, NEW rest, Keeps(t, s, rest), NEW at \in Nat,
           at < Len(queue[s]), 1 .. at \subseteq Range(delivered[s]), Take(s, at),
           UNCHANGED queue, calls' = [calls EXCEPT ![t] = rest],
           contended \subseteq contended', contended' \subseteq contended \cup {s},
           s \notin contended' =>
               /\ Alone(t, s, rest)
               /\ Len(delivered[s]) = at
               /\ \A i \in 1 .. Len(delivered[s]) : delivered[s][i] = i
    PROVE  IInv'
  <1>1. Shapes
    BY DEF IInv
  <1>2. /\ delivered' \in [Readable -> Seq(Nat)]
        /\ \A x \in Readable \ {s} : delivered'[x] = delivered[x]
        /\ Range(delivered[s]) \subseteq Range(delivered'[s])
        /\ 1 .. at + 1 \subseteq Range(delivered'[s])
        /\ Len(delivered[s]) \in Nat
        /\ Len(delivered'[s]) = Len(delivered[s]) + 1
        /\ (/\ Len(delivered[s]) = at
            /\ \A i \in 1 .. Len(delivered[s]) : delivered[s][i] = i)
           => \A i \in 1 .. Len(delivered'[s]) : delivered'[s][i] = i
    BY <1>1, HandOut DEF Take
  <1>3. /\ index' \in [Readable -> Nat] /\ index'[s] = at + 1
        /\ \A x \in Readable \ {s} : index'[x] = index[x]
    BY <1>1 DEF Take, Shapes
  <1>4. IndexRight(s)'
    <2>1. Len(queue[s]) \in Nat
      BY <1>1 DEF Shapes
    <2> QED BY <1>2, <1>3, <2>1 DEF IndexRight
  <1> QED BY <1>2, <1>3, <1>4, ConsumerKeeps, FALSE \in BOOLEAN

(* Which of the three a pipe does. *)
LEMMA PipeIs ==
    ASSUME HasWrite \in BOOLEAN, NEW t, NEW rest, NEW s, NEW at \in Nat, NEW len \in Nat,
           PipeFrom(t, rest, s, at, len)
    PROVE  /\ at < len /\ HasWrite =>
                /\ delivered' = [delivered EXCEPT ![s] = Append(@, at + 1)]
                /\ calls' = [calls EXCEPT ![t] =
                      Append(rest, [op |-> "write", stream |-> s, at |-> at + 1, len |-> len])]
                /\ UNCHANGED index
           /\ at >= len /\ HasWrite =>
                /\ calls' = [calls EXCEPT ![t] =
                      Append(rest, [op |-> "close", stream |-> s, len |-> len])]
                /\ UNCHANGED <<index, delivered>>
           /\ ~HasWrite =>
                /\ delivered' = [delivered EXCEPT ![s] = @ \o [i \in 1 .. len - at |-> at + i]]
                /\ index' = [index EXCEPT ![s] = len]
                /\ calls' = [calls EXCEPT ![t] = rest]
  <1>1. CASE ~HasWrite
    BY <1>1, Zenon DEF PipeFrom
  <1>2. CASE HasWrite /\ at < len
    <2>1. ~(at >= len)
      BY <1>2
    <2> QED BY <1>2, <2>1, Zenon DEF PipeFrom
  <1>3. CASE HasWrite /\ ~(at < len)
    <2>1. at >= len
      BY <1>3
    <2> QED BY <1>3, <2>1, Zenon DEF PipeFrom
  <1> QED BY <1>1, <1>2, <1>3

(* A pipe goes on: a chunk is written, the destination is closed, or both   *)
(* without callbacks.                                                       *)
LEMMA PipeKeeps ==
    ASSUME HasWrite \in BOOLEAN, IInv, NEW t \in Task, NEW s \in Readable,
           NEW rest, Keeps(t, s, rest),
           NEW at \in Nat, NEW len \in Nat, at <= len, len <= Len(queue[s]),
           1 .. at \subseteq Range(delivered[s]), PipeFrom(t, rest, s, at, len),
           UNCHANGED queue,
           contended \subseteq contended', contended' \subseteq contended \cup {s},
           s \notin contended' =>
               /\ Alone(t, s, rest)
               /\ Len(delivered[s]) = at
               /\ \A i \in 1 .. Len(delivered[s]) : delivered[s][i] = i
    PROVE  IInv'
  <1>1. Shapes /\ IndexRight(s)
    BY DEF IInv
  <1>2. Len(queue[s]) \in Nat /\ index[s] \in Nat /\ delivered[s] \in Seq(Nat)
    BY <1>1 DEF Shapes
  <1>3. CASE at < len /\ HasWrite
    <2> DEFINE c == [op |-> "write", stream |-> s, at |-> at + 1, len |-> len]
    <2>1. /\ delivered' = [delivered EXCEPT ![s] = Append(@, at + 1)]
          /\ calls' = [calls EXCEPT ![t] = Append(rest, c)]
          /\ UNCHANGED index
      BY <1>3, PipeIs
    <2>2. /\ delivered' \in [Readable -> Seq(Nat)]
          /\ \A x \in Readable \ {s} : delivered'[x] = delivered[x]
          /\ Range(delivered[s]) \subseteq Range(delivered'[s])
          /\ 1 .. at + 1 \subseteq Range(delivered'[s])
          /\ Len(delivered[s]) \in Nat
          /\ Len(delivered'[s]) = Len(delivered[s]) + 1
          /\ (/\ Len(delivered[s]) = at
              /\ \A i \in 1 .. Len(delivered[s]) : delivered[s][i] = i)
             => \A i \in 1 .. Len(delivered'[s]) : delivered'[s][i] = i
      BY <1>1, <2>1, HandOut
    <2>3. c \in Frame /\ Consumes(c, s)
      BY DEF Frame, Consumes
    <2>4. FrameRight(c, s)'
      BY <1>2, <1>3, <2>2, SMTT(30) DEF FrameRight, Seen
    <2>5. IndexRight(s)'
      BY <1>1, <2>1, <2>2 DEF IndexRight
    <2>6. index' \in [Readable -> Nat]
      BY <1>1, <2>1 DEF Shapes
    <2> HIDE DEF c
    <2> QED BY <2>1, <2>2, <2>3, <2>4, <2>5, <2>6, ConsumerKeeps, TRUE \in BOOLEAN
  <1>4. CASE at >= len /\ HasWrite
    <2> DEFINE c == [op |-> "close", stream |-> s, len |-> len]
    <2>1. calls' = [calls EXCEPT ![t] = Append(rest, c)] /\ UNCHANGED <<index, delivered>>
      BY <1>4, PipeIs
    <2>2. c \in Frame /\ Consumes(c, s)
      BY DEF Frame, Consumes
    <2>3. at = len
      BY <1>4
    <2>4. FrameRight(c, s)'
      BY <1>2, <2>1, <2>3 DEF FrameRight, Seen
    <2>5. IndexRight(s)'
      BY <1>1, <2>1 DEF IndexRight
    <2>6. index' \in [Readable -> Nat] /\ delivered' \in [Readable -> Seq(Nat)]
      BY <1>1, <2>1 DEF Shapes
    <2> HIDE DEF c
    <2> QED BY <2>1, <2>2, <2>4, <2>5, <2>6, ConsumerKeeps, TRUE \in BOOLEAN
  <1>5. CASE ~HasWrite
    <2> DEFINE p == [i \in 1 .. len - at |-> at + i]
               q == delivered[s] \o p
    <2>1. /\ delivered' = [delivered EXCEPT ![s] = q]
          /\ index' = [index EXCEPT ![s] = len]
          /\ calls' = [calls EXCEPT ![t] = rest]
      BY <1>5, PipeIs
    <2>2. len - at \in Nat /\ p \in Seq(Nat) /\ Len(p) = len - at
      OBVIOUS
    <2>3. /\ q \in Seq(Nat) /\ Len(q) = Len(delivered[s]) + (len - at)
          /\ Len(delivered[s]) \in Nat
          /\ \A i \in 1 .. Len(delivered[s]) : q[i] = delivered[s][i]
          /\ \A i \in 1 .. len - at : q[Len(delivered[s]) + i] = at + i
      BY <1>2, <2>2
    <2> HIDE DEF p, q
    <2>4. /\ delivered' \in [Readable -> Seq(Nat)] /\ delivered'[s] = q
          /\ \A x \in Readable \ {s} : delivered'[x] = delivered[x]
          /\ index' \in [Readable -> Nat] /\ index'[s] = len
          /\ \A x \in Readable \ {s} : index'[x] = index[x]
      <3>1. /\ index \in [Readable -> Nat] /\ delivered \in [Readable -> Seq(Nat)]
            /\ q \in Seq(Nat)
        BY <1>1, <2>3 DEF Shapes
      <3> QED BY <2>1, <3>1
    <2>5. DOMAIN q = 1 .. Len(q) /\ DOMAIN delivered[s] = 1 .. Len(delivered[s])
      BY <1>2, <2>3
    <2>6. Range(delivered[s]) \subseteq Range(q)
      <3>1. \A i \in 1 .. Len(delivered[s]) : i \in 1 .. Len(q)
        BY <2>2, <2>3
      <3> QED BY ONLY <2>3, <2>5, <3>1 DEF Range
    <2>7. 1 .. len \subseteq Range(q)
      <3> SUFFICES ASSUME NEW n \in 1 .. len PROVE n \in Range(q)
        OBVIOUS
      <3>1. CASE n <= at
        BY <2>6, <3>1
      <3>2. CASE n > at
        <4>1. n - at \in 1 .. len - at /\ at + (n - at) = n
          BY <3>2
        <4>2. Len(delivered[s]) + (n - at) \in 1 .. Len(q)
          BY <2>2, <2>3, <4>1
        <4>3. q[Len(delivered[s]) + (n - at)] = n
          BY <2>3, <4>1
        <4> QED BY <2>5, <4>2, <4>3 DEF Range
      <3> QED BY <3>1, <3>2
    <2>8. IndexRight(s)'
      BY <2>4, <2>7 DEF IndexRight
    <2>9. ASSUME s \notin contended' PROVE Len(q) = len /\ \A i \in 1 .. Len(q) : q[i] = i
      <3>1. Len(delivered[s]) = at /\ \A i \in 1 .. at : delivered[s][i] = i
        BY <2>9
      <3>2. Len(q) = len
        BY <2>3, <3>1
      <3>3. ASSUME NEW i \in 1 .. len PROVE q[i] = i
        <4>1. CASE i <= at
          BY <2>3, <3>1, <4>1
        <4>2. CASE i > at
          <5>1. i - at \in 1 .. len - at /\ at + (i - at) = i
            BY <4>2
          <5> QED BY <2>3, <3>1, <5>1
        <4> QED BY <4>1, <4>2
      <3> QED BY <3>2, <3>3
    <2> QED BY <2>1, <2>4, <2>6, <2>8, <2>9, ConsumerKeeps, FALSE \in BOOLEAN
  <1> QED BY <1>2, <1>3, <1>4, <1>5

-----------------------------------------------------------------------------
(* The theorem                                                             *)

LEMMA StreamsBegin ==
    ASSUME Init
    PROVE  IInv
  <1>1. /\ \A s \in Readable : queue[s] = <<>> /\ index[s] = 0 /\ delivered[s] = <<>>
        /\ \A t \in Task : calls[t] = <<>>
    BY DEF Init
  <1>2. /\ queue \in [Readable -> Seq(Made \X Nat)] /\ delivered \in [Readable -> Seq(Nat)]
        /\ index \in [Readable -> Nat] /\ calls \in [Task -> Seq(Frame)]
    BY DEF Init
  <1>3. Shapes
    BY <1>2 DEF Init, Shapes
  <1>4. \A s \in Readable : IndexRight(s) /\ Ordered(s)
    BY <1>1 DEF IndexRight, Ordered
  <1>5. FramesRight /\ OneConsumer
    BY <1>1 DEF FramesRight, OneConsumer
  <1> QED BY <1>3, <1>4, <1>5 DEF IInv

LEMMA ReadKeeps ==
    ASSUME StreamsAssumption, IInv, NEW t \in Task, NEW r \in Reader,
           ReadQueued(t, r) \/ ReadPull(t, r), reader[r] \in Readable
    PROVE  IInv'
  <1>0. PICK s \in Readable : s = reader[r]
    OBVIOUS
  <1>1. /\ s \in Readable /\ index[s] \in Nat /\ Len(queue[s]) \in Nat
        /\ IndexRight(s) /\ Use(s)
    BY <1>0 DEF IInv, Shapes, ReadQueued, ReadPull
  <1>2. /\ Keeps(t, s, calls[t])
        /\ contended \subseteq contended' /\ contended' \subseteq contended \cup {s}
        /\ s \notin contended' =>
             /\ Alone(t, s, calls[t])
             /\ index[s] = Len(delivered[s])
             /\ \A i \in 1 .. Len(delivered[s]) : delivered[s][i] = i
    BY <1>1, UseMeans
  <1>3. CASE ReadQueued(t, r)
    <2>1. /\ index[s] < Len(queue[s]) /\ Take(s, index[s]) /\ UNCHANGED queue
          /\ UNCHANGED calls
      BY <1>0, <1>3 DEF ReadQueued
    <2>2. calls' = [calls EXCEPT ![t] = calls[t]]
      BY <2>1 DEF IInv, Shapes
    <2> QED BY <1>1, <1>2, <2>1, <2>2, TakeKeeps DEF IndexRight
  <1>4. CASE ReadPull(t, r)
    <2>0. PICK c : c = [op |-> "pull", stream |-> s, at |-> index[s]]
      OBVIOUS
    <2>1. calls' = [calls EXCEPT ![t] = Append(calls[t], c)] /\ UNCHANGED <<queue, index, delivered>>
      BY <1>0, <1>4, <2>0 DEF ReadPull, Push
    <2>2. c \in Frame /\ Consumes(c, s)
      BY <1>1, <2>0 DEF Frame, Consumes
    <2>3. FrameRight(c, s)'
      BY <1>1, <1>2, <2>0, <2>1 DEF FrameRight, Seen, IndexRight
    <2>4. IndexRight(s)'
      BY <1>1, <2>1 DEF IndexRight
    <2>5. index' \in [Readable -> Nat] /\ delivered' \in [Readable -> Seq(Nat)]
      BY <2>1 DEF IInv, Shapes
    <2> QED BY <1>1, <1>2, <2>1, <2>2, <2>3, <2>4, <2>5, ConsumerKeeps, TRUE \in BOOLEAN
  <1> QED BY <1>3, <1>4

LEMMA ReturnKeeps ==
    ASSUME StreamsAssumption, IInv, NEW t \in Task, calls[t] # <<>>,
           PullReturns(t) \/ WriteReturns(t) \/ CloseReturns(t)
    PROVE  IInv'
  <1>0. PICK c, s : c = Last(calls[t]) /\ s = c.stream
    OBVIOUS
  <1>1. c.op \in {"pull", "write", "close"}
    BY <1>0 DEF PullReturns, WriteReturns, CloseReturns
  <1>2. c \in Frame
    <2>1. calls[t] \in Seq(Frame)
      BY DEF IInv, Shapes
    <2> QED BY <1>0, <2>1, FrontFacts
  <1>3. s \in Readable /\ Seen(c) \in Nat /\ (c.op = "write" => c.len \in Nat)
    BY <1>0, <1>1, <1>2 DEF Frame, Seen
  <1>4. Consumes(c, s)
    BY <1>0, <1>1 DEF Consumes
  <1>5. /\ Keeps(t, s, Front(calls[t]))
        /\ FrameRight(c, s)
        /\ s \notin contended =>
             /\ Alone(t, s, Front(calls[t]))
             /\ \A i \in 1 .. Len(delivered[s]) : delivered[s][i] = i
    BY <1>0, <1>3, <1>4, ReturnMeans
  <1>6. UNCHANGED <<queue, contended>>
    BY DEF PullReturns, WriteReturns, CloseReturns
  <1>7. Shapes /\ IndexRight(s)
    BY <1>3 DEF IInv
  <1>8. Len(queue[s]) \in Nat
    BY <1>3, <1>7 DEF Shapes
  <1>9. CASE PullReturns(t)
    <2>1. /\ c.op = "pull" /\ calls' = [calls EXCEPT ![t] = Front(calls[t])]
          /\ IF c.at < Len(queue[s]) THEN Take(s, c.at) ELSE UNCHANGED <<index, delivered>>
      BY <1>0, <1>9 DEF PullReturns, Pop
    <2>2. Seen(c) = c.at
      BY <2>1 DEF Seen
    <2>3. CASE c.at < Len(queue[s])
      BY <1>3, <1>5, <1>6, <2>1, <2>2, <2>3, TakeKeeps DEF FrameRight
    <2>4. CASE ~(c.at < Len(queue[s]))
      <3>1. UNCHANGED <<index, delivered>>
        BY <2>1, <2>4
      <3>2. IndexRight(s)'
        BY <1>6, <1>7, <3>1 DEF IndexRight
      <3>3. index' \in [Readable -> Nat] /\ delivered' \in [Readable -> Seq(Nat)]
        BY <1>7, <3>1 DEF Shapes
      <3>4. s \notin contended => index[s] = Len(delivered[s])
        BY <1>5, <2>1, <2>2 DEF FrameRight
      <3> QED BY <1>3, <1>5, <1>6, <2>1, <3>1, <3>2, <3>3, <3>4, ConsumerKeeps, FALSE \in BOOLEAN
    <2> QED BY <2>3, <2>4
  <1>10. CASE WriteReturns(t)
    <2>1. c.op = "write" /\ PipeFrom(t, Front(calls[t]), s, c.at, c.len)
      BY <1>0, <1>10 DEF WriteReturns
    <2>2. Seen(c) = c.at
      BY <2>1 DEF Seen
    <2> QED BY <1>3, <1>5, <1>6, <2>1, <2>2, PipeKeeps DEF FrameRight, StreamsAssumption
  <1>11. CASE CloseReturns(t)
    <2>1. /\ c.op = "close" /\ calls' = [calls EXCEPT ![t] = Front(calls[t])]
          /\ index' = [index EXCEPT ![s] = c.len] /\ UNCHANGED delivered
      BY <1>0, <1>11 DEF CloseReturns, Pop
    <2>2. Seen(c) = c.len
      BY <2>1 DEF Seen
    <2>3. /\ index' \in [Readable -> Nat] /\ index'[s] = c.len
          /\ \A x \in Readable \ {s} : index'[x] = index[x]
      BY <1>3, <1>7, <2>1, <2>2 DEF Shapes
    <2>4. IndexRight(s)'
      BY <1>5, <1>6, <2>1, <2>2, <2>3 DEF IndexRight, FrameRight
    <2>5. delivered' \in [Readable -> Seq(Nat)]
      BY <1>7, <2>1 DEF Shapes
    <2> QED BY <1>3, <1>5, <1>6, <2>1, <2>2, <2>3, <2>4, <2>5, ConsumerKeeps, FALSE \in BOOLEAN
            DEF FrameRight
  <1> QED BY <1>9, <1>10, <1>11

LEMMA QueueKeeps ==
    ASSUME IInv, NEW t \in Task, NEW s \in Readable, Enqueue(t, s) \/ Tee(t, s)
    PROVE  IInv'
  <1>1. UNCHANGED <<index, calls, delivered, contended>>
    BY DEF Enqueue, Tee
  <1>2. queue \in [Readable -> Seq(Made \X Nat)]
    BY DEF IInv, Shapes
  <1>3. CASE Enqueue(t, s)
    <2> DEFINE e == <<s, Len(queue[s]) + 1>>
    <2>1. s \in Made /\ queue' = [queue EXCEPT ![s] = Append(queue[s], e)]
      BY <1>3 DEF Enqueue
    <2>2. e \in Made \X Nat
      BY <1>2, <2>1
    <2> HIDE DEF e
    <2>3. /\ Append(queue[s], e) \in Seq(Made \X Nat)
          /\ Len(Append(queue[s], e)) = Len(queue[s]) + 1
      BY <1>2, <2>2
    <2>4. \A x \in Readable : Len(queue[x]) \in Nat
      BY <1>2
    <2>5. queue' \in [Readable -> Seq(Made \X Nat)]
      BY <1>2, <2>1, <2>3
    <2>6. \A x \in Readable : queue'[x] = IF x = s THEN Append(queue[s], e) ELSE queue[x]
      BY <1>2, <2>1
    <2> QED BY <1>1, <2>3, <2>4, <2>5, <2>6, GrowthKeeps
  <1>4. CASE Tee(t, s)
    <2> DEFINE q == SubSeq(queue[s], index[s] + 1, Len(queue[s]))
    <2>1. /\ \A b \in Branch : queue[b] = <<>>
          /\ queue' = [b \in Readable |-> IF b \in Branch THEN q ELSE queue[b]]
      BY <1>4 DEF Tee
    <2>2. index[s] \in Nat /\ queue[s] \in Seq(Made \X Nat) /\ Len(queue[s]) \in Nat
      BY DEF IInv, Shapes
    <2>3. q \in Seq(Made \X Nat)
      <3>1. \A i \in index[s] + 1 .. Len(queue[s]) : queue[s][i] \in Made \X Nat
        BY <2>2
      <3> QED BY <2>2, <3>1, SubSeqProperties
    <2> HIDE DEF q
    <2>4. Len(q) \in Nat /\ \A x \in Readable : Len(queue[x]) \in Nat
      BY <1>2, <2>3
    <2>5. queue' \in [Readable -> Seq(Made \X Nat)]
      BY <1>2, <2>1, <2>3
    <2>6. \A x \in Readable : Len(queue[x]) <= Len(queue'[x])
      BY <2>1, <2>4
    <2> QED BY <1>1, <2>5, <2>6, GrowthKeeps
  <1> QED BY <1>3, <1>4

LEMMA PipeBegins ==
    ASSUME StreamsAssumption, IInv, NEW t \in Task, NEW s \in Readable, Pipe(t, s)
    PROVE  IInv'
  <1>1. /\ index[s] \in Nat /\ Len(queue[s]) \in Nat /\ IndexRight(s)
        /\ Use(s) /\ UNCHANGED queue /\ PipeFrom(t, calls[t], s, index[s], Len(queue[s]))
    BY DEF IInv, Shapes, Pipe
  <1>2. /\ Keeps(t, s, calls[t])
        /\ contended \subseteq contended' /\ contended' \subseteq contended \cup {s}
        /\ s \notin contended' =>
             /\ Alone(t, s, calls[t])
             /\ index[s] = Len(delivered[s])
             /\ \A i \in 1 .. Len(delivered[s]) : delivered[s][i] = i
    BY <1>1, UseMeans
  <1> QED BY <1>1, <1>2, PipeKeeps DEF IndexRight, StreamsAssumption

(* A reader reads one of the streams. *)
ReadersRead == reader \in [Reader -> Readable \cup {NoStream}]

LEMMA StreamsStep ==
    ASSUME StreamsAssumption, IInv, ReadersRead, [Next]_vars
    PROVE  IInv' /\ ReadersRead'
  <1>1. CASE UNCHANGED vars
    <2>1. ReadersRead'
      BY <1>1 DEF vars, ReadersRead
    <2>2. IInv'
      BY <1>1, GrowthKeeps DEF vars, IInv, Shapes
    <2> QED BY <2>1, <2>2
  <1>2. CASE Next
    <2>1. PICK t \in Task :
            \/ \E r \in Reader :
                  \/ \E s \in Readable : GetReader(t, s, r)
                  \/ ReleaseLock(t, r)
                  \/ ReadQueued(t, r)
                  \/ ReadPull(t, r)
            \/ PullReturns(t)
            \/ \E s \in Readable :
                  \/ Enqueue(t, s)
                  \/ Cancel(t, s)
                  \/ Tee(t, s)
                  \/ Pipe(t, s)
            \/ WriteReturns(t)
            \/ CloseReturns(t)
            \/ CancelReturns(t)
      BY <1>2 DEF Next
    <2>2. ASSUME NEW r \in Reader, NEW s \in Readable, GetReader(t, s, r)
          PROVE  IInv' /\ ReadersRead'
      <3>1. ReadersRead'
        BY <2>2 DEF GetReader, ReadersRead
      <3>2. IInv'
        BY <2>2, GrowthKeeps DEF GetReader, IInv, Shapes
      <3> QED BY <3>1, <3>2
    <2>3. ASSUME NEW r \in Reader, ReleaseLock(t, r)
          PROVE  IInv' /\ ReadersRead'
      <3>1. ReadersRead'
        BY <2>3 DEF ReleaseLock, ReadersRead
      <3>2. IInv'
        BY <2>3, GrowthKeeps DEF ReleaseLock, IInv, Shapes
      <3> QED BY <3>1, <3>2
    <2>4. ASSUME NEW r \in Reader, ReadQueued(t, r) \/ ReadPull(t, r)
          PROVE  IInv' /\ ReadersRead'
      <3>1. reader[r] \in Readable /\ UNCHANGED reader
        BY <2>4 DEF ReadQueued, ReadPull, ReadersRead
      <3> QED BY <2>4, <3>1, ReadKeeps DEF ReadersRead
    <2>5. CASE PullReturns(t) \/ WriteReturns(t) \/ CloseReturns(t)
      <3>1. calls[t] # <<>> /\ UNCHANGED reader
        BY <2>5 DEF PullReturns, WriteReturns, CloseReturns
      <3> QED BY <2>5, <3>1, ReturnKeeps DEF ReadersRead
    <2>6. ASSUME NEW s \in Readable, Enqueue(t, s) \/ Tee(t, s)
          PROVE  IInv' /\ ReadersRead'
      <3>1. UNCHANGED reader
        BY <2>6 DEF Enqueue, Tee
      <3> QED BY <2>6, <3>1, QueueKeeps DEF ReadersRead
    <2>7. ASSUME NEW s \in Readable, Cancel(t, s)
          PROVE  IInv' /\ ReadersRead'
      BY <2>7, CancelKeeps DEF Cancel, Push, ReadersRead
    <2>8. ASSUME NEW s \in Readable, Pipe(t, s)
          PROVE  IInv' /\ ReadersRead'
      <3>1. UNCHANGED reader
        BY <2>8 DEF Pipe
      <3> QED BY <2>8, <3>1, PipeBegins DEF ReadersRead
    <2>9. CASE CancelReturns(t)
      BY <2>9, CancelKeeps DEF CancelReturns, Pop, ReadersRead
    <2> QED BY <2>1, <2>2, <2>3, <2>4, <2>5, <2>6, <2>7, <2>8, <2>9
  <1> QED BY <1>1, <1>2

(* However reads, pulls, tees and pipes overlap in callbacks, the index of  *)
(* a stream passes no chunk that was not handed out, and where consumers    *)
(* never overlap the chunks are handed out in order and once each (read,    *)
(* pipeTo and tee of web_streams_readable.go), for any tasks and streams.   *)
THEOREM ChunksStayInOrder ==
    ASSUME StreamsAssumption
    PROVE  Spec => []ChunksInOrder
  <1>1. Init => IInv /\ ReadersRead
    BY StreamsBegin DEF Init, ReadersRead
  <1>2. IInv /\ ReadersRead /\ [Next]_vars => (IInv /\ ReadersRead)'
    BY StreamsStep
  <1>3. IInv => ChunksInOrder
    <2> SUFFICES ASSUME IInv, NEW s \in Readable
                 PROVE  /\ 1 .. index[s] \subseteq Range(delivered[s])
                        /\ s \notin contended =>
                              /\ \A i \in DOMAIN delivered[s] : delivered[s][i] = i
                              /\ ~InUse(s) => index[s] = Len(delivered[s])
      BY DEF ChunksInOrder
    <2>1. DOMAIN delivered[s] = 1 .. Len(delivered[s])
      BY DEF IInv, Shapes
    <2> QED BY <2>1 DEF IInv, IndexRight, Ordered
  <1> QED BY <1>1, <1>2, <1>3, PTL DEF Spec

-----------------------------------------------------------------------------
(* The network exchange: numbers and sequences.                            *)

(* A set of numbers has a least one. *)
LEMMA NatMin ==
    ASSUME NEW S \in SUBSET Nat, S # {}
    PROVE  \E x \in S : \A y \in S : x <= y
  <1> DEFINE R == {p \in Nat \X Nat : p[1] < p[2]}
  <1>1. IsWellFoundedOn(R, Nat)
    BY NatLessThanWellFounded DEF OpToRel
  <1>2. S \subseteq Nat
    OBVIOUS
  <1> HIDE DEF R
  <1>3. \E x \in S : \A y \in S : ~(<<y, x>> \in R)
    BY ONLY <1>1, <1>2, S # {}, WFMin, Zenon
  <1>4. PICK x \in S : \A y \in S : ~(<<y, x>> \in R)
    BY <1>3
  <1>5. ASSUME NEW y \in S
        PROVE  x <= y
    <2>1. x \in Nat /\ y \in Nat
      BY <1>2
    <2>2. <<y, x>> \in Nat \X Nat /\ <<y, x>>[1] = y /\ <<y, x>>[2] = x
      BY <2>1
    <2>3. ~(y < x)
      BY <1>4, <2>2 DEF R
    <2> QED BY <2>1, <2>3
  <1> QED BY <1>5

(* Induction up to a bound, on a set of numbers. *)
LEMMA Climb ==
    ASSUME NEW n \in Nat, NEW S \in SUBSET Nat, 0 \in S, \A m \in 1 .. n : m - 1 \in S => m \in S
    PROVE  n \in S
  <1> DEFINE Bad == {m \in 0 .. n : m \notin S}
  <1>1. ASSUME Bad # {}
        PROVE  FALSE
    <2>1. Bad \in SUBSET Nat
      OBVIOUS
    <2>2. PICK m \in Bad : \A k \in Bad : m <= k
      <3> HIDE DEF Bad
      <3> QED BY <1>1, <2>1, NatMin
    <2>3. m \in 1 .. n /\ m - 1 \in 0 .. n /\ ~(m <= m - 1)
      OBVIOUS
    <2>4. m - 1 \in S
      BY <2>2, <2>3
    <2> QED BY <2>3, <2>4
  <1> QED
    <2>1. n \in 0 .. n /\ n \notin Bad
      BY <1>1
    <2> QED BY <2>1

(* A function that starts with a and goes on by g is defined. *)
Follows(f, n, a, g) == f[0] = a /\ \A i \in 1 .. n : f[i] = g[i][f[i - 1]]

LEMMA GoesOn ==
    ASSUME NEW n \in Nat, NEW T, NEW g \in [1 .. n -> [T -> T]],
           NEW a \in T
    PROVE  \E f \in [0 .. n -> T] : Follows(f, n, a, g)
  <1> DEFINE Upto(m, f) == f[0] = a /\ \A i \in 1 .. m : f[i] = g[i][f[i - 1]]
             S == {m \in 0 .. n : \E f \in [0 .. m -> T] : Upto(m, f)}
  <1>1. 0 \in S
    <2> DEFINE h == [i \in 0 .. 0 |-> a]
    <2>1. h \in [0 .. 0 -> T] /\ Upto(0, h)
      OBVIOUS
    <2>2. 0 \in 0 .. n
      OBVIOUS
    <2> HIDE DEF h
    <2>3. \E f \in [0 .. 0 -> T] : Upto(0, f)
      BY <2>1
    <2> QED BY <2>2, <2>3
  <1>2. \A m \in 1 .. n : m - 1 \in S => m \in S
    <2> SUFFICES ASSUME NEW m \in 1 .. n, m - 1 \in S
                 PROVE  m \in S
      OBVIOUS
    <2>1. PICK f \in [0 .. m - 1 -> T] : Upto(m - 1, f)
      OBVIOUS
    <2> DEFINE h == [i \in 0 .. m |-> IF i = m THEN g[m][f[m - 1]] ELSE f[i]]
    <2>2. \A i \in 0 .. m - 1 : h[i] = f[i] /\ f[i] \in T
      OBVIOUS
    <2>3. h[m] = g[m][f[m - 1]] /\ h[m] \in T /\ h[m - 1] = f[m - 1]
      <3>1. m - 1 \in 0 .. m - 1 /\ m \in 0 .. m /\ m - 1 \in 0 .. m /\ m # m - 1
        OBVIOUS
      <3>2. f[m - 1] \in T
        BY <3>1
      <3> QED BY <3>1, <3>2
    <2>4. h \in [0 .. m -> T]
      <3>1. \A i \in 0 .. m : h[i] \in T
        <4> TAKE i \in 0 .. m
        <4>1. i = m \/ i \in 0 .. m - 1
          OBVIOUS
        <4> HIDE DEF h
        <4> QED BY <2>2, <2>3, <4>1
      <3> QED BY <3>1
    <2> HIDE DEF h
    <2>5. \A i \in 1 .. m : h[i] = g[i][h[i - 1]]
      <3> TAKE i \in 1 .. m
      <3>1. i = m \/ (i \in 1 .. m - 1 /\ i \in 0 .. m - 1 /\ i - 1 \in 0 .. m - 1)
        OBVIOUS
      <3> QED BY <2>1, <2>2, <2>3, <3>1
    <2>6. h[0] = a
      BY <2>1, <2>2
    <2>7. m \in 0 .. n /\ Upto(m, h)
      BY <2>5, <2>6
    <2> QED BY <2>4, <2>7
  <1>3. S \in SUBSET Nat
    OBVIOUS
  <1>4. n \in S
    <2> HIDE DEF S
    <2> QED BY ONLY n \in Nat, <1>1, <1>2, <1>3, Climb
  <1> QED BY <1>4 DEF Follows

(* When two sequences are equal. *)
LEMMA SameSeq ==
    ASSUME NEW T, NEW a \in Seq(T), NEW b \in Seq(T), Len(a) = Len(b),
           \A i \in 1 .. Len(a) : a[i] = b[i]
    PROVE  a = b
  OBVIOUS

LEMMA NoneIsEmpty ==
    ASSUME NEW T, NEW s \in Seq(T), Len(s) = 0
    PROVE  s = <<>>
  OBVIOUS

LEMMA SeqOver ==
    ASSUME NEW T, NEW U, U \subseteq T, NEW s \in Seq(U)
    PROVE  s \in Seq(T)
  <1>1. \A i \in 1 .. Len(s) : s[i] \in T
    OBVIOUS
  <1>2. s = [i \in 1 .. Len(s) |-> s[i]] /\ Len(s) \in Nat
    OBVIOUS
  <1> QED BY <1>1, <1>2

(* Sequences laid end to end. *)
LEMMA FlattenIs ==
    ASSUME NEW T, NEW s \in Seq(Seq(T))
    PROVE  \E f \in [0 .. Len(s) -> Seq(T)] :
              /\ f[0] = <<>> /\ \A i \in 1 .. Len(s) : f[i] = f[i - 1] \o s[i]
              /\ FlattenSeq(s) = f[Len(s)]
  <1>n. PICK n : n = Len(s)
    OBVIOUS
  <1>a. PICK A : A = Seq(T)
    OBVIOUS
  <1> DEFINE g == [i \in 1 .. n |-> [t \in A |-> t \o s[i]]]
  <1>1. n \in Nat /\ \A i \in 1 .. n : s[i] \in A
    BY <1>n, <1>a
  <1>2. g \in [1 .. n -> [A -> A]]
    <2>1. \A i \in 1 .. n : \A t \in A : t \o s[i] \in A
      BY <1>1, <1>a
    <2> QED BY <2>1
  <1>3. PICK f \in [0 .. n -> A] : f[0] = <<>> /\ \A i \in 1 .. n : f[i] = g[i][f[i - 1]]
    <2>1. <<>> \in A /\ n \in Nat
      BY <1>1, <1>a
    <2> HIDE DEF g
    <2>2. \E f \in [0 .. n -> A] : Follows(f, n, <<>>, g)
      BY ONLY <1>2, <2>1, GoesOn
    <2> QED BY <2>2 DEF Follows
  <1>4. \A i \in 1 .. n : i - 1 \in 0 .. n /\ f[i - 1] \in A /\ f[i] = f[i - 1] \o s[i]
    <2> TAKE i \in 1 .. n
    <2>1. i - 1 \in 0 .. n
      BY <1>1
    <2> QED BY <1>3, <2>1
  <1> HIDE DEF g
  <1>5. CASE n = 0
    <2>1. Len(s) = 0 /\ s = <<>>
      BY <1>n, <1>5, NoneIsEmpty
    <2>2. FlattenSeq(s) = <<>>
      BY <2>1 DEF FlattenSeq
    <2> QED BY <1>n, <1>a, <1>3, <1>4, <2>1, <2>2
  <1>6. CASE n # 0
    <2> DEFINE Is(h) == h = [i \in 1 .. n |-> IF i = 1 THEN s[i] ELSE h[i - 1] \o s[i]]
               k == [i \in 1 .. n |-> f[i]]
               c == CHOOSE h : Is(h)
    <2>1. Is(k)
      <3>1. ASSUME NEW i \in 1 .. n
            PROVE  f[i] = IF i = 1 THEN s[i] ELSE k[i - 1] \o s[i]
        <4>1. CASE i = 1
          <5>1. f[1] = f[0] \o s[1] /\ s[1] \in A
            <6>1. 1 \in 1 .. n /\ 1 - 1 = 0
              BY <4>1
            <6> QED BY <1>1, <1>4, <6>1
          <5>2. \A t \in A : <<>> \o t = t
            BY <1>a
          <5> QED BY <1>3, <4>1, <5>1, <5>2
        <4>2. CASE i # 1
          <5>1. i - 1 \in 1 .. n
            BY <1>1, <4>2
          <5>2. f[i] = f[i - 1] \o s[i]
            BY <1>4
          <5> QED BY <4>2, <5>1, <5>2
        <4> QED BY <4>1, <4>2
      <3> QED BY <3>1
    <2>2. Is(c)
      <3> HIDE DEF k, Is
      <3> QED BY <2>1
    <2>3. \A i \in 1 .. n : c[i] = IF i = 1 THEN s[i] ELSE c[i - 1] \o s[i]
      <3> HIDE DEF c
      <3> QED BY <2>2
    <2> HIDE DEF c
    <2> DEFINE S == {i \in 0 .. n : i = 0 \/ c[i] = f[i]}
    <2>4. 0 \in S
      BY <1>1
    <2>5. \A m \in 1 .. n : m - 1 \in S => m \in S
      <3> SUFFICES ASSUME NEW m \in 1 .. n, m - 1 \in S
                   PROVE  m \in S
        OBVIOUS
      <3>1. f[m] = f[m - 1] \o s[m] /\ s[m] \in A
        BY <1>1, <1>4
      <3>2. CASE m = 1
        <4>1. \A t \in A : <<>> \o t = t
          BY <1>a
        <4>2. f[1] = f[0] \o s[1] /\ s[1] \in A /\ c[1] = s[1]
          BY <2>3, <3>1, <3>2
        <4>3. c[m] = f[m]
          BY <1>3, <3>2, <4>1, <4>2
        <4> QED BY <4>3
      <3>3. CASE m # 1
        <4>1. c[m] = c[m - 1] \o s[m] /\ c[m - 1] = f[m - 1]
          <5>1. c[m - 1] = f[m - 1]
            BY <3>3
          <5> QED BY <2>3, <3>3, <5>1
        <4>2. c[m] = f[m]
          BY <3>1, <4>1
        <4> QED BY <4>2
      <3> QED BY <3>2, <3>3
    <2>6. n \in S
      <3>1. n \in Nat
        BY <1>1
      <3>2. S \in SUBSET Nat
        OBVIOUS
      <3> HIDE DEF S
      <3> QED BY ONLY <3>1, <3>2, <2>4, <2>5, Climb
    <2>7. c[n] = f[n]
      BY <1>1, <1>6, <2>6 DEF S
    <2>8. FlattenSeq(s) = c[n]
      BY <1>n, <1>6 DEF FlattenSeq, c
    <2> QED BY <1>n, <1>a, <1>3, <1>4, <2>7, <2>8
  <1> QED BY <1>5, <1>6

(* Laying one more at the end. *)
LEMMA FlattenAppend ==
    ASSUME NEW T, NEW s \in Seq(Seq(T)), NEW x \in Seq(T)
    PROVE  FlattenSeq(Append(s, x)) = FlattenSeq(s) \o x
  <1>n. PICK n : n = Len(s)
    OBVIOUS
  <1>t. PICK t : t = Append(s, x)
    OBVIOUS
  <1>1. /\ t \in Seq(Seq(T)) /\ Len(t) = n + 1 /\ n \in Nat /\ t[n + 1] = x
        /\ \A i \in 1 .. n : t[i] = s[i]
    BY <1>n, <1>t
  <1>2. PICK f \in [0 .. Len(s) -> Seq(T)] :
              /\ f[0] = <<>> /\ \A i \in 1 .. Len(s) : f[i] = f[i - 1] \o s[i]
              /\ FlattenSeq(s) = f[Len(s)]
    BY FlattenIs
  <1>3. PICK h \in [0 .. Len(t) -> Seq(T)] :
              /\ h[0] = <<>> /\ \A i \in 1 .. Len(t) : h[i] = h[i - 1] \o t[i]
              /\ FlattenSeq(t) = h[Len(t)]
    BY <1>1, FlattenIs
  <1> DEFINE S == {i \in 0 .. n : h[i] = f[i]}
  <1>4. 0 \in S
    BY <1>n, <1>1, <1>2, <1>3
  <1>5. \A m \in 1 .. n : m - 1 \in S => m \in S
    <2> SUFFICES ASSUME NEW m \in 1 .. n, m - 1 \in S
                 PROVE  m \in S
      OBVIOUS
    <2>1. m \in 1 .. Len(s) /\ m \in 1 .. Len(t) /\ m \in 0 .. n
      BY <1>n, <1>1
    <2>2. h[m] = h[m - 1] \o t[m] /\ f[m] = f[m - 1] \o s[m] /\ t[m] = s[m]
      BY <1>1, <1>2, <1>3, <2>1
    <2>3. h[m - 1] = f[m - 1]
      OBVIOUS
    <2> QED BY <2>1, <2>2, <2>3
  <1>6. n \in S
    <2>1. n \in Nat
      BY <1>1
    <2>2. S \in SUBSET Nat
      OBVIOUS
    <2> HIDE DEF S
    <2> QED BY ONLY <2>1, <2>2, <1>4, <1>5, Climb
  <1>7. h[n] = f[n]
    BY <1>6
  <1>8. h[n + 1] = h[n] \o t[n + 1]
    <2>1. PICK q : q = n + 1
      OBVIOUS
    <2>2. q \in 1 .. Len(t) /\ q - 1 = n
      BY <1>1, <2>1
    <2>3. h[q] = h[q - 1] \o t[q]
      BY <1>3, <2>2
    <2> QED BY <2>1, <2>2, <2>3
  <1> QED BY <1>n, <1>t, <1>1, <1>2, <1>3, <1>7, <1>8

(* The beginning of a sequence, and a piece after it. *)
LEMMA Onward ==
    ASSUME NEW T, NEW s \in Seq(T), NEW m \in 0 .. Len(s), NEW k \in 0 .. Len(s) - m
    PROVE  /\ SubSeq(s, m + 1, m + k) \in Seq(T) /\ Len(SubSeq(s, m + 1, m + k)) = k
           /\ \A i \in 1 .. k : SubSeq(s, m + 1, m + k)[i] = s[m + i]
           /\ SubSeq(s, 1, m) \o SubSeq(s, m + 1, m + k) = SubSeq(s, 1, m + k)
  <1>1. /\ SubSeq(s, m + 1, m + k) \in Seq(T) /\ Len(SubSeq(s, m + 1, m + k)) = k
        /\ \A i \in 1 .. k : SubSeq(s, m + 1, m + k)[i] = s[m + i]
    OBVIOUS
  <1>2. /\ SubSeq(s, 1, m + k) \in Seq(T) /\ Len(SubSeq(s, 1, m + k)) = m + k
        /\ SubSeq(s, 1, m) \in Seq(T) /\ Len(SubSeq(s, 1, m)) = m
        /\ \A i \in 1 .. m + k : SubSeq(s, 1, m + k)[i] = s[i]
        /\ \A i \in 1 .. m : SubSeq(s, 1, m)[i] = s[i]
    OBVIOUS
  <1>a. PICK a : a = SubSeq(s, 1, m)
    OBVIOUS
  <1>b. PICK b : b = SubSeq(s, m + 1, m + k)
    OBVIOUS
  <1>c. PICK c : c = SubSeq(s, 1, m + k)
    OBVIOUS
  <1>k. m \in Nat /\ k \in Nat
    OBVIOUS
  <1>3. a \in Seq(T) /\ b \in Seq(T) /\ c \in Seq(T) /\ Len(a) = m /\ Len(b) = k /\ Len(c) = m + k
    BY <1>a, <1>b, <1>c, <1>1, <1>2
  <1>4. /\ a \o b \in Seq(T) /\ Len(a \o b) = m + k
        /\ \A i \in 1 .. m : (a \o b)[i] = a[i]
        /\ \A i \in 1 .. k : (a \o b)[m + i] = b[i]
    <2>0. a \o b \in Seq(T) /\ Len(a \o b) = Len(a) + Len(b)
      <3>1. a \in Seq(T) /\ b \in Seq(T)
        BY <1>3
      <3> QED BY ONLY <3>1
    <2>1. a \o b \in Seq(T) /\ Len(a \o b) = m + k
      BY <1>3, <2>0
    <2>2. \A i \in 1 .. m : (a \o b)[i] = a[i]
      BY ONLY <1>3
    <2>3. \A i \in 1 .. k : (a \o b)[m + i] = b[i]
      BY ONLY <1>k, <1>3
    <2> QED BY <2>1, <2>2, <2>3
  <1>5. \A i \in 1 .. m + k : (a \o b)[i] = c[i]
    <2> TAKE i \in 1 .. m + k
    <2>1. CASE i <= m
      <3>1. i \in 1 .. m
        BY <2>1
      <3> QED BY <1>a, <1>c, <1>2, <1>4, <3>1
    <2>2. CASE i > m
      <3>1. PICK j : j = i - m
        OBVIOUS
      <3>2. j \in 1 .. k /\ m + j = i
        BY <2>2, <3>1
      <3>3. (a \o b)[i] = b[j]
        BY <1>4, <3>2
      <3>4. b[j] = s[i] /\ c[i] = s[i]
        BY <1>b, <1>c, <1>1, <1>2, <3>2
      <3> QED BY <3>3, <3>4
    <2>3. i <= m \/ i > m
      BY <1>k
    <2> QED BY ONLY <2>1, <2>2, <2>3
  <1>6. a \o b = c
    BY <1>3, <1>4, <1>5, SameSeq
  <1> QED BY <1>a, <1>b, <1>c, <1>1, <1>6

(* The number that digits write. *)
LEMMA ValueIs ==
    ASSUME NEW T, NEW ds \in Seq(T)
    PROVE  /\ Net!Value(ds, 0) = 0
           /\ \A i \in 0 .. Len(ds) : Net!Value(ds, i) \in Nat
           /\ \A i \in 1 .. Len(ds) : Net!Value(ds, i) = 16 * Net!Value(ds, i - 1) + Net!DigitValue(ds[i])
  <1>n. PICK n : n = Len(ds)
    OBVIOUS
  <1> DEFINE g == [i \in 1 .. n |-> [t \in Nat |-> 16 * t + Net!DigitValue(ds[i])]]
  <1>1. n \in Nat /\ \A d : Net!DigitValue(d) \in Nat
    BY <1>n DEF Net!DigitValue, Net!Digit
  <1>2. g \in [1 .. n -> [Nat -> Nat]]
    BY <1>1
  <1>3. PICK f \in [0 .. n -> Nat] : f[0] = 0 /\ \A i \in 1 .. n : f[i] = g[i][f[i - 1]]
    <2>1. 0 \in Nat /\ n \in Nat
      BY <1>1
    <2> HIDE DEF g
    <2>2. \E f \in [0 .. n -> Nat] : Follows(f, n, 0, g)
      BY ONLY <1>2, <2>1, GoesOn
    <2> QED BY <2>2 DEF Follows
  <1>4. \A i \in 1 .. n : i - 1 \in 0 .. n /\ f[i - 1] \in Nat /\ f[i] = 16 * f[i - 1] + Net!DigitValue(ds[i])
    <2> TAKE i \in 1 .. n
    <2>1. i - 1 \in 0 .. n
      BY <1>1
    <2> QED BY <1>3, <2>1
  <1> HIDE DEF g
  <1> DEFINE Is(h) == h = [i \in 0 .. Len(ds) |-> IF i = 0 THEN 0 ELSE 16 * h[i - 1] + Net!DigitValue(ds[i])]
             c == CHOOSE h : Is(h)
  <1>5. Is(f)
    <2>1. \A i \in 0 .. n : f[i] = IF i = 0 THEN 0 ELSE 16 * f[i - 1] + Net!DigitValue(ds[i])
      <3> TAKE i \in 0 .. n
      <3>1. i = 0 \/ i \in 1 .. n
        BY <1>1
      <3> QED BY <1>1, <1>3, <1>4, <3>1
    <2>2. f = [i \in 0 .. n |-> f[i]]
      OBVIOUS
    <2> QED BY <1>n, <2>1, <2>2
  <1>6. Is(c)
    <2> HIDE DEF Is
    <2> QED BY <1>5
  <1>7. \A i \in 0 .. n : c[i] = IF i = 0 THEN 0 ELSE 16 * c[i - 1] + Net!DigitValue(ds[i])
    <2> HIDE DEF c
    <2> QED BY <1>n, <1>6
  <1>8. \A i \in 0 .. n : Net!Value(ds, i) = c[i]
    BY DEF Net!Value
  <1> HIDE DEF c, Is
  <1> DEFINE S == {i \in 0 .. n : c[i] = f[i]}
  <1>9. 0 \in S
    BY <1>1, <1>3, <1>7
  <1>10. \A m \in 1 .. n : m - 1 \in S => m \in S
    <2> SUFFICES ASSUME NEW m \in 1 .. n, m - 1 \in S
                 PROVE  m \in S
      OBVIOUS
    <2>1. m \in 0 .. n /\ m # 0 /\ c[m - 1] = f[m - 1]
      BY <1>1
    <2>2. c[m] = 16 * c[m - 1] + Net!DigitValue(ds[m])
      BY <1>7, <2>1
    <2> QED BY <1>4, <2>1, <2>2
  <1>11. \A m \in 0 .. n : m \in S
    <2> TAKE m \in 0 .. n
    <2>1. S \in SUBSET Nat /\ m \in Nat /\ \A i \in 1 .. m : i \in 1 .. n
      BY <1>1
    <2>2. \A i \in 1 .. m : i - 1 \in S => i \in S
      BY <1>10, <2>1
    <2> HIDE DEF S
    <2> QED BY ONLY <1>9, <2>1, <2>2, Climb
  <1>12. \A i \in 0 .. n : Net!Value(ds, i) = f[i]
    BY <1>8, <1>11
  <1>13. \A i \in 1 .. n : Net!Value(ds, i) = 16 * Net!Value(ds, i - 1) + Net!DigitValue(ds[i])
    <2> TAKE i \in 1 .. n
    <2>1. i \in 0 .. n /\ i - 1 \in 0 .. n
      BY <1>1
    <2>2. Net!Value(ds, i) = f[i] /\ Net!Value(ds, i - 1) = f[i - 1]
      BY <1>12, <2>1
    <2> QED BY <1>4, <2>2
  <1>14. Net!Value(ds, 0) = 0
    <2>1. 0 \in 0 .. n
      BY <1>1
    <2> QED BY <1>3, <1>12, <2>1
  <1>15. \A i \in 0 .. n : Net!Value(ds, i) \in Nat
    BY <1>12
  <1> QED BY <1>n, <1>13, <1>14, <1>15

(* More digits never make it smaller. *)
LEMMA ValueGrows ==
    ASSUME NEW T, NEW ds \in Seq(T), NEW m \in 0 .. Len(ds)
    PROVE  Net!Value(ds, m) <= Net!Value(ds, Len(ds))
  <1>n. PICK n : n = Len(ds)
    OBVIOUS
  <1> DEFINE v(i) == Net!Value(ds, i)
             S == {j \in 0 .. n - m : v(m) <= v(m + j)}
  <1>1. n \in Nat /\ m \in Nat /\ n - m \in Nat /\ m + (n - m) = n /\ m + 0 = m
    BY <1>n
  <1>2. \A i \in 0 .. n : v(i) \in Nat
    BY <1>n, ValueIs
  <1>3. \A i \in 1 .. n : v(i) = 16 * v(i - 1) + Net!DigitValue(ds[i])
    BY <1>n, ValueIs
  <1>4. \A d : Net!DigitValue(d) \in Nat
    BY DEF Net!DigitValue, Net!Digit
  <1> HIDE DEF v
  <1>5. 0 \in S
    <2>1. m \in 0 .. n
      BY <1>n
    <2> QED BY <1>1, <1>2, <2>1
  <1>6. \A j \in 1 .. n - m : j - 1 \in S => j \in S
    <2> SUFFICES ASSUME NEW j \in 1 .. n - m, j - 1 \in S
                 PROVE  j \in S
      OBVIOUS
    <2>1. PICK i : i = m + j
      OBVIOUS
    <2>2. i \in 1 .. n /\ i - 1 \in 0 .. n /\ m + (j - 1) = i - 1 /\ m \in 0 .. n /\ i \in 0 .. n /\ j \in 0 .. n - m
      BY <1>1, <2>1
    <2>3. v(m) <= v(i - 1)
      BY <2>2
    <2>4. v(i) = 16 * v(i - 1) + Net!DigitValue(ds[i])
      BY <1>3, <2>2
    <2>5. v(i - 1) <= v(i)
      <3>1. PICK x : x = v(i - 1)
        OBVIOUS
      <3>2. PICK d : d = Net!DigitValue(ds[i])
        OBVIOUS
      <3>3. x \in Nat /\ d \in Nat /\ v(i) = 16 * x + d
        BY <1>2, <1>4, <2>2, <2>4, <3>1, <3>2
      <3> QED BY <3>1, <3>3
    <2>6. v(m) \in Nat /\ v(i) \in Nat /\ v(i - 1) \in Nat
      BY <1>2, <2>2
    <2>7. v(m) <= v(i)
      BY <2>3, <2>5, <2>6
    <2> QED BY <2>1, <2>2, <2>7
  <1>7. n - m \in S
    <2>1. S \in SUBSET Nat /\ n - m \in Nat
      BY <1>1
    <2> HIDE DEF S
    <2> QED BY ONLY <1>5, <1>6, <2>1, Climb
  <1>8. v(m) <= v(n)
    BY <1>1, <1>7
  <1> QED BY <1>n, <1>8 DEF v

(* An exchange on the network.                                              *)

(* Where the pieces of a response end: the header, then each part. *)
Start(r) == LET at[i \in 0 .. Len(r.parts)] ==
                    IF i = 0 THEN Len(r.header) ELSE at[i - 1] + Len(Net!Piece(r, i))
            IN  at

Opening == {"connect", "connectAll", "send", "sendAll"}

NetShapes ==
    /\ socket \in {"none", "open", "closed"} /\ closes \in Nat
    /\ stage \in {"new", "open", "sent", "body", "failed", "over"}
    /\ call \in {"none", "write", "headers", "chunk", "all"} \cup Opening \cup Net!Chunking
    /\ aborted \in BOOLEAN /\ ended \in BOOLEAN
    /\ sent \in Nat /\ pos \in Nat /\ room \in Nat
    /\ accepted \in Seq(Byte) /\ buffer \in Seq(Byte)
    /\ response \in Responses /\ pos <= Len(Net!Wire(response))
    /\ size \in [value : Nat, digits : Nat]
    /\ results \in Seq([what : {"headers", "chunk", "all", "chunked"}, bytes : Seq(Byte), whole : BOOLEAN])

(* Which call can be in progress at which stage, and which has results. *)
NetStages ==
    /\ call \in Opening => stage = "new"
    /\ call = "write" => stage = "open"
    /\ call = "headers" => stage = "sent"
    /\ call \in {"chunk", "all"} \cup Net!Chunking => stage = "body"
    /\ call = "chunk" => ~response.chunked
    /\ call \in Net!Chunking => response.chunked
    /\ stage \in {"new", "open", "sent"} \/ call = "all" => results = <<>>
    /\ stage = "body" /\ call # "all" => results # <<>>
    /\ \A i \in DOMAIN results : results[i].what = "all" => stage = "over"

SocketRight ==
    /\ closes = IF socket = "closed" THEN 1 ELSE 0
    /\ socket = "open" <=> stage \notin {"new", "over"} \/ call # "none"
    /\ stage = "new" /\ call = "none" => socket = "none"

(* What the peer has of the request at each point. *)
Asked == RequestHead \o RequestBody

RequestRight ==
    /\ stage = "new" /\ call \notin {"send", "sendAll"} => accepted = <<>> /\ sent = 0
    /\ call \in {"send", "sendAll"} => sent <= Len(RequestHead) /\ accepted = SubSeq(RequestHead, 1, sent)
    /\ stage = "open" /\ call = "none" => accepted = RequestHead
    /\ call = "write" => sent <= Len(RequestBody) /\ accepted = RequestHead \o SubSeq(RequestBody, 1, sent)
    /\ stage = "sent" \/ (stage = "body" /\ call # "all") => accepted = Asked
    /\ call = "all" => accepted = RequestHead
    /\ Net!IsPrefix(accepted, Asked)
    /\ \A i \in DOMAIN results : results[i].what # "all" => accepted = Asked

(* What the program has of the response, chunks left aside. *)
CameTo(n) == SubSeq(Net!Wire(response), 1, n)

ReadRight ==
    /\ stage \in {"new", "open"} \/ (stage = "sent" /\ call = "none") => pos = 0 /\ buffer = <<>>
    /\ call = "headers" => pos < Len(response.header)
    /\ call \in {"headers", "all"} => pos = Len(buffer) /\ buffer = CameTo(pos)
    /\ stage = "body" /\ call \in {"none", "chunk"} /\ ~response.chunked /\ ~ended =>
          response.header \o Net!Given = CameTo(pos)
    /\ Net!IsPrefix(response.header \o Net!Given, Net!Wire(response))

ResultsRight ==
    \A i \in DOMAIN results :
        LET r == results[i] IN
        /\ r.what = "headers" /\ r.whole => r.bytes = response.header
        /\ r.what = "chunked" =>
              r.bytes = IF r.whole THEN Net!Meaning(response.parts[i - 1]) ELSE <<>>
        /\ r.what = "all" /\ r.whole => r.bytes = CameTo(pos)

(* Where a call is in the chunk that it decodes, q bytes into it. *)
Rest(c) == c.payload \o c.last
Number(c) == Net!Value(c.digits, Len(c.digits))

InSize(c, q) ==
    /\ q <= Len(c.digits) /\ size.digits = q /\ size.value = Net!Value(c.digits, q)
    /\ \A j \in 1 .. q : c.digits[j] \in DOMAIN Net!Digit
    /\ size.value <= ChunkLimit

SizeRead(c) ==
    /\ \A j \in DOMAIN c.digits : c.digits[j] \in DOMAIN Net!Digit
    /\ size.digits = Len(c.digits) /\ size.value = Number(c)
    /\ size.value <= ChunkLimit

InExtension(c, q) ==
    SizeRead(c) /\ Len(c.digits) < q /\ q <= Len(c.digits) + Len(c.extension)

AtLF(c, q) ==
    SizeRead(c) /\ c.digits # <<>> /\ q = Len(c.digits) + Len(c.extension) + 1

InBody(c, q) ==
    /\ SizeRead(c) /\ c.digits # <<>> /\ c.line = Net!CRLF
    /\ room = size.value /\ room > 0
    /\ q = Len(c.digits) + Len(c.extension) + 2 + Len(buffer)
    /\ buffer = SubSeq(Rest(c), 1, Len(buffer))
    /\ Len(buffer) < room + 2
    /\ call = "payload" <=> Len(buffer) < room

Within(c, q) ==
    /\ call = "size" => InSize(c, q)
    /\ call = "extension" => InExtension(c, q)
    /\ call = "lf" => AtLF(c, q)
    /\ call \in {"payload", "crlf"} => InBody(c, q)

ChunkRight ==
    stage = "body" /\ call \in {"none"} \cup Net!Chunking /\ response.chunked /\ ~ended =>
        LET i == Len(results) IN
        /\ i \in 1 .. Len(response.parts) + 1
        /\ pos >= Start(response)[i - 1]
        /\ call = "none" => pos = Start(response)[i - 1]
        /\ i = Len(response.parts) + 1 => pos = Len(Net!Wire(response))
        /\ i <= Len(response.parts) => Within(response.parts[i], pos - Start(response)[i - 1])

NetInv ==
    /\ NetShapes
    /\ NetStages
    /\ SocketRight
    /\ RequestRight
    /\ ReadRight
    /\ ResultsRight
    /\ ChunkRight


(* What the peer sends: where its pieces are. *)
LEMMA PieceTyped ==
    ASSUME Net!NetworkAssumption, NEW r \in Responses
    PROVE  /\ r.header \in Seq(Byte) /\ Len(r.parts) \in Nat
           /\ \A i \in 1 .. Len(r.parts) : Net!Piece(r, i) \in Seq(Byte)
           /\ r.chunked => /\ r.parts \in Seq(Net!ChunkShape)
                           /\ \A i \in 1 .. Len(r.parts) :
                                 r.parts[i] \in Net!ChunkShape /\ Net!Framed(r.parts[i])
  <1>1. /\ r.header \in Seq(Byte) /\ r.chunked \in BOOLEAN
        /\ r.chunked => r.parts \in Seq(Net!ChunkShape) /\ \A i \in DOMAIN r.parts : Net!Framed(r.parts[i])
        /\ ~r.chunked => r.parts \in Seq(Seq(Byte))
    BY DEF Net!NetworkAssumption
  <1>2. CASE ~r.chunked
    BY <1>1, <1>2 DEF Net!Piece
  <1>3. CASE r.chunked
    <2>1. PICK ps : ps = r.parts
      OBVIOUS
    <2>2. ps \in Seq(Net!ChunkShape) /\ Len(ps) \in Nat /\ DOMAIN ps = 1 .. Len(ps)
      BY <1>1, <1>3, <2>1
    <2>3. \A i \in 1 .. Len(ps) : ps[i] \in Net!ChunkShape
      BY <2>2
    <2>4. \A c \in Net!ChunkShape : Net!Encoded(c) \in Seq(Byte)
      <3> TAKE c \in Net!ChunkShape
      <3>1. /\ c.digits \in Seq(Byte) /\ c.extension \in Seq(Byte) /\ c.line \in Seq(Byte)
            /\ c.payload \in Seq(Byte) /\ c.last \in Seq(Byte)
        <4>1. \A s \in Seq(Byte \ {"CR", "semi"}) : s \in Seq(Byte)
          <5>1. Byte \ {"CR", "semi"} \subseteq Byte
            OBVIOUS
          <5> QED BY ONLY <5>1, SeqOver
        <4> QED BY <4>1 DEF Net!ChunkShape
      <3> QED BY <3>1 DEF Net!Encoded
    <2>5. \A i \in 1 .. Len(ps) : Net!Framed(ps[i])
      BY <1>1, <1>3, <2>1, <2>2
    <2>6. \A i \in 1 .. Len(ps) : Net!Piece(r, i) = Net!Encoded(ps[i])
      BY <1>3, <2>1 DEF Net!Piece
    <2> QED BY <1>1, <2>1, <2>2, <2>3, <2>4, <2>5, <2>6
  <1> QED BY <1>1, <1>2, <1>3

LEMMA StartIs ==
    ASSUME Net!NetworkAssumption, NEW r \in Responses
    PROVE  /\ Start(r)[0] = Len(r.header)
           /\ \A i \in 0 .. Len(r.parts) : Start(r)[i] \in Nat
           /\ \A i \in 1 .. Len(r.parts) : Start(r)[i] = Start(r)[i - 1] + Len(Net!Piece(r, i))
  <1>n. PICK n : n = Len(r.parts)
    OBVIOUS
  <1>h. PICK h : h = Len(r.header)
    OBVIOUS
  <1> DEFINE l(i) == Len(Net!Piece(r, i))
             g == [i \in 1 .. n |-> [t \in Nat |-> t + l(i)]]
  <1>1. n \in Nat /\ h \in Nat /\ \A i \in 1 .. n : l(i) \in Nat
    BY <1>n, <1>h, PieceTyped
  <1> HIDE DEF l
  <1>2. g \in [1 .. n -> [Nat -> Nat]]
    BY <1>1
  <1>3. PICK f \in [0 .. n -> Nat] : f[0] = h /\ \A i \in 1 .. n : f[i] = g[i][f[i - 1]]
    <2> HIDE DEF g
    <2>2. \E f \in [0 .. n -> Nat] : Follows(f, n, h, g)
      BY ONLY <1>1, <1>2, GoesOn
    <2> QED BY <2>2 DEF Follows
  <1>4. \A i \in 1 .. n : i - 1 \in 0 .. n /\ f[i - 1] \in Nat /\ f[i] = f[i - 1] + l(i)
    <2> TAKE i \in 1 .. n
    <2>1. i - 1 \in 0 .. n
      BY <1>1
    <2> QED BY <1>3, <2>1
  <1> HIDE DEF g
  <1> DEFINE Is(k) == k = [i \in 0 .. Len(r.parts) |->
                              IF i = 0 THEN Len(r.header) ELSE k[i - 1] + Len(Net!Piece(r, i))]
             c == CHOOSE k : Is(k)
  <1>5. Is(f)
    <2>1. \A i \in 0 .. n : f[i] = IF i = 0 THEN h ELSE f[i - 1] + l(i)
      <3> TAKE i \in 0 .. n
      <3>1. i = 0 \/ i \in 1 .. n
        BY <1>1
      <3> QED BY <1>1, <1>3, <1>4, <3>1
    <2>2. f = [i \in 0 .. n |-> f[i]]
      OBVIOUS
    <2> QED BY <1>n, <1>h, <2>1, <2>2 DEF l
  <1>6. Is(c)
    <2> HIDE DEF Is
    <2> QED BY <1>5
  <1>7. \A i \in 0 .. n : c[i] = IF i = 0 THEN h ELSE c[i - 1] + l(i)
    <2> HIDE DEF c
    <2> QED BY <1>n, <1>h, <1>6 DEF l
  <1>8. Start(r) = c
    BY DEF Start
  <1> HIDE DEF c, Is
  <1> DEFINE S == {i \in 0 .. n : c[i] \in Nat}
  <1>9. c[0] = h /\ \A i \in 1 .. n : c[i] = c[i - 1] + l(i)
    <2>1. 0 \in 0 .. n /\ \A i \in 1 .. n : i \in 0 .. n /\ i # 0
      BY <1>1
    <2> QED BY <1>7, <2>1
  <1>10. 0 \in S
    BY <1>1, <1>9
  <1>11. \A m \in 1 .. n : m - 1 \in S => m \in S
    <2> SUFFICES ASSUME NEW m \in 1 .. n, m - 1 \in S
                 PROVE  m \in S
      OBVIOUS
    <2>1. m \in 0 .. n /\ c[m - 1] \in Nat
      BY <1>1
    <2> QED BY <1>1, <1>9, <2>1
  <1>12. \A m \in 0 .. n : m \in S
    <2> TAKE m \in 0 .. n
    <2>1. S \in SUBSET Nat /\ m \in Nat /\ \A i \in 1 .. m : i \in 1 .. n
      BY <1>1
    <2>2. \A i \in 1 .. m : i - 1 \in S => i \in S
      BY <1>11, <2>1
    <2> HIDE DEF S
    <2> QED BY ONLY <1>10, <2>1, <2>2, Climb
  <1>13. \A i \in 0 .. n : c[i] \in Nat
    BY <1>12
  <1> QED BY <1>n, <1>h, <1>8, <1>9, <1>13 DEF l

LEMMA WireIs ==
    ASSUME Net!NetworkAssumption, NEW r \in Responses
    PROVE  /\ Net!Wire(r) \in Seq(Byte) /\ Len(Net!Wire(r)) = Start(r)[Len(r.parts)]
           /\ Len(r.header) <= Len(Net!Wire(r)) /\ SubSeq(Net!Wire(r), 1, Len(r.header)) = r.header
           /\ \A i \in 1 .. Len(r.parts) :
                 /\ Start(r)[i] <= Len(Net!Wire(r))
                 /\ \A k \in 1 .. Len(Net!Piece(r, i)) : Net!Wire(r)[Start(r)[i - 1] + k] = Net!Piece(r, i)[k]
  <1>n. PICK n : n = Len(r.parts)
    OBVIOUS
  <1>p. PICK p : p = [i \in 1 .. n |-> Net!Piece(r, i)]
    OBVIOUS
  <1>h. PICK h : h = r.header
    OBVIOUS
  <1>a. PICK at : at = Start(r)
    OBVIOUS
  <1>1. /\ n \in Nat /\ h \in Seq(Byte) /\ Len(h) \in Nat
        /\ \A i \in 1 .. n : p[i] = Net!Piece(r, i) /\ p[i] \in Seq(Byte) /\ Len(p[i]) \in Nat
    BY <1>n, <1>p, <1>h, PieceTyped
  <1>2. p \in Seq(Seq(Byte)) /\ Len(p) = n
    BY <1>p, <1>1
  <1>3. PICK f \in [0 .. Len(p) -> Seq(Byte)] :
              /\ f[0] = <<>> /\ \A i \in 1 .. Len(p) : f[i] = f[i - 1] \o p[i]
              /\ FlattenSeq(p) = f[Len(p)]
    BY <1>2, FlattenIs
  <1>4. /\ at[0] = Len(h)
        /\ \A i \in 0 .. n : at[i] \in Nat
        /\ \A i \in 1 .. n : at[i] = at[i - 1] + Len(p[i])
    BY <1>n, <1>h, <1>a, <1>1, StartIs
  <1> DEFINE w(m) == h \o f[m]
             Good(m) == /\ w(m) \in Seq(Byte) /\ Len(w(m)) = at[m]
                        /\ Len(h) <= at[m]
                        /\ \A k \in 1 .. Len(h) : w(m)[k] = h[k]
                        /\ \A i \in 1 .. m : /\ at[i] <= at[m]
                                             /\ \A k \in 1 .. Len(p[i]) : w(m)[at[i - 1] + k] = p[i][k]
             S == {m \in 0 .. n : Good(m)}
  <1>5. 0 \in S
    <2>1. w(0) = h
      BY <1>1, <1>2, <1>3
    <2>2. Good(0)
      <3> HIDE DEF w
      <3> QED BY <1>1, <1>4, <2>1
    <2> QED BY <1>1, <2>2
  <1>6. \A m \in 1 .. n : m - 1 \in S => m \in S
    <2> SUFFICES ASSUME NEW m \in 1 .. n, m - 1 \in S
                 PROVE  m \in S
      OBVIOUS
    <2>1. PICK q : q = m - 1
      OBVIOUS
    <2>a. Good(q)
      <3> HIDE DEF Good
      <3> QED BY <2>1
    <2>b. m \in Nat /\ 1 <= m /\ m <= n /\ n \in Nat /\ n = Len(p)
      BY <1>1, <1>2
    <2>c. /\ m \in 1 .. Len(p) /\ q \in 0 .. Len(p) /\ q \in 0 .. n /\ m \in 0 .. n
          /\ \A i \in 1 .. m : i \in 1 .. q \/ i = m
      BY ONLY <2>b, <2>1
    <2>2. /\ m \in 1 .. Len(p) /\ q \in 0 .. Len(p) /\ q \in 0 .. n /\ m \in 0 .. n /\ Good(q)
          /\ \A i \in 1 .. m : i \in 1 .. q \/ i = m
      <3> HIDE DEF Good
      <3> QED BY <2>a, <2>c
    <2>3. f[m] = f[q] \o p[m] /\ f[q] \in Seq(Byte) /\ p[m] \in Seq(Byte)
      BY <1>1, <1>3, <2>1, <2>2
    <2>4. PICK x : x = w(q)
      OBVIOUS
    <2>5. PICK y : y = w(m)
      OBVIOUS
    <2>6. y = x \o p[m]
      <3>2. h \in Seq(Byte)
        BY <1>1
      <3>3. h \o (f[q] \o p[m]) = (h \o f[q]) \o p[m]
        <4>1. PICK b \in Seq(Byte), c \in Seq(Byte) : b = f[q] /\ c = p[m]
          BY ONLY <2>3
        <4>2. (h \o b) \o c = h \o (b \o c)
          BY ONLY <3>2, ConcatAssociative
        <4> QED BY ONLY <4>1, <4>2
      <3> QED BY <2>3, <2>4, <2>5, <3>3
    <2>7. /\ x \in Seq(Byte) /\ Len(x) = at[q] /\ Len(h) <= at[q]
          /\ \A k \in 1 .. Len(h) : x[k] = h[k]
          /\ \A i \in 1 .. q : /\ at[i] <= at[q]
                               /\ \A k \in 1 .. Len(p[i]) : x[at[i - 1] + k] = p[i][k]
      <3> HIDE DEF w
      <3> QED BY <2>2, <2>4
    <2>8. /\ y \in Seq(Byte) /\ Len(y) = Len(x) + Len(p[m])
          /\ \A k \in 1 .. Len(x) : y[k] = x[k]
          /\ \A k \in 1 .. Len(p[m]) : y[Len(x) + k] = p[m][k]
      <3>1. x \in Seq(Byte) /\ p[m] \in Seq(Byte)
        BY <2>3, <2>7
      <3>2. PICK z : z = p[m]
        OBVIOUS
      <3>3. x \in Seq(Byte) /\ z \in Seq(Byte) /\ y = x \o z
        BY <2>6, <3>1, <3>2
      <3>4. /\ y \in Seq(Byte) /\ Len(y) = Len(x) + Len(z)
            /\ \A k \in 1 .. Len(x) : y[k] = x[k]
            /\ \A k \in 1 .. Len(z) : y[Len(x) + k] = z[k]
        BY ONLY <3>3
      <3> QED BY <3>2, <3>4
    <2>9. at[m] = at[q] + Len(p[m]) /\ at[q] \in Nat /\ Len(p[m]) \in Nat /\ at[m] \in Nat
      BY <1>1, <1>4, <2>1, <2>2
    <2>10. \A k \in 1 .. Len(h) : y[k] = h[k]
      <3> TAKE k \in 1 .. Len(h)
      <3>1. k \in 1 .. Len(x)
        BY <1>1, <2>7, <2>9
      <3> QED BY <2>7, <2>8, <3>1
    <2>11. \A i \in 1 .. m : /\ at[i] <= at[m]
                             /\ \A k \in 1 .. Len(p[i]) : y[at[i - 1] + k] = p[i][k]
      <3> TAKE i \in 1 .. m
      <3>1. CASE i = m
        <4>1. at[i - 1] = Len(x) /\ at[i] <= at[m]
          BY <2>1, <2>7, <2>9, <3>1
        <4> QED BY <2>8, <3>1, <4>1
      <3>2. CASE i \in 1 .. q
        <4>1. i \in 1 .. n /\ i - 1 \in 0 .. n /\ i \in 0 .. n
          <5>1. i \in 1 .. q
            BY <3>2
          <5> QED BY ONLY <2>1, <2>b, <5>1
        <4>2. /\ at[i] \in Nat /\ at[i - 1] \in Nat /\ Len(p[i]) \in Nat
              /\ at[i] = at[i - 1] + Len(p[i]) /\ at[i] <= at[q]
          BY <1>1, <1>4, <2>7, <3>2, <4>1
        <4>3. \A k \in 1 .. Len(p[i]) : at[i - 1] + k \in 1 .. Len(x)
          <5>1. Len(x) = at[q] /\ at[q] \in Nat
            BY <2>7, <2>9
          <5> QED BY ONLY <4>2, <5>1
        <4>4. \A k \in 1 .. Len(p[i]) : x[at[i - 1] + k] = p[i][k]
          BY <2>7, <3>2
        <4>5. \A k \in 1 .. Len(p[i]) : y[at[i - 1] + k] = p[i][k]
          BY <2>8, <4>3, <4>4
        <4>6. at[i] <= at[m]
          BY <2>9, <4>2
        <4> QED BY <4>5, <4>6
      <3> QED BY <2>2, <3>1, <3>2
    <2>12. Len(y) = at[m] /\ Len(h) <= at[m]
      BY <1>1, <2>7, <2>8, <2>9
    <2>13. Good(m)
      <3> HIDE DEF w
      <3> QED BY <2>5, <2>8, <2>10, <2>11, <2>12
    <2> QED BY <2>2, <2>13
  <1>7. n \in S
    <2>1. S \in SUBSET Nat /\ n \in Nat
      BY <1>1
    <2> HIDE DEF S
    <2> QED BY ONLY <1>5, <1>6, <2>1, Climb
  <1>8. PICK z : z = w(n)
    OBVIOUS
  <1>9. Net!Wire(r) = z
    <2>1. FlattenSeq(p) = f[n]
      BY <1>2, <1>3
    <2>2. Net!FlattenSeq(p) = FlattenSeq(p)
      BY DEF Net!FlattenSeq, FlattenSeq
    <2>3. Net!Wire(r) = h \o Net!FlattenSeq(p)
      BY <1>n, <1>p, <1>h DEF Net!Wire
    <2> QED BY <1>8, <2>1, <2>2, <2>3
  <1>10. Good(n)
    BY <1>7
  <1>11. /\ z \in Seq(Byte) /\ Len(z) = at[n] /\ Len(h) <= at[n]
         /\ \A k \in 1 .. Len(h) : z[k] = h[k]
         /\ \A i \in 1 .. n : /\ at[i] <= at[n]
                              /\ \A k \in 1 .. Len(p[i]) : z[at[i - 1] + k] = p[i][k]
    <2> HIDE DEF w
    <2> QED BY <1>8, <1>10
  <1>12. SubSeq(z, 1, Len(h)) = h
    <2>1. SubSeq(z, 1, Len(h)) \in Seq(Byte) /\ Len(SubSeq(z, 1, Len(h))) = Len(h)
      BY <1>1, <1>4, <1>11
    <2>2. \A k \in 1 .. Len(h) : SubSeq(z, 1, Len(h))[k] = h[k]
      BY <1>1, <1>4, <1>11
    <2>3. PICK y : y = SubSeq(z, 1, Len(h))
      OBVIOUS
    <2>4. y \in Seq(Byte) /\ h \in Seq(Byte) /\ Len(y) = Len(h) /\ \A k \in 1 .. Len(y) : y[k] = h[k]
      BY <1>1, <2>1, <2>2, <2>3
    <2>5. y = h
      BY ONLY <2>4, SameSeq
    <2> QED BY <2>3, <2>5
  <1>13. \A i \in 1 .. n : /\ at[i] <= Len(z)
                          /\ \A k \in 1 .. Len(Net!Piece(r, i)) : z[at[i - 1] + k] = Net!Piece(r, i)[k]
    BY ONLY <1>1, <1>11
  <1> QED BY ONLY <1>n, <1>h, <1>a, <1>9, <1>11, <1>12, <1>13

(* Two sequences joined. *)
LEMMA Joined ==
    ASSUME NEW T, NEW x \in Seq(T), NEW y \in Seq(T), NEW z, z = x \o y
    PROVE  /\ z \in Seq(T) /\ Len(z) = Len(x) + Len(y) /\ Len(x) \in Nat /\ Len(y) \in Nat
           /\ \A i \in 1 .. Len(x) : z[i] = x[i]
           /\ \A i \in 1 .. Len(y) : z[Len(x) + i] = y[i]
  OBVIOUS

(* What a beginning is. *)
LEMMA PrefixIs ==
    ASSUME NEW T, NEW s \in Seq(T), NEW t \in Seq(T)
    PROVE  /\ Net!IsPrefix(s, t) <=> (Len(s) <= Len(t) /\ s = SubSeq(t, 1, Len(s)))
           /\ \A n \in 0 .. Len(t) : /\ SubSeq(t, 1, n) \in Seq(T) /\ Len(SubSeq(t, 1, n)) = n
                                     /\ Net!IsPrefix(SubSeq(t, 1, n), t)
  <1>1. \A n \in 0 .. Len(t) : SubSeq(t, 1, n) \in Seq(T) /\ Len(SubSeq(t, 1, n)) = n
    OBVIOUS
  <1>2. SubSeq(s, 1, Len(s)) = s
    OBVIOUS
  <1>3. Net!IsPrefix(s, t) <=> (Len(s) <= Len(t) /\ s = SubSeq(t, 1, Len(s)))
    BY <1>2 DEF Net!IsPrefix
  <1>4. \A n \in 0 .. Len(t) : Net!IsPrefix(SubSeq(t, 1, n), t)
    <2> TAKE n \in 0 .. Len(t)
    <2>1. PICK u : u = SubSeq(t, 1, n)
      OBVIOUS
    <2>2. u \in Seq(T) /\ Len(u) = n /\ n <= Len(t)
      BY <1>1, <2>1
    <2>3. SubSeq(u, 1, Len(u)) = u
      BY <2>2
    <2> QED BY <2>1, <2>2, <2>3 DEF Net!IsPrefix
  <1> QED BY <1>1, <1>3, <1>4

(* What is written lies after what has been. *)
LEMMA TakenIs ==
    ASSUME NEW T, NEW b \in Seq(T), NEW limit \in Nat, sent \in Nat, sent <= Len(b),
           Net!Taken(b, limit)
    PROVE  /\ sent' \in Nat /\ sent < sent' /\ sent' <= Len(b)
           /\ \A pre \in Seq(T) : accepted = pre \o SubSeq(b, 1, sent) => accepted' = pre \o SubSeq(b, 1, sent')
  <1>1. PICK k \in 1 .. limit : /\ sent + k <= Len(b)
                                /\ accepted' = accepted \o SubSeq(b, sent + 1, sent + k)
                                /\ sent' = sent + k
    BY DEF Net!Taken
  <1>2. sent \in 0 .. Len(b) /\ k \in 0 .. Len(b) - sent
    BY <1>1
  <1>3. /\ SubSeq(b, sent + 1, sent + k) \in Seq(T)
        /\ SubSeq(b, 1, sent) \o SubSeq(b, sent + 1, sent + k) = SubSeq(b, 1, sent + k)
    BY ONLY <1>2, b \in Seq(T), Onward
  <1>4. SubSeq(b, 1, sent) \in Seq(T)
    OBVIOUS
  <1>5. ASSUME NEW pre \in Seq(T), accepted = pre \o SubSeq(b, 1, sent)
        PROVE  accepted' = pre \o SubSeq(b, 1, sent')
    <2>1. \A x, y, z \in Seq(T) : (x \o y) \o z = x \o (y \o z)
      OBVIOUS
    <2>2. (pre \o SubSeq(b, 1, sent)) \o SubSeq(b, sent + 1, sent + k)
            = pre \o (SubSeq(b, 1, sent) \o SubSeq(b, sent + 1, sent + k))
      BY ONLY pre \in Seq(T), <1>3, <1>4, <2>1
    <2> QED BY <1>1, <1>3, <1>5, <2>2
  <1>6. sent' \in Nat /\ sent < sent' /\ sent' <= Len(b)
    BY <1>1
  <1> QED BY ONLY <1>5, <1>6

(* The parts of the request that the peer can have are beginnings of it. *)
LEMMA AskedIs ==
    ASSUME Net!NetworkAssumption
    PROVE  /\ RequestHead \in Seq(Byte) /\ RequestBody \in Seq(Byte) /\ Asked \in Seq(Byte)
           /\ Net!IsPrefix(<<>>, Asked) /\ Net!IsPrefix(Asked, Asked)
           /\ \A n \in 0 .. Len(RequestHead) : Net!IsPrefix(SubSeq(RequestHead, 1, n), Asked)
           /\ \A n \in 0 .. Len(RequestBody) : Net!IsPrefix(RequestHead \o SubSeq(RequestBody, 1, n), Asked)
  <1>h. PICK h : h = RequestHead
    OBVIOUS
  <1>b. PICK b : b = RequestBody
    OBVIOUS
  <1>1. h \in Seq(Byte) /\ b \in Seq(Byte)
    BY <1>h, <1>b DEF Net!NetworkAssumption
  <1>a. PICK a : a = h \o b
    OBVIOUS
  <1>2. /\ a \in Seq(Byte) /\ Len(a) = Len(h) + Len(b) /\ Len(h) \in Nat /\ Len(b) \in Nat
        /\ \A i \in 1 .. Len(h) : a[i] = h[i]
        /\ \A i \in 1 .. Len(b) : a[Len(h) + i] = b[i]
    BY ONLY <1>1, <1>a
  <1>3. \A n \in 0 .. Len(h) : SubSeq(h, 1, n) = SubSeq(a, 1, n)
    <2> TAKE n \in 0 .. Len(h)
    <2>x. PICK x : x = SubSeq(h, 1, n)
      OBVIOUS
    <2>y. PICK y : y = SubSeq(a, 1, n)
      OBVIOUS
    <2>1. x \in Seq(Byte) /\ Len(x) = n /\ \A i \in 1 .. n : x[i] = h[i]
      BY ONLY <2>x, <1>1
    <2>2. n \in 0 .. Len(a) /\ \A i \in 1 .. n : i \in 1 .. Len(h)
      BY <1>2
    <2>3. y \in Seq(Byte) /\ Len(y) = n /\ \A i \in 1 .. n : y[i] = a[i]
      BY ONLY <2>y, <2>2, <1>2
    <2>4. \A i \in 1 .. n : x[i] = y[i]
      BY <1>2, <2>1, <2>2, <2>3
    <2> QED BY <2>x, <2>y, <2>1, <2>3, <2>4, SameSeq
  <1>4. \A n \in 0 .. Len(b) : h \o SubSeq(b, 1, n) = SubSeq(a, 1, Len(h) + n)
    <2> TAKE n \in 0 .. Len(b)
    <2>x. PICK x : x = SubSeq(b, 1, n)
      OBVIOUS
    <2>y. PICK y : y = SubSeq(a, 1, Len(h) + n)
      OBVIOUS
    <2>z. PICK z : z = h \o x
      OBVIOUS
    <2>1. x \in Seq(Byte) /\ Len(x) = n /\ \A i \in 1 .. n : x[i] = b[i]
      BY ONLY <2>x, <1>1
    <2>2. Len(h) + n \in 0 .. Len(a)
      BY <1>2
    <2>3. y \in Seq(Byte) /\ Len(y) = Len(h) + n /\ \A i \in 1 .. Len(h) + n : y[i] = a[i]
      BY ONLY <2>y, <2>2, <1>2
    <2>4. /\ z \in Seq(Byte) /\ Len(z) = Len(h) + n
          /\ \A i \in 1 .. Len(h) : z[i] = h[i]
          /\ \A i \in 1 .. n : z[Len(h) + i] = x[i]
      <3>1. /\ z \in Seq(Byte) /\ Len(z) = Len(h) + Len(x)
            /\ \A i \in 1 .. Len(h) : z[i] = h[i]
            /\ \A i \in 1 .. Len(x) : z[Len(h) + i] = x[i]
        BY ONLY <2>z, <2>1, <1>1, Joined
      <3> QED BY <2>1, <3>1
    <2>5. \A i \in 1 .. Len(z) : z[i] = y[i]
      <3> TAKE i \in 1 .. Len(z)
      <3>1. CASE i <= Len(h)
        <4>1. i \in 1 .. Len(h) /\ i \in 1 .. Len(h) + n
          BY <1>2, <2>4, <3>1
        <4> QED BY <1>2, <2>3, <2>4, <4>1
      <3>2. CASE i > Len(h)
        <4>1. PICK j : j = i - Len(h)
          OBVIOUS
        <4>2. j \in 1 .. n /\ Len(h) + j = i /\ i \in 1 .. Len(h) + n /\ j \in 1 .. Len(b)
          BY <1>2, <2>4, <3>2, <4>1
        <4>3. z[i] = x[j] /\ x[j] = b[j] /\ a[i] = b[j] /\ y[i] = a[i]
          BY <1>2, <2>1, <2>3, <2>4, <4>2
        <4> QED BY <4>3
      <3> QED BY <1>2, <2>4, <3>1, <3>2
    <2>6. z = y
      BY <2>3, <2>4, <2>5, SameSeq
    <2> QED BY <2>x, <2>y, <2>z, <2>6
  <1>5. \A n \in 0 .. Len(a) : Net!IsPrefix(SubSeq(a, 1, n), a)
    BY <1>2, PrefixIs
  <1>6. SubSeq(a, 1, 0) = <<>> /\ SubSeq(a, 1, Len(a)) = a
    BY <1>2
  <1>7. Net!IsPrefix(<<>>, a) /\ Net!IsPrefix(a, a)
    <2>1. 0 \in 0 .. Len(a) /\ Len(a) \in 0 .. Len(a)
      BY <1>2
    <2> QED BY <1>5, <1>6, <2>1
  <1>8. \A n \in 0 .. Len(h) : Net!IsPrefix(SubSeq(h, 1, n), a)
    <2>1. \A n \in 0 .. Len(h) : n \in 0 .. Len(a)
      BY <1>2
    <2> QED BY <1>3, <1>5, <2>1
  <1>9. \A n \in 0 .. Len(b) : Net!IsPrefix(h \o SubSeq(b, 1, n), a)
    <2>1. \A n \in 0 .. Len(b) : Len(h) + n \in 0 .. Len(a)
      BY <1>2
    <2> QED BY <1>4, <1>5, <2>1
  <1>10. Asked = a
    BY <1>h, <1>b, <1>a DEF Asked
  <1> QED BY <1>h, <1>b, <1>1, <1>2, <1>7, <1>8, <1>9, <1>10

(* Steps that read nothing. *)
Quietly ==
    \/ call' = "none" /\ stage' \in {"failed", "over"}
    \/ /\ stage \in {"new", "open"} /\ stage' \in {"new", "open", "sent"}
       /\ call' \in {"none", "write"} \cup Opening
    \/ stage = "new" /\ stage' = "body" /\ call' = "all"

LEMMA NothingRead ==
    ASSUME NetInv, UNCHANGED <<response, pos, ended, buffer, size, results>>, Quietly
    PROVE  ReadRight' /\ ResultsRight' /\ ChunkRight'
  <1>1. /\ Net!Given' = Net!Given /\ Net!Wire(response)' = Net!Wire(response)
        /\ \A n : CameTo(n)' = CameTo(n)
    BY DEF Net!Given, CameTo
  <1>2. ResultsRight'
    BY DEF NetInv, ResultsRight, CameTo
  <1>3. ChunkRight'
    BY DEF Quietly, ChunkRight, Net!Chunking, Opening
  <1>4. (stage \in {"new", "open"} \/ (stage = "sent" /\ call = "none") => pos = 0 /\ buffer = <<>>)'
    BY DEF NetInv, ReadRight, Quietly, Opening
  <1>5. (call = "headers" => pos < Len(response.header))'
    BY DEF Quietly, Opening
  <1>6. (call \in {"headers", "all"} => pos = Len(buffer) /\ buffer = CameTo(pos))'
    <2>1. CASE call' = "all"
      <3>1. stage = "new"
        BY <2>1 DEF Quietly, Opening
      <3>2. pos = 0 /\ buffer = <<>>
        BY <3>1 DEF NetInv, ReadRight
      <3>3. \A s : SubSeq(s, 1, 0) = <<>>
        OBVIOUS
      <3> QED BY <1>1, <3>2, <3>3 DEF CameTo
    <2>2. CASE call' # "all"
      BY <2>2 DEF Quietly, Opening
    <2> QED BY <2>1, <2>2
  <1>7. (stage = "body" /\ call \in {"none", "chunk"} /\ ~response.chunked /\ ~ended =>
            response.header \o Net!Given = CameTo(pos))'
    BY DEF Quietly, Opening
  <1>8. (Net!IsPrefix(response.header \o Net!Given, Net!Wire(response)))'
    BY <1>1 DEF NetInv, ReadRight, Net!IsPrefix
  <1> QED BY <1>2, <1>3, <1>4, <1>5, <1>6, <1>7, <1>8 DEF ReadRight

(* The opening of a connection. *)
LEMMA BeginKeeps ==
    ASSUME NetInv, Net!Begin("connect") \/ Net!Begin("connectAll")
    PROVE  NetInv'
  <1>c. /\ stage = "new" /\ call = "none" /\ results' = results
        /\ UNCHANGED <<aborted, sent, accepted, response, pos, ended, buffer, room, size, results>>
    BY DEF Net!Begin, Net!writing, Net!reading
  <1>z. socket = "none" /\ closes = 0 /\ accepted = <<>> /\ sent = 0 /\ results = <<>>
    BY <1>c DEF NetInv, SocketRight, RequestRight, NetStages
  <1>d. \/ stage' = "over" /\ call' = "none" /\ socket' = "none" /\ closes' = 0
        \/ stage' = "over" /\ call' = "none" /\ socket' = "closed" /\ closes' = 1
        \/ stage' = "new" /\ call' \in {"connect", "connectAll"} /\ socket' = "open" /\ closes' = 0
    <2>1. \/ stage' = "over" /\ call' = call /\ socket' = socket /\ closes' = closes
          \/ stage' = "over" /\ call' = call /\ socket' = "closed" /\ closes' = closes + 1
          \/ stage' = stage /\ call' \in {"connect", "connectAll"} /\ socket' = "open" /\ closes' = closes
      BY DEF Net!Begin, Net!CloseSocket
    <2>2. 0 + 1 = 1
      OBVIOUS
    <2> QED BY ONLY <1>c, <1>z, <2>1, <2>2
  <1>e. stage' \in {"over", "new"} /\ call' \in {"none"} \cup Opening /\ socket' \in {"none", "open", "closed"} /\ closes' \in Nat
    BY ONLY <1>d DEF Opening
  <1>1. NetShapes'
    BY <1>c, <1>e DEF NetInv, NetShapes
  <1>2. NetStages'
    BY <1>c, <1>z, <1>d DEF NetInv, NetStages, Opening, Net!Chunking
  <1>3. SocketRight'
    BY <1>d DEF SocketRight
  <1>4. RequestRight'
    BY <1>c, <1>d DEF NetInv, RequestRight, Asked
  <1>5. Quietly
    BY <1>c, <1>d DEF Quietly, Opening
  <1>6. ReadRight' /\ ResultsRight' /\ ChunkRight'
    BY <1>c, <1>5, NothingRead
  <1> QED BY <1>1, <1>2, <1>3, <1>4, <1>6 DEF NetInv

LEMMA ConnectsKeeps ==
    ASSUME NetInv, Net!NetworkAssumption, Net!Connects
    PROVE  NetInv'
  <1>c. /\ stage = "new" /\ stage' = "new" /\ call \in {"connect", "connectAll"} /\ call' \in {"send", "sendAll"}
        /\ UNCHANGED <<socket, closes, aborted, sent, accepted, response, pos, ended, buffer, room, size, results>>
    BY DEF Net!Connects, Net!writing, Net!reading, NetInv, NetStages, Opening
  <1>1. NetShapes'
    BY <1>c DEF NetInv, NetShapes, Opening
  <1>2. NetStages'
    BY <1>c DEF NetInv, NetStages, Opening, Net!Chunking
  <1>3. SocketRight'
    BY <1>c DEF NetInv, SocketRight
  <1>4. RequestRight'
    <2>1. RequestHead \in Seq(Byte)
      BY DEF Net!NetworkAssumption
    <2>2. SubSeq(RequestHead, 1, 0) = <<>> /\ 0 <= Len(RequestHead)
      BY <2>1
    <2>3. accepted = <<>> /\ sent = 0
      BY <1>c DEF NetInv, RequestRight
    <2> QED BY <1>c, <2>2, <2>3 DEF NetInv, RequestRight, Asked
  <1>5. Quietly
    BY <1>c DEF Quietly, Opening
  <1>6. ReadRight' /\ ResultsRight' /\ ChunkRight'
    BY <1>c, <1>5, NothingRead
  <1> QED BY <1>1, <1>2, <1>3, <1>4, <1>6 DEF NetInv

LEMMA SendsKeeps ==
    ASSUME NetInv, Net!NetworkAssumption, Net!Sends
    PROVE  NetInv'
  <1>t. /\ sent \in Nat /\ sent <= Len(RequestHead) /\ RequestHead \in Seq(Byte) /\ Len(RequestHead) \in Nat
        /\ accepted = SubSeq(RequestHead, 1, sent) /\ Net!Taken(RequestHead, Len(RequestHead))
    <2>1. RequestHead \in Seq(Byte) /\ Len(RequestHead) \in Nat
      BY DEF Net!NetworkAssumption
    <2>2. call \in {"send", "sendAll"} /\ Net!Taken(RequestHead, Len(RequestHead))
      BY DEF Net!Sends
    <2>3. sent <= Len(RequestHead) /\ accepted = SubSeq(RequestHead, 1, sent)
      BY <2>2 DEF NetInv, RequestRight
    <2>4. sent \in Nat
      BY DEF NetInv, NetShapes
    <2> QED BY <2>1, <2>2, <2>3, <2>4
  <1>a. /\ sent' \in Nat /\ sent' <= Len(RequestHead)
        /\ accepted' = SubSeq(RequestHead, 1, sent')
    <2>1. /\ sent' \in Nat /\ sent < sent' /\ sent' <= Len(RequestHead)
          /\ \A pre \in Seq(Byte) : accepted = pre \o SubSeq(RequestHead, 1, sent)
                                      => accepted' = pre \o SubSeq(RequestHead, 1, sent')
      BY ONLY <1>t, TakenIs
    <2>2. /\ SubSeq(RequestHead, 1, sent) \in Seq(Byte) /\ SubSeq(RequestHead, 1, sent') \in Seq(Byte)
          /\ <<>> \in Seq(Byte) /\ \A s \in Seq(Byte) : <<>> \o s = s
      <3>1. sent \in 0 .. Len(RequestHead) /\ sent' \in 0 .. Len(RequestHead)
        BY <1>t, <2>1
      <3> QED BY <1>t, <3>1
    <2>3. accepted = <<>> \o SubSeq(RequestHead, 1, sent)
      BY <1>t, <2>2
    <2> QED BY <2>1, <2>2, <2>3
  <1>b. /\ accepted' \in Seq(Byte) /\ Net!IsPrefix(accepted', Asked)
        /\ sent' = Len(RequestHead) => accepted' = RequestHead
    <2>1. sent' \in 0 .. Len(RequestHead)
      BY <1>a, <1>t
    <2>2. SubSeq(RequestHead, 1, Len(RequestHead)) = RequestHead /\ SubSeq(RequestHead, 1, sent') \in Seq(Byte)
      BY <1>t, <2>1
    <2> QED BY <1>a, <2>1, <2>2, AskedIs
  <1>c. /\ call \in {"send", "sendAll"} /\ stage = "new" /\ results = <<>> /\ results' = <<>>
        /\ UNCHANGED <<socket, closes, aborted, response, pos, ended, buffer, size, results>>
    BY DEF Net!Sends, NetInv, NetStages, Opening
  <1>d. \/ sent' < Len(RequestHead) /\ UNCHANGED <<stage, call, room>>
        \/ sent' = Len(RequestHead) /\ call' = "all" /\ stage' = "body" /\ room' = Capacity
        \/ sent' = Len(RequestHead) /\ call' = "none" /\ stage' = "open" /\ room' = room
    <2>1. \/ sent' < Len(RequestHead) /\ UNCHANGED <<stage, call, room>>
          \/ ~(sent' < Len(RequestHead)) /\ call' = "all" /\ stage' = "body" /\ room' = Capacity
          \/ ~(sent' < Len(RequestHead)) /\ call' = "none" /\ stage' = "open" /\ room' = room
      BY DEF Net!Sends
    <2> QED BY ONLY <1>a, <1>t, <2>1
  <1>1. NetShapes'
    BY <1>a, <1>b, <1>c, <1>d DEF NetInv, NetShapes, Opening, Net!NetworkAssumption
  <1>2. NetStages'
    BY <1>c, <1>d DEF NetInv, NetStages, Opening, Net!Chunking
  <1>3. SocketRight'
    BY <1>c, <1>d DEF NetInv, SocketRight
  <1>4. RequestRight'
    <2>0. DOMAIN <<>> = {}
      OBVIOUS
    <2>1. DOMAIN results' = {}
      BY <1>c, <2>0
    <2>2. /\ stage' \in {"new", "open", "body"} /\ call' \in {"send", "sendAll", "all", "none"}
          /\ stage' = "new" => call' \in {"send", "sendAll"}
          /\ stage' = "body" => call' = "all"
          /\ call' \in {"all", "none"} => accepted' = RequestHead
      BY <1>b, <1>c, <1>d
    <2>3. Asked' = Asked
      BY DEF Asked
    <2> HIDE DEF Asked
    <2> QED BY <1>a, <1>b, <2>1, <2>2, <2>3 DEF RequestRight
  <1>5. Quietly
    BY <1>c, <1>d DEF Quietly, Opening
  <1>6. ReadRight' /\ ResultsRight' /\ ChunkRight'
    BY <1>c, <1>5, NothingRead
  <1> QED BY <1>1, <1>2, <1>3, <1>4, <1>6 DEF NetInv

LEMMA WriteKeeps ==
    ASSUME NetInv, Net!NetworkAssumption, Net!Write
    PROVE  NetInv'
  <1> USE DEF Net!reading
  <1>c. /\ stage = "open" /\ call = "none" /\ results = <<>> /\ results' = <<>>
        /\ UNCHANGED <<socket, closes, aborted, accepted, response, pos, ended, buffer, room, size, results>>
    BY DEF Net!Write, NetInv, NetStages, Opening
  <1>d. \/ call' = "write" /\ sent' = 0 /\ stage' = "open"
        \/ call' = "none" /\ sent' = sent /\ stage' = "failed"
        \/ call' = "none" /\ sent' = sent /\ stage' = "sent" /\ ~(Len(RequestBody) > 0)
    BY <1>c DEF Net!Write
  <1>1. NetShapes'
    BY <1>c, <1>d DEF NetInv, NetShapes
  <1>2. NetStages'
    BY <1>c, <1>d DEF NetInv, NetStages, Opening, Net!Chunking
  <1>3. SocketRight'
    BY <1>c, <1>d DEF NetInv, SocketRight
  <1>4. RequestRight'
    <2>0. DOMAIN <<>> = {}
      OBVIOUS
    <2>1. DOMAIN results' = {}
      BY <1>c, <2>0
    <2>2. /\ accepted' = RequestHead /\ Net!IsPrefix(accepted', Asked)
          /\ RequestBody \in Seq(Byte) /\ RequestHead \in Seq(Byte) /\ Len(RequestBody) \in Nat
      BY <1>c DEF NetInv, RequestRight, Net!NetworkAssumption
    <2>3. \A s \in Seq(Byte) : SubSeq(s, 1, 0) = <<>> /\ s \o <<>> = s /\ (Len(s) = 0 => s = <<>>)
      OBVIOUS
    <2>4. stage' = "sent" => accepted' = Asked
      BY <1>d, <2>2, <2>3 DEF Asked
    <2>5. call' = "write" => sent' <= Len(RequestBody) /\ accepted' = RequestHead \o SubSeq(RequestBody, 1, sent')
      BY <1>d, <2>2, <2>3
    <2>6. stage' \in {"open", "sent", "failed"} /\ call' \in {"none", "write"}
      BY <1>d
    <2>7. Asked' = Asked
      BY DEF Asked
    <2> QED BY <2>1, <2>2, <2>4, <2>5, <2>6, <2>7 DEF RequestRight
  <1>5. Quietly
    BY <1>c, <1>d DEF Quietly, Opening
  <1>6. ReadRight' /\ ResultsRight' /\ ChunkRight'
    BY <1>c, <1>5, NothingRead
  <1> QED BY <1>1, <1>2, <1>3, <1>4, <1>6 DEF NetInv

LEMMA WritesPartKeeps ==
    ASSUME NetInv, Net!NetworkAssumption, Net!WritesPart
    PROVE  NetInv'
  <1> USE DEF Net!reading
  <1>c. /\ stage = "open" /\ call = "write" /\ results = <<>> /\ results' = <<>>
        /\ UNCHANGED <<socket, closes, aborted, response, pos, ended, buffer, room, size, results>>
    BY DEF Net!WritesPart, NetInv, NetStages, Opening
  <1>t. /\ sent \in Nat /\ sent <= Len(RequestBody) /\ RequestBody \in Seq(Byte) /\ Len(RequestBody) \in Nat
        /\ accepted = RequestHead \o SubSeq(RequestBody, 1, sent) /\ Net!Taken(RequestBody, WriteLimit)
        /\ WriteLimit \in Nat /\ RequestHead \in Seq(Byte)
    BY <1>c DEF Net!WritesPart, NetInv, RequestRight, NetShapes, Net!NetworkAssumption
  <1>a. /\ sent' \in Nat /\ sent' <= Len(RequestBody)
        /\ accepted' = RequestHead \o SubSeq(RequestBody, 1, sent')
    BY ONLY <1>t, TakenIs
  <1>b. /\ accepted' \in Seq(Byte) /\ Net!IsPrefix(accepted', Asked)
        /\ sent' = Len(RequestBody) => accepted' = Asked
    <2>1. sent' \in 0 .. Len(RequestBody)
      BY <1>a, <1>t
    <2>2. SubSeq(RequestBody, 1, Len(RequestBody)) = RequestBody /\ SubSeq(RequestBody, 1, sent') \in Seq(Byte)
      BY <1>t, <2>1
    <2>3. sent' = Len(RequestBody) => accepted' = Asked
      BY <1>a, <2>2 DEF Asked
    <2>4. accepted' \in Seq(Byte)
      BY <1>a, <1>t, <2>2
    <2> QED BY <1>a, <2>1, <2>3, <2>4, AskedIs
  <1>d. \/ sent' < Len(RequestBody) /\ call' = "write" /\ stage' = "open"
        \/ sent' = Len(RequestBody) /\ call' = "none" /\ stage' = "sent"
    <2>1. \/ sent' < Len(RequestBody) /\ call' = "write" /\ stage' = "open"
          \/ ~(sent' < Len(RequestBody)) /\ call' = "none" /\ stage' = "sent"
      BY <1>c DEF Net!WritesPart
    <2> QED BY ONLY <1>a, <1>t, <2>1
  <1>1. NetShapes'
    BY <1>a, <1>b, <1>c, <1>d DEF NetInv, NetShapes
  <1>2. NetStages'
    BY <1>c, <1>d DEF NetInv, NetStages, Opening, Net!Chunking
  <1>3. SocketRight'
    BY <1>c, <1>d DEF NetInv, SocketRight
  <1>4. RequestRight'
    <2>0. DOMAIN <<>> = {}
      OBVIOUS
    <2>1. DOMAIN results' = {}
      BY <1>c, <2>0
    <2>2. /\ stage' = "sent" => accepted' = Asked
          /\ stage' \in {"open", "sent"} /\ call' \in {"none", "write"}
          /\ call' = "none" => stage' = "sent"
      BY <1>b, <1>d
    <2>3. Asked' = Asked
      BY DEF Asked
    <2> QED BY <1>a, <1>b, <2>1, <2>2, <2>3 DEF RequestRight
  <1>5. Quietly
    BY <1>c, <1>d DEF Quietly, Opening
  <1>6. ReadRight' /\ ResultsRight' /\ ChunkRight'
    BY <1>c, <1>5, NothingRead
  <1> QED BY <1>1, <1>2, <1>3, <1>4, <1>6 DEF NetInv

(* A call of the request that fails, and a caller that closes. *)
LEMMA StopKeeps ==
    ASSUME NetInv,
           UNCHANGED <<sent, accepted, response, pos, ended, buffer, room, size, results>>, aborted' \in BOOLEAN,
           \/ call \in Opening /\ Net!CloseSocket /\ call' = "none" /\ stage' = "over"
           \/ call = "write" /\ call' = "none" /\ stage' = "failed" /\ UNCHANGED <<socket, closes>>
           \/ /\ call = "none" /\ stage \in {"open", "sent", "body", "failed"}
              /\ Net!CloseSocket /\ call' = "none" /\ stage' = "over"
    PROVE  NetInv'
  <1>z. socket = "open" /\ closes = 0
    BY DEF NetInv, SocketRight, NetStages, Opening
  <1>d. \/ call' = "none" /\ stage' = "over" /\ socket' = "closed" /\ closes' = 1
        \/ call' = "none" /\ stage' = "failed" /\ socket' = "open" /\ closes' = 0
    BY <1>z DEF Net!CloseSocket
  <1>1. NetShapes'
    BY <1>d DEF NetInv, NetShapes
  <1>2. NetStages'
    BY <1>d DEF NetInv, NetStages, Opening, Net!Chunking
  <1>3. SocketRight'
    BY <1>d DEF SocketRight
  <1>4. RequestRight'
    BY <1>d DEF NetInv, RequestRight, Asked
  <1>5. Quietly
    BY <1>d DEF Quietly
  <1>6. ReadRight' /\ ResultsRight' /\ ChunkRight'
    BY <1>5, NothingRead
  <1> QED BY <1>1, <1>2, <1>3, <1>4, <1>6 DEF NetInv

LEMMA PeerFailsKeeps ==
    ASSUME NetInv, Net!PeerFails
    PROVE  NetInv'
  <1>1. /\ UNCHANGED <<sent, accepted, response, pos, ended, buffer, room, size, results, aborted>>
        /\ \/ call \in Opening /\ Net!CloseSocket /\ call' = "none" /\ stage' = "over"
           \/ call = "write" /\ call' = "none" /\ stage' = "failed" /\ UNCHANGED <<socket, closes>>
    BY DEF Net!PeerFails, Net!OpenFails, Net!WriteFails, Net!writing, Net!reading, Opening
  <1>2. aborted' \in BOOLEAN
    BY <1>1 DEF NetInv, NetShapes
  <1> QED BY <1>1, <1>2, StopKeeps

LEMMA CloseKeeps ==
    ASSUME NetInv, Net!Close
    PROVE  NetInv'
  <1>1. /\ UNCHANGED <<sent, accepted, response, pos, ended, buffer, room, size, results, aborted>>
        /\ call = "none" /\ stage \in {"open", "sent", "body", "failed"}
        /\ Net!CloseSocket /\ call' = "none" /\ stage' = "over"
    BY DEF Net!Close, Net!writing, Net!reading
  <1>2. aborted' \in BOOLEAN
    BY <1>1 DEF NetInv, NetShapes
  <1> QED BY <1>1, <1>2, StopKeeps

(* Nothing changes but, perhaps, the signal, between calls. *)
LEMMA SignalKeeps ==
    ASSUME NetInv, aborted' \in BOOLEAN,
           UNCHANGED <<socket, closes, stage, call, sent, accepted, response, pos, ended, buffer, room, size, results>>
    PROVE  NetInv'
  <1>1. NetShapes'
    BY DEF NetInv, NetShapes
  <1>2. NetStages'
    BY DEF NetInv, NetStages
  <1>3. SocketRight'
    BY DEF NetInv, SocketRight
  <1>4. RequestRight'
    BY DEF NetInv, RequestRight, Asked
  <1>a. Net!Given' = Net!Given /\ \A n : CameTo(n)' = CameTo(n)
    BY DEF Net!Given, CameTo
  <1>5. ReadRight'
    BY <1>a DEF NetInv, ReadRight
  <1>6. ResultsRight'
    BY <1>a DEF NetInv, ResultsRight
  <1>7. ChunkRight'
    BY DEF NetInv, ChunkRight, Within, InSize, InExtension, AtLF, InBody, SizeRead, Number, Rest
  <1> QED BY <1>1, <1>2, <1>3, <1>4, <1>5, <1>6, <1>7 DEF NetInv

(* What plain reads have given, and one result more. *)
Result == [what : {"headers", "chunk", "all", "chunked"}, bytes : Seq(Byte), whole : BOOLEAN]
GivenBy(r) == IF r.what = "chunk" THEN r.bytes ELSE <<>>

LEMMA GivenIs ==
    ASSUME results \in Seq(Result)
    PROVE  /\ Net!Given \in Seq(Byte)
           /\ results = <<>> => Net!Given = <<>>
           /\ \A r \in Result : results' = Append(results, r) => Net!Given' = Net!Given \o GivenBy(r)
  <1>s. PICK s : s = results
    OBVIOUS
  <1>g. PICK g : g = [i \in 1 .. Len(s) |-> GivenBy(s[i])]
    OBVIOUS
  <1>0. \A r \in Result : GivenBy(r) \in Seq(Byte)
    BY DEF Result, GivenBy
  <1>1. s \in Seq(Result) /\ Len(s) \in Nat /\ \A i \in 1 .. Len(s) : s[i] \in Result
    BY <1>s
  <1>2. g \in Seq(Seq(Byte)) /\ Len(g) = Len(s)
    BY <1>0, <1>1, <1>g
  <1>3. \A q : Net!FlattenSeq(q) = FlattenSeq(q)
    BY DEF Net!FlattenSeq, FlattenSeq
  <1>4. Net!Given = FlattenSeq(g)
    BY <1>s, <1>g, <1>3 DEF Net!Given, GivenBy
  <1>5. \A q \in Seq(Seq(Byte)) : FlattenSeq(q) \in Seq(Byte)
    <2> TAKE q \in Seq(Seq(Byte))
    <2>1. PICK f \in [0 .. Len(q) -> Seq(Byte)] : FlattenSeq(q) = f[Len(q)]
      BY FlattenIs
    <2>2. Len(q) \in 0 .. Len(q)
      OBVIOUS
    <2> QED BY <2>1, <2>2
  <1>6. s = <<>> => FlattenSeq(g) = <<>>
    <2> HAVE s = <<>>
    <2>1. g = <<>>
      BY <1>2, NoneIsEmpty
    <2> QED BY <2>1 DEF FlattenSeq
  <1>7. ASSUME NEW r \in Result, results' = Append(results, r)
        PROVE  Net!Given' = Net!Given \o GivenBy(r)
    <2>t. PICK t : t = Append(s, r)
      OBVIOUS
    <2>1. t \in Seq(Result) /\ Len(t) = Len(s) + 1 /\ t[Len(s) + 1] = r /\ \A i \in 1 .. Len(s) : t[i] = s[i]
      BY <1>1, <2>t
    <2>2. PICK h : h = [i \in 1 .. Len(t) |-> GivenBy(t[i])]
      OBVIOUS
    <2>3. Net!Given' = FlattenSeq(h)
      <3>1. results' = t
        BY <1>s, <1>7, <2>t
      <3> QED BY <3>1, <2>2, <1>3 DEF Net!Given, GivenBy
    <2>x. PICK x : x = GivenBy(r)
      OBVIOUS
    <2>4. h = Append(g, x)
      <3>1. x \in Seq(Byte) /\ \A i \in 1 .. Len(t) : GivenBy(t[i]) \in Seq(Byte)
        BY <1>0, <2>1, <2>x
      <3>2. h \in Seq(Seq(Byte)) /\ Len(h) = Len(s) + 1 /\ \A i \in 1 .. Len(t) : h[i] = GivenBy(t[i])
        BY <2>1, <2>2, <3>1
      <3>3. PICK k : k = Append(g, x)
        OBVIOUS
      <3>4. /\ k \in Seq(Seq(Byte)) /\ Len(k) = Len(s) + 1 /\ k[Len(s) + 1] = x
            /\ \A i \in 1 .. Len(s) : k[i] = g[i]
        BY <1>2, <3>1, <3>3
      <3>5. \A i \in 1 .. Len(h) : h[i] = k[i]
        <4> TAKE i \in 1 .. Len(h)
        <4>1. i = Len(s) + 1 \/ i \in 1 .. Len(s)
          BY <1>1, <3>2
        <4>2. h[i] = GivenBy(t[i])
          BY <2>1, <3>2
        <4>3. i \in 1 .. Len(s) => g[i] = GivenBy(s[i])
          BY <1>g
        <4> QED BY <2>1, <2>x, <3>4, <4>1, <4>2, <4>3
      <3> QED BY ONLY <3>2, <3>3, <3>4, <3>5, SameSeq
    <2>5. FlattenSeq(h) = FlattenSeq(g) \o x
      <3>1. x \in Seq(Byte)
        BY <1>0, <2>x
      <3> QED BY ONLY <1>2, <2>4, <3>1, FlattenAppend
    <2> QED BY <1>4, <2>3, <2>5, <2>x
  <1> QED BY <1>s, <1>2, <1>4, <1>5, <1>6, <1>7

(* A call that goes on. *)
LEMMA GoesOnRight ==
    ASSUME NetInv, Net!NetworkAssumption,
           stage \in {"sent", "body"},
           call' \in {"headers", "chunk", "all"} \cup Net!Chunking,
           call' = "headers" <=> stage = "sent",
           call' = "chunk" => ~response.chunked,
           call' \in Net!Chunking => response.chunked,
           call' = "all" <=> call = "all",
           buffer' \in Seq(Byte), room' \in Nat, size' \in [value : Nat, digits : Nat],
           pos' \in Nat, pos' <= Len(Net!Wire(response)),
           UNCHANGED <<stage, results, socket, closes, aborted, ended, sent, accepted, response>>
    PROVE  /\ NetShapes' /\ NetStages' /\ SocketRight' /\ RequestRight' /\ ResultsRight'
           /\ Net!IsPrefix(response.header \o Net!Given, Net!Wire(response))'
  <1>1. NetShapes'
    BY DEF NetInv, NetShapes
  <1>2. NetStages'
    BY DEF NetInv, NetStages, Opening, Net!Chunking
  <1>3. SocketRight'
    BY DEF NetInv, SocketRight, Net!Chunking
  <1>4. RequestRight'
    BY DEF NetInv, RequestRight, Asked, Net!Chunking
  <1>5. ResultsRight'
    <2>1. \A i \in DOMAIN results : results[i].what # "all"
      BY DEF NetInv, NetStages
    <2> QED BY <2>1 DEF NetInv, ResultsRight, CameTo
  <1>6. Net!IsPrefix(response.header \o Net!Given, Net!Wire(response))'
    <2>1. Net!Given' = Net!Given /\ Net!Wire(response)' = Net!Wire(response)
      BY DEF Net!Given
    <2> QED BY <2>1 DEF NetInv, ReadRight
  <1> QED BY <1>1, <1>2, <1>3, <1>4, <1>5, <1>6

(* A call that returns r. *)
LEMMA ReturnRight ==
    ASSUME NetInv, Net!NetworkAssumption, NEW r \in Result,
           stage \in {"sent", "body"}, call # "write",
           results' = Append(results, r), call' = "none", buffer' = <<>>,
           stage' \in {"body", "failed", "over"},
           r.what = "all" <=> call = "all",
           stage' = "over" <=> call = "all",
           IF call = "all" THEN Net!CloseSocket ELSE UNCHANGED <<socket, closes>>,
           r.what = "headers" /\ r.whole => r.bytes = response.header,
           r.what = "chunked" => r.bytes = IF r.whole THEN Net!Meaning(response.parts[Len(results)]) ELSE <<>>,
           r.what = "all" /\ r.whole => r.bytes = CameTo(pos'),
           Net!IsPrefix(response.header \o (Net!Given \o GivenBy(r)), Net!Wire(response)),
           room' \in Nat, size' \in [value : Nat, digits : Nat],
           aborted' \in BOOLEAN, ended' \in BOOLEAN,
           pos' \in Nat, pos' <= Len(Net!Wire(response)),
           UNCHANGED <<sent, accepted, response>>
    PROVE  /\ NetShapes' /\ NetStages' /\ SocketRight' /\ RequestRight' /\ ResultsRight'
           /\ Net!IsPrefix(response.header \o Net!Given, Net!Wire(response))'
           /\ Net!Given' = Net!Given \o GivenBy(r)
           /\ Len(results') = Len(results) + 1 /\ Len(results) \in Nat
  <1>0. results \in Seq(Result) /\ call \notin Opening
    <2>1. results \in Seq(Result)
      BY DEF NetInv, NetShapes, Result
    <2> QED BY <2>1 DEF NetInv, NetStages
  <1>a. /\ results' \in Seq(Result) /\ Len(results') = Len(results) + 1 /\ Len(results) \in Nat
        /\ results'[Len(results) + 1] = r /\ results' # <<>>
        /\ DOMAIN results' = 1 .. Len(results) + 1 /\ DOMAIN results = 1 .. Len(results)
        /\ \A i \in 1 .. Len(results) : results'[i] = results[i]
    <2>s. PICK s : s = results
      OBVIOUS
    <2>t. PICK t : t = Append(s, r)
      OBVIOUS
    <2>0. s \in Seq(Result)
      BY <1>0, <2>s
    <2>1. /\ t \in Seq(Result) /\ Len(t) = Len(s) + 1 /\ Len(s) \in Nat
          /\ t[Len(s) + 1] = r
          /\ DOMAIN t = 1 .. Len(s) + 1 /\ DOMAIN s = 1 .. Len(s)
          /\ \A i \in 1 .. Len(s) : t[i] = s[i]
      BY ONLY <2>0, <2>t, r \in Result
    <2>2. t # <<>>
      <3>1. Len(t) # 0
        BY <2>1
      <3> QED BY <3>1
    <2> QED BY <2>s, <2>t, <2>1, <2>2
  <1>b. \A i \in DOMAIN results' : i = Len(results) + 1 \/ (i \in DOMAIN results /\ results'[i] = results[i])
    BY <1>a
  <1>1. NetShapes'
    <2>1. call' \in {"none"} /\ socket' \in {"none", "open", "closed"} /\ closes' \in Nat
      BY DEF Net!CloseSocket, NetInv, NetShapes
    <2>2. buffer' \in Seq(Byte)
      OBVIOUS
    <2> QED BY <1>a, <2>1, <2>2 DEF NetInv, NetShapes, Result
  <1>c. /\ call = "all" => results = <<>>
        /\ \A i \in DOMAIN results : results[i].what # "all"
    BY DEF NetInv, NetStages
  <1>2. NetStages'
    <2>1. \A i \in DOMAIN results' : results'[i].what = "all" => stage' = "over"
      BY <1>a, <1>b, <1>c
    <2> QED BY <1>a, <2>1 DEF NetStages, Opening, Net!Chunking
  <1>3. SocketRight'
    <2>1. socket = "open" /\ closes = 0
      BY DEF NetInv, SocketRight
    <2>2. CASE call = "all"
      BY <2>1, <2>2 DEF Net!CloseSocket, SocketRight
    <2>3. CASE call # "all"
      BY <2>1, <2>3 DEF SocketRight
    <2> QED BY <2>2, <2>3
  <1>4. RequestRight'
    <2>1. Net!IsPrefix(accepted, Asked)
      BY DEF NetInv, RequestRight
    <2>2. call # "all" => accepted = Asked
      BY DEF NetInv, RequestRight
    <2>3. \A i \in DOMAIN results' : results'[i].what # "all" => accepted = Asked
      <3> TAKE i \in DOMAIN results'
      <3>1. CASE call = "all"
        <4>1. i = Len(results) + 1
          <5>1. DOMAIN results = {}
            <6>1. DOMAIN <<>> = {}
              OBVIOUS
            <6> QED BY <3>1, <1>c, <6>1
          <5> QED BY <5>1, <1>b
        <4> QED BY <1>a, <3>1, <4>1
      <3>2. CASE call # "all"
        BY <2>2, <3>2
      <3> QED BY <3>1, <3>2
    <2>4. Asked' = Asked
      BY DEF Asked
    <2> QED BY <2>1, <2>2, <2>3, <2>4 DEF RequestRight
  <1>5. ResultsRight'
    <2>1. ASSUME NEW i \in DOMAIN results'
          PROVE  LET x == results'[i] IN
                 /\ x.what = "headers" /\ x.whole => x.bytes = response.header
                 /\ x.what = "chunked" =>
                       x.bytes = IF x.whole THEN Net!Meaning(response.parts[i - 1]) ELSE <<>>
                 /\ x.what = "all" /\ x.whole => x.bytes = CameTo(pos')
      <3>1. CASE i = Len(results) + 1
        <4>1. results'[i] = r /\ i - 1 = Len(results)
          BY <1>a, <3>1
        <4> QED BY <4>1
      <3>2. CASE i \in DOMAIN results /\ results'[i] = results[i]
        BY <1>c, <3>2 DEF NetInv, ResultsRight
      <3> QED BY <1>b, <3>1, <3>2
    <2> QED BY <2>1 DEF ResultsRight, CameTo
  <1>6. Net!Given' = Net!Given \o GivenBy(r)
    BY <1>0, GivenIs
  <1>7. Net!IsPrefix(response.header \o Net!Given, Net!Wire(response))'
    BY <1>6
  <1> QED BY <1>a, <1>1, <1>2, <1>3, <1>4, <1>5, <1>6, <1>7

(* What comes next after what has come. *)
LEMMA CameIs ==
    ASSUME NetInv, Net!NetworkAssumption, NEW k \in Nat, Net!Arrive(k)
    PROVE  /\ ended = FALSE
           /\ pos' = pos + k /\ pos' \in Nat /\ pos' <= Len(Net!Wire(response))
           /\ Net!Came(k) \in Seq(Byte) /\ Len(Net!Came(k)) = k
           /\ \A i \in 1 .. k : Net!Came(k)[i] = Net!Wire(response)[pos + i]
           /\ CameTo(pos) \o Net!Came(k) = CameTo(pos + k)
  <1>1. response \in Responses /\ pos \in Nat /\ ended \in BOOLEAN
    BY DEF NetInv, NetShapes
  <1>w. PICK w : w = Net!Wire(response)
    OBVIOUS
  <1>2. w \in Seq(Byte)
    BY <1>1, <1>w, WireIs
  <1>3. ~ended /\ pos + k <= Len(w) /\ pos' = pos + k
    BY <1>w DEF Net!Arrive
  <1>4. pos \in 0 .. Len(w) /\ k \in 0 .. Len(w) - pos
    BY <1>1, <1>2, <1>3
  <1>5. /\ SubSeq(w, pos + 1, pos + k) \in Seq(Byte) /\ Len(SubSeq(w, pos + 1, pos + k)) = k
        /\ \A i \in 1 .. k : SubSeq(w, pos + 1, pos + k)[i] = w[pos + i]
        /\ SubSeq(w, 1, pos) \o SubSeq(w, pos + 1, pos + k) = SubSeq(w, 1, pos + k)
    BY ONLY <1>2, <1>4, Onward
  <1>6. Net!Came(k) = SubSeq(w, pos + 1, pos + k)
    BY <1>w DEF Net!Came
  <1>7. CameTo(pos) = SubSeq(w, 1, pos) /\ CameTo(pos + k) = SubSeq(w, 1, pos + k)
    BY <1>w DEF CameTo
  <1>8. ended = FALSE /\ pos' \in Nat
    BY <1>1, <1>3
  <1> QED BY ONLY <1>w, <1>3, <1>5, <1>6, <1>7, <1>8

(* A result that gives no bytes of the body. *)
LEMMA NothingGiven ==
    ASSUME NetInv, Net!NetworkAssumption, NEW r \in Result, r.what # "chunk" \/ r.bytes = <<>>
    PROVE  /\ Net!Given \o GivenBy(r) = Net!Given
           /\ Net!IsPrefix(response.header \o (Net!Given \o GivenBy(r)), Net!Wire(response))
  <1>1. results \in Seq(Result)
    BY DEF NetInv, NetShapes, Result
  <1>2. Net!Given \in Seq(Byte)
    BY <1>1, GivenIs
  <1>3. GivenBy(r) = <<>>
    BY DEF GivenBy
  <1>4. \A s \in Seq(Byte) : s \o <<>> = s
    OBVIOUS
  <1>5. Net!Given \o GivenBy(r) = Net!Given
    BY <1>2, <1>3, <1>4
  <1> QED BY <1>5 DEF NetInv, ReadRight

(* A call after which no more is read. *)
LEMMA LastReturn ==
    ASSUME NetInv, Net!NetworkAssumption, NEW r \in Result,
           stage \in {"sent", "body"}, call # "write",
           results' = Append(results, r), call' = "none", buffer' = <<>>,
           stage' \in {"failed", "over"},
           r.what = "all" <=> call = "all",
           stage' = "over" <=> call = "all",
           IF call = "all" THEN Net!CloseSocket ELSE UNCHANGED <<socket, closes>>,
           r.what # "chunk" \/ r.bytes = <<>>,
           r.what = "headers" => ~r.whole,
           r.what = "chunked" => r.bytes = IF r.whole THEN Net!Meaning(response.parts[Len(results)]) ELSE <<>>,
           r.what = "all" /\ r.whole => r.bytes = CameTo(pos'),
           room' \in Nat, size' \in [value : Nat, digits : Nat],
           aborted' \in BOOLEAN, ended' \in BOOLEAN,
           pos' \in Nat, pos' <= Len(Net!Wire(response)),
           UNCHANGED <<sent, accepted, response>>
    PROVE  NetInv'
  <1>1. Net!IsPrefix(response.header \o (Net!Given \o GivenBy(r)), Net!Wire(response))
    BY NothingGiven
  <1>2. stage' \in {"body", "failed", "over"} /\ (r.what = "headers" /\ r.whole => r.bytes = response.header)
    OBVIOUS
  <1>3. /\ NetShapes' /\ NetStages' /\ SocketRight' /\ RequestRight' /\ ResultsRight'
        /\ Net!IsPrefix(response.header \o Net!Given, Net!Wire(response))'
    BY <1>1, <1>2, ReturnRight
  <1>4. ReadRight'
    BY <1>3 DEF ReadRight
  <1>5. ChunkRight'
    BY DEF ChunkRight
  <1> QED BY <1>3, <1>4, <1>5 DEF NetInv

(* A read that the signal keeps from beginning. *)
LEMMA RefusedKeeps ==
    ASSUME NetInv, Net!NetworkAssumption, NEW what, what \in {"headers", "chunk", "chunked"},
           call = "none", stage \in {"sent", "body"},
           Net!Returns(what, <<>>, FALSE, "failed"),
           UNCHANGED <<room, size, socket, closes, aborted, sent, accepted, response, pos, ended>>
    PROVE  NetInv'
  <1>r. PICK r : r = [what |-> what, bytes |-> <<>>, whole |-> FALSE]
    OBVIOUS
  <1>1. r \in Result /\ r.what = what /\ r.bytes = <<>> /\ r.whole = FALSE
    BY <1>r DEF Result
  <1>2. results' = Append(results, r) /\ call' = "none" /\ stage' = "failed" /\ buffer' = <<>>
    BY <1>r DEF Net!Returns
  <1>3. /\ room' \in Nat /\ size' \in [value : Nat, digits : Nat]
        /\ aborted' \in BOOLEAN /\ ended' \in BOOLEAN
        /\ pos' \in Nat /\ pos' <= Len(Net!Wire(response))
    BY DEF NetInv, NetShapes
  <1> QED BY <1>1, <1>2, <1>3, LastReturn

(* The empty line that ends the headers is where they end and nowhere before. *)
LEMMA HeaderIs ==
    ASSUME Net!NetworkAssumption, NEW r \in Responses
    PROVE  /\ Len(r.header) \in Nat /\ Len(r.header) >= 4
           /\ \A n \in 1 .. Len(r.header) :
                 Net!HeaderComplete(SubSeq(Net!Wire(r), 1, n)) <=> n = Len(r.header)
           /\ SubSeq(Net!Wire(r), 1, Len(r.header)) = r.header
  <1>h. PICK h : h = r.header
    OBVIOUS
  <1>w. PICK w : w = Net!Wire(r)
    OBVIOUS
  <1>1. /\ h \in Seq(Byte) /\ Len(h) \in Nat /\ Net!HeaderComplete(h)
        /\ \A n \in 1 .. Len(h) - 1 : ~Net!HeaderComplete(SubSeq(h, 1, n))
    BY <1>h DEF Net!NetworkAssumption
  <1>2. Len(h) >= 4
    BY <1>1 DEF Net!HeaderComplete
  <1>3. w \in Seq(Byte) /\ Len(h) <= Len(w) /\ SubSeq(w, 1, Len(h)) = h
    BY <1>h, <1>w, WireIs
  <1>4. \A n \in 1 .. Len(h) : SubSeq(w, 1, n) = SubSeq(h, 1, n)
    <2>1. \A n \in 1 .. Len(h) : SubSeq(w, 1, n) = SubSeq(SubSeq(w, 1, Len(h)), 1, n)
      <3> TAKE n \in 1 .. Len(h)
      <3>u. PICK u : u = SubSeq(w, 1, Len(h))
        OBVIOUS
      <3>1. u \in Seq(Byte) /\ Len(u) = Len(h) /\ \A i \in 1 .. Len(h) : u[i] = w[i]
        BY ONLY <1>1, <1>3, <3>u
      <3>x. PICK x : x = SubSeq(u, 1, n)
        OBVIOUS
      <3>y. PICK y : y = SubSeq(w, 1, n)
        OBVIOUS
      <3>2. n \in 0 .. Len(u) /\ n \in 0 .. Len(w) /\ \A i \in 1 .. n : i \in 1 .. Len(h)
        BY <1>1, <1>3, <3>1
      <3>3. x \in Seq(Byte) /\ Len(x) = n /\ \A i \in 1 .. n : x[i] = u[i]
        BY ONLY <3>1, <3>2, <3>x
      <3>4. y \in Seq(Byte) /\ Len(y) = n /\ \A i \in 1 .. n : y[i] = w[i]
        BY ONLY <1>3, <3>2, <3>y
      <3>5. \A i \in 1 .. n : x[i] = y[i]
        BY <3>1, <3>2, <3>3, <3>4
      <3>6. x = y
        BY <3>3, <3>4, <3>5, SameSeq
      <3> QED BY <3>u, <3>x, <3>y, <3>6
    <2> QED BY <1>3, <2>1
  <1>5. \A n \in 1 .. Len(h) : Net!HeaderComplete(SubSeq(w, 1, n)) <=> n = Len(h)
    <2> TAKE n \in 1 .. Len(h)
    <2>1. CASE n = Len(h)
      BY <1>1, <1>3, <2>1
    <2>2. CASE n # Len(h)
      <3>1. n \in 1 .. Len(h) - 1
        BY <1>1, <2>2
      <3> QED BY <1>1, <1>4, <2>2, <3>1
    <2> QED BY <2>1, <2>2
  <1> QED BY <1>h, <1>w, <1>1, <1>2, <1>3, <1>5

LEMMA ReadHeadersKeeps ==
    ASSUME NetInv, Net!NetworkAssumption, Net!ReadHeaders
    PROVE  NetInv'
  <1>0. /\ stage = "sent" /\ call = "none"
        /\ UNCHANGED <<socket, closes, aborted, sent, accepted, response, pos, ended>>
    BY DEF Net!ReadHeaders, Net!ReadCall, Net!writing
  <1>1. CASE aborted
    <2>1. Net!Returns("headers", <<>>, FALSE, "failed") /\ UNCHANGED <<room, size>>
      BY <1>1 DEF Net!ReadHeaders, Net!ReadCall, Net!Reading, Net!Chunking
    <2> QED BY <1>0, <2>1, RefusedKeeps
  <1>2. CASE ~aborted
    <2>1. /\ call' = "headers" /\ buffer' = <<>> /\ UNCHANGED <<stage, results>>
          /\ room' = Capacity /\ size' = [value |-> 0, digits |-> 0]
      BY <1>2 DEF Net!ReadHeaders, Net!ReadCall, Net!Continue
    <2>2. pos = 0 /\ pos' = 0
      BY <1>0 DEF NetInv, ReadRight
    <2>3. buffer' \in Seq(Byte) /\ room' \in Nat /\ size' \in [value : Nat, digits : Nat]
      BY <2>1 DEF Net!NetworkAssumption
    <2>4. pos' \in Nat /\ pos' <= Len(Net!Wire(response)) /\ response \in Responses
      BY <1>0 DEF NetInv, NetShapes
    <2>5. /\ NetShapes' /\ NetStages' /\ SocketRight' /\ RequestRight' /\ ResultsRight'
          /\ Net!IsPrefix(response.header \o Net!Given, Net!Wire(response))'
      BY <1>0, <2>1, <2>3, <2>4, GoesOnRight DEF Net!Chunking
    <2>6. 0 < Len(response.header)
      BY <2>4, HeaderIs
    <2>7. Len(<<>>) = 0 /\ \A s : SubSeq(s, 1, 0) = <<>>
      OBVIOUS
    <2>8. ReadRight'
      BY <1>0, <2>1, <2>2, <2>5, <2>6, <2>7 DEF ReadRight, CameTo
    <2>9. ChunkRight'
      BY <1>0, <2>1 DEF ChunkRight
    <2> QED BY <2>5, <2>8, <2>9 DEF NetInv
  <1> QED BY <1>1, <1>2

LEMMA ReadChunkKeeps ==
    ASSUME NetInv, Net!NetworkAssumption, Net!ReadChunk
    PROVE  NetInv'
  <1>0. /\ stage = "body" /\ call = "none" /\ ~response.chunked
        /\ UNCHANGED <<socket, closes, aborted, sent, accepted, response, pos, ended>>
    BY DEF Net!ReadChunk, Net!ReadCall, Net!writing
  <1>1. CASE aborted
    <2>1. Net!Returns("chunk", <<>>, FALSE, "failed") /\ UNCHANGED <<room, size>>
      BY <1>1 DEF Net!ReadChunk, Net!ReadCall, Net!Reading, Net!Chunking
    <2> QED BY <1>0, <2>1, RefusedKeeps
  <1>2. CASE ~aborted
    <2>1. /\ call' = "chunk" /\ buffer' = <<>> /\ UNCHANGED <<stage, results>>
          /\ room' = ReadLimit /\ size' = [value |-> 0, digits |-> 0]
      BY <1>2 DEF Net!ReadChunk, Net!ReadCall, Net!Continue
    <2>3. buffer' \in Seq(Byte) /\ room' \in Nat /\ size' \in [value : Nat, digits : Nat]
      BY <2>1 DEF Net!NetworkAssumption
    <2>4. pos' \in Nat /\ pos' <= Len(Net!Wire(response)) /\ response \in Responses
      BY <1>0 DEF NetInv, NetShapes
    <2>5. /\ NetShapes' /\ NetStages' /\ SocketRight' /\ RequestRight' /\ ResultsRight'
          /\ Net!IsPrefix(response.header \o Net!Given, Net!Wire(response))'
      BY <1>0, <2>1, <2>3, <2>4, GoesOnRight DEF Net!Chunking
    <2>6. Net!Given' = Net!Given /\ CameTo(pos)' = CameTo(pos)
      BY <1>0, <2>1 DEF Net!Given, CameTo
    <2>8. ReadRight'
      BY <1>0, <2>1, <2>5, <2>6 DEF NetInv, ReadRight
    <2>9. ChunkRight'
      BY <1>0, <2>1 DEF ChunkRight
    <2> QED BY <2>5, <2>8, <2>9 DEF NetInv
  <1> QED BY <1>1, <1>2

LEMMA ReadChunkedKeeps ==
    ASSUME NetInv, Net!NetworkAssumption, Net!ReadChunked
    PROVE  NetInv'
  <1>0. /\ stage = "body" /\ call = "none" /\ response.chunked
        /\ UNCHANGED <<socket, closes, aborted, sent, accepted, response, pos, ended>>
    BY DEF Net!ReadChunked, Net!ReadCall, Net!writing
  <1>1. CASE aborted
    <2>1. Net!Returns("chunked", <<>>, FALSE, "failed") /\ UNCHANGED <<room, size>>
      BY <1>1 DEF Net!ReadChunked, Net!ReadCall, Net!Reading, Net!Chunking
    <2> QED BY <1>0, <2>1, RefusedKeeps
  <1>2. CASE ~aborted
    <2>1. /\ call' = "size" /\ buffer' = <<>> /\ UNCHANGED <<stage, results>>
          /\ room' = 0 /\ size' = [value |-> 0, digits |-> 0]
      BY <1>2 DEF Net!ReadChunked, Net!ReadCall, Net!Continue
    <2>3. buffer' \in Seq(Byte) /\ room' \in Nat /\ size' \in [value : Nat, digits : Nat]
      BY <2>1
    <2>4. pos' \in Nat /\ pos' <= Len(Net!Wire(response)) /\ response \in Responses
      BY <1>0 DEF NetInv, NetShapes
    <2>5. /\ NetShapes' /\ NetStages' /\ SocketRight' /\ RequestRight' /\ ResultsRight'
          /\ Net!IsPrefix(response.header \o Net!Given, Net!Wire(response))'
      BY <1>0, <2>1, <2>3, <2>4, GoesOnRight DEF Net!Chunking
    <2>8. ReadRight'
      BY <1>0, <2>1, <2>5 DEF ReadRight
    <2>9. ChunkRight'
      <3>1. ASSUME ~ended
            PROVE  LET i == Len(results) IN
                   /\ i \in 1 .. Len(response.parts) + 1
                   /\ pos >= Start(response)[i - 1]
                   /\ pos = Start(response)[i - 1]
                   /\ i = Len(response.parts) + 1 => pos = Len(Net!Wire(response))
        BY <1>0, <3>1 DEF NetInv, ChunkRight
      <3>2. ASSUME ~ended, Len(results) <= Len(response.parts)
            PROVE  Within(response.parts[Len(results)], pos - Start(response)[Len(results) - 1])'
        <4>c. PICK c : c = response.parts[Len(results)]
          OBVIOUS
        <4>1. Len(results) \in 1 .. Len(response.parts) /\ Len(response.parts) \in Nat
          BY <2>4, <3>1, <3>2, PieceTyped
        <4>2. c.digits \in Seq(Byte \ {"CR", "semi"})
          BY <1>0, <2>4, <4>c, <4>1, PieceTyped DEF Net!ChunkShape
        <4>3. Net!Value(c.digits, 0) = 0 /\ Len(c.digits) \in Nat
          <5>t. PICK T : T = Byte \ {"CR", "semi"}
            OBVIOUS
          <5>d. PICK ds : ds = c.digits
            OBVIOUS
          <5>1. ds \in Seq(T)
            BY <4>2, <5>t, <5>d
          <5>2. Net!Value(ds, 0) = 0
            BY ONLY <5>1, ValueIs
          <5> QED BY <5>d, <5>1, <5>2
        <4>4. Start(response)[Len(results) - 1] \in Nat
          <5>1. Len(results) - 1 \in 0 .. Len(response.parts)
            BY <4>1
          <5> QED BY <2>4, <5>1, StartIs
        <4>5. pos - Start(response)[Len(results) - 1] = 0
          BY <3>1, <3>2, <4>4
        <4>6. InSize(c, 0)'
          BY <2>1, <4>3 DEF InSize, Net!NetworkAssumption
        <4>7. Within(c, 0)'
          BY <2>1, <4>6 DEF Within
        <4> QED BY <1>0, <2>1, <4>c, <4>5, <4>7
      <3>3. CASE ended
        BY <1>0, <3>3 DEF ChunkRight
      <3>4. CASE ~ended
        BY <1>0, <2>1, <3>1, <3>2, <3>4 DEF ChunkRight, Net!Chunking
      <3> QED BY <3>3, <3>4
    <2> QED BY <2>5, <2>8, <2>9 DEF NetInv
  <1> QED BY <1>1, <1>2

LEMMA HeaderByteKeeps ==
    ASSUME NetInv, Net!NetworkAssumption, Net!HeaderByte
    PROVE  NetInv'
  <1>0. /\ call = "headers" /\ stage = "sent" /\ results = <<>> /\ Net!Arrive(1)
        /\ UNCHANGED <<socket, closes, aborted, sent, accepted, response, ended, size>>
    BY DEF Net!HeaderByte, Net!writing, NetInv, NetStages
  <1>1. /\ ended = FALSE /\ pos' = pos + 1 /\ pos' \in Nat /\ pos' <= Len(Net!Wire(response))
        /\ Net!Came(1) \in Seq(Byte) /\ Len(Net!Came(1)) = 1
        /\ CameTo(pos) \o Net!Came(1) = CameTo(pos + 1)
    BY <1>0, CameIs
  <1>2. /\ pos = Len(buffer) /\ buffer = CameTo(pos) /\ pos < Len(response.header)
        /\ pos \in Nat /\ buffer \in Seq(Byte) /\ response \in Responses /\ room \in Nat
        /\ size' \in [value : Nat, digits : Nat] /\ aborted' \in BOOLEAN /\ ended' \in BOOLEAN
    BY <1>0 DEF NetInv, ReadRight, NetShapes
  <1>b. PICK b : b = buffer \o Net!Came(1)
    OBVIOUS
  <1>3. b = CameTo(pos') /\ b \in Seq(Byte) /\ Len(b) = pos'
    <2>1. b = CameTo(pos')
      BY <1>1, <1>2, <1>b
    <2>2. buffer \in Seq(Byte) /\ Net!Came(1) \in Seq(Byte)
      BY <1>1, <1>2
    <2>3. b \in Seq(Byte) /\ Len(b) = Len(buffer) + Len(Net!Came(1))
      BY ONLY <2>2, <1>b, Joined
    <2> QED BY <1>1, <1>2, <2>1, <2>3
  <1>4. /\ Len(response.header) \in Nat
        /\ Net!HeaderComplete(b) <=> pos' = Len(response.header)
        /\ CameTo(Len(response.header)) = response.header
    <2>1. Len(response.header) \in Nat /\ pos' \in 1 .. Len(response.header)
      BY <1>1, <1>2, HeaderIs
    <2> QED BY <1>2, <1>3, <2>1, HeaderIs DEF CameTo
  <1>5. room' \in Nat
    BY <1>2 DEF Net!HeaderByte
  <1>6. CASE Net!HeaderComplete(b)
    <2>1. Net!Returns("headers", b, TRUE, "body")
      BY <1>6, <1>b DEF Net!HeaderByte
    <2>r. PICK r : r = [what |-> "headers", bytes |-> b, whole |-> TRUE]
      OBVIOUS
    <2>2. r \in Result /\ r.what = "headers" /\ r.bytes = b /\ r.whole = TRUE
      BY <1>3, <2>r DEF Result
    <2>3. results' = Append(results, r) /\ call' = "none" /\ stage' = "body" /\ buffer' = <<>>
      BY <2>1, <2>r DEF Net!Returns
    <2>4. b = response.header
      BY <1>3, <1>4, <1>6
    <2>5. Net!IsPrefix(response.header \o (Net!Given \o GivenBy(r)), Net!Wire(response))
      BY <2>2, NothingGiven
    <2>6. /\ NetShapes' /\ NetStages' /\ SocketRight' /\ RequestRight' /\ ResultsRight'
          /\ Net!IsPrefix(response.header \o Net!Given, Net!Wire(response))'
          /\ Net!Given' = Net!Given \o GivenBy(r)
          /\ Len(results') = Len(results) + 1 /\ Len(results) \in Nat
      BY <1>0, <1>1, <1>2, <1>5, <2>2, <2>3, <2>4, <2>5, ReturnRight
    <2>7. Net!Given' = <<>> /\ response.header \o <<>> = response.header /\ Len(results') = 1
      <3>1. Net!Given = <<>>
        <4>1. results \in Seq(Result)
          BY DEF NetInv, NetShapes, Result
        <4> QED BY <1>0, <4>1, GivenIs
      <3>2. GivenBy(r) = <<>>
        BY <2>2 DEF GivenBy
      <3>3. <<>> \o <<>> = <<>> /\ Len(<<>>) = 0 /\ \A s \in Seq(Byte) : s \o <<>> = s
        OBVIOUS
      <3>4. response.header \in Seq(Byte)
        BY <1>2, PieceTyped
      <3> QED BY <1>0, <2>6, <3>1, <3>2, <3>3, <3>4
    <2>8. ReadRight'
      <3>1. response.header \o Net!Given' = CameTo(pos')
        BY <1>3, <2>4, <2>7
      <3>2. CameTo(pos') = CameTo(pos)'
        BY <1>0 DEF CameTo
      <3> QED BY <1>0, <2>3, <2>6, <3>1, <3>2 DEF ReadRight
    <2>9. ChunkRight'
      <3>1. Start(response)[0] = Len(response.header) /\ Len(response.parts) \in Nat
        BY <1>2, StartIs, PieceTyped
      <3>2. Len(Net!Wire(response)) = Start(response)[Len(response.parts)]
        BY <1>2, WireIs
      <3>3. pos' = Start(response)[0]
        BY <1>4, <1>6, <3>1
      <3>4. 1 \in 1 .. Len(response.parts) + 1 /\ 1 - 1 = 0 /\ (1 = Len(response.parts) + 1 => Len(response.parts) = 0)
        BY <3>1
      <3>5. \A c, q : Within(c, q)'
        BY <2>3 DEF Within
      <3>6. Start(response)[0] \in Nat
        BY <3>1, <1>4
      <3> QED BY <1>0, <2>3, <2>7, <3>2, <3>3, <3>4, <3>5, <3>6 DEF ChunkRight
    <2> QED BY <2>6, <2>8, <2>9 DEF NetInv
  <1>7. CASE ~Net!HeaderComplete(b)
    <2>1. call' = "headers" /\ buffer' = b /\ UNCHANGED <<stage, results>>
      BY <1>7, <1>b DEF Net!HeaderByte, Net!Continue
    <2>5. /\ NetShapes' /\ NetStages' /\ SocketRight' /\ RequestRight' /\ ResultsRight'
          /\ Net!IsPrefix(response.header \o Net!Given, Net!Wire(response))'
      BY <1>0, <1>1, <1>2, <1>3, <1>5, <2>1, GoesOnRight DEF Net!Chunking
    <2>6. pos' < Len(response.header)
      BY <1>1, <1>2, <1>4, <1>7
    <2>7. CameTo(pos') = CameTo(pos)'
      BY <1>0 DEF CameTo
    <2>8. ReadRight'
      BY <1>0, <1>3, <2>1, <2>5, <2>6, <2>7 DEF ReadRight
    <2>9. ChunkRight'
      BY <1>0, <2>1 DEF ChunkRight
    <2> QED BY <2>5, <2>8, <2>9 DEF NetInv
  <1> QED BY <1>6, <1>7

LEMMA AllBytesKeeps ==
    ASSUME NetInv, Net!NetworkAssumption, Net!AllBytes
    PROVE  NetInv'
  <1>0. /\ call = "all" /\ stage = "body"
        /\ UNCHANGED <<socket, closes, aborted, sent, accepted, response, ended, size>>
    BY DEF Net!AllBytes, Net!writing, NetInv, NetStages
  <1>2. /\ pos = Len(buffer) /\ buffer = CameTo(pos)
        /\ pos \in Nat /\ buffer \in Seq(Byte) /\ response \in Responses /\ room \in Nat
        /\ size' \in [value : Nat, digits : Nat]
    BY <1>0 DEF NetInv, ReadRight, NetShapes
  <1>5. room' \in Nat
    BY <1>2 DEF Net!AllBytes
  <1>k. PICK k \in 1 .. room' - Len(buffer) : Net!Arrive(k) /\ Net!Continue("all", buffer \o Net!Came(k))
    BY DEF Net!AllBytes
  <1>n. k \in Nat
    BY <1>2, <1>5
  <1>1. /\ pos' = pos + k /\ pos' \in Nat /\ pos' <= Len(Net!Wire(response))
        /\ Net!Came(k) \in Seq(Byte) /\ Len(Net!Came(k)) = k
        /\ CameTo(pos) \o Net!Came(k) = CameTo(pos + k)
    BY <1>k, <1>n, CameIs
  <1>b. PICK b : b = buffer \o Net!Came(k)
    OBVIOUS
  <1>3. b = CameTo(pos') /\ b \in Seq(Byte) /\ Len(b) = pos'
    <2>1. b = CameTo(pos')
      BY <1>1, <1>2, <1>b
    <2>2. buffer \in Seq(Byte) /\ Net!Came(k) \in Seq(Byte)
      BY <1>1, <1>2
    <2>3. b \in Seq(Byte) /\ Len(b) = Len(buffer) + Len(Net!Came(k))
      BY ONLY <2>2, <1>b, Joined
    <2> QED BY <1>1, <1>2, <2>1, <2>3
  <1>4. call' = "all" /\ buffer' = b /\ UNCHANGED <<stage, results>>
    BY <1>k, <1>b DEF Net!Continue
  <1>6. /\ NetShapes' /\ NetStages' /\ SocketRight' /\ RequestRight' /\ ResultsRight'
        /\ Net!IsPrefix(response.header \o Net!Given, Net!Wire(response))'
    BY <1>0, <1>1, <1>2, <1>3, <1>4, <1>5, GoesOnRight DEF Net!Chunking
  <1>7. CameTo(pos') = CameTo(pos)'
    BY <1>0 DEF CameTo
  <1>8. ReadRight'
    BY <1>0, <1>3, <1>4, <1>6, <1>7 DEF ReadRight
  <1>9. ChunkRight'
    BY <1>4 DEF ChunkRight, Net!Chunking
  <1> QED BY <1>6, <1>8, <1>9 DEF NetInv

LEMMA ChunkBytesKeeps ==
    ASSUME NetInv, Net!NetworkAssumption, Net!ChunkBytes
    PROVE  NetInv'
  <1>0. /\ call = "chunk" /\ stage = "body" /\ ~response.chunked
        /\ UNCHANGED <<socket, closes, aborted, sent, accepted, response, ended, room, size>>
    BY DEF Net!ChunkBytes, Net!writing, NetInv, NetStages
  <1>2. /\ pos \in Nat /\ response \in Responses /\ room \in Nat /\ room' \in Nat
        /\ size' \in [value : Nat, digits : Nat] /\ aborted' \in BOOLEAN /\ ended' \in BOOLEAN
    BY <1>0 DEF NetInv, NetShapes
  <1>k. PICK k \in 1 .. room : Net!Arrive(k) /\ Net!Returns("chunk", Net!Came(k), TRUE, "body")
    BY DEF Net!ChunkBytes
  <1>n. k \in Nat
    BY <1>2
  <1>1. /\ ended = FALSE /\ pos' = pos + k /\ pos' \in Nat /\ pos' <= Len(Net!Wire(response))
        /\ Net!Came(k) \in Seq(Byte) /\ Len(Net!Came(k)) = k
        /\ CameTo(pos) \o Net!Came(k) = CameTo(pos + k)
    BY <1>k, <1>n, CameIs
  <1>r. PICK r : r = [what |-> "chunk", bytes |-> Net!Came(k), whole |-> TRUE]
    OBVIOUS
  <1>3. r \in Result /\ r.what = "chunk" /\ r.bytes = Net!Came(k) /\ GivenBy(r) = Net!Came(k)
    BY <1>1, <1>r DEF Result, GivenBy
  <1>4. results' = Append(results, r) /\ call' = "none" /\ stage' = "body" /\ buffer' = <<>>
    BY <1>k, <1>r DEF Net!Returns
  <1>5. response.header \o (Net!Given \o GivenBy(r)) = CameTo(pos')
    <2>1. response.header \o Net!Given = CameTo(pos)
      BY <1>0, <1>1 DEF NetInv, ReadRight
    <2>2. response.header \in Seq(Byte)
      BY <1>2, PieceTyped
    <2>3. Net!Given \in Seq(Byte)
      <3>1. results \in Seq(Result)
        BY DEF NetInv, NetShapes, Result
      <3> QED BY <3>1, GivenIs
    <2>4. \A x, y, z \in Seq(Byte) : x \o (y \o z) = (x \o y) \o z
      OBVIOUS
    <2>5. response.header \o (Net!Given \o Net!Came(k)) = (response.header \o Net!Given) \o Net!Came(k)
      BY <1>1, <2>2, <2>3, <2>4
    <2> QED BY <1>1, <1>3, <2>1, <2>5
  <1>6. Net!IsPrefix(response.header \o (Net!Given \o GivenBy(r)), Net!Wire(response))
    <2>1. Net!Wire(response) \in Seq(Byte)
      BY <1>2, WireIs
    <2>2. pos' \in 0 .. Len(Net!Wire(response))
      BY <1>1, <2>1
    <2> QED BY <1>5, <2>1, <2>2, PrefixIs DEF CameTo
  <1>7. /\ NetShapes' /\ NetStages' /\ SocketRight' /\ RequestRight' /\ ResultsRight'
        /\ Net!IsPrefix(response.header \o Net!Given, Net!Wire(response))'
        /\ Net!Given' = Net!Given \o GivenBy(r)
    BY <1>0, <1>1, <1>2, <1>3, <1>4, <1>6, ReturnRight
  <1>8. ReadRight'
    <2>1. CameTo(pos') = CameTo(pos)'
      BY <1>0 DEF CameTo
    <2> QED BY <1>0, <1>4, <1>5, <1>7, <2>1 DEF ReadRight
  <1>9. ChunkRight'
    BY <1>0 DEF ChunkRight
  <1> QED BY <1>7, <1>8, <1>9 DEF NetInv

(* The end of the connection, in any read. *)
LEMMA EndsKeeps ==
    ASSUME NetInv, Net!NetworkAssumption, Net!Ends
    PROVE  NetInv'
  <1>0. /\ call \in {"headers", "chunk", "all"} \cup Net!Chunking /\ ended' = TRUE
        /\ UNCHANGED <<aborted, sent, accepted, response, pos, room, size>>
    BY DEF Net!Ends, Net!writing
  <1>1. /\ pos' \in Nat /\ pos' <= Len(Net!Wire(response)) /\ response \in Responses /\ room' \in Nat
        /\ size' \in [value : Nat, digits : Nat] /\ aborted' \in BOOLEAN /\ ended' \in BOOLEAN
        /\ buffer \in Seq(Byte) /\ stage \in {"sent", "body"}
    BY <1>0 DEF NetInv, NetShapes, NetStages, Net!Chunking
  <1>2. CASE call = "headers"
    <2>1. /\ Net!Returns("headers", buffer, FALSE, IF buffer = <<>> THEN "failed" ELSE "body")
          /\ UNCHANGED <<socket, closes>>
      BY <1>2 DEF Net!Ends
    <2>r. PICK r : r = [what |-> "headers", bytes |-> buffer, whole |-> FALSE]
      OBVIOUS
    <2>2. r \in Result /\ r.what = "headers" /\ r.whole = FALSE
      BY <1>1, <2>r DEF Result
    <2>3. results' = Append(results, r) /\ call' = "none" /\ stage' \in {"failed", "body"} /\ buffer' = <<>>
      BY <2>1, <2>r DEF Net!Returns
    <2>4. Net!IsPrefix(response.header \o (Net!Given \o GivenBy(r)), Net!Wire(response))
      BY <2>2, NothingGiven
    <2>5. /\ NetShapes' /\ NetStages' /\ SocketRight' /\ RequestRight' /\ ResultsRight'
          /\ Net!IsPrefix(response.header \o Net!Given, Net!Wire(response))'
      BY <1>0, <1>1, <1>2, <2>1, <2>2, <2>3, <2>4, ReturnRight
    <2>6. ReadRight'
      BY <1>0, <2>3, <2>5 DEF ReadRight
    <2>7. ChunkRight'
      BY <1>0 DEF ChunkRight
    <2> QED BY <2>5, <2>6, <2>7 DEF NetInv
  <1>3. CASE call = "all"
    <2>1. Net!Returns("all", buffer, TRUE, "over") /\ Net!CloseSocket
      BY <1>3 DEF Net!Ends, Net!AllReturns
    <2>r. PICK r : r = [what |-> "all", bytes |-> buffer, whole |-> TRUE]
      OBVIOUS
    <2>2. r \in Result /\ r.what = "all" /\ r.bytes = buffer
      BY <1>1, <2>r DEF Result
    <2>3. results' = Append(results, r) /\ call' = "none" /\ stage' = "over" /\ buffer' = <<>>
      BY <2>1, <2>r DEF Net!Returns
    <2>4. buffer = CameTo(pos')
      BY <1>0, <1>3 DEF NetInv, ReadRight
    <2> QED BY <1>0, <1>1, <1>3, <2>1, <2>2, <2>3, <2>4, LastReturn
  <1>4. CASE call \in {"chunk"} \cup Net!Chunking
    <2>1. Net!Returns(Net!Reading(call), <<>>, FALSE, "failed") /\ UNCHANGED <<socket, closes>>
      BY <1>4 DEF Net!Ends, Net!Chunking
    <2>w. PICK w : w = Net!Reading(call)
      OBVIOUS
    <2>2. w \in {"chunk", "chunked"} /\ call # "all" /\ call # "write"
      BY <1>4, <2>w DEF Net!Reading, Net!Chunking
    <2>r. PICK r : r = [what |-> w, bytes |-> <<>>, whole |-> FALSE]
      OBVIOUS
    <2>3. r \in Result /\ r.what = w /\ r.bytes = <<>> /\ r.whole = FALSE
      BY <2>2, <2>r DEF Result
    <2>4. results' = Append(results, r) /\ call' = "none" /\ stage' = "failed" /\ buffer' = <<>>
      BY <2>1, <2>w, <2>r DEF Net!Returns
    <2> QED BY <1>0, <1>1, <2>1, <2>2, <2>3, <2>4, LastReturn
  <1> QED BY <1>0, <1>2, <1>3, <1>4

LEMMA AbortKeeps ==
    ASSUME NetInv, Net!NetworkAssumption, Net!Abort
    PROVE  NetInv'
  <1>0. aborted' \in BOOLEAN
    BY DEF Net!Abort
  <1>c. call \in {"none", "write", "headers", "chunk", "all"} \cup Opening \cup Net!Chunking
    BY DEF NetInv, NetShapes
  <1>1. CASE call = "none"
    <2>1. UNCHANGED <<socket, closes, stage, call, sent, accepted, response, pos, ended, buffer, room, size, results>>
      BY <1>1 DEF Net!Abort, Net!writing, Net!reading
    <2> QED BY <1>0, <2>1, SignalKeeps
  <1>2. CASE call \in Opening
    <2>1. Net!OpenFails
      BY <1>2 DEF Net!Abort, Opening
    <2> QED BY <1>0, <1>2, <2>1, StopKeeps DEF Net!OpenFails, Net!writing, Net!reading
  <1>3. CASE call = "write"
    <2>1. Net!WriteFails
      BY <1>3 DEF Net!Abort
    <2> QED BY <1>0, <1>3, <2>1, StopKeeps DEF Net!WriteFails, Net!writing, Net!reading
  <1>4. CASE call \in {"headers", "chunk", "all"} \cup Net!Chunking
    <2>1. /\ pos \in Nat /\ pos <= Len(Net!Wire(response)) /\ response \in Responses /\ room \in Nat
          /\ size \in [value : Nat, digits : Nat] /\ ended \in BOOLEAN
          /\ stage \in {"sent", "body"} /\ call # "write"
      BY <1>4 DEF NetInv, NetShapes, NetStages, Net!Chunking
    <2>2. UNCHANGED <<sent, accepted, response, pos, ended, room, size>>
      BY <1>4 DEF Net!Abort, Net!writing, Net!Chunking
    <2>w. PICK w : w = IF call = "all" THEN "all" ELSE Net!Reading(call)
      OBVIOUS
    <2>3. w \in {"headers", "chunk", "all", "chunked"} /\ (w = "all" <=> call = "all")
      BY <1>4, <2>w DEF Net!Reading, Net!Chunking
    <2>4. /\ Net!Returns(w, <<>>, FALSE, IF call = "all" THEN "over" ELSE "failed")
          /\ IF call = "all" THEN Net!CloseSocket ELSE UNCHANGED <<socket, closes>>
      <3>1. CASE call = "all"
        BY <3>1, <2>w DEF Net!Abort, Net!AllReturns
      <3>2. CASE call # "all"
        BY <3>2, <1>4, <2>w DEF Net!Abort, Net!Chunking
      <3> QED BY <3>1, <3>2
    <2>r. PICK r : r = [what |-> w, bytes |-> <<>>, whole |-> FALSE]
      OBVIOUS
    <2>5. r \in Result /\ r.what = w /\ r.bytes = <<>> /\ r.whole = FALSE
      BY <2>3, <2>r DEF Result
    <2>6. /\ results' = Append(results, r) /\ call' = "none" /\ buffer' = <<>>
          /\ stage' \in {"failed", "over"} /\ (stage' = "over" <=> call = "all")
      BY <2>4, <2>r DEF Net!Returns
    <2>7. /\ room' \in Nat /\ size' \in [value : Nat, digits : Nat] /\ ended' \in BOOLEAN
          /\ pos' \in Nat /\ pos' <= Len(Net!Wire(response))
      BY <2>1, <2>2
    <2> QED BY <1>0, <2>1, <2>2, <2>3, <2>4, <2>5, <2>6, <2>7, LastReturn
  <1> QED BY <1>c, <1>1, <1>2, <1>3, <1>4

(* Where the bytes of a chunk are. *)
LEMMA EncodedIs ==
    ASSUME NEW c \in Net!ChunkShape
    PROVE  /\ Net!Encoded(c) \in Seq(Byte) /\ Rest(c) \in Seq(Byte)
           /\ {Len(c.digits), Len(c.extension), Len(c.line), Len(Rest(c)), Len(c.payload), Len(c.last)} \subseteq Nat
           /\ Len(Net!Encoded(c)) = Len(c.digits) + Len(c.extension) + Len(c.line) + Len(Rest(c))
           /\ \A j \in 1 .. Len(c.digits) : Net!Encoded(c)[j] = c.digits[j]
           /\ \A j \in 1 .. Len(c.extension) : Net!Encoded(c)[Len(c.digits) + j] = c.extension[j]
           /\ \A j \in 1 .. Len(c.line) : Net!Encoded(c)[Len(c.digits) + Len(c.extension) + j] = c.line[j]
           /\ \A j \in 1 .. Len(Rest(c)) :
                 Net!Encoded(c)[Len(c.digits) + Len(c.extension) + Len(c.line) + j] = Rest(c)[j]
           /\ Len(Rest(c)) = Len(c.payload) + Len(c.last)
           /\ \A j \in 1 .. Len(c.payload) : Rest(c)[j] = c.payload[j]
           /\ \A j \in 1 .. Len(c.last) : Rest(c)[Len(c.payload) + j] = c.last[j]
  <1>a. PICK a : a = c.digits
    OBVIOUS
  <1>b. PICK b : b = c.extension
    OBVIOUS
  <1>l. PICK l : l = c.line
    OBVIOUS
  <1>p. PICK p : p = c.payload
    OBVIOUS
  <1>z. PICK z : z = c.last
    OBVIOUS
  <1>1. a \in Seq(Byte) /\ b \in Seq(Byte) /\ l \in Seq(Byte) /\ p \in Seq(Byte) /\ z \in Seq(Byte)
    <2>1. a \in Seq(Byte \ {"CR", "semi"}) /\ b \in Seq(Byte) /\ l \in Seq(Byte) /\ p \in Seq(Byte) /\ z \in Seq(Byte)
      BY <1>a, <1>b, <1>l, <1>p, <1>z DEF Net!ChunkShape
    <2>2. Byte \ {"CR", "semi"} \subseteq Byte
      OBVIOUS
    <2>3. a \in Seq(Byte)
      BY ONLY <2>1, <2>2, SeqOver
    <2> QED BY <2>1, <2>3
  <1>ab. PICK ab : ab = a \o b
    OBVIOUS
  <1>abl. PICK abl : abl = ab \o l
    OBVIOUS
  <1>r. PICK r : r = p \o z
    OBVIOUS
  <1>e. PICK e : e = abl \o r
    OBVIOUS
  <1>2. /\ ab \in Seq(Byte) /\ Len(ab) = Len(a) + Len(b) /\ Len(a) \in Nat /\ Len(b) \in Nat
        /\ \A i \in 1 .. Len(a) : ab[i] = a[i]
        /\ \A i \in 1 .. Len(b) : ab[Len(a) + i] = b[i]
    BY ONLY <1>1, <1>ab, Joined
  <1>3. /\ abl \in Seq(Byte) /\ Len(abl) = Len(ab) + Len(l) /\ Len(ab) \in Nat /\ Len(l) \in Nat
        /\ \A i \in 1 .. Len(ab) : abl[i] = ab[i]
        /\ \A i \in 1 .. Len(l) : abl[Len(ab) + i] = l[i]
    <2>1. ab \in Seq(Byte) /\ l \in Seq(Byte)
      BY <1>1, <1>2
    <2> QED BY ONLY <2>1, <1>abl, Joined
  <1>4. /\ r \in Seq(Byte) /\ Len(r) = Len(p) + Len(z) /\ Len(p) \in Nat /\ Len(z) \in Nat
        /\ \A i \in 1 .. Len(p) : r[i] = p[i]
        /\ \A i \in 1 .. Len(z) : r[Len(p) + i] = z[i]
    BY ONLY <1>1, <1>r, Joined
  <1>5. /\ e \in Seq(Byte) /\ Len(e) = Len(abl) + Len(r) /\ Len(abl) \in Nat /\ Len(r) \in Nat
        /\ \A i \in 1 .. Len(abl) : e[i] = abl[i]
        /\ \A i \in 1 .. Len(r) : e[Len(abl) + i] = r[i]
    <2>1. abl \in Seq(Byte) /\ r \in Seq(Byte)
      BY <1>3, <1>4
    <2> QED BY ONLY <2>1, <1>e, Joined
  <1>6. Rest(c) = r
    BY <1>r, <1>p, <1>z DEF Rest
  <1>7. Net!Encoded(c) = e
    <2>1. \A t, u, v \in Seq(Byte) : (t \o u) \o v = t \o (u \o v)
      BY ConcatAssociative
    <2>2. (abl \o p) \o z = abl \o (p \o z)
      <3>1. abl \in Seq(Byte) /\ p \in Seq(Byte) /\ z \in Seq(Byte)
        BY <1>1, <1>3
      <3> QED BY ONLY <2>1, <3>1
    <2> QED BY <2>2, <1>a, <1>b, <1>l, <1>p, <1>z, <1>ab, <1>abl, <1>r, <1>e DEF Net!Encoded
  <1>8. Len(e) = Len(a) + Len(b) + Len(l) + Len(r) /\ Len(abl) = Len(a) + Len(b) + Len(l)
    BY ONLY <1>2, <1>3, <1>5
  <1>9. \A j \in 1 .. Len(a) : e[j] = a[j]
    <2> TAKE j \in 1 .. Len(a)
    <2>1. j \in 1 .. Len(ab) /\ j \in 1 .. Len(abl)
      BY <1>2, <1>3
    <2> QED BY <1>2, <1>3, <1>5, <2>1
  <1>10. \A j \in 1 .. Len(b) : e[Len(a) + j] = b[j]
    <2> TAKE j \in 1 .. Len(b)
    <2>1. Len(a) + j \in 1 .. Len(ab) /\ Len(a) + j \in 1 .. Len(abl)
      BY <1>2, <1>3
    <2> QED BY <1>2, <1>3, <1>5, <2>1
  <1>11. \A j \in 1 .. Len(l) : e[Len(a) + Len(b) + j] = l[j]
    <2> TAKE j \in 1 .. Len(l)
    <2>1. Len(ab) + j \in 1 .. Len(abl) /\ Len(ab) + j = Len(a) + Len(b) + j
      BY <1>2, <1>3
    <2> QED BY <1>3, <1>5, <2>1
  <1>12. \A j \in 1 .. Len(r) : e[Len(a) + Len(b) + Len(l) + j] = r[j]
    BY <1>5, <1>8
  <1> QED BY <1>a, <1>b, <1>l, <1>p, <1>z, <1>2, <1>3, <1>4, <1>5, <1>6, <1>7, <1>8, <1>9, <1>10, <1>11, <1>12

(* What the next byte of a size line can be. *)
LEMMA NextOfLine ==
    ASSUME NEW c \in Net!ChunkShape, Net!Framed(c), NEW q \in 0 .. Len(c.digits) + Len(c.extension)
    PROVE  /\ q + 1 <= Len(Net!Encoded(c))
           /\ q < Len(c.digits) =>
                 /\ Net!Encoded(c)[q + 1] = c.digits[q + 1]
                 /\ Net!Encoded(c)[q + 1] # "CR" /\ Net!Encoded(c)[q + 1] # "semi"
           /\ q = Len(c.digits) /\ Len(c.extension) > 0 => Net!Encoded(c)[q + 1] = "semi"
           /\ q > Len(c.digits) /\ q < Len(c.digits) + Len(c.extension) => Net!Encoded(c)[q + 1] # "CR"
           /\ q = Len(c.digits) + Len(c.extension) => Net!Encoded(c)[q + 1] = "CR"
  <1>e. PICK e : e = Net!Encoded(c)
    OBVIOUS
  <1>a. PICK a : a = c.digits
    OBVIOUS
  <1>b. PICK b : b = c.extension
    OBVIOUS
  <1>l. PICK l : l = c.line
    OBVIOUS
  <1>r. PICK r : r = Len(Rest(c))
    OBVIOUS
  <1>1. /\ Len(a) \in Nat /\ Len(b) \in Nat /\ Len(l) \in Nat /\ r \in Nat
        /\ Len(e) = Len(a) + Len(b) + Len(l) + r
        /\ \A j \in 1 .. Len(a) : e[j] = a[j]
        /\ \A j \in 1 .. Len(b) : e[Len(a) + j] = b[j]
        /\ \A j \in 1 .. Len(l) : e[Len(a) + Len(b) + j] = l[j]
    BY <1>e, <1>a, <1>b, <1>l, <1>r, EncodedIs
  <1>2. /\ a \in Seq(Byte \ {"CR", "semi"}) /\ b \in Seq(Byte)
    BY <1>a, <1>b DEF Net!ChunkShape
  <1>3. /\ b = <<>> \/ (b[1] = "semi" /\ \A i \in DOMAIN b : b[i] # "CR")
        /\ Len(l) = 2 /\ l[1] = "CR"
    BY <1>b, <1>l DEF Net!Framed
  <1>q. q \in 0 .. Len(a) + Len(b)
    BY <1>a, <1>b
  <1>m. PICK m : m = Len(a)
    OBVIOUS
  <1>n. PICK n : n = Len(b)
    OBVIOUS
  <1>9. m \in Nat /\ n \in Nat /\ q \in Nat /\ q <= m + n /\ Len(e) = m + n + 2 + r /\ r \in Nat
    <2>1. m \in Nat /\ n \in Nat /\ Len(e) = m + n + 2 + r
      BY <1>1, <1>3, <1>m, <1>n
    <2>2. q \in 0 .. m + n
      BY <1>q, <1>m, <1>n
    <2>3. q \in Nat /\ q <= m + n
      BY ONLY <2>1, <2>2
    <2> QED BY <1>1, <2>1, <2>3
  <1>4. q + 1 <= Len(e)
    BY ONLY <1>9
  <1>5. q < Len(a) => e[q + 1] = a[q + 1] /\ e[q + 1] # "CR" /\ e[q + 1] # "semi"
    <2> HAVE q < Len(a)
    <2>1. q + 1 \in 1 .. Len(a)
      BY <1>m, <1>9
    <2>t. PICK T : T = Byte \ {"CR", "semi"}
      OBVIOUS
    <2>2. a \in Seq(T)
      BY <1>2, <2>t
    <2>3. a[q + 1] \in T
      BY ONLY <2>1, <2>2
    <2> QED BY <1>1, <2>1, <2>t, <2>3
  <1>6. q = Len(a) /\ Len(b) > 0 => e[q + 1] = "semi"
    <2> HAVE q = Len(a) /\ Len(b) > 0
    <2>1. b # <<>> /\ 1 \in 1 .. Len(b)
      BY <1>1
    <2> QED BY <1>1, <1>3, <2>1
  <1>7. q > Len(a) /\ q < Len(a) + Len(b) => e[q + 1] # "CR"
    <2> HAVE q > Len(a) /\ q < Len(a) + Len(b)
    <2>1. PICK j : j = q + 1 - Len(a)
      OBVIOUS
    <2>2. j \in 1 .. Len(b) /\ Len(a) + j = q + 1 /\ Len(b) > 0
      BY <1>m, <1>n, <1>9, <2>1
    <2>3. j \in DOMAIN b
      <3>1. b \in Seq(Byte)
        BY <1>2
      <3> QED BY ONLY <2>2, <3>1
    <2>4. b # <<>>
      BY <2>2
    <2> QED BY <1>1, <1>3, <2>2, <2>3, <2>4
  <1>8. q = Len(a) + Len(b) => e[q + 1] = "CR"
    <2> HAVE q = Len(a) + Len(b)
    <2>1. 1 \in 1 .. Len(l)
      <3>1. 1 \in 1 .. 2
        OBVIOUS
      <3> QED BY <1>3, <3>1
    <2> QED BY <1>1, <1>3, <2>1
  <1> QED BY <1>e, <1>a, <1>b, <1>4, <1>5, <1>6, <1>7, <1>8

(* What a wrong chunk means. *)
LEMMA WrongIs ==
    ASSUME NEW c \in Net!ChunkShape, ~Net!Sound(c) \/ Number(c) = 0
    PROVE  Net!Meaning(c) = <<>>
  <1>1. c.payload \in Seq(Byte)
    BY DEF Net!ChunkShape
  <1>2. Net!Sound(c) => Number(c) = Len(c.payload)
    BY DEF Net!Sound, Number
  <1>3. Net!Sound(c) => c.payload = <<>>
    <2> HAVE Net!Sound(c)
    <2>p. PICK p : p = c.payload
      OBVIOUS
    <2>1. p \in Seq(Byte) /\ Len(p) = 0
      BY <1>1, <1>2, <2>p
    <2>2. p = <<>>
      BY ONLY <2>1, NoneIsEmpty
    <2> QED BY <2>p, <2>2
  <1> QED BY <1>3 DEF Net!Meaning

(* A call within a chunk, and the bytes that come. *)
LEMMA InChunk ==
    ASSUME NetInv, Net!NetworkAssumption, call \in Net!Chunking,
           NEW k \in Nat, k > 0, Net!Arrive(k)
    PROVE  LET i == Len(results)
               c == response.parts[i]
               q == pos - Start(response)[i - 1]
           IN  /\ stage = "body" /\ response.chunked /\ response \in Responses /\ ended = FALSE
               /\ i \in 1 .. Len(response.parts) /\ Len(response.parts) \in Nat
               /\ c \in Net!ChunkShape /\ Net!Framed(c)
               /\ q \in Nat /\ Within(c, q)
               /\ Start(response)[i - 1] \in Nat /\ pos = Start(response)[i - 1] + q
               /\ Net!Came(k) \in Seq(Byte) /\ Len(Net!Came(k)) = k
               /\ pos' = pos + k /\ pos' \in Nat /\ pos' <= Len(Net!Wire(response))
               /\ \A j \in 1 .. k : q + j <= Len(Net!Encoded(c)) => Net!Came(k)[j] = Net!Encoded(c)[q + j]
               /\ Start(response)[i] = Start(response)[i - 1] + Len(Net!Encoded(c))
  <1>0. stage = "body" /\ response.chunked /\ response \in Responses /\ pos \in Nat
    BY DEF NetInv, NetStages, NetShapes, Net!Chunking
  <1>1. /\ ended = FALSE /\ pos' = pos + k /\ pos' \in Nat /\ pos' <= Len(Net!Wire(response))
        /\ Net!Came(k) \in Seq(Byte) /\ Len(Net!Came(k)) = k
        /\ \A j \in 1 .. k : Net!Came(k)[j] = Net!Wire(response)[pos + j]
    BY CameIs
  <1>i. PICK i : i = Len(results)
    OBVIOUS
  <1>n. PICK n : n = Len(response.parts)
    OBVIOUS
  <1>s. PICK s : s = Start(response)[i - 1]
    OBVIOUS
  <1>c. PICK c : c = response.parts[i]
    OBVIOUS
  <1>q. PICK q : q = pos - s
    OBVIOUS
  <1>2. /\ i \in 1 .. n + 1 /\ pos >= s
        /\ i = n + 1 => pos = Len(Net!Wire(response))
        /\ i <= n => Within(c, q)
    BY <1>0, <1>1, <1>i, <1>n, <1>s, <1>c, <1>q DEF NetInv, ChunkRight
  <1>3. n \in Nat /\ Len(Net!Wire(response)) \in Nat
    <2>1. Net!Wire(response) \in Seq(Byte)
      BY <1>0, WireIs
    <2> QED BY <1>0, <1>n, <2>1, PieceTyped
  <1>4. i \in 1 .. n /\ i - 1 \in 0 .. n
    <2>1. i # n + 1
      BY <1>0, <1>1, <1>2, <1>3
    <2> QED BY <1>2, <1>3, <2>1
  <1>5. c \in Net!ChunkShape /\ Net!Framed(c)
    BY <1>0, <1>c, <1>n, <1>4, PieceTyped
  <1>6. s \in Nat
    BY <1>0, <1>n, <1>s, <1>4, StartIs
  <1>7. q \in Nat /\ pos = s + q
    BY <1>0, <1>2, <1>6, <1>q
  <1>8. Net!Piece(response, i) = Net!Encoded(c)
    BY <1>0, <1>c DEF Net!Piece
  <1>9. Start(response)[i] = s + Len(Net!Encoded(c))
    BY <1>0, <1>n, <1>s, <1>4, <1>8, StartIs
  <1>10. \A j \in 1 .. k : q + j <= Len(Net!Encoded(c)) => Net!Came(k)[j] = Net!Encoded(c)[q + j]
    <2> TAKE j \in 1 .. k
    <2> HAVE q + j <= Len(Net!Encoded(c))
    <2>1. Len(Net!Encoded(c)) \in Nat
      <3>1. Net!Encoded(c) \in Seq(Byte)
        BY <1>5, EncodedIs
      <3> QED BY <3>1
    <2>2. q + j \in 1 .. Len(Net!Encoded(c)) /\ pos + j = s + (q + j)
      BY <1>6, <1>7, <2>1
    <2>3. Net!Wire(response)[s + (q + j)] = Net!Encoded(c)[q + j]
      BY <1>0, <1>n, <1>s, <1>4, <1>8, <2>2, WireIs
    <2> QED BY <1>1, <2>2, <2>3
  <1> QED BY <1>0, <1>1, <1>i, <1>n, <1>s, <1>c, <1>q, <1>2, <1>3, <1>4, <1>5, <1>6, <1>7, <1>9, <1>10

(* A call that goes on within a chunk. *)
LEMMA GoesOnInChunk ==
    ASSUME NetInv, Net!NetworkAssumption, call \in Net!Chunking,
           NEW k \in Nat, k > 0, Net!Arrive(k), call' \in Net!Chunking,
           UNCHANGED <<stage, results, socket, closes, aborted, ended, sent, accepted, response>>,
           buffer' \in Seq(Byte), room' \in Nat, size' \in [value : Nat, digits : Nat],
           NEW c, c = response.parts[Len(results)],
           NEW q, q = pos - Start(response)[Len(results) - 1],
           Within(c, q + k)'
    PROVE  NetInv'
  <1>1. /\ stage = "body" /\ response.chunked /\ response \in Responses
        /\ Len(results) \in 1 .. Len(response.parts) /\ Len(response.parts) \in Nat
        /\ q \in Nat /\ Start(response)[Len(results) - 1] \in Nat
        /\ pos = Start(response)[Len(results) - 1] + q
        /\ pos' = pos + k /\ pos' \in Nat /\ pos' <= Len(Net!Wire(response))
    BY InChunk
  <1>2. /\ NetShapes' /\ NetStages' /\ SocketRight' /\ RequestRight' /\ ResultsRight'
        /\ Net!IsPrefix(response.header \o Net!Given, Net!Wire(response))'
    BY <1>1, GoesOnRight DEF Net!Chunking
  <1>3. ReadRight'
    BY <1>1, <1>2 DEF ReadRight, Net!Chunking
  <1>4. ChunkRight'
    <2>s. PICK s : s = Start(response)[Len(results) - 1]
      OBVIOUS
    <2>i. PICK i : i = Len(results)
      OBVIOUS
    <2>n. PICK n : n = Len(response.parts)
      OBVIOUS
    <2>0. i \in 1 .. n /\ n \in Nat /\ q \in Nat /\ s \in Nat /\ k \in Nat /\ pos' = (s + q) + k
      BY <1>1, <2>s, <2>i, <2>n
    <2>1. i \in 1 .. n + 1 /\ i # n + 1 /\ pos' >= s /\ pos' - s = q + k
      BY ONLY <2>0
    <2>2. call' # "none"
      BY DEF Net!Chunking
    <2>3. /\ Len(results)' = i /\ Len(response.parts)' = n /\ Start(response)[Len(results) - 1]' = s
          /\ response.parts[Len(results)]' = c
      BY <2>s, <2>i, <2>n
    <2>4. Within(response.parts[Len(results)], pos - Start(response)[Len(results) - 1])'
      BY <2>1, <2>3
    <2> QED BY <2>1, <2>2, <2>3, <2>4 DEF ChunkRight
  <1> QED BY <1>2, <1>3, <1>4 DEF NetInv

(* A call that finds its chunk wrong, or the last. *)
LEMMA GivesUp ==
    ASSUME NetInv, Net!NetworkAssumption, call \in Net!Chunking,
           NEW k \in Nat, k > 0, Net!Arrive(k),
           Net!Returns("chunked", <<>>, TRUE, "failed"),
           UNCHANGED <<socket, closes, aborted, ended, sent, accepted, response, size>>, room' \in Nat,
           Net!Meaning(response.parts[Len(results)]) = <<>>
    PROVE  NetInv'
  <1>1. stage = "body" /\ pos' \in Nat /\ pos' <= Len(Net!Wire(response))
    BY InChunk
  <1>2. /\ size' \in [value : Nat, digits : Nat] /\ aborted' \in BOOLEAN /\ ended' \in BOOLEAN
    BY DEF NetInv, NetShapes
  <1>r. PICK r : r = [what |-> "chunked", bytes |-> <<>>, whole |-> TRUE]
    OBVIOUS
  <1>3. r \in Result /\ r.what = "chunked" /\ r.bytes = <<>> /\ r.whole = TRUE
    BY <1>r DEF Result
  <1>4. results' = Append(results, r) /\ call' = "none" /\ stage' = "failed" /\ buffer' = <<>>
    BY <1>r DEF Net!Returns
  <1>5. call # "all" /\ call # "write"
    BY DEF Net!Chunking
  <1> QED BY <1>1, <1>2, <1>3, <1>4, <1>5, LastReturn

(* A byte of the size line. *)
LEMMA SizeByteKeeps ==
    ASSUME NetInv, Net!NetworkAssumption, Net!SizeByte
    PROVE  NetInv'
  <1>0. /\ call \in {"size", "extension"} /\ call \in Net!Chunking /\ Net!Arrive(1) /\ Net!SizeLine(Net!Came(1)[1])
        /\ UNCHANGED <<socket, closes, aborted, sent, accepted, response, ended, room>>
    BY DEF Net!SizeByte, Net!writing, Net!Chunking
  <1>z. "CR" \notin DOMAIN Net!Digit /\ "semi" \notin DOMAIN Net!Digit
    BY DEF Net!Digit
  <1>c. PICK c : c = response.parts[Len(results)]
    OBVIOUS
  <1>q. PICK q : q = pos - Start(response)[Len(results) - 1]
    OBVIOUS
  <1>b. PICK b : b = Net!Came(1)[1]
    OBVIOUS
  <1>1. /\ c \in Net!ChunkShape /\ Net!Framed(c) /\ q \in Nat /\ Within(c, q)
        /\ Net!Came(1) \in Seq(Byte)
        /\ q + 1 <= Len(Net!Encoded(c)) => b = Net!Encoded(c)[q + 1]
    <2>1. 1 \in Nat /\ 1 > 0 /\ 1 \in 1 .. 1
      OBVIOUS
    <2>2. /\ c \in Net!ChunkShape /\ Net!Framed(c) /\ q \in Nat /\ Within(c, q)
          /\ Net!Came(1) \in Seq(Byte)
          /\ \A j \in 1 .. 1 : q + j <= Len(Net!Encoded(c)) => Net!Came(1)[j] = Net!Encoded(c)[q + j]
      BY <1>0, <1>c, <1>q, <2>1, InChunk
    <2> QED BY <1>b, <2>1, <2>2
  <1>d. PICK d : d = Len(c.digits)
    OBVIOUS
  <1>x. PICK x : x = Len(c.extension)
    OBVIOUS
  <1>2. /\ d \in Nat /\ x \in Nat
    BY <1>1, <1>d, <1>x, EncodedIs
  <1>T. PICK T : T = Byte \ {"CR", "semi"}
    OBVIOUS
  <1>s. PICK ds : ds = c.digits
    OBVIOUS
  <1>3. ds \in Seq(T) /\ Len(ds) = d /\ DOMAIN ds = 1 .. d
    <2>1. ds \in Seq(T)
      BY <1>1, <1>T, <1>s DEF Net!ChunkShape
    <2>2. DOMAIN ds = 1 .. Len(ds)
      BY ONLY <2>1
    <2> QED BY <2>1, <2>2, <1>d, <1>s
  <1>4. /\ q <= d + x
        /\ call = "size" => q <= d
        /\ call = "extension" => d < q
    <2>1. call = "size" => q <= d
      BY <1>1, <1>d DEF Within, InSize
    <2>2. call = "extension" => d < q /\ q <= d + x
      BY <1>1, <1>d, <1>x DEF Within, InExtension
    <2>3. call = "size" \/ call = "extension"
      BY <1>0
    <2>4. q <= d => q <= d + x
      <3>1. q \in Nat
        BY <1>1
      <3> QED BY ONLY <1>2, <3>1
    <2> QED BY ONLY <2>1, <2>2, <2>3, <2>4
  <1>5. /\ q < d => b = ds[q + 1] /\ b # "CR" /\ b # "semi"
        /\ q = d /\ x > 0 => b = "semi"
        /\ q > d /\ q < d + x => b # "CR"
        /\ q = d + x => b = "CR"
    <2>1. q \in 0 .. d + x
      BY <1>1, <1>2, <1>4
    <2>2. q \in 0 .. Len(c.digits) + Len(c.extension)
      BY <2>1, <1>d, <1>x
    <2>3. /\ q + 1 <= Len(Net!Encoded(c))
          /\ q < Len(c.digits) =>
                 /\ Net!Encoded(c)[q + 1] = c.digits[q + 1]
                 /\ Net!Encoded(c)[q + 1] # "CR" /\ Net!Encoded(c)[q + 1] # "semi"
          /\ q = Len(c.digits) /\ Len(c.extension) > 0 => Net!Encoded(c)[q + 1] = "semi"
          /\ q > Len(c.digits) /\ q < Len(c.digits) + Len(c.extension) => Net!Encoded(c)[q + 1] # "CR"
          /\ q = Len(c.digits) + Len(c.extension) => Net!Encoded(c)[q + 1] = "CR"
      BY <1>1, <2>2, NextOfLine
    <2> QED BY <1>1, <1>d, <1>x, <1>s, <2>3
  <1>6. room' \in Nat /\ size \in [value : Nat, digits : Nat] /\ size.value \in Nat /\ size.digits \in Nat
        /\ stage = "body"
    BY <1>0 DEF NetInv, NetShapes, NetStages
  <1>7. 1 \in Nat /\ 1 > 0 /\ <<>> \in Seq(Byte)
    OBVIOUS
  <1>8. Number(c) = Net!Value(ds, d)
    BY <1>s, <1>d DEF Number
  <1>9. /\ call = "size" => /\ size.digits = q /\ size.value = Net!Value(ds, q)
                            /\ \A j \in 1 .. q : ds[j] \in DOMAIN Net!Digit
                            /\ size.value <= ChunkLimit
        /\ call = "extension" => SizeRead(c)
    BY <1>0, <1>1, <1>s DEF Within, InSize, InExtension
  <1>10. call = "size" /\ q = d => SizeRead(c)
    BY <1>3, <1>8, <1>9, <1>s, <1>d DEF SizeRead
  <1>e. ASSUME Net!Empty, ~Net!Numeral(ds) \/ ~(Net!Value(ds, d) <= ChunkLimit)
        PROVE  NetInv'
    <2>1. ~Net!Sound(c)
      <3>1. Net!Sound(c) => Net!Numeral(ds) /\ Net!Value(ds, d) = Len(c.payload) /\ Len(c.payload) <= ChunkLimit
        BY <1>s, <1>d DEF Net!Sound
      <3> QED BY <1>e, <3>1
    <2>2. Net!Meaning(response.parts[Len(results)]) = <<>>
      BY <1>1, <1>c, <2>1, WrongIs
    <2>3. Net!Returns("chunked", <<>>, TRUE, "failed") /\ size' = size
      BY <1>e DEF Net!Empty
    <2> QED BY <1>0, <1>6, <1>7, <2>2, <2>3, GivesUp
  <1>g. ASSUME NEW place, place \in Net!Chunking, Net!Continue(place, <<>>),
               size' \in [value : Nat, digits : Nat], Within(c, q + 1)'
        PROVE  NetInv'
    <2>1. /\ call' \in Net!Chunking /\ buffer' \in Seq(Byte)
          /\ UNCHANGED <<stage, results>>
      BY <1>g, <1>7 DEF Net!Continue
    <2> QED BY <1>0, <1>6, <1>7, <1>c, <1>q, <1>g, <2>1, GoesOnInChunk
  <1>11. CASE b = "CR" /\ size.digits > 0
    <2>1. Net!Continue("lf", <<>>) /\ size' = size
      BY <1>0, <1>b, <1>z, <1>11 DEF Net!SizeLine
    <2>2. q = d + x
      BY <1>1, <1>2, <1>4, <1>5, <1>11
    <2>3. SizeRead(c)
      BY <1>0, <1>2, <1>4, <1>9, <1>10, <2>2
    <2>4. c.digits # <<>>
      <3>1. d # 0
        BY <1>11, <1>d, <2>3 DEF SizeRead
      <3>2. Len(<<>>) = 0
        OBVIOUS
      <3> QED BY <1>d, <3>1, <3>2
    <2>5. AtLF(c, q + 1)
      BY <1>d, <1>x, <2>2, <2>3, <2>4 DEF AtLF
    <2>6. Within(c, q + 1)'
      <3>1. call' = "lf"
        BY <2>1 DEF Net!Continue
      <3>2. AtLF(c, q + 1)'
        BY <2>1, <2>5 DEF AtLF, SizeRead
      <3> QED BY <3>1, <3>2 DEF Within
    <2> QED BY <1>6, <1>g, <2>1, <2>6 DEF Net!Chunking
  <1>12. CASE b # "CR" /\ call = "extension"
    <2>1. Net!Continue("extension", <<>>) /\ size' = size
      BY <1>0, <1>b, <1>12 DEF Net!SizeLine
    <2>2. d < q + 1 /\ q + 1 <= d + x
      BY <1>1, <1>2, <1>4, <1>5, <1>12
    <2>6. Within(c, q + 1)'
      <3>1. call' = "extension"
        BY <2>1 DEF Net!Continue
      <3>2. SizeRead(c)'
        BY <1>9, <1>12, <2>1 DEF SizeRead
      <3>3. InExtension(c, q + 1)'
        BY <1>d, <1>x, <2>2, <3>2 DEF InExtension
      <3> QED BY <3>1, <3>3 DEF Within
    <2> QED BY <1>6, <1>g, <2>1, <2>6 DEF Net!Chunking
  <1>13. CASE b = "semi" /\ call = "size"
    <2>1. Net!Continue("extension", <<>>) /\ size' = size
      BY <1>0, <1>b, <1>z, <1>13 DEF Net!SizeLine
    <2>2. q = d /\ d < q + 1 /\ q + 1 <= d + x
      BY <1>1, <1>2, <1>4, <1>5, <1>13
    <2>6. Within(c, q + 1)'
      <3>1. call' = "extension"
        BY <2>1 DEF Net!Continue
      <3>2. SizeRead(c)'
        BY <1>10, <1>13, <2>1, <2>2 DEF SizeRead
      <3>3. InExtension(c, q + 1)'
        BY <1>d, <1>x, <2>2, <3>2 DEF InExtension
      <3> QED BY <3>1, <3>3 DEF Within
    <2> QED BY <1>6, <1>g, <2>1, <2>6 DEF Net!Chunking
  <1>14. CASE call = "size" /\ b \in DOMAIN Net!Digit
    <2>0. b # "CR" /\ b # "semi"
      BY <1>14 DEF Net!Digit
    <2>1. q < d /\ b = ds[q + 1] /\ q + 1 \in 1 .. d /\ q + 1 \in 0 .. d
      <3>1. q # d
        BY <1>2, <1>5, <2>0
      <3>2. q < d
        BY <1>1, <1>2, <1>4, <1>14, <3>1
      <3> QED BY <1>1, <1>2, <1>5, <3>2
    <2>v. PICK v : v = 16 * size.value + Net!Digit[b]
      OBVIOUS
    <2>2. v = Net!Value(ds, q + 1) /\ v \in Nat
      <3>1. Net!DigitValue(ds[q + 1]) = Net!Digit[b]
        BY <1>14, <2>1 DEF Net!DigitValue
      <3>2. (q + 1) - 1 = q
        BY <1>1
      <3>3. /\ \A j \in 0 .. Len(ds) : Net!Value(ds, j) \in Nat
            /\ \A j \in 1 .. Len(ds) : Net!Value(ds, j) = 16 * Net!Value(ds, j - 1) + Net!DigitValue(ds[j])
        <4>1. ds \in Seq(T)
          BY <1>3
        <4> QED BY ONLY <4>1, ValueIs
      <3>4. Net!Value(ds, q + 1) \in Nat /\ Net!Value(ds, q + 1) = 16 * Net!Value(ds, q) + Net!DigitValue(ds[q + 1])
        BY <1>3, <2>1, <3>2, <3>3
      <3> QED BY <1>9, <1>14, <2>v, <3>1, <3>4
    <2>3. CASE v <= ChunkLimit
      <3>1. Net!Continue("size", <<>>) /\ size' = [value |-> v, digits |-> size.digits + 1]
        BY <1>0, <1>b, <1>14, <2>0, <2>v, <2>3 DEF Net!SizeLine
      <3>2. size' \in [value : Nat, digits : Nat] /\ size'.value = v /\ size'.digits = q + 1
        BY <1>6, <1>9, <1>14, <2>2, <3>1
      <3>3. \A j \in 1 .. q + 1 : ds[j] \in DOMAIN Net!Digit
        <4> TAKE j \in 1 .. q + 1
        <4>1. j \in 1 .. q \/ j = q + 1
          BY <1>1
        <4> QED BY <1>9, <1>14, <2>1, <4>1
      <3>4. InSize(c, q + 1)'
        <4>1. q + 1 <= d
          BY <1>1, <1>2, <2>1
        <4> QED BY <1>d, <1>s, <2>2, <2>3, <3>2, <3>3, <4>1 DEF InSize
      <3>5. call' = "size"
        BY <3>1 DEF Net!Continue
      <3>6. Within(c, q + 1)'
        BY <3>4, <3>5 DEF Within
      <3> QED BY <1>g, <3>1, <3>2, <3>6 DEF Net!Chunking
    <2>4. CASE ~(v <= ChunkLimit)
      <3>1. Net!Empty
        BY <1>0, <1>b, <1>14, <2>0, <2>v, <2>4 DEF Net!SizeLine
      <3>2. Net!Value(ds, q + 1) <= Net!Value(ds, d)
        <4>1. q + 1 \in 0 .. Len(ds) /\ ds \in Seq(T)
          BY <1>3, <2>1
        <4>2. Net!Value(ds, q + 1) <= Net!Value(ds, Len(ds))
          BY ONLY <4>1, ValueGrows
        <4> QED BY <1>3, <4>2
      <3>3. ~(Net!Value(ds, d) <= ChunkLimit)
        <4>1. ChunkLimit \in Nat
          BY DEF Net!NetworkAssumption
        <4>2. Net!Value(ds, d) \in Nat
          <5>1. ds \in Seq(T) /\ d \in 0 .. Len(ds)
            BY <1>2, <1>3
          <5> QED BY <5>1, ValueIs
        <4> QED BY <2>2, <2>4, <3>2, <4>1, <4>2
      <3> QED BY <1>e, <3>1, <3>3
    <2> QED BY <2>3, <2>4
  <1>15. CASE ~(size.digits > 0) /\ b = "CR"
    <2>1. Net!Empty
      BY <1>0, <1>b, <1>15 DEF Net!SizeLine, Net!Digit
    <2>2. q = d + x
      BY <1>1, <1>2, <1>4, <1>5, <1>15
    <2>3. SizeRead(c)
      BY <1>0, <1>2, <1>4, <1>9, <1>10, <2>2
    <2>4. ds = <<>>
      <3>1. Len(ds) = 0
        BY <1>3, <1>6, <1>15, <1>d, <2>3 DEF SizeRead
      <3>2. ds \in Seq(T)
        BY <1>3
      <3> QED BY ONLY <3>1, <3>2, NoneIsEmpty
    <2> QED BY <1>e, <2>1, <2>4 DEF Net!Numeral
  <1>16. CASE call = "size" /\ b # "CR" /\ b # "semi" /\ b \notin DOMAIN Net!Digit
    <2>1. Net!Empty
      BY <1>0, <1>b, <1>16 DEF Net!SizeLine
    <2>2. q < d /\ q + 1 \in DOMAIN ds /\ b = ds[q + 1]
      <3>1. q # d
        BY <1>2, <1>5, <1>16
      <3>2. q < d
        BY <1>1, <1>2, <1>4, <1>16, <3>1
      <3>3. q + 1 \in 1 .. d
        BY <1>1, <1>2, <3>2
      <3> QED BY <1>3, <1>5, <3>2, <3>3
    <2>3. ~Net!Numeral(ds)
      BY <1>16, <2>2 DEF Net!Numeral
    <2> QED BY <1>e, <2>1, <2>3
  <1> QED BY <1>0, <1>11, <1>12, <1>13, <1>14, <1>15, <1>16

(* The end of the size line. *)
LEMMA SizeLFKeeps ==
    ASSUME NetInv, Net!NetworkAssumption, Net!SizeLF
    PROVE  NetInv'
  <1>0. /\ call = "lf" /\ call \in Net!Chunking /\ Net!Arrive(1) /\ room' = size.value
        /\ UNCHANGED <<socket, closes, aborted, sent, accepted, response, ended>>
    BY DEF Net!SizeLF, Net!writing, Net!Chunking
  <1>c. PICK c : c = response.parts[Len(results)]
    OBVIOUS
  <1>q. PICK q : q = pos - Start(response)[Len(results) - 1]
    OBVIOUS
  <1>o. PICK o : o = Net!Came(1)
    OBVIOUS
  <1>7. 1 \in Nat /\ 1 > 0 /\ 1 \in 1 .. 1 /\ <<>> \in Seq(Byte) /\ Len(<<>>) = 0
    OBVIOUS
  <1>1. /\ c \in Net!ChunkShape /\ Net!Framed(c) /\ q \in Nat /\ Within(c, q)
        /\ o \in Seq(Byte) /\ Len(o) = 1
        /\ q + 1 <= Len(Net!Encoded(c)) => o[1] = Net!Encoded(c)[q + 1]
    <2>2. /\ c \in Net!ChunkShape /\ Net!Framed(c) /\ q \in Nat /\ Within(c, q)
          /\ Net!Came(1) \in Seq(Byte) /\ Len(Net!Came(1)) = 1
          /\ \A j \in 1 .. 1 : q + j <= Len(Net!Encoded(c)) => Net!Came(1)[j] = Net!Encoded(c)[q + j]
      <3>1. 1 \in Nat /\ 1 > 0
        OBVIOUS
      <3> QED BY <1>0, <1>c, <1>q, <3>1, InChunk
    <2> QED BY <1>o, <1>7, <2>2
  <1>2. AtLF(c, q)
    BY <1>0, <1>1 DEF Within
  <1>l. PICK l : l = c.line
    OBVIOUS
  <1>d. PICK d : d = Len(c.digits)
    OBVIOUS
  <1>x. PICK x : x = Len(c.extension)
    OBVIOUS
  <1>3. l \in Seq(Byte) /\ Len(l) = 2 /\ l[1] = "CR"
    BY <1>1, <1>l DEF Net!ChunkShape, Net!Framed
  <1>4. q = d + x + 1 /\ d \in Nat /\ x \in Nat
    BY <1>1, <1>2, <1>d, <1>x, EncodedIs DEF AtLF
  <1>5. o[1] = l[2]
    <2>1. /\ 2 \in 1 .. Len(l) /\ q + 1 = d + x + 2
      <3>1. 2 \in 1 .. 2
        OBVIOUS
      <3>2. q + 1 = d + x + 2
        BY ONLY <1>4
      <3> QED BY <1>3, <3>1, <3>2
    <2>2. /\ Net!Encoded(c)[d + x + 2] = l[2]
      BY <1>1, <1>d, <1>x, <1>l, <2>1, EncodedIs
    <2>3. q + 1 <= Len(Net!Encoded(c))
      <3>r. PICK r : r = Len(Rest(c))
        OBVIOUS
      <3>1. Len(Net!Encoded(c)) = d + x + Len(l) + r /\ r \in Nat
        BY <1>1, <1>d, <1>x, <1>l, <3>r, EncodedIs
      <3>2. Len(Net!Encoded(c)) = d + x + 2 + r
        BY <1>3, <3>1
      <3> QED BY ONLY <1>4, <3>1, <3>2
    <2> QED BY <1>1, <2>1, <2>2, <2>3
  <1>6. o = <<"LF">> <=> l = Net!CRLF
    <2>1. o = <<"LF">> <=> o[1] = "LF"
      <3>1. o[1] = "LF" => o = <<"LF">>
        BY <1>1
      <3>2. <<"LF">>[1] = "LF"
        OBVIOUS
      <3> QED BY <3>1, <3>2
    <2>2. l = Net!CRLF <=> l[2] = "LF"
      <3>1. l[2] = "LF" => l = Net!CRLF
        <4>1. l[2] = "LF" => l = <<"CR", "LF">>
          BY <1>3
        <4> QED BY <4>1 DEF Net!CRLF
      <3>2. Net!CRLF[2] = "LF"
        BY DEF Net!CRLF
      <3> QED BY <3>1, <3>2
    <2> QED BY <1>5, <2>1, <2>2
  <1>8. size \in [value : Nat, digits : Nat] /\ size.value \in Nat /\ room' \in Nat
    BY <1>0 DEF NetInv, NetShapes
  <1>9. CASE o = <<"LF">> /\ size.value > 0
    <2>1. Net!Continue("payload", <<>>) /\ size' = size
      BY <1>9, <1>o DEF Net!SizeLF
    <2>2. call' = "payload" /\ buffer' = <<>> /\ UNCHANGED <<stage, results>>
      BY <2>1 DEF Net!Continue
    <2>3. SizeRead(c)'
      BY <1>2, <2>1 DEF AtLF, SizeRead
    <2>4. \A s : SubSeq(s, 1, 0) = <<>>
      OBVIOUS
    <2>5. q + 1 = d + x + 2 + 0 /\ 0 < size.value + 2
      BY <1>4, <1>8
    <2>6. InBody(c, q + 1)'
      <3>1. Len(buffer') = 0 /\ buffer' = SubSeq(Rest(c), 1, 0)
        BY <1>7, <2>2, <2>4
      <3>2. c.digits # <<>> /\ c.line = Net!CRLF
        BY <1>2, <1>6, <1>9, <1>l DEF AtLF
      <3>3. q + 1 = Len(c.digits) + Len(c.extension) + 2 + Len(buffer')
        BY <1>d, <1>x, <2>5, <3>1
      <3> QED BY <1>0, <1>9, <2>1, <2>2, <2>3, <2>5, <3>1, <3>2, <3>3 DEF InBody, Rest
    <2>7. Within(c, q + 1)'
      BY <2>2, <2>6 DEF Within
    <2>8. call' \in Net!Chunking /\ buffer' \in Seq(Byte) /\ size' \in [value : Nat, digits : Nat]
      BY <1>7, <1>8, <2>1, <2>2 DEF Net!Chunking
    <2> QED BY <1>0, <1>7, <1>8, <1>c, <1>q, <2>2, <2>7, <2>8, GoesOnInChunk
  <1>10. CASE ~(o = <<"LF">> /\ size.value > 0)
    <2>1. Net!Empty
      BY <1>10, <1>o DEF Net!SizeLF
    <2>2. Number(c) = size.value
      BY <1>2 DEF AtLF, SizeRead
    <2>3. ~Net!Sound(c) \/ Number(c) = 0
      <3>1. CASE o # <<"LF">>
        BY <3>1, <1>6, <1>l DEF Net!Sound
      <3>2. CASE ~(size.value > 0)
        BY <3>2, <1>8, <2>2
      <3> QED BY <1>10, <3>1, <3>2
    <2>4. Net!Meaning(response.parts[Len(results)]) = <<>>
      BY <1>1, <1>c, <2>3, WrongIs
    <2>5. Net!Returns("chunked", <<>>, TRUE, "failed") /\ size' = size
      BY <2>1 DEF Net!Empty
    <2> QED BY <1>0, <1>7, <1>8, <2>4, <2>5, GivesUp
  <1> QED BY <1>9, <1>10

(* What has come of a payload and of the two bytes after it. *)
LEMMA BodyIs ==
    ASSUME NetInv, Net!NetworkAssumption, call \in {"payload", "crlf"},
           NEW k \in Nat, k > 0, Net!Arrive(k), Len(buffer) + k <= room + 2
    PROVE  LET c == response.parts[Len(results)]
               q == pos - Start(response)[Len(results) - 1]
               b == buffer \o Net!Came(k)
           IN
           /\ call \in Net!Chunking /\ c \in Net!ChunkShape /\ Net!Framed(c)
           /\ b \in Seq(Byte) /\ Len(b) = Len(buffer) + k /\ Len(buffer) \in Nat /\ room \in Nat
           /\ InBody(c, q) /\ q \in Nat
           /\ room + 2 <= Len(Rest(c))
           /\ b = SubSeq(Rest(c), 1, Len(b))
           /\ q + k = Len(c.digits) + Len(c.extension) + 2 + Len(b)
           /\ SubSeq(Rest(c), room + 1, room + 2) = Net!CRLF => room = Len(c.payload) /\ c.last = Net!CRLF
  <1>c. PICK c : c = response.parts[Len(results)]
    OBVIOUS
  <1>q. PICK q : q = pos - Start(response)[Len(results) - 1]
    OBVIOUS
  <1>b. PICK b : b = buffer \o Net!Came(k)
    OBVIOUS
  <1>o. PICK o : o = Net!Came(k)
    OBVIOUS
  <1>0. call \in Net!Chunking
    BY DEF Net!Chunking
  <1>1. /\ c \in Net!ChunkShape /\ Net!Framed(c) /\ q \in Nat /\ Within(c, q)
        /\ o \in Seq(Byte) /\ Len(o) = k
        /\ \A j \in 1 .. k : q + j <= Len(Net!Encoded(c)) => o[j] = Net!Encoded(c)[q + j]
    BY <1>0, <1>o, <1>c, <1>q, InChunk
  <1>2. InBody(c, q)
    BY <1>1 DEF Within
  <1>3. buffer \in Seq(Byte) /\ room \in Nat /\ size.value \in Nat
    BY DEF NetInv, NetShapes
  <1>f. PICK f : f = buffer
    OBVIOUS
  <1>m. PICK m : m = Len(f)
    OBVIOUS
  <1>n. PICK n : n = Len(Rest(c))
    OBVIOUS
  <1>s. PICK s : s = Rest(c)
    OBVIOUS
  <1>d. PICK d : d = Len(c.digits)
    OBVIOUS
  <1>x. PICK x : x = Len(c.extension)
    OBVIOUS
  <1>4. /\ m \in Nat /\ f \in Seq(Byte) /\ f = SubSeq(s, 1, m) /\ m + k <= room + 2
        /\ q = d + x + 2 + m /\ c.line = Net!CRLF
    <2>1. f \in Seq(Byte) /\ m \in Nat
      BY <1>3, <1>f, <1>m
    <2>2. f = SubSeq(s, 1, m) /\ q = d + x + 2 + m /\ c.line = Net!CRLF
      BY <1>2, <1>f, <1>m, <1>s, <1>d, <1>x DEF InBody
    <2>3. m + k <= room + 2
      BY <1>f, <1>m
    <2> QED BY <2>1, <2>2, <2>3
  <1>5. /\ s \in Seq(Byte) /\ n \in Nat /\ d \in Nat /\ x \in Nat /\ Len(s) = n
        /\ Len(Net!Encoded(c)) = d + x + 2 + n
        /\ \A j \in 1 .. n : Net!Encoded(c)[d + x + 2 + j] = s[j]
    <2>1. Len(c.line) = 2
      BY <1>1 DEF Net!Framed
    <2>e. PICK e : e = Net!Encoded(c)
      OBVIOUS
    <2>2. /\ s \in Seq(Byte) /\ n \in Nat /\ d \in Nat /\ x \in Nat /\ Len(s) = n
          /\ Len(e) = d + x + Len(c.line) + n
          /\ \A j \in 1 .. n : e[d + x + Len(c.line) + j] = s[j]
      BY <1>1, <1>n, <1>s, <1>d, <1>x, <2>e, EncodedIs
    <2> QED BY <2>e, <2>1, <2>2
  <1>6. /\ room + 2 <= n
        /\ SubSeq(s, room + 1, room + 2) = Net!CRLF => room = Len(c.payload) /\ c.last = Net!CRLF
    <2>1. /\ \A j \in DOMAIN c.digits : c.digits[j] \in DOMAIN Net!Digit
          /\ room = Number(c) /\ room <= ChunkLimit /\ room > 0 /\ c.digits # <<>>
      BY <1>2 DEF InBody, SizeRead
    <2>2. Net!Numeral(c.digits) /\ c.line = Net!CRLF
      BY <1>4, <2>1 DEF Net!Numeral
    <2>3. room \in 1 .. ChunkLimit /\ ChunkLimit \in Nat
      <3>1. ChunkLimit \in Nat
        BY DEF Net!NetworkAssumption
      <3> QED BY <1>3, <2>1, <3>1
    <2>4. /\ room + 2 <= Len(s)
          /\ SubSeq(s, room + 1, room + 2) = Net!CRLF => room = Len(c.payload) /\ c.last = Net!CRLF
      BY <1>1, <2>1, <2>2, <2>3, <1>s DEF Net!Framed, Number, Rest
    <2> QED BY <1>5, <2>4
  <1>7. o = SubSeq(s, m + 1, m + k)
    <2>y. PICK y : y = SubSeq(s, m + 1, m + k)
      OBVIOUS
    <2>1. m \in 0 .. Len(s) /\ k \in 0 .. Len(s) - m
      <3>1. Len(s) = n /\ {n, m, k, room} \subseteq Nat /\ m + k <= room + 2 /\ room + 2 <= n
        BY <1>3, <1>4, <1>5, <1>6
      <3> QED BY ONLY <3>1
    <2>2. y \in Seq(Byte) /\ Len(y) = k /\ \A j \in 1 .. k : y[j] = s[m + j]
      BY ONLY <1>5, <2>1, <2>y, Onward
    <2>3. \A j \in 1 .. k : o[j] = y[j]
      <3> TAKE j \in 1 .. k
      <3>1. /\ m + j \in 1 .. n /\ q + j = d + x + 2 + (m + j) /\ q + j <= d + x + 2 + n
        <4>1. /\ {m, d, x, n, room, k, j} \subseteq Nat /\ 1 <= j /\ j <= k
              /\ m + k <= room + 2 /\ room + 2 <= n /\ q = d + x + 2 + m
          BY <1>3, <1>4, <1>5, <1>6
        <4> QED BY ONLY <4>1
      <3>2. Net!Encoded(c)[q + j] = s[m + j]
        BY <1>5, <3>1
      <3> QED BY <1>1, <1>5, <2>2, <3>1, <3>2
    <2> QED BY <1>1, <2>y, <2>2, <2>3, SameSeq
  <1>8. b \in Seq(Byte) /\ Len(b) = m + k
    <2>1. b = f \o o
      BY <1>b, <1>o, <1>f
    <2>2. b \in Seq(Byte) /\ Len(b) = Len(f) + Len(o)
      <3>1. f \in Seq(Byte) /\ o \in Seq(Byte)
        BY <1>1, <1>4
      <3> QED BY ONLY <2>1, <3>1, Joined
    <2> QED BY <1>1, <1>m, <2>2
  <1>9. b = SubSeq(s, 1, m + k)
    <2>1. m \in 0 .. Len(s) /\ k \in 0 .. Len(s) - m
      <3>1. Len(s) = n /\ {n, m, k, room} \subseteq Nat /\ m + k <= room + 2 /\ room + 2 <= n
        BY <1>3, <1>4, <1>5, <1>6
      <3> QED BY ONLY <3>1
    <2>2. SubSeq(s, 1, m) \o SubSeq(s, m + 1, m + k) = SubSeq(s, 1, m + k)
      BY ONLY <1>5, <2>1, Onward
    <2> QED BY <1>b, <1>o, <1>f, <1>4, <1>7, <2>2
  <1>10. q + k = d + x + 2 + (m + k)
    BY <1>1, <1>4, <1>5
  <1>11. /\ Len(b) = Len(buffer) + k /\ Len(buffer) \in Nat /\ room \in Nat
         /\ room + 2 <= Len(Rest(c)) /\ b = SubSeq(Rest(c), 1, Len(b))
         /\ q + k = Len(c.digits) + Len(c.extension) + 2 + Len(b)
         /\ SubSeq(Rest(c), room + 1, room + 2) = Net!CRLF => room = Len(c.payload) /\ c.last = Net!CRLF
    BY <1>3, <1>f, <1>m, <1>n, <1>s, <1>d, <1>x, <1>4, <1>6, <1>8, <1>9, <1>10
  <1> QED BY <1>0, <1>1, <1>2, <1>8, <1>11, <1>c, <1>q, <1>b

LEMMA PayloadBytesKeeps ==
    ASSUME NetInv, Net!NetworkAssumption, Net!PayloadBytes
    PROVE  NetInv'
  <1>0. /\ call = "payload"
        /\ UNCHANGED <<socket, closes, aborted, sent, accepted, response, ended, room, size>>
    BY DEF Net!PayloadBytes, Net!writing
  <1>k. PICK k \in 1 .. room - Len(buffer) :
              /\ Net!Arrive(k)
              /\ Net!Continue(IF Len(buffer \o Net!Came(k)) < room THEN "payload" ELSE "crlf", buffer \o Net!Came(k))
    BY DEF Net!PayloadBytes
  <1>c. PICK c : c = response.parts[Len(results)]
    OBVIOUS
  <1>q. PICK q : q = pos - Start(response)[Len(results) - 1]
    OBVIOUS
  <1>b. PICK b : b = buffer \o Net!Came(k)
    OBVIOUS
  <1>1. room \in Nat /\ Len(buffer) \in Nat /\ size \in [value : Nat, digits : Nat]
    BY DEF NetInv, NetShapes
  <1>2. k \in Nat /\ k > 0 /\ Len(buffer) + k <= room + 2 /\ Len(buffer) + k <= room
    BY <1>k, <1>1
  <1>3. /\ call \in Net!Chunking
        /\ b \in Seq(Byte) /\ Len(b) = Len(buffer) + k
        /\ InBody(c, q)
        /\ b = SubSeq(Rest(c), 1, Len(b))
        /\ q + k = Len(c.digits) + Len(c.extension) + 2 + Len(b)
    <2>1. call \in {"payload", "crlf"} /\ Net!Arrive(k) /\ k \in Nat /\ k > 0 /\ Len(buffer) + k <= room + 2
      BY <1>0, <1>k, <1>2
    <2> QED BY <2>1, <1>c, <1>q, <1>b, BodyIs
  <1>4. /\ call' = (IF Len(b) < room THEN "payload" ELSE "crlf") /\ buffer' = b /\ UNCHANGED <<stage, results>>
    BY <1>k, <1>b DEF Net!Continue
  <1>5. call' \in {"payload", "crlf"} /\ call' \in Net!Chunking /\ (call' = "payload" <=> Len(b) < room)
    BY <1>4 DEF Net!Chunking
  <1>6. Len(b) < room + 2
    BY <1>1, <1>2, <1>3
  <1>7. InBody(c, q + k)'
    <2>1. SizeRead(c)'
      BY <1>0, <1>3 DEF InBody, SizeRead
    <2> QED BY <1>0, <1>3, <1>4, <1>5, <1>6, <2>1 DEF InBody, Rest
  <1>8. Within(c, q + k)'
    BY <1>5, <1>7 DEF Within
  <1>9. room' \in Nat /\ size' \in [value : Nat, digits : Nat] /\ buffer' \in Seq(Byte)
    BY <1>0, <1>1, <1>3, <1>4
  <1> QED BY <1>0, <1>k, <1>2, <1>3, <1>4, <1>5, <1>8, <1>9, <1>c, <1>q, GoesOnInChunk

(* A chunk that is returned. *)
LEMMA ChunkReturned ==
    ASSUME NetInv, Net!NetworkAssumption, call \in Net!Chunking,
           NEW k \in Nat, k > 0, Net!Arrive(k),
           NEW bytes \in Seq(Byte), Net!Returns("chunked", bytes, TRUE, "body"),
           UNCHANGED <<socket, closes, aborted, ended, sent, accepted, response, room, size>>,
           bytes = Net!Meaning(response.parts[Len(results)]),
           pos' = Start(response)[Len(results)]
    PROVE  NetInv'
  <1>1. /\ stage = "body" /\ response.chunked /\ response \in Responses
        /\ Len(results) \in 1 .. Len(response.parts) /\ Len(response.parts) \in Nat
        /\ pos' \in Nat /\ pos' <= Len(Net!Wire(response))
    BY InChunk
  <1>2. /\ size' \in [value : Nat, digits : Nat] /\ aborted' \in BOOLEAN /\ ended' \in BOOLEAN /\ room' \in Nat
    BY DEF NetInv, NetShapes
  <1>r. PICK r : r = [what |-> "chunked", bytes |-> bytes, whole |-> TRUE]
    OBVIOUS
  <1>3. r \in Result /\ r.what = "chunked" /\ r.bytes = bytes /\ r.whole = TRUE
    BY <1>r DEF Result
  <1>4. results' = Append(results, r) /\ call' = "none" /\ stage' = "body" /\ buffer' = <<>>
    BY <1>r DEF Net!Returns
  <1>5. call # "all" /\ call # "write"
    BY DEF Net!Chunking
  <1>6. Net!IsPrefix(response.header \o (Net!Given \o GivenBy(r)), Net!Wire(response))
    BY <1>3, NothingGiven
  <1>7. /\ NetShapes' /\ NetStages' /\ SocketRight' /\ RequestRight' /\ ResultsRight'
        /\ Net!IsPrefix(response.header \o Net!Given, Net!Wire(response))'
        /\ Len(results') = Len(results) + 1 /\ Len(results) \in Nat
    BY <1>1, <1>2, <1>3, <1>4, <1>5, <1>6, ReturnRight
  <1>8. ReadRight'
    BY <1>1, <1>4, <1>7 DEF ReadRight
  <1>9. ChunkRight'
    <2>i. PICK i : i = Len(results)
      OBVIOUS
    <2>n. PICK n : n = Len(response.parts)
      OBVIOUS
    <2>p. PICK p : p = pos'
      OBVIOUS
    <2>1. i \in 1 .. n /\ n \in Nat /\ Len(results)' = i + 1 /\ Len(response.parts)' = n
      BY <1>1, <1>7, <2>i, <2>n
    <2>2. i + 1 \in 1 .. n + 1 /\ (i + 1) - 1 = i /\ (i + 1 = n + 1 => i = n)
      BY ONLY <2>1
    <2>3. p = Start(response)[i] /\ p \in Nat
      BY <1>1, <2>i, <2>p
    <2>4. Len(Net!Wire(response)) = Start(response)[n]
      BY <1>1, <2>n, WireIs
    <2>5. \A c, q : Within(c, q)'
      BY <1>4 DEF Within
    <2>6. p >= Start(response)[i]
      BY <2>3
    <2>7. (Start(response)[Len(results) - 1])' = Start(response)[i]
      BY <2>1, <2>2
    <2>8. /\ Len(results)' \in 1 .. Len(response.parts)' + 1
          /\ pos' >= (Start(response)[Len(results) - 1])'
          /\ pos' = (Start(response)[Len(results) - 1])'
          /\ Len(results)' = Len(response.parts)' + 1 => pos' = Len(Net!Wire(response))'
      BY <2>1, <2>2, <2>3, <2>4, <2>6, <2>7, <2>p
    <2> QED BY <2>5, <2>8 DEF ChunkRight
  <1> QED BY <1>7, <1>8, <1>9 DEF NetInv

LEMMA PayloadEndKeeps ==
    ASSUME NetInv, Net!NetworkAssumption, Net!PayloadEnd
    PROVE  NetInv'
  <1>0. /\ call = "crlf"
        /\ UNCHANGED <<socket, closes, aborted, sent, accepted, response, ended, room, size>>
    BY DEF Net!PayloadEnd, Net!writing
  <1>k. PICK k \in 1 .. room + 2 - Len(buffer) :
              LET b == buffer \o Net!Came(k) IN
              /\ Net!Arrive(k)
              /\ IF Len(b) < room + 2
                 THEN Net!Continue("crlf", b)
                 ELSE IF SubSeq(b, room + 1, room + 2) = Net!CRLF
                      THEN Net!Returns("chunked", SubSeq(b, 1, room), TRUE, "body")
                      ELSE Net!Returns("chunked", <<>>, TRUE, "failed")
    BY DEF Net!PayloadEnd
  <1>c. PICK c : c = response.parts[Len(results)]
    OBVIOUS
  <1>q. PICK q : q = pos - Start(response)[Len(results) - 1]
    OBVIOUS
  <1>b. PICK b : b = buffer \o Net!Came(k)
    OBVIOUS
  <1>1. room \in Nat /\ Len(buffer) \in Nat /\ size \in [value : Nat, digits : Nat]
    BY DEF NetInv, NetShapes
  <1>2. k \in Nat /\ k > 0 /\ Len(buffer) + k <= room + 2
    BY <1>k, <1>1
  <1>a. Net!Arrive(k)
    BY <1>k
  <1>3. /\ call \in Net!Chunking /\ c \in Net!ChunkShape
        /\ b \in Seq(Byte) /\ Len(b) = Len(buffer) + k
        /\ InBody(c, q) /\ q \in Nat
        /\ room + 2 <= Len(Rest(c))
        /\ b = SubSeq(Rest(c), 1, Len(b))
        /\ q + k = Len(c.digits) + Len(c.extension) + 2 + Len(b)
        /\ SubSeq(Rest(c), room + 1, room + 2) = Net!CRLF => room = Len(c.payload) /\ c.last = Net!CRLF
    <2>1. call \in {"payload", "crlf"} /\ Net!Arrive(k) /\ k \in Nat /\ k > 0 /\ Len(buffer) + k <= room + 2
      BY <1>0, <1>a, <1>2
    <2> QED BY <2>1, <1>c, <1>q, <1>b, BodyIs
  <1>4. CASE Len(b) < room + 2
    <2>1. call' = "crlf" /\ buffer' = b /\ UNCHANGED <<stage, results>>
      BY <1>k, <1>b, <1>4 DEF Net!Continue
    <2>2. ~(Len(b) < room)
      <3>1. ~(Len(buffer) < room)
        BY <1>0, <1>3 DEF InBody
      <3> QED BY <1>1, <1>2, <1>3, <3>1
    <2>3. call' # "payload" /\ call' \in Net!Chunking
      BY <2>1 DEF Net!Chunking
    <2>4. InBody(c, q + k)'
      <3>1. SizeRead(c)'
        BY <1>0, <1>3 DEF InBody, SizeRead
      <3> QED BY <1>0, <1>3, <1>4, <2>1, <2>2, <2>3, <3>1 DEF InBody, Rest
    <2>5. Within(c, q + k)'
      BY <2>1, <2>4 DEF Within
    <2>6. room' \in Nat /\ size' \in [value : Nat, digits : Nat] /\ buffer' \in Seq(Byte)
      BY <1>0, <1>1, <1>3, <2>1
    <2> QED BY <1>0, <1>a, <1>2, <1>3, <2>1, <2>3, <2>5, <2>6, <1>c, <1>q, GoesOnInChunk
  <1>5. CASE ~(Len(b) < room + 2)
    <2>s. PICK s : s = Rest(c)
      OBVIOUS
    <2>p. PICK p : p = c.payload
      OBVIOUS
    <2>z. PICK z : z = c.last
      OBVIOUS
    <2>1. Len(b) = room + 2
      BY <1>1, <1>2, <1>3, <1>5
    <2>2. /\ s \in Seq(Byte) /\ Len(s) \in Nat /\ room + 2 <= Len(s) /\ b = SubSeq(s, 1, room + 2) /\ room \in Nat
          /\ p \in Seq(Byte) /\ z \in Seq(Byte)
          /\ Len(s) = Len(p) + Len(z) /\ Len(p) \in Nat /\ Len(z) \in Nat
          /\ \A j \in 1 .. Len(p) : s[j] = p[j]
          /\ \A j \in 1 .. Len(z) : s[Len(p) + j] = z[j]
      <3>1. p \in Seq(Byte) /\ z \in Seq(Byte)
        BY <1>3, <2>p, <2>z DEF Net!ChunkShape
      <3>2. /\ s \in Seq(Byte) /\ Len(s) \in Nat
            /\ Len(s) = Len(p) + Len(z) /\ Len(p) \in Nat /\ Len(z) \in Nat
            /\ \A j \in 1 .. Len(p) : s[j] = p[j]
            /\ \A j \in 1 .. Len(z) : s[Len(p) + j] = z[j]
        BY <1>3, <2>s, <2>p, <2>z, EncodedIs
      <3> QED BY <1>1, <1>3, <2>1, <2>s, <3>1, <3>2
    <2>3. \A u \in 0 .. room + 2 : \A w \in 0 .. (room + 2) - u : SubSeq(b, u + 1, u + w) = SubSeq(s, u + 1, u + w)
      <3>n. PICK n : n = room + 2
        OBVIOUS
      <3>1. n \in Nat /\ n <= Len(s) /\ Len(s) \in Nat /\ s \in Seq(Byte) /\ b = SubSeq(s, 1, n)
        BY <2>2, <3>n
      <3>2. b \in Seq(Byte) /\ Len(b) = n /\ \A i \in 1 .. n : b[i] = s[i]
        BY ONLY <3>1
      <3>3. ASSUME NEW u \in 0 .. n, NEW w \in 0 .. n - u
            PROVE  SubSeq(b, u + 1, u + w) = SubSeq(s, u + 1, u + w)
        <4>x. PICK x : x = SubSeq(b, u + 1, u + w)
          OBVIOUS
        <4>y. PICK y : y = SubSeq(s, u + 1, u + w)
          OBVIOUS
        <4>1. u \in 0 .. Len(b) /\ w \in 0 .. Len(b) - u /\ b \in Seq(Byte)
          BY <3>2
        <4>2. u \in 0 .. Len(s) /\ w \in 0 .. Len(s) - u /\ s \in Seq(Byte)
          BY <3>1
        <4>3. x \in Seq(Byte) /\ Len(x) = w /\ \A i \in 1 .. w : x[i] = b[u + i]
          BY ONLY <4>1, <4>x, Onward
        <4>4. y \in Seq(Byte) /\ Len(y) = w /\ \A i \in 1 .. w : y[i] = s[u + i]
          BY ONLY <4>2, <4>y, Onward
        <4>5. \A i \in 1 .. w : u + i \in 1 .. n
          BY ONLY <3>1, u \in 0 .. n, w \in 0 .. n - u
        <4>6. \A i \in 1 .. Len(x) : x[i] = y[i]
          BY <3>2, <4>3, <4>4, <4>5
        <4>7. x = y
          BY ONLY <4>3, <4>4, <4>6, SameSeq
        <4> QED BY <4>x, <4>y, <4>7
      <3> QED BY <3>3, <3>n
    <2>4. SubSeq(b, room + 1, room + 2) = SubSeq(s, room + 1, room + 2)
      <3>1. room \in 0 .. room + 2 /\ 2 \in 0 .. (room + 2) - room
        BY <1>1
      <3> QED BY <2>3, <3>1
    <2>5. Net!Sound(c) <=> SubSeq(s, room + 1, room + 2) = Net!CRLF
      <3>1. /\ \A j \in DOMAIN c.digits : c.digits[j] \in DOMAIN Net!Digit
            /\ room = Number(c) /\ room <= ChunkLimit /\ c.digits # <<>> /\ c.line = Net!CRLF
        BY <1>3 DEF InBody, SizeRead
      <3>2. ASSUME SubSeq(s, room + 1, room + 2) = Net!CRLF
            PROVE  Net!Sound(c)
        <4>1. room = Len(c.payload) /\ c.last = Net!CRLF
          BY <1>3, <2>s, <3>2
        <4> QED BY <3>1, <4>1 DEF Net!Sound, Net!Numeral, Number
      <3>3. ASSUME Net!Sound(c)
            PROVE  SubSeq(s, room + 1, room + 2) = Net!CRLF
        <4>1. Len(p) = room /\ z = Net!CRLF
          BY <2>p, <2>z, <3>1, <3>3 DEF Net!Sound, Number
        <4>l. PICK l : l = Net!CRLF
          OBVIOUS
        <4>2. Len(l) = 2 /\ l \in Seq(Byte)
          <5>1. Len(l) = 2
            BY <4>l DEF Net!CRLF
          <5> QED BY <2>2, <4>1, <4>l, <5>1
        <4>y. PICK y : y = SubSeq(s, room + 1, room + 2)
          OBVIOUS
        <4>3. y \in Seq(Byte) /\ Len(y) = 2 /\ \A i \in 1 .. 2 : y[i] = s[room + i]
          <5>1. room \in 0 .. Len(s) /\ 2 \in 0 .. Len(s) - room /\ s \in Seq(Byte)
            BY <2>2
          <5> QED BY ONLY <4>y, <5>1, Onward
        <4>4. \A i \in 1 .. Len(y) : y[i] = l[i]
          BY <2>2, <4>1, <4>2, <4>3, <4>l
        <4> QED BY ONLY <4>2, <4>3, <4>4, <4>y, <4>l, SameSeq
      <3> QED BY <3>2, <3>3
    <2>6. CASE SubSeq(s, room + 1, room + 2) = Net!CRLF
      <3>b. PICK bytes : bytes = SubSeq(b, 1, room)
        OBVIOUS
      <3>1. Net!Returns("chunked", bytes, TRUE, "body")
        BY <1>k, <1>b, <1>5, <2>4, <2>6, <3>b
      <3>2. Len(p) = room /\ c.last = Net!CRLF /\ room > 0
        BY <1>3, <2>s, <2>p, <2>6 DEF InBody
      <3>3. bytes = p
        <4>y. PICK y : y = SubSeq(s, 1, room)
          OBVIOUS
        <4>1. 0 \in 0 .. room + 2 /\ room \in 0 .. (room + 2) - 0 /\ 0 + 1 = 1 /\ 0 + room = room
          BY <1>1
        <4>2. bytes = y
          <5>1. SubSeq(b, 0 + 1, 0 + room) = SubSeq(s, 0 + 1, 0 + room)
            BY <2>3, <4>1
          <5> QED BY <3>b, <4>y, <4>1, <5>1
        <4>3. room \in 0 .. Len(s)
          BY <2>2
        <4>4. y \in Seq(Byte) /\ Len(y) = room /\ \A i \in 1 .. room : y[i] = s[i]
          BY ONLY <2>2, <4>3, <4>y
        <4>5. \A i \in 1 .. Len(y) : y[i] = p[i]
          BY <2>2, <3>2, <4>4
        <4>6. y = p
          <5>1. Len(y) = Len(p) /\ p \in Seq(Byte)
            BY <2>2, <3>2, <4>4
          <5> QED BY ONLY <4>4, <4>5, <5>1, SameSeq
        <4> QED BY <4>2, <4>6
      <3>4. bytes = Net!Meaning(response.parts[Len(results)])
        BY <1>c, <2>5, <2>6, <2>p, <3>3 DEF Net!Meaning
      <3>5. pos' = Start(response)[Len(results)]
        <4>s. PICK st : st = Start(response)[Len(results) - 1]
          OBVIOUS
        <4>e. PICK e : e = Len(Net!Encoded(c))
          OBVIOUS
        <4>d. PICK d : d = Len(c.digits)
          OBVIOUS
        <4>x. PICK x : x = Len(c.extension)
          OBVIOUS
        <4>1. pos' = pos + k /\ st \in Nat /\ pos = st + q /\ Start(response)[Len(results)] = st + e /\ q \in Nat
          BY <1>a, <1>2, <1>3, <1>c, <1>q, <4>s, <4>e, InChunk
        <4>2. e = d + x + 2 + (room + 2) /\ d \in Nat /\ x \in Nat
          <5>1. Len(c.last) = 2 /\ Len(c.line) = 2
            BY <1>3, <3>2 DEF InBody, Net!CRLF
          <5>2. e = d + x + Len(c.line) + Len(s) /\ d \in Nat /\ x \in Nat
            BY <1>3, <2>s, <4>d, <4>x, <4>e, EncodedIs
          <5>3. Len(s) = room + 2
            BY <2>2, <2>z, <3>2, <5>1
          <5> QED BY <5>1, <5>2, <5>3
        <4>3. q + k = d + x + 2 + (room + 2)
          BY <1>3, <2>1, <4>d, <4>x
        <4>4. pos' = st + (q + k)
          BY ONLY <4>1, <1>2
        <4> QED BY <4>1, <4>2, <4>3, <4>4
      <3>6. bytes \in Seq(Byte)
        BY <2>2, <3>3
      <3> QED BY <1>0, <1>a, <1>2, <1>3, <3>1, <3>4, <3>5, <3>6, ChunkReturned
    <2>7. CASE SubSeq(s, room + 1, room + 2) # Net!CRLF
      <3>1. Net!Returns("chunked", <<>>, TRUE, "failed")
        BY <1>k, <1>b, <1>5, <2>4, <2>7
      <3>2. Net!Meaning(response.parts[Len(results)]) = <<>>
        BY <1>3, <1>c, <2>5, <2>7, WrongIs
      <3>3. room' \in Nat
        BY <1>0, <1>1
      <3> QED BY <1>0, <1>a, <1>2, <1>3, <3>1, <3>2, <3>3, GivesUp
    <2> QED BY <2>6, <2>7
  <1> QED BY <1>4, <1>5

LEMMA NetInvInit ==
    ASSUME Net!NetworkAssumption, Net!Init
    PROVE  NetInv
  <1>0. /\ socket = "none" /\ closes = 0 /\ stage = "new" /\ call = "none" /\ aborted = FALSE
        /\ sent = 0 /\ accepted = <<>> /\ response \in Responses /\ pos = 0 /\ ended = FALSE
        /\ buffer = <<>> /\ room = 0 /\ size = [value |-> 0, digits |-> 0] /\ results = <<>>
    BY DEF Net!Init
  <1>1. DOMAIN <<>> = {} /\ \A T : <<>> \in Seq(T)
    OBVIOUS
  <1>2. Net!Wire(response) \in Seq(Byte) /\ response.header \in Seq(Byte)
        /\ Len(response.header) <= Len(Net!Wire(response))
        /\ SubSeq(Net!Wire(response), 1, Len(response.header)) = response.header
    BY <1>0, WireIs, PieceTyped
  <1>3. NetShapes
    <2>1. 0 <= Len(Net!Wire(response))
      BY <1>2
    <2>2. results \in Seq([what : {"headers", "chunk", "all", "chunked"}, bytes : Seq(Byte), whole : BOOLEAN])
      BY <1>0, <1>1
    <2> QED BY <1>0, <1>1, <2>1, <2>2 DEF NetShapes
  <1>4. NetStages
    BY <1>0, <1>1 DEF NetStages, Opening, Net!Chunking
  <1>5. SocketRight
    BY <1>0 DEF SocketRight
  <1>6. RequestRight
    <2>1. Net!IsPrefix(<<>>, Asked)
      BY AskedIs
    <2> QED BY <1>0, <1>1, <2>1 DEF RequestRight
  <1>7. ReadRight
    <2>1. Net!Given = <<>>
      <3>1. results \in Seq(Result)
        BY <1>0, <1>1
      <3> QED BY <1>0, <3>1, GivenIs
    <2>2. \A s \in Seq(Byte) : s \o <<>> = s
      OBVIOUS
    <2>3. response.header \o Net!Given = response.header
      BY <1>2, <2>1, <2>2
    <2>4. Net!IsPrefix(response.header, Net!Wire(response))
      <3>h. PICK h : h = response.header
        OBVIOUS
      <3>w. PICK w : w = Net!Wire(response)
        OBVIOUS
      <3>1. h \in Seq(Byte) /\ w \in Seq(Byte) /\ Len(h) <= Len(w) /\ h = SubSeq(w, 1, Len(h))
        BY <1>2, <3>h, <3>w
      <3>2. Net!IsPrefix(h, w)
        BY ONLY <3>1, PrefixIs
      <3> QED BY <3>2, <3>h, <3>w
    <2> QED BY <1>0, <2>3, <2>4 DEF ReadRight
  <1>8. ResultsRight
    BY <1>0, <1>1 DEF ResultsRight
  <1>9. ChunkRight
    BY <1>0 DEF ChunkRight
  <1> QED BY <1>3, <1>4, <1>5, <1>6, <1>7, <1>8, <1>9 DEF NetInv

LEMMA NetInvNext ==
    ASSUME Net!NetworkAssumption, NetInv, [Net!Next]_Net!vars
    PROVE  NetInv'
  <1>1. CASE Net!Next
    <2>1. CASE Net!OpenIPv4 \/ Net!OpenIPv6 \/ Net!RequestIPv4 \/ Net!RequestIPv6
      BY <2>1, BeginKeeps DEF Net!OpenIPv4, Net!OpenIPv6, Net!RequestIPv4, Net!RequestIPv6
    <2>2. CASE Net!Connects
      BY <2>2, ConnectsKeeps
    <2>3. CASE Net!Sends
      BY <2>3, SendsKeeps
    <2>4. CASE Net!Write
      BY <2>4, WriteKeeps
    <2>5. CASE Net!WritesPart
      BY <2>5, WritesPartKeeps
    <2>6. CASE Net!PeerFails
      BY <2>6, PeerFailsKeeps
    <2>7. CASE Net!ReadHeaders
      BY <2>7, ReadHeadersKeeps
    <2>8. CASE Net!HeaderByte
      BY <2>8, HeaderByteKeeps
    <2>9. CASE Net!ReadChunk
      BY <2>9, ReadChunkKeeps
    <2>10. CASE Net!ChunkBytes
      BY <2>10, ChunkBytesKeeps
    <2>11. CASE Net!AllBytes
      BY <2>11, AllBytesKeeps
    <2>12. CASE Net!ReadChunked
      BY <2>12, ReadChunkedKeeps
    <2>13. CASE Net!SizeByte
      BY <2>13, SizeByteKeeps
    <2>14. CASE Net!SizeLF
      BY <2>14, SizeLFKeeps
    <2>15. CASE Net!PayloadBytes
      BY <2>15, PayloadBytesKeeps
    <2>16. CASE Net!PayloadEnd
      BY <2>16, PayloadEndKeeps
    <2>17. CASE Net!Ends
      BY <2>17, EndsKeeps
    <2>18. CASE Net!Abort
      BY <2>18, AbortKeeps
    <2>19. CASE Net!Close
      BY <2>19, CloseKeeps
    <2> QED BY <1>1, <2>1, <2>2, <2>3, <2>4, <2>5, <2>6, <2>7, <2>8, <2>9, <2>10, <2>11, <2>12, <2>13,
               <2>14, <2>15, <2>16, <2>17, <2>18, <2>19 DEF Net!Next
  <1>2. CASE UNCHANGED Net!vars
    <2>1. UNCHANGED <<socket, closes, stage, call, sent, accepted, response, pos, ended, buffer, room, size, results, aborted>>
      BY <1>2 DEF Net!vars
    <2>2. aborted' \in BOOLEAN
      BY <2>1 DEF NetInv, NetShapes
    <2> QED BY <2>1, <2>2, SignalKeeps
  <1> QED BY <1>1, <1>2

LEMMA NetInvMeans ==
    ASSUME NetInv
    PROVE  Net!TypeOK /\ Net!InStep
  <1>1. Net!TypeOK
    <2>1. size.value \in Nat /\ size.digits \in Nat
      BY DEF NetInv, NetShapes
    <2> QED BY <2>1 DEF NetInv, NetShapes, Net!TypeOK
  <1>2. Net!RequestWhole
    BY DEF NetInv, RequestRight, Asked, Net!RequestWhole
  <1>3. Net!ResponseDecoded
    BY DEF NetInv, ResultsRight, ReadRight, CameTo, Net!ResponseDecoded
  <1>4. Net!ClosedOnce
    BY DEF NetInv, NetShapes, SocketRight, Net!ClosedOnce
  <1> QED BY <1>1, <1>2, <1>3, <1>4 DEF Net!InStep

(* However the kernel cuts what is written and read, and whenever the peer *)
(* ends or the signal aborts: the peer has a prefix of the request, each   *)
(* read gives the bytes of the next piece of the response and no others,   *)
(* and the socket is closed once (net_stream_amd64.go, net_amd64.go).      *)
THEOREM ExchangeInStep ==
    ASSUME Net!NetworkAssumption
    PROVE  Net!Spec => [](Net!TypeOK /\ Net!InStep)
  <1>1. Net!Init => NetInv
    BY NetInvInit
  <1>2. NetInv /\ [Net!Next]_Net!vars => NetInv'
    BY NetInvNext
  <1>3. NetInv => Net!TypeOK /\ Net!InStep
    BY NetInvMeans
  <1> QED BY <1>1, <1>2, <1>3, PTL DEF Net!Spec

=============================================================================
