--------------------------- MODULE ChannelProofs ----------------------------
(***************************************************************************)
(* A channel of any capacity, used by any contexts with any values, keeps  *)
(* its ring and its slot consistent and implements a first-in first-out    *)
(* queue.                                                                  *)
(***************************************************************************)
EXTENDS Channel, TLAPS

-----------------------------------------------------------------------------
(* Positions of a ring                                                     *)

(* A position some places on is in the ring, and one on from it is one more *)
(* place on.                                                                *)
LEMMA ModNext ==
    ASSUME NEW N \in Nat \ {0}, NEW h \in 0 .. N - 1, NEW k \in 0 .. N - 1
    PROVE  /\ (h + k) % N \in 0 .. N - 1
           /\ (((h + k) % N) + 1) % N = (h + (k + 1)) % N
           /\ (((h + 1) % N) + k) % N = (h + (k + 1)) % N
  <1>1. (h + k) % N \in 0 .. N - 1
    BY Z3
  <1>2. (((h + k) % N) + 1) % N = (h + (k + 1)) % N
    BY Z3
  <1>3. (((h + 1) % N) + k) % N = (h + (k + 1)) % N
    BY Z3
  <1> QED BY <1>1, <1>2, <1>3

(* So is the next position.                                                 *)
LEMMA ModStep ==
    ASSUME NEW N \in Nat \ {0}, NEW h \in 0 .. N - 1
    PROVE  (h + 1) % N \in 0 .. N - 1
  BY Z3

(* The position none on from h is h itself.                                 *)
LEMMA ModHere ==
    ASSUME NEW N \in Nat \ {0}, NEW h \in 0 .. N - 1
    PROVE  (h + 0) % N = h
  BY Z3

(* Positions less than a ring apart are different.                          *)
LEMMA ModApart ==
    ASSUME NEW N \in Nat \ {0}, NEW h \in 0 .. N - 1, NEW j \in 0 .. N - 1, NEW k \in 0 .. N - 1,
           (h + j) % N = (h + k) % N
    PROVE  j = k
  BY Z3

-----------------------------------------------------------------------------
(* The inductive invariant                                                 *)

(* Positions are in the ring; the kind of channel decides which calls wait  *)
(* and whether the slot is used; and who sends has a value.                 *)
KindsMatch ==
    /\ capacity > 0 => head \in Slots /\ tail \in Slots /\ ~hasValue
    /\ \A a \in Actor :
          /\ op[a] \in {"sending", "waitEmpty", "waitConsumed"} => arg[a] \in Value
          /\ op[a] \in {"waitEmpty", "waitConsumed"} => capacity = 0
          /\ op[a] = "sending" => capacity > 0
    /\ hasValue => pending \in Value

IInv == ChannelConsistent /\ KindsMatch

LEMMA ChannelBegins == Init => IInv
  <1> SUFFICES ASSUME Init PROVE IInv
    OBVIOUS
  <1>1. capacity \in Nat
    <2>1. PICK n \in Request : capacity = Clamped(n)
      BY DEF Init
    <2>2. n \in Int
      BY ChannelAssumption
    <2> QED BY <2>1, <2>2 DEF Clamped
  <1>2. TypeOK
    <2>1. 0 \in 0 .. capacity
      BY <1>1
    <2> QED BY <1>1, <2>1 DEF Init, TypeOK
  <1>3. KindsMatch
    <2>1. capacity > 0 => 0 \in Slots
      BY <1>1 DEF Slots
    <2>2. \A a \in Actor : op[a] = "idle"
      BY DEF Init
    <2> QED BY <2>1, <2>2 DEF Init, KindsMatch
  <1>4. PendingHasSender
    BY DEF Init, PendingHasSender
  <1>5. RingConsistent
    <2>1. capacity > 0 => (0 + 0) % capacity = 0
      BY <1>1, ModHere
    <2>2. 0 .. 0 - 1 = {}
      OBVIOUS
    <2> QED BY <2>1, <2>2 DEF Init, RingConsistent
  <1> QED BY <1>2, <1>3, <1>4, <1>5 DEF IInv, ChannelConsistent

(* Putting a value into a ring that is not full keeps its order: the new    *)
(* slot is the one after the last.                                          *)
LEMMA PutKeeps ==
    ASSUME IInv, capacity > 0, ~Full, NEW v \in Value, Put(v)
    PROVE  /\ capacity' \in Nat /\ capacity' = capacity
           /\ data' \in [Slots -> Value \cup {Empty}]
           /\ count' \in 0 .. capacity
           /\ head' \in Slots /\ tail' \in Slots
           /\ RingConsistent'
  <1> USE DEF IInv, ChannelConsistent, TypeOK, KindsMatch, Slots, Full, Put
  <1>1. /\ capacity \in Nat \ {0} /\ head \in 0 .. capacity - 1 /\ tail \in 0 .. capacity - 1
        /\ count \in 0 .. capacity - 1 /\ capacity' = capacity /\ head' = head /\ count' = count + 1
    OBVIOUS
  <1>2. tail = (head + count) % capacity
    BY <1>1 DEF RingConsistent
  <1>3. tail' = (head + (count + 1)) % capacity /\ tail' \in 0 .. capacity - 1
    <2>1. tail' = (tail + 1) % capacity
      OBVIOUS
    <2>2. (tail + 1) % capacity = (head + (count + 1)) % capacity
      BY ONLY <1>1, <1>2, ModNext
    <2>3. \A n \in Nat : n % capacity \in 0 .. capacity - 1
      BY ONLY <1>1, Z3
    <2>4. tail + 1 \in Nat
      BY ONLY <1>1
    <2> QED BY ONLY <2>1, <2>2, <2>3, <2>4
  <1>4. ASSUME NEW i \in Slots
        PROVE  (data'[i] # Empty) <=> \E k \in 0 .. count : i = (head + k) % capacity
    <2>1. v # Empty
      BY ChannelAssumption
    <2>2. (data[i] # Empty) <=> \E k \in 0 .. count - 1 : i = (head + k) % capacity
      BY <1>1 DEF RingConsistent
    <2>3. data'[i] = IF i = tail THEN v ELSE data[i]
      OBVIOUS
    <2>4. 0 .. count = (0 .. count - 1) \cup {count}
      BY <1>1
    <2> QED BY <1>2, <2>1, <2>2, <2>3, <2>4
  <1>5. 0 .. count' - 1 = 0 .. count
    BY <1>1
  <1>6. RingConsistent'
    BY <1>1, <1>3, <1>4, <1>5 DEF RingConsistent
  <1> QED BY <1>1, <1>3, <1>6

(* Taking the oldest value clears its slot and leaves the others in order.  *)
LEMMA TakeKeeps ==
    ASSUME IInv, capacity > 0, count # 0, Take
    PROVE  /\ capacity' \in Nat /\ capacity' = capacity
           /\ data' \in [Slots -> Value \cup {Empty}]
           /\ count' \in 0 .. capacity
           /\ head' \in Slots /\ tail' \in Slots
           /\ data[head] \in Value
           /\ RingConsistent'
  <1> USE DEF IInv, ChannelConsistent, TypeOK, KindsMatch, Slots, Take
  <1>1. /\ capacity \in Nat \ {0} /\ head \in 0 .. capacity - 1 /\ tail \in 0 .. capacity - 1
        /\ count \in 1 .. capacity /\ capacity' = capacity /\ tail' = tail /\ count' = count - 1
    OBVIOUS
  <1>2. tail = (head + count) % capacity
    BY <1>1 DEF RingConsistent
  <1>3. head' = (head + 1) % capacity /\ head' \in 0 .. capacity - 1
    BY <1>1, ModStep
  <1>4. \A k \in 0 .. capacity - 1 : (head' + k) % capacity = (head + (k + 1)) % capacity
    BY <1>1, <1>3, ModNext
  <1>5. tail' = (head' + count') % capacity'
    <2>1. count - 1 \in 0 .. capacity - 1 /\ (count - 1) + 1 = count
      BY <1>1
    <2> QED BY <1>1, <1>2, <1>4, <2>1
  <1>6. (head + 0) % capacity = head
    BY <1>1, ModHere
  <1>7. data[head] \in Value
    <2>1. 0 \in 0 .. count - 1
      BY <1>1
    <2>2. data[head] # Empty
      BY <1>1, <1>6, <2>1 DEF RingConsistent
    <2> QED BY <1>1, <2>2
  <1>8. ASSUME NEW i \in Slots
        PROVE  (data'[i] # Empty) <=> \E k \in 0 .. count - 2 : i = (head' + k) % capacity
    <2>1. (data[i] # Empty) <=> \E k \in 0 .. count - 1 : i = (head + k) % capacity
      BY <1>1 DEF RingConsistent
    <2>2. data'[i] = IF i = head THEN Empty ELSE data[i]
      OBVIOUS
    <2>3. \A k \in 1 .. count - 1 : (head + k) % capacity # head
      <3> TAKE k \in 1 .. count - 1
      <3>1. 0 \in 0 .. capacity - 1 /\ k \in 0 .. capacity - 1 /\ k # 0
        BY <1>1
      <3> QED BY <1>1, <1>6, <3>1, ModApart
    <2>4. (\E k \in 0 .. count - 2 : i = (head' + k) % capacity)
            <=> \E k \in 1 .. count - 1 : i = (head + k) % capacity
      <3>1. ASSUME NEW k \in 0 .. count - 2 PROVE k + 1 \in 1 .. count - 1 /\ (head' + k) % capacity = (head + (k + 1)) % capacity
        BY <1>1, <1>4
      <3>3. ASSUME \E k \in 0 .. count - 2 : i = (head' + k) % capacity
            PROVE  \E k \in 1 .. count - 1 : i = (head + k) % capacity
        <4>1. PICK k \in 0 .. count - 2 : i = (head' + k) % capacity
          BY ONLY <3>3
        <4>2. k + 1 \in 1 .. count - 1 /\ i = (head + (k + 1)) % capacity
          BY ONLY <3>1, <4>1
        <4> QED BY ONLY <4>2
      <3>2. ASSUME NEW k \in 1 .. count - 1 PROVE k - 1 \in 0 .. count - 2 /\ (head' + (k - 1)) % capacity = (head + k) % capacity
        <4>1. k - 1 \in 0 .. count - 2 /\ k - 1 \in 0 .. capacity - 1 /\ (k - 1) + 1 = k
          BY <1>1
        <4> QED BY <1>4, <4>1
      <3>4. ASSUME \E k \in 1 .. count - 1 : i = (head + k) % capacity
            PROVE  \E k \in 0 .. count - 2 : i = (head' + k) % capacity
        <4>1. PICK k \in 1 .. count - 1 : i = (head + k) % capacity
          BY ONLY <3>4
        <4>2. k - 1 \in 0 .. count - 2 /\ i = (head' + (k - 1)) % capacity
          BY ONLY <3>2, <4>1
        <4> QED BY ONLY <4>2
      <3> QED BY ONLY <3>3, <3>4
    <2>5. 0 .. count - 1 = {0} \cup (1 .. count - 1)
      BY <1>1
    <2> QED BY <1>6, <2>1, <2>2, <2>3, <2>4, <2>5
  <1>9. 0 .. count' - 1 = 0 .. count - 2
    BY <1>1
  <1>10. RingConsistent'
    BY <1>1, <1>5, <1>8, <1>9 DEF RingConsistent
  <1> QED BY <1>1, <1>3, <1>7, <1>10

-----------------------------------------------------------------------------
(* Every call keeps the invariant                                          *)

(* The values an actor sends are boxed values, never the cleared word.      *)
LEMMA MessageIsValue ==
    ASSUME NEW a \in Actor, NEW v \in Message[a]
    PROVE  v \in Value /\ v # Empty
  <1>1. v \in Value
    BY DEF Value
  <1> QED BY <1>1, ChannelAssumption

(* A step that leaves the slot alone, and puts into or takes from the ring, *)
(* keeps the invariant if the calls stay right.                             *)
LEMMA RingStep ==
    ASSUME IInv, UNCHANGED slot, NEW a \in Actor,
           capacity > 0, op[a] \in {"idle", "sending", "receiving"},
           \/ UNCHANGED op
           \/ op' = [op EXCEPT ![a] = "idle"],
           \/ UNCHANGED arg /\ ~Full /\ \E v \in Value : Put(v)
           \/ count # 0 /\ Take /\ op[a] # "sending" /\ arg' = [arg EXCEPT ![a] = data[head]]
    PROVE  IInv'
  <1>1. /\ capacity' \in Nat /\ capacity' = capacity
        /\ data' \in [Slots -> Value \cup {Empty}]
        /\ count' \in 0 .. capacity
        /\ head' \in Slots /\ tail' \in Slots
        /\ RingConsistent'
    BY PutKeeps, TakeKeeps
  <1>2. arg' = arg \/ (op[a] # "sending" /\ data[head] \in Value /\ arg' = [arg EXCEPT ![a] = data[head]])
    BY TakeKeeps
  <1>3. Slots' = Slots
    BY <1>1 DEF Slots
  <1>4. head' \in 0 .. capacity' /\ tail' \in 0 .. capacity'
    BY <1>1 DEF Slots
  <1>5. TypeOK'
    BY <1>1, <1>2, <1>3, <1>4 DEF IInv, ChannelConsistent, TypeOK, slot
  <1>6. ~hasValue /\ ~hasValue'
    BY DEF IInv, KindsMatch, slot
  <1>7. ASSUME NEW b \in Actor
        PROVE  /\ op'[b] \in {"sending", "waitEmpty", "waitConsumed"} => op'[b] = op[b] /\ arg'[b] = arg[b]
    <2>1. op'[b] = op[b] \/ op'[b] = "idle"
      BY DEF IInv, ChannelConsistent, TypeOK
    <2>2. arg'[b] = arg[b] \/ (b = a /\ op[a] # "sending")
      BY <1>2 DEF IInv, ChannelConsistent, TypeOK
    <2> QED BY <2>1, <2>2
  <1>8. KindsMatch'
    BY <1>1, <1>3, <1>6, <1>7 DEF IInv, KindsMatch
  <1> QED BY <1>1, <1>5, <1>6, <1>8 DEF IInv, ChannelConsistent, PendingHasSender

(* A step that leaves the ring alone keeps it consistent.                   *)
LEMMA RingStays ==
    ASSUME IInv, UNCHANGED ring
    PROVE  RingConsistent' /\ Slots' = Slots
  BY DEF IInv, ChannelConsistent, RingConsistent, ring, Slots

LEMMA CallKeeps ==
    ASSUME IInv, NEW a \in Actor, Call(a)
    PROVE  IInv'
  <1> USE DEF IInv, ChannelConsistent
  <1>1. CASE \E v \in Message[a] : Send(a, v)
    <2>1. PICK v \in Message[a] : Send(a, v)
      BY <1>1
    <2>2. v \in Value
      BY MessageIsValue
    <2>3. RingConsistent' /\ Slots' = Slots
      BY <2>1, RingStays DEF Send
    <2>4. TypeOK'
      BY <2>1, <2>2, <2>3 DEF Send, TypeOK, ring, slot
    <2>5. KindsMatch'
      <3>1. \A b \in Actor \ {a} : op'[b] = op[b] /\ arg'[b] = arg[b]
        BY <2>1 DEF Send, TypeOK
      <3>2. op'[a] = (IF capacity = 0 THEN "waitEmpty" ELSE "sending") /\ arg'[a] = v
        BY <2>1 DEF Send, TypeOK
      <3>3. capacity = 0 \/ capacity > 0
        BY DEF TypeOK
      <3> QED BY <2>1, <2>2, <2>3, <3>1, <3>2, <3>3 DEF Send, KindsMatch, ring, slot
    <2>6. PendingHasSender'
      <3> SUFFICES ASSUME hasValue PROVE PendingHasSender'
        BY <2>1 DEF Send, PendingHasSender, slot
      <3>1. PICK b \in Actor : op[b] = "waitConsumed" /\ arg[b] = pending
        BY DEF PendingHasSender
      <3>2. b # a
        BY <2>1, <3>1 DEF Send
      <3>3. op'[b] = op[b] /\ arg'[b] = arg[b]
        BY <2>1, <3>2 DEF Send, TypeOK
      <3> QED BY <2>1, <3>1, <3>3 DEF Send, PendingHasSender, slot
    <2> QED BY <2>3, <2>4, <2>5, <2>6
  <1>2. CASE Recv(a)
    <2>1. RingConsistent' /\ Slots' = Slots
      BY <1>2, RingStays DEF Recv
    <2>2. TypeOK'
      BY <1>2, <2>1 DEF Recv, TypeOK, ring, slot
    <2>3. \A b \in Actor : op'[b] = IF b = a THEN "receiving" ELSE op[b]
      BY <1>2 DEF Recv, TypeOK
    <2>4. KindsMatch'
      BY <1>2, <2>1, <2>3 DEF Recv, KindsMatch, ring, slot
    <2>5. PendingHasSender'
      BY <1>2, <2>3 DEF Recv, PendingHasSender, slot
    <2> QED BY <2>1, <2>2, <2>4, <2>5
  <1>3. CASE TryRecvOr(a)
    <2>1. capacity > 0
      BY <1>3 DEF TryRecvOr, TypeOK
    <2> QED BY <1>3, <2>1, RingStep DEF TryRecvOr, Result
  <1>4. CASE \E v \in Message[a] : TrySend(a, v)
    <2>1. PICK v \in Message[a] : TrySend(a, v)
      BY <1>4
    <2>2. capacity > 0
      BY <2>1 DEF TrySend, Full, TypeOK
    <2> QED BY <2>1, <2>2, MessageIsValue, RingStep DEF TrySend
  <1> QED BY <1>1, <1>2, <1>3, <1>4 DEF Call

LEMMA ProceedKeeps ==
    ASSUME IInv, NEW a \in Actor, Proceed(a)
    PROVE  IInv'
  <1> USE DEF IInv, ChannelConsistent
  <1>1. CASE SendBuffered(a)
    <2>1. capacity > 0 /\ arg[a] \in Value
      BY <1>1 DEF SendBuffered, KindsMatch
    <2> QED BY <1>1, <2>1, RingStep DEF SendBuffered, Return
  <1>2. CASE RecvBuffered(a)
    <2>1. capacity > 0
      BY <1>2 DEF RecvBuffered, TypeOK
    <2> QED BY <1>2, <2>1, RingStep DEF RecvBuffered, Return, Result
  <1>3. CASE Publish(a)
    <2>1. RingConsistent' /\ Slots' = Slots
      BY <1>3, RingStays DEF Publish
    <2>2. arg[a] \in Value /\ capacity = 0
      BY <1>3 DEF Publish, KindsMatch
    <2>3. TypeOK'
      BY <1>3, <2>1, <2>2 DEF Publish, TypeOK, ring
    <2>4. \A b \in Actor : op'[b] = IF b = a THEN "waitConsumed" ELSE op[b]
      BY <1>3 DEF Publish, TypeOK
    <2>5. KindsMatch'
      BY <1>3, <2>1, <2>2, <2>4 DEF Publish, KindsMatch, ring
    <2>6. PendingHasSender'
      BY <1>3, <2>4 DEF Publish, PendingHasSender
    <2> QED BY <2>1, <2>3, <2>5, <2>6
  <1>4. CASE SendConsumed(a)
    <2>1. RingConsistent' /\ Slots' = Slots
      BY <1>4, RingStays DEF SendConsumed
    <2>2. TypeOK'
      BY <1>4, <2>1 DEF SendConsumed, Return, TypeOK, ring, slot
    <2>3. \A b \in Actor : op'[b] = IF b = a THEN "idle" ELSE op[b]
      BY <1>4 DEF SendConsumed, Return, TypeOK
    <2>4. KindsMatch'
      BY <1>4, <2>1, <2>3 DEF SendConsumed, KindsMatch, ring, slot
    <2>5. PendingHasSender'
      BY <1>4 DEF SendConsumed, PendingHasSender, slot
    <2> QED BY <2>1, <2>2, <2>4, <2>5
  <1>5. CASE RecvPending(a)
    <2>1. RingConsistent' /\ Slots' = Slots
      BY <1>5, RingStays DEF RecvPending
    <2>2. TypeOK'
      BY <1>5, <2>1 DEF RecvPending, Return, Result, TypeOK, ring
    <2>3. \A b \in Actor : /\ op'[b] = IF b = a THEN "idle" ELSE op[b]
                           /\ b # a => arg'[b] = arg[b]
      BY <1>5 DEF RecvPending, Return, Result, TypeOK
    <2>4. KindsMatch'
      BY <1>5, <2>1, <2>3 DEF RecvPending, KindsMatch, ring
    <2>5. PendingHasSender'
      BY <1>5 DEF RecvPending, PendingHasSender
    <2> QED BY <2>1, <2>2, <2>4, <2>5
  <1> QED BY <1>1, <1>2, <1>3, <1>4, <1>5 DEF Proceed

LEMMA ChannelInvariant == Spec => []IInv
  <1>1. ASSUME IInv, [Next]_vars PROVE IInv'
    <2>1. CASE Next
      BY <1>1, <2>1, CallKeeps, ProceedKeeps DEF Next
    <2>2. CASE UNCHANGED vars
      BY <1>1, <2>2 DEF vars, ring, slot, IInv, ChannelConsistent, TypeOK, RingConsistent,
                        PendingHasSender, KindsMatch, Slots
    <2> QED BY <1>1, <2>1, <2>2
  <1> QED BY <1>1, ChannelBegins, PTL DEF Spec

(* Ring, slot and calls describe one channel after any interleaving of      *)
(* calls by any number of contexts (channel_runtime_amd64.go), whatever the *)
(* capacity: head, tail and count agree, no received value is kept alive,   *)
(* and the value on offer has a sender that waits.                          *)
THEOREM ChannelStaysConsistent == Spec => []ChannelConsistent
  <1>1. IInv => ChannelConsistent
    BY DEF IInv
  <1> QED BY <1>1, ChannelInvariant, PTL

-----------------------------------------------------------------------------
(* The ring as a queue                                                     *)

Word == Value \cup {Empty}

LEMMA ContentsOfRing ==
    ASSUME IInv, capacity > 0
    PROVE  /\ Contents = [i \in 1 .. count |-> data[(head + i - 1) % capacity]]
           /\ Contents \in Seq(Word)
           /\ Len(Contents) = count
  <1> USE DEF IInv, ChannelConsistent, TypeOK, KindsMatch, Slots
  <1>1. Contents = [i \in 1 .. count |-> data[(head + i - 1) % capacity]]
    BY DEF Contents
  <1>2. ASSUME NEW i \in 1 .. count PROVE data[(head + i - 1) % capacity] \in Word
    <2>1. i - 1 \in 0 .. capacity - 1 /\ head \in 0 .. capacity - 1 /\ capacity \in Nat \ {0}
          /\ head + i - 1 = head + (i - 1)
      OBVIOUS
    <2>2. (head + i - 1) % capacity \in 0 .. capacity - 1
      BY <2>1, ModNext
    <2> QED BY <2>2 DEF Word
  <1> QED BY <1>1, <1>2

(* Putting a value into the ring appends it.                                *)
LEMMA PutAppends ==
    ASSUME IInv, capacity > 0, ~Full, NEW v \in Value, Put(v)
    PROVE  Contents' = Append(Contents, v) /\ Len(Contents) < capacity
  <1>1. /\ capacity \in Nat \ {0} /\ head \in 0 .. capacity - 1 /\ tail \in 0 .. capacity - 1
        /\ count \in 0 .. capacity - 1 /\ capacity' = capacity /\ head' = head /\ count' = count + 1
    BY DEF IInv, ChannelConsistent, TypeOK, KindsMatch, Slots, Full, Put
  <1>2. tail = (head + count) % capacity
    BY <1>1 DEF IInv, ChannelConsistent, RingConsistent
  <1>3. Contents' = [i \in 1 .. count + 1 |-> data'[(head + i - 1) % capacity]]
    BY <1>1 DEF Contents
  <1>4. data'[tail] = v /\ \A j \in Slots : j # tail => data'[j] = data[j]
    BY <1>1 DEF Put, IInv, ChannelConsistent, TypeOK, Slots
  <1>5. ASSUME NEW i \in 1 .. count
        PROVE  data'[(head + i - 1) % capacity] = data[(head + i - 1) % capacity]
    <2>1. i - 1 \in 0 .. capacity - 1 /\ count \in 0 .. capacity - 1 /\ i - 1 # count
          /\ head + i - 1 = head + (i - 1)
      BY <1>1
    <2>2. (head + (i - 1)) % capacity # tail
      BY <1>1, <1>2, <2>1, ModApart
    <2>3. (head + (i - 1)) % capacity \in Slots
      BY <1>1, <2>1, ModNext DEF Slots
    <2> QED BY <1>4, <2>1, <2>2, <2>3
  <1>6. (head + (count + 1) - 1) % capacity = tail
    <2>1. head + (count + 1) - 1 = head + count
      BY <1>1
    <2> QED BY <1>2, <2>1
  <1>7. /\ Contents = [i \in 1 .. count |-> data[(head + i - 1) % capacity]]
        /\ Contents \in Seq(Word) /\ Len(Contents) = count
    BY <1>1, ContentsOfRing
  <1>8. Append(Contents, v) = [i \in 1 .. count + 1 |-> IF i = count + 1 THEN v ELSE Contents[i]]
    BY <1>1, <1>7 DEF Word
  <1>9. ASSUME NEW i \in 1 .. count + 1
        PROVE  data'[(head + i - 1) % capacity] = IF i = count + 1 THEN v ELSE Contents[i]
    <2>1. CASE i = count + 1
      BY <1>4, <1>6, <2>1
    <2>2. CASE i \in 1 .. count /\ i # count + 1
      BY <1>5, <1>7, <2>2
    <2> QED BY <1>1, <2>1, <2>2
  <1>10. [i \in 1 .. count + 1 |-> data'[(head + i - 1) % capacity]]
            = [i \in 1 .. count + 1 |-> IF i = count + 1 THEN v ELSE Contents[i]]
    BY <1>9, Zenon
  <1>11. Contents' = Append(Contents, v)
    BY <1>3, <1>8, <1>10, Zenon
  <1> QED BY <1>1, <1>7, <1>11

(* Taking a value from the ring takes the first.                            *)
LEMMA TakeTakesFirst ==
    ASSUME IInv, capacity > 0, count # 0, Take
    PROVE  Contents # <<>> /\ Head(Contents) = data[head] /\ Contents' = Tail(Contents)
  <1>1. /\ capacity \in Nat \ {0} /\ head \in 0 .. capacity - 1 /\ count \in 1 .. capacity
        /\ capacity' = capacity /\ count' = count - 1 /\ head' = (head + 1) % capacity
    BY DEF IInv, ChannelConsistent, TypeOK, KindsMatch, Slots, Take
  <1>2. /\ Contents = [i \in 1 .. count |-> data[(head + i - 1) % capacity]]
        /\ Contents \in Seq(Word) /\ Len(Contents) = count
    BY <1>1, ContentsOfRing
  <1>3. (head + 0) % capacity = head /\ head + 1 - 1 = head + 0
    BY <1>1, ModHere
  <1>4. Contents[1] = data[head]
    BY <1>1, <1>2, <1>3
  <1>5. Contents' = [i \in 1 .. count - 1 |-> data'[(head' + i - 1) % capacity]]
    BY <1>1 DEF Contents
  <1>6. ASSUME NEW i \in 1 .. count - 1
        PROVE  data'[(head' + i - 1) % capacity] = Contents[i + 1]
    <2>1. /\ i - 1 \in 0 .. capacity - 1 /\ i \in 0 .. capacity - 1 /\ 0 \in 0 .. capacity - 1 /\ i # 0
          /\ (i - 1) + 1 = i /\ i + 1 \in 1 .. count /\ head + (i + 1) - 1 = head + i
      BY <1>1
    <2>2. (head' + (i - 1)) % capacity = (head + i) % capacity
      BY <1>1, <2>1, ModNext
    <2>3. head' + i - 1 = head' + (i - 1)
      BY <1>1, ModStep
    <2>4. (head + i) % capacity \in Slots
      BY <1>1, <2>1, ModNext DEF Slots
    <2>5. (head + i) % capacity # head
      BY <1>1, <1>3, <2>1, ModApart
    <2>6. data'[(head + i) % capacity] = data[(head + i) % capacity]
      BY <2>4, <2>5 DEF Take, IInv, ChannelConsistent, TypeOK
    <2> QED BY <1>2, <2>1, <2>2, <2>3, <2>6
  <1>7. Tail(Contents) = [i \in 1 .. count - 1 |-> Contents[i + 1]]
    BY <1>1, <1>2
  <1>8. [i \in 1 .. count - 1 |-> data'[(head' + i - 1) % capacity]]
           = [i \in 1 .. count - 1 |-> Contents[i + 1]]
    BY <1>6, Zenon
  <1>9. Contents' = Tail(Contents)
    BY <1>5, <1>7, <1>8, Zenon
  <1>10. Contents # <<>> /\ Head(Contents) = data[head]
    BY <1>1, <1>2, <1>4
  <1> QED BY <1>9, <1>10

-----------------------------------------------------------------------------
(* A channel is a first-in first-out queue                                 *)

LEMMA QueueBegins == Init => Abstract!Init
  <1> SUFFICES ASSUME Init PROVE Abstract!Init
    OBVIOUS
  <1>1. capacity \in Nat
    BY ChannelBegins DEF IInv, ChannelConsistent, TypeOK
  <1>2. Contents = <<>>
    <2>1. CASE capacity = 0
      BY <2>1 DEF Init, Contents
    <2>2. CASE capacity # 0
      <3>1. 1 .. count = {}
        BY DEF Init
      <3>2. Contents = [i \in 1 .. count |-> data[(head + i - 1) % capacity]]
        BY <2>2 DEF Contents
      <3> QED BY <3>1, <3>2
    <2> QED BY <2>1, <2>2
  <1>3. Phase = [a \in Actor |-> "idle"]
    BY DEF Init, Phase
  <1> QED BY <1>1, <1>2, <1>3 DEF Abstract!Init, Init

(* What an actor's place in a call is to the queue.                         *)
LEMMA PhaseOf ==
    ASSUME IInv
    PROVE  /\ \A a \in Actor : Phase[a] = CASE op[a] = "waitEmpty"    -> "sending"
                                           [] op[a] = "waitConsumed" -> "offered"
                                           [] OTHER                  -> op[a]
           /\ Phase' = [a \in Actor |-> CASE op'[a] = "waitEmpty"    -> "sending"
                                          [] op'[a] = "waitConsumed" -> "offered"
                                          [] OTHER                  -> op'[a]]
  BY DEF Phase

(* One actor moves on in its call.                                          *)
LEMMA PhaseStep ==
    ASSUME IInv, NEW a \in Actor, NEW w \in {"idle", "sending", "waitEmpty", "waitConsumed", "receiving"},
           op' = [op EXCEPT ![a] = w]
    PROVE  Phase' = [Phase EXCEPT ![a] = CASE w = "waitEmpty"    -> "sending"
                                           [] w = "waitConsumed" -> "offered"
                                           [] OTHER              -> w]
  <1>1. \A b \in Actor : op'[b] = IF b = a THEN w ELSE op[b]
    BY DEF IInv, ChannelConsistent, TypeOK
  <1> QED BY <1>1 DEF Phase

LEMMA CallRefines ==
    ASSUME IInv, NEW a \in Actor, Call(a)
    PROVE  Abstract!Next
  <1>1. ASSUME NEW v \in Message[a], Send(a, v) PROVE Abstract!Next
    <2>1. Phase' = [Phase EXCEPT ![a] = "sending"] /\ Phase[a] = "idle"
      <3>1. capacity = 0 => op' = [op EXCEPT ![a] = "waitEmpty"]
        BY <1>1 DEF Send
      <3>2. capacity # 0 => op' = [op EXCEPT ![a] = "sending"]
        BY <1>1 DEF Send
      <3> QED BY <1>1, <3>1, <3>2, PhaseStep, PhaseOf DEF Send
    <2>2. Contents' = Contents /\ capacity' = capacity
      BY <1>1 DEF Send, Contents, ring, slot
    <2>3. Abstract!StartSend(a, v)
      BY <1>1, <2>1, <2>2 DEF Abstract!StartSend, Send
    <2> QED BY <2>2, <2>3 DEF Abstract!Next
  <1>2. CASE Recv(a)
    <2>1. Phase' = [Phase EXCEPT ![a] = "receiving"] /\ Phase[a] = "idle"
      BY <1>2, PhaseStep, PhaseOf DEF Recv
    <2>2. Contents' = Contents /\ capacity' = capacity
      BY <1>2 DEF Recv, Contents, ring, slot
    <2>3. Abstract!StartRecv(a)
      BY <1>2, <2>1, <2>2 DEF Abstract!StartRecv, Recv
    <2> QED BY <2>2, <2>3 DEF Abstract!Next
  <1>3. CASE TryRecvOr(a)
    <2>1. capacity > 0 /\ capacity # 0 /\ capacity' = capacity
      BY <1>3 DEF TryRecvOr, Take, IInv, ChannelConsistent, TypeOK
    <2>2. Contents # <<>> /\ Head(Contents) = data[head] /\ Contents' = Tail(Contents)
      BY <1>3, <2>1, TakeTakesFirst DEF TryRecvOr
    <2>3. Phase' = Phase /\ Phase[a] = "idle"
      BY <1>3, PhaseOf DEF TryRecvOr, Phase
    <2>4. Abstract!TryReceive(a)
      BY <1>3, <2>1, <2>2, <2>3 DEF Abstract!TryReceive, Abstract!Rendezvous, TryRecvOr, Result
    <2> QED BY <2>1, <2>4 DEF Abstract!Next
  <1>4. ASSUME NEW v \in Message[a], TrySend(a, v) PROVE Abstract!Next
    <2>1. capacity > 0 /\ capacity' = capacity
      BY <1>4 DEF TrySend, Full, Put, IInv, ChannelConsistent, TypeOK
    <2>2. Contents' = Append(Contents, v) /\ Len(Contents) < capacity
      BY <1>4, <2>1, PutAppends, MessageIsValue DEF TrySend
    <2>3. Phase' = Phase /\ Phase[a] = "idle"
      BY <1>4, PhaseOf DEF TrySend, Phase
    <2>4. Abstract!TrySend(a, v)
      BY <1>4, <2>1, <2>2, <2>3 DEF Abstract!TrySend, Abstract!Rendezvous, Abstract!Bound, TrySend
    <2> QED BY <2>1, <2>4 DEF Abstract!Next
  <1> QED BY <1>1, <1>2, <1>3, <1>4 DEF Call

LEMMA ProceedRefines ==
    ASSUME IInv, NEW a \in Actor, Proceed(a)
    PROVE  Abstract!Next
  <1>1. CASE SendBuffered(a)
    <2>1. capacity > 0 /\ capacity # 0 /\ capacity' = capacity /\ arg[a] \in Value
      BY <1>1 DEF SendBuffered, Put, IInv, KindsMatch
    <2>2. Contents' = Append(Contents, arg[a]) /\ Len(Contents) < capacity
      BY <1>1, <2>1, PutAppends DEF SendBuffered
    <2>3. Phase' = [Phase EXCEPT ![a] = "idle"] /\ Phase[a] = "sending"
      BY <1>1, PhaseStep, PhaseOf DEF SendBuffered, Return
    <2>4. Abstract!Accept(a)
      BY <1>1, <2>1, <2>2, <2>3 DEF Abstract!Accept, Abstract!Rendezvous, Abstract!Bound, SendBuffered
    <2> QED BY <2>1, <2>4 DEF Abstract!Next
  <1>2. CASE Publish(a)
    <2>1. capacity = 0 /\ capacity' = capacity
      BY <1>2 DEF Publish, ring, IInv, KindsMatch
    <2>2. Contents = <<>> /\ Contents' = <<arg[a]>>
      BY <1>2, <2>1 DEF Publish, Contents
    <2>3. Phase' = [Phase EXCEPT ![a] = "offered"] /\ Phase[a] = "sending"
      BY <1>2, PhaseStep, PhaseOf DEF Publish
    <2>4. Abstract!Accept(a)
      BY <1>2, <2>1, <2>2, <2>3 DEF Abstract!Accept, Abstract!Rendezvous, Abstract!Bound, Publish
    <2> QED BY <2>1, <2>4 DEF Abstract!Next
  <1>3. CASE SendConsumed(a)
    <2>1. capacity = 0 /\ capacity' = capacity
      BY <1>3 DEF SendConsumed, ring, IInv, KindsMatch
    <2>2. Contents = <<>> /\ Contents' = <<>>
      BY <1>3, <2>1 DEF SendConsumed, Contents, slot
    <2>3. Phase' = [Phase EXCEPT ![a] = "idle"] /\ Phase[a] = "offered"
      BY <1>3, PhaseStep, PhaseOf DEF SendConsumed, Return
    <2>4. Abstract!Leave(a)
      BY <1>3, <2>2, <2>3 DEF Abstract!Leave, Abstract!InTransit, SendConsumed
    <2> QED BY <2>1, <2>4 DEF Abstract!Next
  <1>4. CASE RecvBuffered(a)
    <2>1. capacity > 0 /\ capacity' = capacity
      BY <1>4 DEF RecvBuffered, Take, IInv, ChannelConsistent, TypeOK
    <2>2. Contents # <<>> /\ Head(Contents) = data[head] /\ Contents' = Tail(Contents)
      BY <1>4, <2>1, TakeTakesFirst DEF RecvBuffered
    <2>3. Phase' = [Phase EXCEPT ![a] = "idle"] /\ Phase[a] = "receiving"
      BY <1>4, PhaseStep, PhaseOf DEF RecvBuffered, Return
    <2>4. Abstract!Receive(a)
      BY <1>4, <2>2, <2>3 DEF Abstract!Receive, RecvBuffered, Result
    <2> QED BY <2>1, <2>4 DEF Abstract!Next
  <1>5. CASE RecvPending(a)
    <2>1. capacity = 0 /\ capacity' = capacity
      BY <1>5 DEF RecvPending, ring
    <2>2. Contents = <<pending>> /\ Contents' = <<>>
      BY <1>5, <2>1 DEF RecvPending, Contents
    <2>3. Phase' = [Phase EXCEPT ![a] = "idle"] /\ Phase[a] = "receiving"
      BY <1>5, PhaseStep, PhaseOf DEF RecvPending, Return
    <2>4. Head(Contents) = pending /\ Tail(Contents) = <<>> /\ Contents # <<>>
      BY <2>2
    <2>5. Abstract!Receive(a)
      BY <1>5, <2>2, <2>3, <2>4 DEF Abstract!Receive, RecvPending, Result
    <2> QED BY <2>1, <2>5 DEF Abstract!Next
  <1> QED BY <1>1, <1>2, <1>3, <1>4, <1>5 DEF Proceed

(* A channel of any capacity is a first-in first-out queue of that many     *)
(* values; one of capacity zero is a queue of one value whose sender leaves *)
(* after the receipt (ts_channel_send, ts_channel_recv).                    *)
THEOREM ChannelIsQueue == Spec => FirstInFirstOut
  <1>1. ASSUME IInv, [Next]_vars PROVE [Abstract!Next]_(Abstract!vars)
    <2>1. CASE Next
      BY <1>1, <2>1, CallRefines, ProceedRefines DEF Next
    <2>2. CASE UNCHANGED vars
      <3>1. Contents' = Contents /\ Phase' = Phase
        BY <2>2 DEF vars, ring, slot, Contents, Phase
      <3> QED BY <2>2, <3>1 DEF Abstract!vars, vars, ring
    <2> QED BY <1>1, <2>1, <2>2
  <1> QED BY <1>1, QueueBegins, ChannelInvariant, PTL DEF Spec, FirstInFirstOut, Abstract!Spec

=============================================================================
