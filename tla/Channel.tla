------------------------------ MODULE Channel ------------------------------
(***************************************************************************)
(* One typed channel of the AMD64 runtime (channel_runtime_amd64.go): a    *)
(* ring buffer for a positive capacity, a single pending slot for a        *)
(* rendezvous otherwise.  A blocked operation yields and looks again when  *)
(* the scheduler resumes it; here any actor may be the next to run, which  *)
(* covers every order the scheduler, its timers and its nested joins can   *)
(* produce.  A step is what one actor does between two yields.             *)
(***************************************************************************)
EXTENDS Integers, Sequences

CONSTANTS
    Actor,      \* the contexts that use the channel
    Message,    \* per actor, the boxed JSValues it may send
    Empty,      \* the zero word of a cleared slot
    Request,    \* the capacities programs pass to channel(n)
    Resumed     \* the actors the scheduler resumes again and again

Value == UNION {Message[a] : a \in Actor}

ASSUME ChannelAssumption == Request \subseteq Int /\ Empty \notin Value

(* Each actor sends values of its own, so a value tells who sent it. *)
ASSUME MessageAssumption ==
    \A a, b \in Actor : a # b => Message[a] \cap Message[b] = {}

(* A task in the run queue is resumed again and again.  The main program   *)
(* and a task that joins may lie beneath another join on the same stack,   *)
(* where nothing resumes them until that join returns.                     *)
ASSUME ResumedAssumption == Resumed \subseteq Actor

VARIABLES
    capacity,
    data,       \* the ring
    count, head, tail,
    pending,    \* the slot of an unbuffered channel
    hasValue,
    op,         \* per actor, where it is in a channel operation
    arg         \* per actor, the value it is sending, or the last it received

ring == <<capacity, data, count, head, tail>>
slot == <<pending, hasValue>>
vars == <<ring, slot, op, arg>>

Slots == 0..capacity - 1

TypeOK ==
    /\ capacity \in Nat
    /\ data \in [Slots -> Value \cup {Empty}]
    /\ count \in 0..capacity
    /\ head \in 0..capacity /\ tail \in 0..capacity
    /\ pending \in Value \cup {Empty}
    /\ hasValue \in BOOLEAN
    /\ op \in [Actor -> {"idle", "sending", "waitEmpty", "waitConsumed", "receiving"}]
    /\ arg \in [Actor -> Value \cup {Empty}]

(* A negative capacity is taken as zero. *)
Clamped(n) == IF n < 0 THEN 0 ELSE n

Init ==
    /\ capacity \in {Clamped(n) : n \in Request}
    /\ data = [i \in Slots |-> Empty]
    /\ count = 0 /\ head = 0 /\ tail = 0
    /\ pending = Empty /\ hasValue = FALSE
    /\ op = [a \in Actor |-> "idle"]
    /\ arg = [a \in Actor |-> Empty]

-----------------------------------------------------------------------------
(* The ring buffer                                                         *)

Full == count >= capacity

Put(v) ==
    /\ data' = [data EXCEPT ![tail] = v]
    /\ tail' = (tail + 1) % capacity
    /\ count' = count + 1
    /\ UNCHANGED <<capacity, head>>

TakeKeepsSlot ==
    /\ head' = (head + 1) % capacity
    /\ count' = count - 1
    /\ UNCHANGED <<capacity, data, tail>>

TakeKeepsHead ==
    /\ data' = [data EXCEPT ![head] = Empty]
    /\ count' = count - 1
    /\ UNCHANGED <<capacity, head, tail>>

(* The slot is cleared so that the collector does not see the value again. *)
Take ==
    /\ data' = [data EXCEPT ![head] = Empty]
    /\ head' = (head + 1) % capacity
    /\ count' = count - 1
    /\ UNCHANGED <<capacity, tail>>

-----------------------------------------------------------------------------
(* Calls and the resumptions of blocked calls                              *)

Return(a) == op' = [op EXCEPT ![a] = "idle"]
Result(a, v) == arg' = [arg EXCEPT ![a] = v]

TrySend(a, v) ==
    /\ op[a] = "idle"
    /\ ~Full
    /\ Put(v)
    /\ UNCHANGED <<slot, op, arg>>

TryRecvOr(a) ==
    /\ op[a] = "idle"
    /\ count # 0
    /\ Take
    /\ Result(a, data[head])
    /\ UNCHANGED <<slot, op>>

Send(a, v) ==
    /\ op[a] = "idle"
    /\ op' = [op EXCEPT ![a] = IF capacity = 0 THEN "waitEmpty" ELSE "sending"]
    /\ arg' = [arg EXCEPT ![a] = v]
    /\ UNCHANGED <<ring, slot>>

SendBuffered(a) ==
    /\ op[a] = "sending"
    /\ ~Full
    /\ Put(arg[a])
    /\ Return(a)
    /\ UNCHANGED <<slot, arg>>

PublishOver(a) ==
    /\ op[a] = "waitEmpty"
    /\ pending' = arg[a]
    /\ hasValue' = TRUE
    /\ op' = [op EXCEPT ![a] = "waitConsumed"]
    /\ UNCHANGED <<ring, arg>>

(* The value is published and the sender waits until the slot is seen free *)
(* again.                                                                  *)
Publish(a) ==
    /\ op[a] = "waitEmpty"
    /\ ~hasValue
    /\ pending' = arg[a]
    /\ hasValue' = TRUE
    /\ op' = [op EXCEPT ![a] = "waitConsumed"]
    /\ UNCHANGED <<ring, arg>>

SendConsumed(a) ==
    /\ op[a] = "waitConsumed"
    /\ ~hasValue
    /\ Return(a)
    /\ UNCHANGED <<ring, slot, arg>>

Recv(a) ==
    /\ op[a] = "idle"
    /\ op' = [op EXCEPT ![a] = "receiving"]
    /\ UNCHANGED <<ring, slot, arg>>

RecvBuffered(a) ==
    /\ op[a] = "receiving"
    /\ capacity # 0
    /\ count # 0
    /\ Take
    /\ Return(a)
    /\ Result(a, data[head])
    /\ UNCHANGED slot

RecvPendingCounts(a) ==
    /\ op[a] = "receiving"
    /\ capacity = 0
    /\ count # 0
    /\ pending' = Empty
    /\ hasValue' = FALSE
    /\ Return(a)
    /\ Result(a, pending)
    /\ UNCHANGED ring

RecvPending(a) ==
    /\ op[a] = "receiving"
    /\ capacity = 0
    /\ hasValue
    /\ pending' = Empty
    /\ hasValue' = FALSE
    /\ Return(a)
    /\ Result(a, pending)
    /\ UNCHANGED ring

(* A blocked operation yields; otherwise exactly one of the steps above is *)
(* its next.                                                               *)
Blocked(a) ==
    \/ op[a] = "sending" /\ Full
    \/ op[a] \in {"waitEmpty", "waitConsumed"} /\ hasValue
    \/ op[a] = "receiving" /\ (IF capacity = 0 THEN ~hasValue ELSE count = 0)

Proceed(a) == SendBuffered(a) \/ Publish(a) \/ SendConsumed(a) \/ RecvBuffered(a) \/ RecvPending(a)

Call(a) == Recv(a) \/ TryRecvOr(a) \/ \E v \in Message[a] : Send(a, v) \/ TrySend(a, v)

Next == \E a \in Actor : Call(a) \/ Proceed(a)

Spec == Init /\ [][Next]_vars

(* Of an actor outside Resumed nothing is assumed: it may stop for ever,   *)
(* with its value in the slot or with a call it never gets to make.        *)
FairSpec == Spec /\ \A a \in Resumed : WF_vars(Proceed(a))

-----------------------------------------------------------------------------
(* The values in the channel, oldest first. *)
Contents ==
    IF capacity = 0
    THEN IF hasValue THEN <<pending>> ELSE <<>>
    ELSE [i \in 1..count |-> data[(head + i - 1) % capacity]]

(* head, tail and count agree, and every slot outside the window between   *)
(* them is cleared: a received value is not kept alive by the buffer.      *)
RingConsistent ==
    capacity > 0 =>
        /\ tail = (head + count) % capacity
        /\ \A i \in Slots :
              (data[i] # Empty) <=> \E k \in 0..count - 1 : i = (head + k) % capacity

(* At most one value is on offer in an unbuffered channel, and its sender  *)
(* is still in its call.                                                   *)
PendingHasSender ==
    hasValue => \E a \in Actor : op[a] = "waitConsumed" /\ arg[a] = pending

(* Ring, slot and calls in progress describe one channel, after any        *)
(* interleaving of blocking and non-blocking calls.                        *)
ChannelConsistent == TypeOK /\ RingConsistent /\ PendingHasSender

(* A sender that waits to publish and a receiver do not both wait for ever *)
(* at a rendezvous, when both are resumed again and again, whether or not  *)
(* anyone else is.  Either may wait longer than the other: what the        *)
(* receiver takes may be another's value, and the sender's turn to publish *)
(* or to return may come after another's.  Only others that meet there     *)
(* endlessly can keep both waiting: they find the slot free, or full, at   *)
(* each of their turns.                                                    *)
OthersKeepMeeting == []<>hasValue /\ []<>~hasValue

BlockedMeet ==
    \A a, b \in Resumed :
        \/ (op[a] = "waitEmpty" /\ op[b] = "receiving" /\ capacity = 0)
              ~> (op[a] # "waitEmpty" \/ op[b] # "receiving")
        \/ OthersKeepMeeting

(* Once a value has been received its sender's call ends. *)
ReceivedSendReturns ==
    \A a \in Actor :
        (op[a] = "waitConsumed" /\ \A i \in DOMAIN Contents : Contents[i] # arg[a])
            ~> op[a] = "idle"

-----------------------------------------------------------------------------
(* Refinement of AbstractChannel *)

Phase == [a \in Actor |->
            CASE op[a] = "waitEmpty"    -> "sending"
              [] op[a] = "waitConsumed" -> "offered"
              [] OTHER                  -> op[a]]

Abstract == INSTANCE AbstractChannel WITH
    None <- Empty,
    queue <- Contents,
    phase <- Phase,
    item <- arg

(* The ring and the pending slot implement a first-in first-out queue, and *)
(* a send of an unbuffered channel returns only after its receipt.         *)
FirstInFirstOut == Abstract!Spec

=============================================================================
