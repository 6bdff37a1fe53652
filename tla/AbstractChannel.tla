-------------------------- MODULE AbstractChannel --------------------------
(***************************************************************************)
(* What a channel promises: a first-in first-out queue of at most Bound    *)
(* values in which nothing is lost, duplicated or overtaken.  With         *)
(* Rendezvous a send ends only after its value has been received.          *)
(***************************************************************************)
EXTENDS Naturals, Sequences

CONSTANTS Actor, Message, None

VARIABLES
    capacity,   \* fixed when the channel is made; zero is a rendezvous
    queue,      \* the values sent and not yet received
    phase,      \* per actor: "idle", "sending", "offered" or "receiving"
    item        \* per actor, the value it sends or the last it received

vars == <<capacity, queue, phase, item>>

Rendezvous == capacity = 0
Bound == IF Rendezvous THEN 1 ELSE capacity

InTransit(v) == \E i \in DOMAIN queue : queue[i] = v

Init ==
    /\ capacity \in Nat
    /\ queue = <<>>
    /\ phase = [a \in Actor |-> "idle"]
    /\ item = [a \in Actor |-> None]

StartSend(a, v) ==
    /\ phase[a] = "idle"
    /\ phase' = [phase EXCEPT ![a] = "sending"]
    /\ item' = [item EXCEPT ![a] = v]
    /\ UNCHANGED queue

StartRecv(a) ==
    /\ phase[a] = "idle"
    /\ phase' = [phase EXCEPT ![a] = "receiving"]
    /\ UNCHANGED <<queue, item>>

Accept(a) ==
    /\ phase[a] = "sending"
    /\ Len(queue) < Bound
    /\ queue' = Append(queue, item[a])
    /\ phase' = [phase EXCEPT ![a] = IF Rendezvous THEN "offered" ELSE "idle"]
    /\ UNCHANGED item

Leave(a) ==
    /\ phase[a] = "offered"
    /\ ~InTransit(item[a])
    /\ phase' = [phase EXCEPT ![a] = "idle"]
    /\ UNCHANGED <<queue, item>>

Receive(a) ==
    /\ phase[a] = "receiving"
    /\ queue # <<>>
    /\ queue' = Tail(queue)
    /\ item' = [item EXCEPT ![a] = Head(queue)]
    /\ phase' = [phase EXCEPT ![a] = "idle"]

(* The calls that never wait; they do not take part in a rendezvous. *)
TrySend(a, v) ==
    /\ phase[a] = "idle" /\ ~Rendezvous
    /\ Len(queue) < Bound
    /\ queue' = Append(queue, v)
    /\ UNCHANGED <<phase, item>>

TryReceive(a) ==
    /\ phase[a] = "idle" /\ ~Rendezvous
    /\ queue # <<>>
    /\ queue' = Tail(queue)
    /\ item' = [item EXCEPT ![a] = Head(queue)]
    /\ UNCHANGED phase

Next ==
    /\ UNCHANGED capacity
    /\ \E a \in Actor :
        \/ \E v \in Message[a] : StartSend(a, v) \/ TrySend(a, v)
        \/ StartRecv(a) \/ Accept(a) \/ Leave(a) \/ Receive(a) \/ TryReceive(a)

Spec == Init /\ [][Next]_vars

=============================================================================
