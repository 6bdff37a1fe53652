-------------------------- MODULE CooperativeTasks --------------------------
(***************************************************************************)
(* What the task runtime promises its programs, without queues, clocks,    *)
(* frames or joins: a task is entered from the context on top of one call  *)
(* stack, gives control back only to the context that entered it, may be   *)
(* parked and entered again any number of times, settles once, and is      *)
(* forgotten some time after that.                                         *)
(***************************************************************************)
EXTENDS Naturals, Sequences

CONSTANT Task

VARIABLES
    phase,      \* "absent", "ready", "active" or "settled"
    stack       \* the active tasks, the running one last

Top == stack[Len(stack)]
Pop == SubSeq(stack, 1, Len(stack) - 1)

Init ==
    /\ phase = [t \in Task |-> "absent"]
    /\ stack = <<>>

Create(t) ==
    /\ phase[t] = "absent"
    /\ phase' = [phase EXCEPT ![t] = "ready"]
    /\ UNCHANGED stack

Enter(t) ==
    /\ phase[t] = "ready"
    /\ phase' = [phase EXCEPT ![t] = "active"]
    /\ stack' = Append(stack, t)

Park ==
    /\ stack # <<>>
    /\ phase' = [phase EXCEPT ![Top] = "ready"]
    /\ stack' = Pop

Settle ==
    /\ stack # <<>>
    /\ phase' = [phase EXCEPT ![Top] = "settled"]
    /\ stack' = Pop

(* A cancelled timer settles without running. *)
Drop(t) ==
    /\ phase[t] = "ready"
    /\ phase' = [phase EXCEPT ![t] = "settled"]
    /\ UNCHANGED stack

(* A settled task is collected, and its object is free for a new one. *)
Forget(t) ==
    /\ phase[t] = "settled"
    /\ phase' = [phase EXCEPT ![t] = "absent"]
    /\ UNCHANGED stack

Next ==
    \/ \E t \in Task : Create(t) \/ Enter(t) \/ Drop(t) \/ Forget(t)
    \/ Park \/ Settle

Spec == Init /\ [][Next]_<<phase, stack>>

=============================================================================
