----------------------------- MODULE Intervals -----------------------------
(***************************************************************************)
(* Intervals and the handles of timers (web_timers.go,                     *)
(* intervals_amd64.go, clear of timers_amd64.go).                          *)
(*                                                                         *)
(* An interval is a worker task that sleeps, calls back and loops.  A      *)
(* handle is the address of a task as a number: it does not keep the task, *)
(* and clearing it searches the places a task can be in for that address.  *)
(* A task that waits in a join is in none of these places (TaskRuntime):   *)
(* it waits on the stack of the task it runs.                              *)
(***************************************************************************)
EXTENDS Integers, FiniteSets

CONSTANTS
    Addr,       \* addresses the allocator gives to tasks
    Timer,      \* timers the program makes, numbered in the order it does
    MaxFires    \* bound: calls of one interval's callback

IntervalsAssumption ==
    /\ Addr # {}
    /\ Timer \subseteq Nat
    /\ MaxFires \in Nat

VARIABLES
    kind,       \* per timer: not made yet, "timeout" or "interval"
    address,    \* per timer, its handle
    place,      \* per timer, where its task is
    calling,    \* per timer, whether its callback has begun and not ended
    cancelled,  \* task.cancelled
    fires,      \* history: calls of the callback
    stopped,    \* history: per timer, calls when a clear of it found it
    missed,     \* history: where timers were when a clear did not find them
    struck      \* history: timers a stale handle of another cancelled

vars == <<kind, address, place, calling, cancelled, fires, stopped, missed, struck>>

NotStopped == -1

(* "timers" and "runnable" are the scheduler's lists. *)
Place == {"none", "timers", "runnable", "current", "join", "finished", "freed"}

Init ==
    /\ kind = [t \in Timer |-> "none"]
    /\ address = [t \in Timer |-> CHOOSE a \in Addr : TRUE]
    /\ place = [t \in Timer |-> "none"]
    /\ calling = [t \in Timer |-> FALSE]
    /\ cancelled = [t \in Timer |-> FALSE]
    /\ fires = [t \in Timer |-> 0]
    /\ stopped = [t \in Timer |-> NotStopped]
    /\ missed = {}
    /\ struck = {}

-----------------------------------------------------------------------------
Exists(t) == place[t] \notin {"none", "freed"}
Holds(a, t) == Exists(t) /\ address[t] = a
Idle == \A t \in Timer : place[t] # "current"

Move(t, p) == place' = [place EXCEPT ![t] = p]

Make(t, k, p) ==
    /\ kind[t] = "none"
    /\ \A u \in Timer : u < t => kind[u] # "none"
    /\ \E a \in Addr :
          /\ \A u \in Timer : ~Holds(a, u)
          /\ address' = [address EXCEPT ![t] = a]
    /\ kind' = [kind EXCEPT ![t] = k]
    /\ Move(t, p)
    /\ UNCHANGED <<calling, cancelled, fires, stopped, missed, struck>>

SetTimeout(t) == Make(t, "timeout", "timers")

(* The worker is spawned like any task. *)
SetInterval(t) == Make(t, "interval", "runnable")

Fire(t) ==
    /\ fires[t] < MaxFires
    /\ fires' = [fires EXCEPT ![t] = @ + 1]
    /\ calling' = [calling EXCEPT ![t] = TRUE]
    /\ Move(t, "current")

(* Mutant of Tick: it does not check again after the sleep. *)
TickUnchecked(t, sleeps) ==
    IF sleeps /\ cancelled[t]
    THEN Move(t, "finished") /\ calling' = [calling EXCEPT ![t] = FALSE] /\ UNCHANGED fires
    ELSE IF sleeps
    THEN Move(t, "timers") /\ calling' = [calling EXCEPT ![t] = FALSE] /\ UNCHANGED fires
    ELSE Fire(t)

(* The worker runs to its next sleep: it checks before sleeping and after. *)
(* A sleep of no delay returns at once, so that it checks and calls back.  *)
Tick(t, sleeps) ==
    IF cancelled[t]
    THEN Move(t, "finished") /\ calling' = [calling EXCEPT ![t] = FALSE] /\ UNCHANGED fires
    ELSE IF sleeps
    THEN Move(t, "timers") /\ calling' = [calling EXCEPT ![t] = FALSE] /\ UNCHANGED fires
    ELSE Fire(t)

(* The worker's first run, from the run queue. *)
BeginInterval(t) ==
    /\ kind[t] = "interval" /\ place[t] = "runnable" /\ Idle
    /\ ~calling[t]
    /\ \E sleeps \in BOOLEAN : Tick(t, sleeps)
    /\ UNCHANGED <<kind, address, cancelled, stopped, missed, struck>>

(* The scheduler takes a timer off the list and enters it in one step.     *)
(* Which one is due first is a matter of deadlines (TaskRuntime): here any *)
(* may be.                                                                 *)
Expires(t) == place[t] = "timers" /\ ~calling[t] /\ Idle

(* A timeout begins: the trampoline skips the closure of a cancelled one. *)
RunTimeout(t) ==
    /\ kind[t] = "timeout" /\ Expires(t)
    /\ IF cancelled[t]
       THEN Move(t, "finished") /\ UNCHANGED <<fires, calling>>
       ELSE Fire(t)
    /\ UNCHANGED <<kind, address, cancelled, stopped, missed, struck>>

(* A worker goes on after its sleep. *)
WakeInterval(t) ==
    /\ kind[t] = "interval" /\ Expires(t)
    /\ Tick(t, FALSE)
    /\ UNCHANGED <<kind, address, cancelled, stopped, missed, struck>>

(* What a callback does: it yields (a channel it waits for makes it yield  *)
(* again and again), sleeps, joins, goes on, and returns.                  *)
CallbackWaits(t, p) ==
    /\ place[t] = "current" /\ calling[t]
    /\ Move(t, p)
    /\ UNCHANGED <<kind, address, calling, cancelled, fires, stopped, missed, struck>>

CallbackResumes(t) ==
    /\ place[t] \in {"runnable", "timers", "join"} /\ calling[t] /\ Idle
    /\ Move(t, "current")
    /\ UNCHANGED <<kind, address, calling, cancelled, fires, stopped, missed, struck>>

CallbackReturns(t) ==
    /\ place[t] = "current" /\ calling[t]
    /\ IF kind[t] = "timeout"
       THEN /\ Move(t, "finished")
            /\ calling' = [calling EXCEPT ![t] = FALSE]
            /\ UNCHANGED fires
       ELSE \E sleeps \in BOOLEAN : Tick(t, sleeps)
    /\ UNCHANGED <<kind, address, cancelled, stopped, missed, struck>>

(* Nothing refers to a task that has finished: it can be collected. *)
Free(t) ==
    /\ place[t] = "finished"
    /\ Move(t, "freed")
    /\ UNCHANGED <<kind, address, calling, cancelled, fires, stopped, missed, struck>>

-----------------------------------------------------------------------------
Searched(k) ==
    IF k = "interval" THEN {"current", "runnable", "timers"} ELSE {"timers"}

(* clearTimeout and clearInterval, by any task, of the handle of t.  What  *)
(* clearInterval does to the deadline of a sleeping worker is in           *)
(* TaskRuntime, with the order of the list it leaves alone.                *)
Clear(t) ==
    /\ kind[t] # "none"
    /\ LET found == {u \in Timer : Holds(address[t], u) /\ place[u] \in Searched(kind[t])} IN
       /\ cancelled' = [u \in Timer |-> cancelled[u] \/ u \in found]
       /\ stopped' = IF t \in found /\ stopped[t] = NotStopped
                     THEN [stopped EXCEPT ![t] = fires[t]] ELSE stopped
       /\ missed' = IF t \in found THEN missed ELSE missed \cup {<<t, kind[t], place[t]>>}
       /\ struck' = struck \cup (found \ {t})
    /\ UNCHANGED <<kind, address, place, calling, fires>>

Next ==
    \E t \in Timer :
        \/ SetTimeout(t)
        \/ SetInterval(t)
        \/ BeginInterval(t)
        \/ RunTimeout(t)
        \/ WakeInterval(t)
        \/ \E p \in {"runnable", "timers", "join"} : CallbackWaits(t, p)
        \/ CallbackResumes(t)
        \/ CallbackReturns(t)
        \/ Free(t)
        \/ Clear(t)

Spec == Init /\ [][Next]_vars

-----------------------------------------------------------------------------
TypeOK ==
    /\ kind \in [Timer -> {"none", "timeout", "interval"}]
    /\ address \in [Timer -> Addr]
    /\ place \in [Timer -> Place]
    /\ calling \in [Timer -> BOOLEAN]
    /\ cancelled \in [Timer -> BOOLEAN]
    /\ fires \in [Timer -> 0 .. MaxFires]
    /\ stopped \in [Timer -> NotStopped .. MaxFires]
    /\ struck \subseteq Timer

(* A clear that finds its own timer stops it: its callback never begins    *)
(* again.  A clear does not find a timer whose callback is in a join, a    *)
(* timeout whose callback has begun, and a timer that is over, and finds   *)
(* every other; and a timer nobody cleared is cancelled only through a     *)
(* handle that outlived its own timer.                                     *)
ClearedStops ==
    /\ \A t \in Timer : stopped[t] # NotStopped => fires[t] = stopped[t]
    /\ \A m \in missed :
          \/ m[3] \in {"join", "finished", "freed"}
          \/ m[2] = "timeout" /\ m[3] \in {"current", "runnable"} /\ fires[m[1]] > 0
    /\ \A t \in Timer : cancelled[t] /\ stopped[t] = NotStopped =>
          \E u \in Timer : u # t /\ address[u] = address[t] /\ place[u] = "freed" /\ t \in struck

=============================================================================
