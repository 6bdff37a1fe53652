---------------------------- MODULE TaskRuntime ----------------------------
(***************************************************************************)
(* The cooperative task scheduler that every program compiled by ts-pro    *)
(* for Linux/AMD64 carries (internal/backend/lower/task_runtime_amd64.go   *)
(* and timers_amd64.go): stackful tasks, a run queue, a microtask queue,   *)
(* a deadline-ordered timer list, joins that run other tasks on the        *)
(* joiner's own stack, task groups, cancellation, task-local context and   *)
(* the shadow-root chains the collector scans.                             *)
(*                                                                         *)
(* One native thread runs everything, so a step is what happens between    *)
(* two points at which another context can be entered.  What the code in   *)
(* control does next (spawn, join, sleep, return ...) is any choice a      *)
(* TypeScript program could make.                                          *)
(*                                                                         *)
(* The intrusive lists (taskHead/taskTail, microtaskHead/Tail, timerHead,  *)
(* all threaded through the one field task.next) are sequences here;       *)
(* OneHome is the property that makes this abstraction sound.              *)
(***************************************************************************)
EXTENDS Integers, Sequences, FiniteSets

CONSTANTS
    Task,       \* task objects the program may allocate
    Group,      \* task groups the program may allocate
    NoTask,     \* the null task pointer; as a context, the main program
    NoRoot,     \* a cleared SavedRoot/ReturnRoot word
    Context,    \* task-local context strings
    NoContext,  \* the null context
    Delay,      \* delays of setTimeout and sleep, in clock units
    MaxTime     \* bound on the monotonic clock

ASSUME TaskAssumption == NoTask \notin Task /\ NoRoot \notin Task \cup {NoTask}
ASSUME ContextAssumption == NoContext \in Context
ASSUME ClockAssumption == MaxTime \in Nat /\ Delay \subseteq Int

VARIABLES
    state,      \* task.State; "free" while the object is not allocated
    timer,      \* task.Timer: allocated by setTimeout
    cancelled,  \* task.Cancelled
    context,    \* task.Context
    wake,       \* task.WakeNS
    armed,      \* history: the deadline with which the task was last put
                \* in the timer list
    parent,     \* task.Parent: the context that resumed the task
    returnRsp,  \* task.ReturnRsp # 0: the task is on the activation chain
    savedRsp,   \* task.SavedRsp # 0: the task is suspended
    returnRoot, \* task.ReturnRoot: whose frames the word points to
    savedRoot,  \* task.SavedRoot: whose frames the word points to
    runQueue, microQueue, timerQueue,
    current,    \* currentTask of the runtime context
    rootHead,   \* rootHead of the runtime context: whose frames it points to
    joining,    \* per context, the tasks its join loop has still to see settled
    members,    \* per group, its list through task.GroupNext
    main,       \* where the main program is
    now         \* CLOCK_MONOTONIC

taskVars  == <<state, timer, cancelled, context, wake, armed>>
frameVars == <<parent, returnRsp, savedRsp, returnRoot, savedRoot, current, rootHead>>
queueVars == <<runQueue, microQueue, timerQueue>>
vars == <<taskVars, frameVars, queueVars, joining, members, main, now>>

Ctx == Task \cup {NoTask}

Elements(s) == {s[i] : i \in DOMAIN s}

Settled(t) == state[t] \in {"fulfilled", "rejected"}

(* The code of the current context is running, not a runtime wait loop. *)
Running == joining[current] = <<>> /\ (current = NoTask => main = "running")

TypeOK ==
    /\ state \in [Task -> {"free", "new", "running", "fulfilled", "rejected"}]
    /\ timer \in [Task -> BOOLEAN]
    /\ cancelled \in [Task -> BOOLEAN]
    /\ context \in [Task -> Context]
    /\ wake \in [Task -> Nat]
    /\ armed \in [Task -> Nat]
    /\ parent \in [Task -> Ctx]
    /\ returnRsp \in [Task -> BOOLEAN]
    /\ savedRsp \in [Task -> BOOLEAN]
    /\ returnRoot \in [Task -> Ctx \cup {NoRoot}]
    /\ savedRoot \in [Task -> Ctx \cup {NoRoot}]
    /\ runQueue \in Seq(Task)
    /\ microQueue \in Seq(Task)
    /\ timerQueue \in Seq(Task)
    /\ current \in Ctx
    /\ rootHead \in Ctx
    /\ joining \in [Ctx -> Seq(Task)]
    /\ members \in [Group -> Seq(Task)]
    /\ main \in {"running", "yielding", "draining", "exited"}
    /\ now \in Nat

Init ==
    /\ state = [t \in Task |-> "free"]
    /\ timer = [t \in Task |-> FALSE]
    /\ cancelled = [t \in Task |-> FALSE]
    /\ context = [t \in Task |-> NoContext]
    /\ wake = [t \in Task |-> 0]
    /\ armed = [t \in Task |-> 0]
    /\ parent = [t \in Task |-> NoTask]
    /\ returnRsp = [t \in Task |-> FALSE]
    /\ savedRsp = [t \in Task |-> FALSE]
    /\ returnRoot = [t \in Task |-> NoRoot]
    /\ savedRoot = [t \in Task |-> NoRoot]
    /\ runQueue = <<>> /\ microQueue = <<>> /\ timerQueue = <<>>
    /\ current = NoTask
    /\ rootHead = NoTask
    /\ joining = [c \in Ctx |-> <<>>]
    /\ members = [g \in Group |-> <<>>]
    /\ main = "running"
    /\ now = 0

-----------------------------------------------------------------------------
(* Operations of the running code                                          *)

(* The context a new task inherits from the task that creates it. *)
Inherited == IF current = NoTask THEN NoContext ELSE context[current]

(* A task object with its fields zeroed; a fresh object of the model has   *)
(* them zero already.                                                      *)
NewTask(t, isTimer) ==
    /\ Running
    /\ state[t] = "free"
    /\ state' = [state EXCEPT ![t] = "new"]
    /\ timer' = [timer EXCEPT ![t] = isTimer]
    /\ context' = [context EXCEPT ![t] = Inherited]

Spawn(t) ==
    /\ NewTask(t, FALSE)
    /\ runQueue' = Append(runQueue, t)
    /\ UNCHANGED <<cancelled, wake, armed, frameVars, microQueue, timerQueue, joining, members, main, now>>

MicrotaskSpawn(t) ==
    /\ NewTask(t, FALSE)
    /\ microQueue' = Append(microQueue, t)
    /\ UNCHANGED <<cancelled, wake, armed, frameVars, runQueue, timerQueue, joining, members, main, now>>

GroupSpawn(g, t) ==
    /\ NewTask(t, FALSE)
    /\ runQueue' = Append(runQueue, t)
    /\ members' = [members EXCEPT ![g] = <<t>> \o @]
    /\ UNCHANGED <<cancelled, wake, armed, frameVars, microQueue, timerQueue, joining, main, now>>

(* The list s with x behind its first k elements. *)
InsertedAfter(s, k, x) ==
    [i \in 1..Len(s) + 1 |->
        IF i <= k THEN s[i] ELSE IF i = k + 1 THEN x ELSE s[i - 1]]

InsertTimerAtEnd(t, deadline) == timerQueue' = Append(timerQueue, t)

InsertTimerBeforeEqual(t, deadline) ==
    \E k \in 0..Len(timerQueue) :
        /\ \A i \in 1..k : wake[timerQueue[i]] < deadline
        /\ k < Len(timerQueue) => deadline <= wake[timerQueue[k + 1]]
        /\ timerQueue' = InsertedAfter(timerQueue, k, t)

(* The list walk stops in front of the first timer that is due later, so   *)
(* timers with the same deadline keep the order of their insertion.        *)
InsertTimer(t, deadline) ==
    \E k \in 0..Len(timerQueue) :
        /\ \A i \in 1..k : wake[timerQueue[i]] <= deadline
        /\ k < Len(timerQueue) => deadline < wake[timerQueue[k + 1]]
        /\ timerQueue' = InsertedAfter(timerQueue, k, t)

SetTimeout(t, d) ==
    LET deadline == now + (IF d < 0 THEN 0 ELSE d) IN
    /\ NewTask(t, TRUE)
    /\ deadline <= MaxTime
    /\ wake' = [wake EXCEPT ![t] = deadline]
    /\ armed' = [armed EXCEPT ![t] = deadline]
    /\ InsertTimer(t, deadline)
    /\ UNCHANGED <<cancelled, frameVars, runQueue, microQueue, joining, members, main, now>>

(* The handle is looked up in the timer list only; the entry stays there.  *)
ClearTimeout(t) ==
    /\ Running
    /\ state[t] # "free"
    /\ t \in Elements(timerQueue)
    /\ cancelled' = [cancelled EXCEPT ![t] = TRUE]
    /\ UNCHANGED <<state, timer, context, wake, armed, frameVars, queueVars, joining, members, main, now>>

(* The handle is looked up among the current task, the run queue and the   *)
(* timer list.  A worker that is found asleep is made due where it stands: *)
(* its deadline becomes zero and the list is not put in order again.       *)
ClearInterval(t) ==
    /\ Running
    /\ state[t] # "free"
    /\ t = current \/ t \in Elements(runQueue) \/ t \in Elements(timerQueue)
    /\ cancelled' = [cancelled EXCEPT ![t] = TRUE]
    /\ wake' = IF t \in Elements(timerQueue) THEN [wake EXCEPT ![t] = 0] ELSE wake
    /\ UNCHANGED <<state, timer, context, armed, frameVars, queueVars, joining, members, main, now>>

Cancel(t) ==
    /\ Running
    /\ state[t] # "free"
    /\ cancelled' = [cancelled EXCEPT ![t] = TRUE]
    /\ UNCHANGED <<state, timer, context, wake, armed, frameVars, queueVars, joining, members, main, now>>

GroupCancel(g) ==
    /\ Running
    /\ cancelled' = [t \in Task |-> cancelled[t] \/ t \in Elements(members[g])]
    /\ UNCHANGED <<state, timer, context, wake, armed, frameVars, queueVars, joining, members, main, now>>

SetContext(x) ==
    /\ Running
    /\ current # NoTask
    /\ context' = [context EXCEPT ![current] = x]
    /\ UNCHANGED <<state, timer, cancelled, wake, armed, frameVars, queueVars, joining, members, main, now>>

-----------------------------------------------------------------------------
(* Context switches                                                        *)

(* Leave the current task for the context c, whose frames root denotes.    *)
LeaveTo(c, root, savedRsp2, savedRoot2) ==
    /\ current' = c
    /\ rootHead' = root
    /\ parent' = [parent EXCEPT ![current] = NoTask]
    /\ returnRsp' = [returnRsp EXCEPT ![current] = FALSE]
    /\ returnRoot' = [returnRoot EXCEPT ![current] = NoRoot]
    /\ savedRsp' = [savedRsp EXCEPT ![current] = savedRsp2]
    /\ savedRoot' = [savedRoot EXCEPT ![current] = savedRoot2]

RestoreMain(savedRsp2, savedRoot2) ==
    LeaveTo(NoTask, returnRoot[current], savedRsp2, savedRoot2)

RestoreClearedRoot(savedRsp2, savedRoot2) ==
    LeaveTo(parent[current], NoRoot, savedRsp2, savedRoot2)

RestoreKeepsReturn(savedRsp2, savedRoot2) ==
    /\ current' = parent[current]
    /\ rootHead' = returnRoot[current]
    /\ savedRsp' = [savedRsp EXCEPT ![current] = savedRsp2]
    /\ savedRoot' = [savedRoot EXCEPT ![current] = savedRoot2]
    /\ UNCHANGED <<parent, returnRsp, returnRoot>>

(* Give control back to the context that resumed the current task.         *)
RestoreCaller(savedRsp2, savedRoot2) ==
    LeaveTo(parent[current], returnRoot[current], savedRsp2, savedRoot2)

Suspend == RestoreCaller(TRUE, rootHead)

(* The task's closure returned, or it threw: result and state are stored,  *)
(* the suspended-stack words are cleared and the stack is unmapped.        *)
Settle(outcome) ==
    /\ Running
    /\ current # NoTask
    /\ state' = [state EXCEPT ![current] = outcome]
    /\ RestoreCaller(FALSE, NoRoot)
    /\ UNCHANGED <<timer, cancelled, context, wake, armed, queueVars, joining, members, main, now>>

Complete == Settle("fulfilled")
Reject   == Settle("rejected")

(* A throw in the main program ends the process. *)
RejectMain ==
    /\ Running
    /\ current = NoTask
    /\ main' = "exited"
    /\ UNCHANGED <<taskVars, frameVars, queueVars, joining, members, now>>

YieldAtHead ==
    /\ Running
    /\ current # NoTask
    /\ runQueue' = <<current>> \o runQueue
    /\ Suspend
    /\ UNCHANGED <<taskVars, microQueue, timerQueue, joining, members, main, now>>

YieldForgetsHead ==
    /\ Running
    /\ current # NoTask
    /\ runQueue' = IF runQueue = <<>> THEN <<>> ELSE Append(runQueue, current)
    /\ Suspend
    /\ UNCHANGED <<taskVars, microQueue, timerQueue, joining, members, main, now>>

Yield ==
    /\ Running
    /\ current # NoTask
    /\ runQueue' = Append(runQueue, current)
    /\ Suspend
    /\ UNCHANGED <<taskVars, microQueue, timerQueue, joining, members, main, now>>

(* The main program has no stack to park: it runs one task instead. *)
YieldMain ==
    /\ Running
    /\ current = NoTask
    /\ main' = "yielding"
    /\ UNCHANGED <<taskVars, frameVars, queueVars, joining, members, now>>

(* sleep returns at once for a delay of zero or less. *)
Sleep(d) ==
    /\ Running
    /\ current # NoTask
    /\ d > 0
    /\ now + d <= MaxTime
    /\ wake' = [wake EXCEPT ![current] = now + d]
    /\ armed' = [armed EXCEPT ![current] = now + d]
    /\ InsertTimer(current, now + d)
    /\ Suspend
    /\ UNCHANGED <<state, timer, cancelled, context, runQueue, microQueue, joining, members, main, now>>

SleepMain(d) ==
    /\ Running
    /\ current = NoTask
    /\ d > 0
    /\ now + d <= MaxTime
    /\ now' = now + d
    /\ UNCHANGED <<taskVars, frameVars, queueVars, joining, members, main>>

EndMainExits ==
    /\ Running
    /\ current = NoTask
    /\ main' = "exited"
    /\ UNCHANGED <<taskVars, frameVars, queueVars, joining, members, now>>

EndMain ==
    /\ Running
    /\ current = NoTask
    /\ main' = "draining"
    /\ UNCHANGED <<taskVars, frameVars, queueVars, joining, members, now>>

(* A join is a loop around RunOne on the joiner's own stack. *)
Join(t) ==
    /\ Running
    /\ state[t] # "free"
    /\ joining' = [joining EXCEPT ![current] = <<t>>]
    /\ UNCHANGED <<taskVars, frameVars, queueVars, members, main, now>>

(* Members are pushed at the head of the group's list, so the part of the  *)
(* list the loop still has to walk never changes after it has started.     *)
GroupJoin(g) ==
    /\ Running
    /\ joining' = [joining EXCEPT ![current] = members[g]]
    /\ UNCHANGED <<taskVars, frameVars, queueVars, members, main, now>>

JoinNext ==
    /\ joining[current] # <<>>
    /\ Settled(Head(joining[current]))
    /\ joining' = [joining EXCEPT ![current] = Tail(@)]
    /\ UNCHANGED <<taskVars, frameVars, queueVars, members, main, now>>

-----------------------------------------------------------------------------
(* RunOne: microtasks, then due timers, then runnable tasks, then a wait   *)
(* for the earliest timer                                                  *)

(* The current context is in a loop around RunOne: a join whose target is  *)
(* pending, the main program's yield, or the drain at program end.         *)
InRunOne ==
    \/ joining[current] # <<>> /\ ~Settled(Head(joining[current]))
    \/ current = NoTask /\ joining[NoTask] = <<>> /\ main \in {"yielding", "draining"}

(* yield calls RunOne once, join and drain come back to it. *)
RunOneCalled ==
    main' = IF current = NoTask /\ joining[NoTask] = <<>> /\ main = "yielding"
            THEN "running" ELSE main

TimerDueAlways == timerQueue # <<>>

TimerDueWhenIdle == runQueue = <<>> /\ timerQueue # <<>> /\ wake[Head(timerQueue)] <= now

TimerDue == timerQueue # <<>> /\ wake[Head(timerQueue)] <= now

(* Enter a task: the caller's frame goes into the task's return words, and *)
(* its own stack, or its saved one, becomes the current stack.  The root   *)
(* chain of a task that starts is empty, but it is the chain of its frames *)
(* from then on.                                                           *)
Enter(t) ==
    /\ parent' = [parent EXCEPT ![t] = current]
    /\ returnRsp' = [returnRsp EXCEPT ![t] = TRUE]
    /\ returnRoot' = [returnRoot EXCEPT ![t] = rootHead]
    /\ current' = t
    /\ rootHead' = IF savedRsp[t] THEN savedRoot[t] ELSE t
    /\ state' = [state EXCEPT ![t] = IF savedRsp[t] THEN @ ELSE "running"]
    /\ savedRsp' = [savedRsp EXCEPT ![t] = FALSE]

ResumeKeepsSavedRoot(t) == Enter(t) /\ UNCHANGED savedRoot

Resume(t) == Enter(t) /\ savedRoot' = [savedRoot EXCEPT ![t] = NoRoot]

(* The trampoline does not run the closure of a cancelled timer: the task  *)
(* is entered, fulfilled and left without running any code.                *)
SkipClosure(t) ==
    /\ state' = [state EXCEPT ![t] = "fulfilled"]
    /\ UNCHANGED frameVars

DispatchUnchecked(t) ==
    /\ Resume(t)
    /\ RunOneCalled
    /\ UNCHANGED <<timer, cancelled, context, wake, armed, joining, members>>

Dispatch(t) ==
    /\ IF ~savedRsp[t] /\ timer[t] /\ cancelled[t] THEN SkipClosure(t) ELSE Resume(t)
    /\ RunOneCalled
    /\ UNCHANGED <<timer, cancelled, context, wake, armed, joining, members>>

RunMicrotask ==
    /\ InRunOne
    /\ microQueue # <<>>
    /\ microQueue' = Tail(microQueue)
    /\ Dispatch(Head(microQueue))
    /\ UNCHANGED <<runQueue, timerQueue, now>>

RunDueTimer ==
    /\ InRunOne
    /\ microQueue = <<>>
    /\ TimerDue
    /\ timerQueue' = Tail(timerQueue)
    /\ Dispatch(Head(timerQueue))
    /\ UNCHANGED <<runQueue, microQueue, now>>

RunRunnableStaysLinked ==
    /\ InRunOne
    /\ microQueue = <<>>
    /\ ~TimerDue
    /\ runQueue # <<>>
    /\ Dispatch(Head(runQueue))
    /\ UNCHANGED <<queueVars, now>>

RunRunnable ==
    /\ InRunOne
    /\ microQueue = <<>>
    /\ ~TimerDue
    /\ runQueue # <<>>
    /\ runQueue' = Tail(runQueue)
    /\ Dispatch(Head(runQueue))
    /\ UNCHANGED <<microQueue, timerQueue, now>>

(* Nothing is runnable: nanosleep until the earliest deadline. *)
WaitForTimer ==
    /\ InRunOne
    /\ microQueue = <<>>
    /\ runQueue = <<>>
    /\ timerQueue # <<>>
    /\ ~TimerDue
    /\ now' = wake[Head(timerQueue)]
    /\ timerQueue' = Tail(timerQueue)
    /\ Dispatch(Head(timerQueue))
    /\ UNCHANGED <<runQueue, microQueue>>

(* RunOne finds no work: yield returns, drain ends and the process exits.  *)
(* A join calls RunOne again, forever: no step of the model.               *)
NoWork ==
    /\ InRunOne
    /\ joining[current] = <<>>
    /\ microQueue = <<>> /\ runQueue = <<>> /\ timerQueue = <<>>
    /\ main' = IF main = "yielding" THEN "running" ELSE "exited"
    /\ UNCHANGED <<taskVars, frameVars, queueVars, joining, members, now>>

RunOne == RunMicrotask \/ RunDueTimer \/ RunRunnable \/ WaitForTimer \/ NoWork

Tick ==
    /\ main # "exited"
    /\ now < MaxTime
    /\ now' = now + 1
    /\ UNCHANGED <<taskVars, frameVars, queueVars, joining, members, main>>

(* A settled task that nobody waits for and no group lists is collected,   *)
(* and its object can be allocated again.                                  *)
Collect(t) ==
    /\ main # "exited"
    /\ Settled(t)
    /\ \A c \in Ctx : t \notin Elements(joining[c])
    /\ \A g \in Group : t \notin Elements(members[g])
    /\ state' = [state EXCEPT ![t] = "free"]
    /\ timer' = [timer EXCEPT ![t] = FALSE]
    /\ cancelled' = [cancelled EXCEPT ![t] = FALSE]
    /\ context' = [context EXCEPT ![t] = NoContext]
    /\ wake' = [wake EXCEPT ![t] = 0]
    /\ armed' = [armed EXCEPT ![t] = 0]
    /\ UNCHANGED <<frameVars, queueVars, joining, members, main, now>>

-----------------------------------------------------------------------------
Next ==
    \/ \E t \in Task :
          \/ Spawn(t) \/ MicrotaskSpawn(t) \/ ClearTimeout(t) \/ ClearInterval(t)
          \/ Cancel(t) \/ Join(t) \/ Collect(t)
          \/ \E d \in Delay : SetTimeout(t, d)
          \/ \E g \in Group : GroupSpawn(g, t)
    \/ \E g \in Group : GroupCancel(g) \/ GroupJoin(g)
    \/ \E x \in Context : SetContext(x)
    \/ \E d \in Delay : Sleep(d) \/ SleepMain(d)
    \/ JoinNext \/ Complete \/ Reject \/ RejectMain \/ Yield \/ YieldMain \/ EndMain
    \/ RunOne
    \/ Tick

Spec == Init /\ [][Next]_vars

-----------------------------------------------------------------------------
(* Safety                                                                  *)

InQueue == Elements(runQueue) \cup Elements(microQueue) \cup Elements(timerQueue)
OnChain == {t \in Task : returnRsp[t]}

Distinct(s) == \A i, j \in DOMAIN s : s[i] = s[j] => i = j

(* Every task that is allocated and not settled is in exactly one place:   *)
(* one position of one of the three lists, or the activation chain.  The   *)
(* lists share task.next, so a task in two of them would cut a list short  *)
(* (tasks lost) or run one stack twice; a settled task in a list would be  *)
(* resumed on an unmapped stack.                                           *)
OneHome ==
    /\ Distinct(runQueue) /\ Distinct(microQueue) /\ Distinct(timerQueue)
    /\ Elements(runQueue) \cap Elements(microQueue) = {}
    /\ Elements(runQueue) \cap Elements(timerQueue) = {}
    /\ Elements(microQueue) \cap Elements(timerQueue) = {}
    /\ OnChain \cap InQueue = {}
    /\ OnChain \cup InQueue = {t \in Task : state[t] \in {"new", "running"}}

(* The tasks with a return context form one path through task.Parent from  *)
(* the current task down to the main program: nested joins return in the   *)
(* opposite order of their calls, and every native stack has exactly one   *)
(* place to return to.                                                     *)
ChainOK ==
    /\ current # NoTask => current \in OnChain
    /\ current = NoTask => OnChain = {}
    /\ \A t \in OnChain : parent[t] = NoTask \/ parent[t] \in OnChain
    /\ \A t \in OnChain : parent[t] # current
    /\ \A t, u \in OnChain : parent[t] = parent[u] => t = u
    /\ \A t \in OnChain : t # current => \E u \in OnChain : parent[u] = t
    /\ \A S \in SUBSET OnChain : S # {} => \E t \in S : parent[t] \notin S

(* A collection that starts now scans the frames of every native stack     *)
(* that will run again (rootHead, and the saved and return words of the    *)
(* tasks it reaches through the lists and the chain), and no stale word: a *)
(* frame of a stack that was unmapped or has been resumed since.           *)
RootsScanned ==
    LET scanned == {rootHead}
                   \cup {returnRoot[t] : t \in OnChain \cup InQueue}
                   \cup {savedRoot[t] : t \in OnChain \cup InQueue}
    IN  /\ scanned \ {NoRoot} = {NoTask} \cup {t \in Task : state[t] = "running"}
        /\ \A t \in Task : savedRoot[t] # NoRoot => savedRsp[t] /\ t \in InQueue
        /\ \A t \in Task : returnRoot[t] # NoRoot => t \in OnChain

(* A context that joins keeps its place on the chain: it is never parked   *)
(* in a list, and it only waits for tasks that exist.                      *)
JoinersStayOnChain ==
    \A t \in Task : joining[t] # <<>> => t \in OnChain

(* A join that finds no work to run spins forever; it does so only if its  *)
(* target is beneath it on its own chain, never because a task was lost.   *)
StuckJoinIsNested ==
    (InRunOne /\ joining[current] # <<>> /\ InQueue = {})
        => Head(joining[current]) \in OnChain

(* clearInterval has made the task due where it stands in the list. *)
ClearedInPlace(t) == wake[t] # armed[t]

(* The timer list is sorted but for the workers clearInterval has made due *)
(* in place: a timer that is not one of them stands in front of whatever   *)
(* was armed for later.  So the head, the only entry RunOne looks at, is   *)
(* the earliest of the live ones or a cleared one, and a cleared worker    *)
(* stands behind no timer that is due after the end of its own sleep.      *)
TimersSorted ==
    \A i, j \in DOMAIN timerQueue :
        i < j => \/ ClearedInPlace(timerQueue[i])
                 \/ armed[timerQueue[i]] <= armed[timerQueue[j]]

(* The four words of a task agree with where it is: a suspended task has   *)
(* its own frames in SavedRoot, a task on the chain has its caller's in    *)
(* ReturnRoot, every other word is cleared, and the root head of the       *)
(* runtime context belongs to the task in control.                         *)
FrameWords ==
    /\ rootHead = current
    /\ \A t \in Task :
          /\ returnRsp[t] => state[t] = "running"
          /\ savedRsp[t] <=> state[t] = "running" /\ ~returnRsp[t]
          /\ savedRoot[t] = IF savedRsp[t] THEN t ELSE NoRoot
          /\ returnRoot[t] = IF returnRsp[t] THEN parent[t] ELSE NoRoot

(* Joins and groups refer to tasks that have been allocated. *)
TargetsExist ==
    /\ \A c \in Ctx : \A t \in Elements(joining[c]) : state[t] # "free"
    /\ \A g \in Group : \A t \in Elements(members[g]) : state[t] # "free"

(* The one deadline that is not what the task was armed with is zero. *)
OnlyZeroInPlace == \A t \in Task : ClearedInPlace(t) => wake[t] = 0

(* The inductive invariant of the scheduler: each conjunct is preserved by *)
(* every operation only together with the others.                          *)
IInv ==
    TypeOK /\ OneHome /\ ChainOK /\ FrameWords /\ TargetsExist
           /\ JoinersStayOnChain /\ TimersSorted /\ OnlyZeroInPlace

(* No step runs a task before the deadline it was armed with: not the wait *)
(* for the earliest timer, not a wait that another context left behind,    *)
(* and not a clear of another one.  Only a worker clearInterval has made   *)
(* due may be entered before the end of its sleep.                         *)
NoEarlyWake ==
    [][\A t \in Elements(timerQueue) \ Elements(timerQueue') :
          armed[t] <= now' \/ ClearedInPlace(t)]_vars

(* Timers with equal deadlines fire in the order they were armed: a new    *)
(* entry goes behind every entry that is due no later, also in a list in   *)
(* which clearInterval has written zeros.                                  *)
ArmedLastFiresLast ==
    [][\A t \in Elements(timerQueue') \ Elements(timerQueue) :
          \A i, j \in DOMAIN timerQueue' :
              timerQueue'[j] = t /\ j < i => armed'[t] < armed'[timerQueue'[i]]]_vars

(* A settled task stays as it is until it is collected: its result is      *)
(* stored once, whoever joins it and however often.                        *)
SettledForever ==
    [][\A t \in Task : Settled(t) => state'[t] \in {state[t], "free"}]_vars

(* The callback of a timeout that was cleared in time never starts.        *)
ClearedTimerNeverStarts ==
    [][\A t \in Task : timer[t] /\ cancelled[t] /\ state[t] = "new"
                          => state'[t] # "running"]_vars

-----------------------------------------------------------------------------
(* Liveness.  The processor executes the runtime's loops (RunOne, the      *)
(* return of a join), the clock advances, and code that is in control      *)
(* again and again reaches a call that gives up control: it settles or     *)
(* suspends (strong fairness, since a join of a settled task takes control *)
(* away for a moment).  Nothing is assumed of which of these it does.      *)

GiveUp == \/ Complete \/ Reject \/ Yield
          \/ \E d \in Delay : Sleep(d)
          \/ EndMain \/ YieldMain

Fairness ==
    /\ WF_vars(RunOne)
    /\ WF_vars(JoinNext)
    /\ SF_vars(GiveUp)
    /\ WF_vars(Tick)

FairSpec == Spec /\ Fairness

Exited == main = "exited"

(* A waiter that is requeued again and again cannot starve a sleeping task *)
(* or a timer (the comment on due timers in emitAMD64TaskRunOne), nor can  *)
(* timers that are armed again and again: it waits for ever only if from   *)
(* some time on every RunOne finds a microtask.                            *)
SleeperWakes ==
    \A t \in Task :
        \/ t \in Elements(timerQueue) ~> (t \notin Elements(timerQueue) \/ Exited)
        \/ <>[](InRunOne => microQueue # <<>>)

(* A runnable task waits for ever only if from some time on every RunOne   *)
(* finds a microtask or a due timer, as when a callback arms its own       *)
(* timeout of zero again and again: the run queue itself is fair to        *)
(* whoever is in it, and no requeued waiter, sleeper or join holds a place *)
(* in front of it for ever.                                                *)
RunnableRuns ==
    \A t \in Task :
        \/ t \in Elements(runQueue) ~> (t \notin Elements(runQueue) \/ Exited)
        \/ <>[](InRunOne => microQueue # <<>> \/ TimerDue)

-----------------------------------------------------------------------------
(* Refinement of CooperativeTasks                                          *)

(* The tasks on the chain, the running one last: each was resumed by the   *)
(* one before it, the first by the main program.                           *)
ActivationStacks ==
    {s \in [1..Cardinality(OnChain) -> OnChain] :
        /\ \A i \in DOMAIN s : parent[s[i]] = IF i = 1 THEN NoTask ELSE s[i - 1]
        /\ OnChain # {} => s[Cardinality(OnChain)] = current}

ActivationStack ==
    IF ActivationStacks = {} THEN <<>> ELSE CHOOSE s \in ActivationStacks : TRUE

Phase == [t \in Task |->
            CASE state[t] = "free" -> "absent"
              [] Settled(t)        -> "settled"
              [] t \in OnChain     -> "active"
              [] OTHER             -> "ready"]

Abstract == INSTANCE CooperativeTasks WITH phase <- Phase, stack <- ActivationStack

(* The scheduler implements CooperativeTasks: whatever the interleaving of *)
(* joins, sleeps, yields and completions, entering and leaving tasks is a  *)
(* stack discipline and each task settles at most once.                    *)
StackDiscipline == Abstract!Spec

=============================================================================
