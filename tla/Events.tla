------------------------------- MODULE Events -------------------------------
(***************************************************************************)
(* Event targets and abort signals: the listener lists of                  *)
(* event_target_amd64.go, the dispatch loop and listener options of        *)
(* web_events.go, and the signals of abort_amd64.go and web_abort.go.      *)
(*                                                                         *)
(* A dispatch calls the program back, and the program may do anything in a *)
(* callback: change the list, dispatch again, abort, or block and let      *)
(* another task run.  Each task has its own stack of dispatches.  Between  *)
(* two callbacks the runtime is not interrupted.                           *)
(*                                                                         *)
(* A callback stands for the pair of a closure and the capture option,     *)
(* which are only ever compared together.  The payload of events, passive  *)
(* listeners and preventDefault do not decide who is called and are left   *)
(* out.  A callback that throws rejects its task and returns.              *)
(***************************************************************************)
EXTENDS Integers, Sequences, FiniteSets, SequencesExt, FiniteSetsExt

CONSTANTS
    Task,           \* tasks that can be in a dispatch at one time
    Plain,          \* event targets that are not signals
    Signal,         \* signals the program may create
    Type,           \* event types, "abort" among them
    Callback,       \* callbacks of the program
    Reason,         \* reasons the program aborts with
    Menu,           \* what programs do: each makes the calls of one menu
    MaxDispatches   \* bound: dispatches a program has begun and not ended

Target == Plain \cup Signal
NoSignal == "no signal"
NoHandler == "no handler"

Registration ==
    [target : Target, type : Type, code : Callback, once : BOOLEAN, signal : Signal \cup {NoSignal}]
Kind == {"controller", "static", "timeout", "any"}

(* Closures: those of the program, the one that removes a listener when    *)
(* its signal aborts, and the one that aborts a dependent signal.          *)
User(c) == [kind |-> "user", code |-> c]
Remover(t, ty, c) == [kind |-> "remover", target |-> t, type |-> ty, code |-> c]
Dependent(s, r) == [kind |-> "dependent", source |-> s, result |-> r]

(* Events: one object of the program per type, and the one an abort makes. *)
Made(ty) == [type |-> ty, by |-> "program"]
Fired(s) == [type |-> "abort", by |-> s]
Event == {Made(ty) : ty \in Type} \cup {Fired(s) : s \in Signal}

ASSUME EventsAssumption ==
    /\ \A m \in Menu :
          /\ m.listen \subseteq Registration
          /\ m.dispatch \subseteq Target \X Event
          /\ m.handle \subseteq Signal \X (Callback \cup {NoHandler})
          /\ m.make \subseteq Signal \X Kind
          /\ m.reasons \subseteq Reason
          /\ m.room \in Nat   \* bound: listeners ever added
    /\ Plain \cap Signal = {}
    /\ NoSignal \notin Signal /\ NoHandler \notin Callback
    /\ "abort" \in Type
    /\ "undefined" \notin Reason
    /\ MaxDispatches \in Nat

VARIABLES
    menu,       \* the calls this program is made of
    list,       \* per target, every listener ever added: none is unlinked
    calls,      \* per task, its dispatches, the innermost first
    stopped,    \* events whose $stopImmediate is set
    kind,       \* how a signal was made, or "none"
    aborted, reason, onabort,   \* fields of the signals
    sources,    \* history: the signals an AbortSignal.any depends on
    silenced,   \* history: signals whose abort event was stopped
    forged      \* history: signals that met an abort event without an abort

signals == <<kind, aborted, reason, onabort, sources>>
history == <<silenced, forged>>
vars == <<menu, list, calls, stopped, signals, history>>

Init ==
    /\ menu \in Menu
    /\ list = [t \in Target |-> <<>>]
    /\ calls = [a \in Task |-> <<>>]
    /\ stopped = {}
    /\ kind = [s \in Signal |-> "none"]
    /\ aborted = [s \in Signal |-> FALSE]
    /\ reason = [s \in Signal |-> "undefined"]
    /\ onabort = [s \in Signal |-> NoHandler]
    /\ sources = [s \in Signal |-> {}]
    /\ silenced = {}
    /\ forged = {}

-----------------------------------------------------------------------------
(* Listener lists *)

Listener(ty, closure, once, s) ==
    [type |-> ty, closure |-> closure, once |-> once, signal |-> s,
     removed |-> FALSE, runs |-> 0]

(* Closures are compared by identity; those of the runtime are always new. *)
Same(l, ty, closure) ==
    closure.kind = "user" /\ ~l.removed /\ l.type = ty /\ l.closure = closure

Matches(ls, ty, closure) == {i \in DOMAIN ls : Same(ls[i], ty, closure)}

Added(ls, l) ==
    IF Matches(ls, l.type, l.closure) = {} THEN Append(ls, l) ELSE ls

(* Mutant: the search does not skip listeners that are removed already.   *)
RemovedFirst(ls, ty, closure) ==
    LET found == {i \in DOMAIN ls : ls[i].type = ty /\ ls[i].closure = closure} IN
    IF found = {} THEN ls ELSE [ls EXCEPT ![Min(found)].removed = TRUE]

Removed(ls, ty, closure) ==
    IF Matches(ls, ty, closure) = {} THEN ls
    ELSE [ls EXCEPT ![Min(Matches(ls, ty, closure))].removed = TRUE]

(* Mutant: a once-listener stays on the list. *)
InvokedKept(l) == IF l.once THEN [l EXCEPT !.runs = Min({@ + 1, 2})] ELSE l

(* A dispatch takes a once-listener off the list before it calls it. *)
Invoked(l) ==
    IF l.once THEN [l EXCEPT !.removed = TRUE, !.runs = Min({@ + 1, 2})] ELSE l

-----------------------------------------------------------------------------
(* The dispatch loop *)

Frame(t, e) ==
    [target |-> t, event |-> e, boundary |-> Len(list[t]), listener |-> 0, at |-> "scan"]

Closure(f) == list[f.target][f.listener].closure

InCallback(a) ==
    /\ calls[a] # <<>>
    /\ Head(calls[a]).at = "call"
    /\ Closure(Head(calls[a])).kind = "user"

(* The program is in control everywhere: at the top of a task, or in a     *)
(* callback that the task's innermost dispatch has called.                 *)
ProgramRuns == \A a \in Task : calls[a] = <<>> \/ InCallback(a)

Dispatches == Cardinality(UNION {{a} \X DOMAIN calls[a] : a \in Task})

Begin(a, t, e) ==
    /\ calls' = [calls EXCEPT ![a] = <<Frame(t, e)>> \o @]
    /\ stopped' = stopped \ {e}

Goto(a, f) == calls' = [calls EXCEPT ![a] = <<f>> \o Tail(@)]
Leave(a) == calls' = [calls EXCEPT ![a] = Tail(@)]

Following(f) ==
    {i \in DOMAIN list[f.target] :
        /\ i > f.listener
        /\ ~list[f.target][i].removed
        /\ list[f.target][i].type = f.event.type}

CallNext(a) ==
    LET f == Head(calls[a]) IN
    /\ calls[a] # <<>> /\ f.at = "scan" /\ Following(f) # {}
    /\ LET i == Min(Following(f)) IN
       /\ list' = [list EXCEPT ![f.target][i] = Invoked(@)]
       /\ Goto(a, [f EXCEPT !.listener = i, !.at = "call"])
    /\ UNCHANGED <<stopped, signals, history>>

NoneLeft(a) ==
    /\ calls[a] # <<>> /\ Head(calls[a]).at = "scan" /\ Following(Head(calls[a])) = {}
    /\ Leave(a)
    /\ UNCHANGED <<list, stopped, signals, history>>

(* Mutant: the last listener is looked up when the callback returns. *)
AtTail(f) == f.listener = Len(list[f.target])

AtBoundary(f) == f.listener = f.boundary

(* After a callback: the loop goes on unless the event was stopped or the  *)
(* listener is the one that was last when the dispatch began.              *)
AfterCallback(a) ==
    LET f == Head(calls[a]) IN
    /\ calls[a] # <<>> /\ f.at = "return"
    /\ IF f.event \in stopped \/ AtBoundary(f)
       THEN Leave(a)
       ELSE Goto(a, [f EXCEPT !.at = "scan"])
    /\ UNCHANGED <<list, stopped, signals, history>>

Return(a) ==
    /\ ProgramRuns /\ InCallback(a)
    /\ Goto(a, [Head(calls[a]) EXCEPT !.at = "return"])
    /\ UNCHANGED <<list, stopped, signals, history>>

-----------------------------------------------------------------------------
(* Aborting a signal: the reason is set once, and the event is dispatched  *)
(* by whoever set it, on the stack of the task it runs in.                 *)

FirstAbort(s) == ~aborted[s]

SetReason(s, r) ==
    /\ aborted' = [aborted EXCEPT ![s] = TRUE]
    /\ reason' = [reason EXCEPT ![s] = r]

AbortSignalFires(a, s, r) ==
    /\ FirstAbort(s)
    /\ SetReason(s, r)
    /\ Begin(a, s, Fired(s))
    /\ UNCHANGED <<list, kind, onabort, sources, history>>

ControllerAbort(a, s, r) ==
    /\ ProgramRuns /\ kind[s] = "controller" /\ Dispatches < MaxDispatches
    /\ AbortSignalFires(a, s, r)

(* The timer of AbortSignal.timeout runs in a task of its own. *)
TimeoutAbort(a, s) ==
    /\ ProgramRuns /\ kind[s] = "timeout" /\ calls[a] = <<>>
    /\ AbortSignalFires(a, s, "TimeoutError")

InRuntimeClosure(a, k) ==
    /\ calls[a] # <<>>
    /\ Head(calls[a]).at = "call"
    /\ Closure(Head(calls[a])).kind = k

Returned(a) == [calls EXCEPT ![a] = <<[Head(@) EXCEPT !.at = "return"]>> \o Tail(@)]

RemoverRuns(a) ==
    /\ InRuntimeClosure(a, "remover")
    /\ LET c == Closure(Head(calls[a])) IN
       list' = [list EXCEPT ![c.target] = Removed(@, c.type, c.code)]
    /\ calls' = Returned(a)
    /\ UNCHANGED <<stopped, signals, history>>

(* The dependent signal takes the reason its source has now, and its own   *)
(* listeners run inside the dispatch of the source.                        *)
DependentRuns(a) ==
    /\ InRuntimeClosure(a, "dependent")
    /\ LET c == Closure(Head(calls[a])) IN
       IF FirstAbort(c.result)
       THEN /\ SetReason(c.result, reason[c.source])
            /\ calls' = [Returned(a) EXCEPT ![a] = <<Frame(c.result, Fired(c.result))>> \o @]
            /\ stopped' = stopped \ {Fired(c.result)}
       ELSE /\ calls' = Returned(a)
            /\ UNCHANGED <<stopped, aborted, reason>>
    /\ UNCHANGED <<list, kind, onabort, sources, history>>

-----------------------------------------------------------------------------
(* What the program can do when it is in control *)

Existing == Plain \cup {s \in Signal : kind[s] # "none"}

Listeners == Cardinality(UNION {{t} \X DOMAIN list[t] : t \in Target})
Room == Listeners < menu.room

AddEventListener(g) ==
    /\ ProgramRuns /\ Room
    /\ g.target \in Existing /\ g.signal = NoSignal
    /\ list' = [list EXCEPT ![g.target] =
                   Added(@, Listener(g.type, User(g.code), g.once, NoSignal))]
    /\ UNCHANGED <<calls, stopped, signals, history>>

(* A listener with a signal: a second listener on the signal removes it.   *)
(* When the signal is aborted already the call does nothing.               *)
AddWithSignal(g) ==
    /\ ProgramRuns /\ Room
    /\ {g.target, g.signal} \subseteq Existing /\ g.signal # NoSignal
    /\ ~aborted[g.signal]
    /\ LET ls == [list EXCEPT ![g.target] =
                     Added(@, Listener(g.type, User(g.code), g.once, g.signal))] IN
       list' = [ls EXCEPT ![g.signal] =
                   Added(@, Listener("abort", Remover(g.target, g.type, User(g.code)),
                                     TRUE, NoSignal))]
    /\ UNCHANGED <<calls, stopped, signals, history>>

RemoveEventListener(t, ty, c) ==
    /\ ProgramRuns /\ t \in Existing
    /\ list' = [list EXCEPT ![t] = Removed(@, ty, User(c))]
    /\ UNCHANGED <<calls, stopped, signals, history>>

Known == {Made(ty) : ty \in Type} \cup {Fired(s) : s \in {x \in Signal : aborted[x]}}

(* Any event object may be dispatched at any target, one that is being     *)
(* dispatched included.                                                    *)
DispatchEvent(a, t, e) ==
    /\ ProgramRuns /\ t \in Existing /\ Dispatches < MaxDispatches
    /\ e \in Known
    /\ Begin(a, t, e)
    /\ forged' = IF e.type = "abort" /\ t \in Signal /\ ~aborted[t]
                 THEN forged \cup {t} ELSE forged
    /\ UNCHANGED <<list, signals, silenced>>

(* A program can stop any event that is being dispatched, by any dispatch. *)
InDispatch == UNION {{f.event : f \in ToSet(calls[a])} : a \in Task}

StopImmediatePropagation(e) ==
    /\ ProgramRuns /\ e \in InDispatch
    /\ stopped' = stopped \cup {e}
    /\ silenced' = silenced \cup ({e.by} \cap Signal)
    /\ UNCHANGED <<list, calls, signals, forged>>

NewSignal(s, k) ==
    /\ ProgramRuns /\ <<s, k>> \in menu.make /\ kind[s] = "none"
    /\ kind' = [kind EXCEPT ![s] = k]

NewController(s) ==
    /\ NewSignal(s, "controller")
    /\ UNCHANGED <<list, calls, stopped, aborted, reason, onabort, sources, history>>

SignalTimeout(s) ==
    /\ NewSignal(s, "timeout")
    /\ UNCHANGED <<list, calls, stopped, aborted, reason, onabort, sources, history>>

SignalAbort(s, r) ==
    /\ NewSignal(s, "static")
    /\ SetReason(s, r)
    /\ UNCHANGED <<list, calls, stopped, onabort, sources, history>>

(* AbortSignal.any listens to its sources in order, up to the first that   *)
(* is aborted already.                                                     *)
Listened(from) ==
    {i \in DOMAIN from : \A j \in 1..i : ~aborted[from[j]]}

SignalAny(s, from) ==
    /\ NewSignal(s, "any")
    /\ \A i \in DOMAIN from : kind[from[i]] # "none"
    /\ LET heard == {from[i] : i \in Listened(from)} IN
       /\ list' = [t \in Target |->
                     IF t \in heard
                     THEN Added(list[t], Listener("abort", Dependent(t, s), FALSE, NoSignal))
                     ELSE list[t]]
       /\ sources' = [sources EXCEPT ![s] = {from[i] : i \in DOMAIN from}]
       /\ IF \E i \in DOMAIN from : aborted[from[i]]
          THEN SetReason(s, reason[from[Cardinality(Listened(from)) + 1]])
          ELSE UNCHANGED <<aborted, reason>>
    /\ UNCHANGED <<calls, stopped, onabort, history>>

(* Assigning onabort removes the listener of the old handler and adds one  *)
(* for the new.                                                            *)
WithoutHandler(ls, s) ==
    IF onabort[s] = NoHandler THEN ls ELSE Removed(ls, "abort", User(onabort[s]))

SetOnAbort(s, c) ==
    /\ ProgramRuns /\ Room /\ kind[s] # "none"
    /\ onabort' = [onabort EXCEPT ![s] = c]
    /\ LET ls == WithoutHandler(list[s], s) IN
       list' = [list EXCEPT ![s] =
                   IF c = NoHandler THEN ls
                   ELSE Added(ls, Listener("abort", User(c), FALSE, NoSignal))]
    /\ UNCHANGED <<calls, stopped, kind, aborted, reason, sources, history>>

Sources == {<<s>> : s \in Signal} \cup {p \in Signal \X Signal : p[1] # p[2]}

Runtime(a) ==
    \/ CallNext(a) \/ NoneLeft(a) \/ AfterCallback(a)
    \/ RemoverRuns(a) \/ DependentRuns(a)

Create ==
    \E s \in Signal :
        \/ NewController(s) \/ SignalTimeout(s)
        \/ \E r \in menu.reasons : SignalAbort(s, r)
        \/ \E from \in Sources : SignalAny(s, from)

Listen ==
    \/ \E g \in menu.listen :
          \/ AddEventListener(g)
          \/ AddWithSignal(g)
          \/ RemoveEventListener(g.target, g.type, g.code)
    \/ \E h \in menu.handle : SetOnAbort(h[1], h[2])

Program(a) ==
    \/ Return(a)
    \/ \E d \in menu.dispatch : DispatchEvent(a, d[1], d[2])
    \/ \E s \in Signal, r \in menu.reasons : ControllerAbort(a, s, r)
    \/ \E s \in Signal : TimeoutAbort(a, s)

Next ==
    /\ \/ Create \/ Listen \/ \E e \in Event : StopImmediatePropagation(e)
       \/ \E a \in Task : Runtime(a) \/ Program(a)
    /\ UNCHANGED menu

Spec == Init /\ [][Next]_vars

-----------------------------------------------------------------------------
(* A once-listener is called at most once, also when its callback          *)
(* dispatches the same event, or blocks while another task dispatches it.  *)
OnceRunsOnce ==
    \A t \in Target : \A i \in DOMAIN list[t] : list[t][i].runs <= 1

(* A dispatch calls a listener that was added after it began only if the   *)
(* one that was last at its beginning is of another type or has been       *)
(* removed: it never calls that one and then goes on.                      *)
BoundaryRespected ==
    \A a \in Task : \A n \in DOMAIN calls[a] :
        LET f == calls[a][n] IN
        f.listener > f.boundary =>
            /\ f.boundary > 0
            /\ LET last == list[f.target][f.boundary] IN
               last.removed \/ last.type # f.event.type

(* When the abort of a signal is over, every listener that was added with  *)
(* it is off its list and every signal that depends on it is aborted,      *)
(* whatever the callbacks did on the way - unless one of them stopped the  *)
(* abort event.                                                            *)
Aborting(s) ==
    \E a \in Task : \E n \in DOMAIN calls[a] :
        calls[a][n].target = s /\ calls[a][n].event = Fired(s)

AbortReaches ==
    \A s \in Signal : aborted[s] /\ ~Aborting(s) /\ s \notin silenced =>
        /\ \A t \in Target : \A i \in DOMAIN list[t] :
              list[t][i].signal = s => list[t][i].removed
        /\ \A r \in Signal : s \in sources[r] => aborted[r]

(* A dependent signal has the reason of one of its sources, unless the     *)
(* program sent an abort event to a source that was not aborted.           *)
ReasonInherited ==
    \A r \in Signal : kind[r] = "any" /\ aborted[r] =>
        \E s \in sources[r] : (aborted[s] /\ reason[r] = reason[s]) \/ s \in forged

(* An abort arrives everywhere it has to, with the reason it was given.    *)
AbortArrives == AbortReaches /\ ReasonInherited

=============================================================================
