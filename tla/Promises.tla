----------------------------- MODULE Promises ------------------------------
(***************************************************************************)
(* Promise.all, Promise.race and thenables (promises.go), and the          *)
(* rejection marks of tasks (promise_rejection_amd64.go).                  *)
(*                                                                         *)
(* A promise is a task.  An aggregate is a task that looks at its members  *)
(* in order and yields until they decide it: what it sees is what has      *)
(* settled between two of its polls, and in the form that takes an array   *)
(* the elements the array has at the poll.  A thenable is driven by a task *)
(* that waits for the first settlement in a channel for one.               *)
(* Coercion of the values is left out.                                     *)
(***************************************************************************)
EXTENDS Naturals, Sequences, FiniteSets, SequencesExt

CONSTANTS
    Leaf,           \* tasks of the program, resolved and rejected promises
    Aggregate,      \* calls of Promise.all and Promise.race
    Thenable,       \* objects with a method then given to Promise.resolve
    MaxMembers,     \* bound: members of one aggregate
    MaxSettles      \* bound: calls of the callbacks given to one method then

Promise == Leaf \cup Aggregate \cup Thenable

PromisesAssumption ==
    /\ Leaf \cap Aggregate = {} /\ Leaf \cap Thenable = {} /\ Aggregate \cap Thenable = {}
    /\ {MaxMembers, MaxSettles} \subseteq Nat

VARIABLES
    outcome,    \* task.state: "pending", "fulfilled" or "rejected"
    value,      \* task.result, a sequence of what leaves and settlers gave
    handled,    \* the rejection-handled bit of task.kind
    form,       \* per aggregate: "none" before it is made, "all" or "race"
    array,      \* per aggregate: whether its members are read from an array
    members,    \* per aggregate: its members in order
    then,       \* per thenable: "none", "called", "awaited" by its driver
    status,     \* per thenable, the channel of the settlement
    payload,    \* per thenable, the channel of the value
    order,      \* history: promises in the order they settled
    polled,     \* history: per aggregate, how many had settled at its last poll
    touched,    \* history: aggregates whose array changed since their last poll
    source,     \* history: per aggregate, the members it settled from
    settles     \* history: per thenable, the calls of its settlers

vars == <<outcome, value, handled, form, array, members, then, status, payload,
          order, polled, touched, source, settles>>

Members == UNION {[1 .. n -> Promise] : n \in 0 .. MaxMembers}

Init ==
    /\ outcome = [p \in Promise |-> "pending"]
    /\ value = [p \in Promise |-> <<>>]
    /\ handled = [p \in Promise |-> FALSE]
    /\ form = [a \in Aggregate |-> "none"]
    /\ array = [a \in Aggregate |-> FALSE]
    /\ members = [a \in Aggregate |-> <<>>]
    /\ then = [h \in Thenable |-> "none"]
    /\ status = [h \in Thenable |-> <<>>]
    /\ payload = [h \in Thenable |-> <<>>]
    /\ order = <<>>
    /\ polled = [a \in Aggregate |-> 0]
    /\ touched = {}
    /\ source = [a \in Aggregate |-> <<>>]
    /\ settles = [h \in Thenable |-> <<>>]

-----------------------------------------------------------------------------
Done(p) == outcome[p] # "pending"
Rejected(p) == outcome[p] = "rejected"

Settle(p, how, v) ==
    /\ outcome' = [outcome EXCEPT ![p] = how]
    /\ value' = [value EXCEPT ![p] = v]
    /\ order' = Append(order, p)

(* A task returns or throws; so do the tasks of Promise.resolve and        *)
(* Promise.reject when they first run.                                     *)
SettleLeaf(l, how) ==
    /\ ~Done(l)
    /\ Settle(l, how, <<l>>)
    /\ UNCHANGED <<handled, form, array, members, then, status, payload,
                   polled, touched, source, settles>>

(* A promise can be a member once its task is made. *)
IsMade(p) ==
    \/ p \in Leaf
    \/ p \in Aggregate /\ form[p] # "none"
    \/ p \in Thenable /\ then[p] # "none"

MakeAggregate(a, how, fromArray, ms) ==
    /\ form[a] = "none"
    /\ \A i \in DOMAIN ms : IsMade(ms[i])
    /\ form' = [form EXCEPT ![a] = how]
    /\ array' = [array EXCEPT ![a] = fromArray]
    /\ members' = [members EXCEPT ![a] = ms]
    /\ UNCHANGED <<outcome, value, handled, then, status, payload,
                   order, polled, touched, source, settles>>

(* The program stores another promise in the array an aggregate polls. *)
Replace(a, i, p) ==
    /\ form[a] # "none" /\ array[a] /\ ~Done(a)
    /\ i \in DOMAIN members[a] /\ IsMade(p)
    /\ members' = [members EXCEPT ![a][i] = p]
    /\ touched' = touched \cup {a}
    /\ UNCHANGED <<outcome, value, handled, form, array, then, status, payload,
                   order, polled, source, settles>>

(* ts_task_error marks the task, then the aggregate rejects with the same. *)
RejectFrom(a, m) ==
    /\ Settle(a, "rejected", value[m])
    /\ handled' = [handled EXCEPT ![m] = TRUE]
    /\ source' = [source EXCEPT ![a] = <<m>>]

StillPending == UNCHANGED <<outcome, value, order, handled, source>>

(* The first member in order that is in a set of promises. *)
FirstIn(ms, S) == ms[SelectInSeq(ms, LAMBDA m : m \in S)]

PollAll(a) ==
    LET ms == members[a]
        bad == {m \in Range(ms) : Rejected(m)} IN
    CASE bad # {} -> RejectFrom(a, FirstIn(ms, bad))
      [] bad = {} /\ \A i \in DOMAIN ms : Done(ms[i]) ->
            /\ Settle(a, "fulfilled", FlattenSeq([i \in DOMAIN ms |-> value[ms[i]]]))
            /\ source' = [source EXCEPT ![a] = ms]
            /\ UNCHANGED handled
      [] OTHER -> StillPending

PollRace(a) ==
    LET ms == members[a]
        settled == {m \in Range(ms) : Done(m)} IN
    IF settled = {}
    THEN StillPending
    ELSE LET m == FirstIn(ms, settled) IN
         IF Rejected(m)
         THEN RejectFrom(a, m)
         ELSE /\ Settle(a, "fulfilled", value[m])
              /\ source' = [source EXCEPT ![a] = <<m>>]
              /\ UNCHANGED handled

Poll(a) ==
    /\ form[a] # "none" /\ ~Done(a)
    /\ IF form[a] = "all" THEN PollAll(a) ELSE PollRace(a)
    /\ polled' = [polled EXCEPT ![a] = Len(order)]
    /\ touched' = touched \ {a}
    /\ UNCHANGED <<form, array, members, then, status, payload, settles>>

(* The driver of a thenable calls its method, which may keep the settlers, *)
(* and call them now, later, or from other tasks.                          *)
CallThen(h) ==
    /\ then[h] = "none"
    /\ then' = [then EXCEPT ![h] = "called"]
    /\ UNCHANGED <<outcome, value, handled, form, array, members, status, payload,
                   order, polled, touched, source, settles>>

(* Mutant of CallSettler: the value is sent before the room is looked at. *)
CallSettlerSends(h, how) ==
    /\ then[h] # "none"
    /\ Len(settles[h]) < MaxSettles
    /\ settles' = [settles EXCEPT ![h] = Append(@, how)]
    /\ status' = [status EXCEPT ![h] = <<how>>]
    /\ payload' = [payload EXCEPT ![h] = << <<h, Len(settles[h]) + 1>> >>]
    /\ UNCHANGED <<outcome, value, handled, form, array, members, then,
                   order, polled, touched, source>>

(* A settler: the value follows only if there was room for the settlement. *)
CallSettler(h, how) ==
    /\ then[h] # "none"
    /\ Len(settles[h]) < MaxSettles
    /\ settles' = [settles EXCEPT ![h] = Append(@, how)]
    /\ IF status[h] = <<>>
       THEN /\ status' = [status EXCEPT ![h] = <<how>>]
            /\ payload' = [payload EXCEPT ![h] = Append(@, <<h, Len(settles[h]) + 1>>)]
       ELSE UNCHANGED <<status, payload>>
    /\ UNCHANGED <<outcome, value, handled, form, array, members, then,
                   order, polled, touched, source>>

(* The method returns and its driver waits; or it throws, and that rejects *)
(* the driver even if a settler had been called.                           *)
ThenReturns(h) ==
    /\ then[h] = "called"
    /\ then' = [then EXCEPT ![h] = "awaited"]
    /\ UNCHANGED <<outcome, value, handled, form, array, members, status, payload,
                   order, polled, touched, source, settles>>

ThenThrows(h) ==
    /\ then[h] = "called" /\ ~Done(h)
    /\ Settle(h, "rejected", <<h>>)
    /\ then' = [then EXCEPT ![h] = "thrown"]
    /\ UNCHANGED <<handled, form, array, members, status, payload,
                   polled, touched, source, settles>>

ReceiveSettlement(h) ==
    /\ then[h] = "awaited" /\ ~Done(h)
    /\ status[h] # <<>> /\ payload[h] # <<>>
    /\ Settle(h, Head(status[h]), <<Head(payload[h])>>)
    /\ status' = [status EXCEPT ![h] = Tail(@)]
    /\ payload' = [payload EXCEPT ![h] = Tail(@)]
    /\ UNCHANGED <<handled, form, array, members, then, polled, touched, source, settles>>

Next ==
    \/ \E l \in Leaf, how \in {"fulfilled", "rejected"} : SettleLeaf(l, how)
    \/ \E a \in Aggregate :
          \/ \E how \in {"all", "race"}, fromArray \in BOOLEAN, ms \in Members :
                MakeAggregate(a, how, fromArray, ms)
          \/ \E i \in 1 .. MaxMembers, p \in Leaf : Replace(a, i, p)
          \/ Poll(a)
    \/ \E h \in Thenable :
          \/ CallThen(h)
          \/ \E how \in {"fulfilled", "rejected"} : CallSettler(h, how)
          \/ ThenReturns(h)
          \/ ThenThrows(h)
          \/ ReceiveSettlement(h)

Spec == Init /\ [][Next]_vars

-----------------------------------------------------------------------------
TypeOK ==
    /\ outcome \in [Promise -> {"pending", "fulfilled", "rejected"}]
    /\ handled \in [Promise -> BOOLEAN]
    /\ form \in [Aggregate -> {"none", "all", "race"}]
    /\ array \in [Aggregate -> BOOLEAN]
    /\ members \in [Aggregate -> Members]
    /\ then \in [Thenable -> {"none", "called", "awaited", "thrown"}]
    /\ \A h \in Thenable : Len(status[h]) <= 1 /\ Len(payload[h]) = Len(status[h])
    /\ IsInjective(order) /\ Range(order) = {p \in Promise : Done(p)}
    /\ touched \subseteq Aggregate

SettledBy(n) == Range(SubSeq(order, 1, n))

(* An aggregate never waits past a poll that saw what decides it; a race   *)
(* never gives a member that settled later for one that had settled at an  *)
(* earlier poll; all gives the values of its members in their order; and a *)
(* thenable gives its first settlement whatever its settlers do after it.  *)
AggregateRight ==
    /\ \A a \in Aggregate : form[a] # "none" /\ a \notin touched =>
          LET ms == Range(members[a]) \cap SettledBy(polled[a]) IN
          IF ~Done(a)
          THEN IF form[a] = "race" THEN ms = {}
               ELSE (\A m \in ms : ~Rejected(m)) /\ (polled[a] > 0 => Range(members[a]) \ ms # {})
          ELSE TRUE
    /\ \A a \in Aggregate : Done(a) =>
          /\ \A i \in DOMAIN source[a] : source[a][i] = members[a][i] \/ Len(source[a]) = 1
          /\ value[a] = FlattenSeq([i \in DOMAIN source[a] |-> value[source[a][i]]])
          /\ Rejected(a) <=> \E m \in Range(source[a]) : Rejected(m) /\ handled[m]
    /\ \A h \in Thenable : Done(h) /\ then[h] = "awaited" =>
          outcome[h] = settles[h][1] /\ value[h] = << <<h, 1>> >>

=============================================================================
