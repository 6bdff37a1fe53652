---------------------------- MODULE EventsProofs ----------------------------
(***************************************************************************)
(* For any targets, signals, tasks, callbacks and programs: a listener     *)
(* added with once is called once at most, a dispatch respects its         *)
(* boundary, and an abort that nobody stops arrives everywhere it has to.  *)
(***************************************************************************)
EXTENDS Events, FiniteSetTheorems, WellFoundedInduction, TLAPS

-----------------------------------------------------------------------------
(* Types                                                                   *)

UserClosure == [kind : {"user"}, code : Callback]
RemoverClosure == [kind : {"remover"}, target : Target, type : Type, code : UserClosure]
DependentClosure == [kind : {"dependent"}, source : Signal, result : Signal]
AnyClosure == UserClosure \cup RemoverClosure \cup DependentClosure

Entry ==
    [type : Type, closure : AnyClosure, once : BOOLEAN, signal : Signal \cup {NoSignal},
     removed : BOOLEAN, runs : 0 .. 2]

Dispatch ==
    [target : Target, event : Event, boundary : Nat, listener : Nat,
     at : {"scan", "call", "return"}]

AnyReason == Reason \cup {"undefined", "TimeoutError"}

SignalsOK ==
    /\ kind \in [Signal -> Kind \cup {"none"}]
    /\ aborted \in [Signal -> BOOLEAN]
    /\ reason \in [Signal -> AnyReason]
    /\ onabort \in [Signal -> Callback \cup {NoHandler}]
    /\ sources \in [Signal -> SUBSET Signal]
    /\ silenced \subseteq Signal
    /\ forged \subseteq Signal

TypeOK ==
    /\ menu \in Menu
    /\ list \in [Target -> Seq(Entry)]
    /\ calls \in [Task -> Seq(Dispatch)]
    /\ stopped \subseteq Event
    /\ SignalsOK

-----------------------------------------------------------------------------
(* The invariant                                                           *)

(* What is true of every listener of a target: a once-listener that ran is *)
(* off, and the runtime's own listeners are of one make.                   *)
Proper(t, l) ==
    /\ l.runs <= 1 /\ (l.runs = 1 => l.removed)
    /\ l.signal # NoSignal => l.closure.kind = "user"
    /\ l.closure.kind = "remover" => l.type = "abort" /\ l.once
    /\ l.closure.kind = "dependent" =>
          /\ l.type = "abort" /\ ~l.once /\ ~l.removed
          /\ l.closure.source = t /\ t \in sources[l.closure.result]

ListenersProper == \A t \in Target : \A i \in DOMAIN list[t] : Proper(t, list[t][i])

(* No two listeners in effect have one type and one callback.              *)
OneOfEach(ls) ==
    \A i, j \in DOMAIN ls :
        /\ ls[i].closure.kind = "user" /\ ~ls[i].removed /\ ~ls[j].removed
        /\ ls[i].type = ls[j].type /\ ls[i].closure = ls[j].closure
        => i = j

ListsDistinct == \A t \in Target : OneOfEach(list[t])

(* A signal that was not made has nothing. *)
Unmade ==
    \A s \in Signal : kind[s] = "none" => list[s] = <<>> /\ ~aborted[s] /\ sources[s] = {}

Passed(f) ==
    f.listener > f.boundary =>
        /\ f.boundary > 0
        /\ \/ list[f.target][f.boundary].removed
           \/ list[f.target][f.boundary].type # f.event.type

(* A dispatch that scans from its boundary has just begun, on a list with  *)
(* no listeners.  An abort event is at a signal that is aborted, or was    *)
(* sent by the program.                                                    *)
Placed(f) ==
    /\ f.boundary <= Len(list[f.target]) /\ f.listener <= Len(list[f.target])
    /\ f.at # "scan" => f.listener > 0 /\ list[f.target][f.listener].type = f.event.type
    /\ f.at = "scan" /\ f.listener = f.boundary => Len(list[f.target]) = f.boundary
    /\ Passed(f)
    /\ f.target \in Signal /\ f.event.type = "abort" => aborted[f.target] \/ f.target \in forged

DispatchesPlaced ==
    \A a \in Task : \A n \in DOMAIN calls[a] :
        Placed(calls[a][n]) /\ (n > 1 => calls[a][n].at # "scan")

(* A dispatch that waits for another is in a callback of the program, or   *)
(* has returned from its listener.                                         *)
InProgram(f) == f.at = "call" => Closure(f).kind = "user"

WaitingInProgram ==
    \A a \in Task : \A n \in DOMAIN calls[a] : n > 1 => InProgram(calls[a][n])

(* The runtime is at work in one task at most. *)
Busy(a) == calls[a] # <<>> /\ ~InCallback(a)
OneBusy == \A a, b \in Task : Busy(a) /\ Busy(b) => a = b

StopsAreKnown == \A s \in Signal : Fired(s) \in stopped => s \in silenced

(* A dispatch of the abort of s has listener j before it. *)
Ahead(s, j) ==
    \E a \in Task : \E n \in DOMAIN calls[a] :
        /\ calls[a][n].target = s /\ calls[a][n].event = Fired(s)
        /\ calls[a][n].listener < j /\ j <= calls[a][n].boundary

Calling(a, s, j) ==
    /\ calls[a] # <<>> /\ calls[a][1].at = "call"
    /\ calls[a][1].target = s /\ calls[a][1].listener = j

(* A listener that was added with a signal has its remover, in effect or   *)
(* about to run.                                                           *)
HasRemover(t, l, s) ==
    \E j \in DOMAIN list[s] :
        /\ list[s][j].closure = Remover(t, l.type, l.closure)
        /\ ~list[s][j].removed \/ \E a \in Task : Calling(a, s, j)

BoundHaveRemovers ==
    \A t \in Target : \A i \in DOMAIN list[t] : \A s \in Signal :
        ~list[t][i].removed /\ list[t][i].signal = s => HasRemover(t, list[t][i], s)

(* An abort that nobody stops has every remover and every dependent before *)
(* it, is calling it, or has called it.                                    *)
Sounding(s) == aborted[s] /\ s \notin silenced

RemoversHear ==
    \A s \in Signal : Sounding(s) => \A j \in DOMAIN list[s] :
        list[s][j].closure.kind = "remover" =>
            /\ ~list[s][j].removed => Ahead(s, j)
            /\ (\E a \in Task : Calling(a, s, j)) => Aborting(s)

DependentsHear ==
    \A s \in Signal : Sounding(s) => \A j \in DOMAIN list[s] :
        list[s][j].closure.kind = "dependent" =>
            \/ aborted[list[s][j].closure.result]
            \/ Ahead(s, j)
            \/ \E a \in Task : Calling(a, s, j) /\ calls[a][1].event = Fired(s)

DependentsListen ==
    \A r, s \in Signal : s \in sources[r] =>
        aborted[r] \/ \E j \in DOMAIN list[s] : list[s][j].closure = Dependent(s, r)

Shapes ==
    /\ TypeOK
    /\ ListenersProper
    /\ ListsDistinct
    /\ Unmade
    /\ DispatchesPlaced
    /\ OneBusy
    /\ StopsAreKnown

EInv ==
    /\ Shapes
    /\ WaitingInProgram
    /\ BoundHaveRemovers
    /\ RemoversHear
    /\ DependentsHear
    /\ DependentsListen
    /\ ReasonInherited

-----------------------------------------------------------------------------
(* Numbers and sequences                                                   *)

(* The least element of a set of numbers. *)
LEMMA NatMin ==
    ASSUME NEW T, T \subseteq Nat, T # {}
    PROVE  /\ Min(T) \in T
           /\ \A y \in T : Min(T) <= y
  <1> DEFINE R == {ss \in Nat \X Nat : ss[1] < ss[2]}
  <1>1. IsWellFoundedOn(R, Nat)
    BY NatLessThanWellFounded DEF OpToRel
  <1>2. PICK x \in T : \A y \in T : ~(<<y, x>> \in R)
    <2> HIDE DEF R
    <2> QED BY <1>1, WFMin
  <1>3. ASSUME NEW y \in T PROVE x <= y
    <2>1. x \in Nat /\ y \in Nat
      OBVIOUS
    <2>2. <<y, x>> \in R <=> y < x
      BY <2>1
    <2> QED BY <1>2, <2>1, <2>2
  <1>4. \E z \in T : \A y \in T : z <= y
    BY <1>3
  <1> QED BY <1>4 DEF Min

LEMMA PushFacts ==
    ASSUME NEW S, NEW q \in Seq(S), NEW e \in S
    PROVE  /\ <<e>> \o q \in Seq(S)
           /\ <<e>> \o q # <<>>
           /\ Len(<<e>> \o q) = Len(q) + 1
           /\ (<<e>> \o q)[1] = e
           /\ \A i \in DOMAIN q : (<<e>> \o q)[i + 1] = q[i]
           /\ \A i \in DOMAIN (<<e>> \o q) : i > 1 => i - 1 \in DOMAIN q /\ (<<e>> \o q)[i] = q[i - 1]
  <1> DEFINE p == <<e>> \o q
  <1>1. /\ p \in Seq(S) /\ Len(q) \in Nat /\ Len(p) = Len(q) + 1
        /\ p[1] = e /\ \A i \in 1 .. Len(q) : p[i + 1] = q[i]
        /\ DOMAIN q = 1 .. Len(q)
    OBVIOUS
  <1> HIDE DEF p
  <1>2. DOMAIN p = 1 .. Len(q) + 1
    BY <1>1
  <1>3. ASSUME NEW i \in DOMAIN p, i > 1 PROVE i - 1 \in DOMAIN q /\ p[i] = q[i - 1]
    <2>1. i - 1 \in 1 .. Len(q) /\ (i - 1) + 1 = i
      BY <1>1, <1>2, <1>3
    <2> QED BY <1>1, <2>1
  <1>4. p # <<>>
    BY <1>1
  <1> QED BY <1>1, <1>3, <1>4 DEF p

LEMMA TopFacts ==
    ASSUME NEW S, NEW q \in Seq(S), q # <<>>
    PROVE  /\ Head(q) = q[1] /\ q[1] \in S /\ 1 \in DOMAIN q
           /\ Tail(q) \in Seq(S)
           /\ Len(Tail(q)) = Len(q) - 1
           /\ \A i \in DOMAIN Tail(q) : i + 1 \in DOMAIN q /\ Tail(q)[i] = q[i + 1]
           /\ \A i \in DOMAIN q : i > 1 => i - 1 \in DOMAIN Tail(q) /\ Tail(q)[i - 1] = q[i]
  <1>1. /\ Len(q) \in Nat \ {0} /\ DOMAIN q = 1 .. Len(q)
        /\ Tail(q) \in Seq(S) /\ Len(Tail(q)) = Len(q) - 1
        /\ \A i \in 1 .. Len(q) - 1 : Tail(q)[i] = q[i + 1]
    OBVIOUS
  <1>2. DOMAIN Tail(q) = 1 .. Len(q) - 1
    BY <1>1
  <1>3. Head(q) = q[1] /\ q[1] \in S /\ 1 \in DOMAIN q
    BY <1>1
  <1>4. ASSUME NEW i \in DOMAIN q, i > 1
        PROVE  i - 1 \in DOMAIN Tail(q) /\ Tail(q)[i - 1] = q[i]
    <2>1. i - 1 \in 1 .. Len(q) - 1 /\ (i - 1) + 1 = i
      BY <1>1, <1>4
    <2> QED BY <1>1, <1>2, <2>1
  <1>5. \A i \in DOMAIN Tail(q) : i + 1 \in DOMAIN q /\ Tail(q)[i] = q[i + 1]
    BY <1>1, <1>2
  <1> QED BY <1>1, <1>3, <1>4, <1>5

LEMMA SeqDomain ==
    ASSUME NEW S, NEW q \in Seq(S)
    PROVE  DOMAIN q = 1 .. Len(q) /\ Len(q) \in Nat
  OBVIOUS

LEMMA AppendFacts ==
    ASSUME NEW S, NEW q \in Seq(S), NEW e \in S
    PROVE  /\ Append(q, e) \in Seq(S)
           /\ Len(q) \in Nat /\ DOMAIN q = 1 .. Len(q)
           /\ Len(Append(q, e)) = Len(q) + 1
           /\ DOMAIN Append(q, e) = 1 .. Len(q) + 1
           /\ Append(q, e)[Len(q) + 1] = e
           /\ \A i \in DOMAIN q : Append(q, e)[i] = q[i]
  OBVIOUS

LEMMA ReplaceFacts ==
    ASSUME NEW S, NEW q \in Seq(S), NEW m \in DOMAIN q, NEW e \in S
    PROVE  /\ [q EXCEPT ![m] = e] \in Seq(S)
           /\ Len([q EXCEPT ![m] = e]) = Len(q)
           /\ DOMAIN [q EXCEPT ![m] = e] = DOMAIN q
           /\ [q EXCEPT ![m] = e][m] = e
           /\ \A i \in DOMAIN q : i # m => [q EXCEPT ![m] = e][i] = q[i]
  OBVIOUS

-----------------------------------------------------------------------------
(* Listener lists                                                          *)

(* What no operation ever does to a listener, and what none but a call of  *)
(* it does.                                                                *)
Alike(l, m) ==
    /\ m.type = l.type /\ m.closure = l.closure /\ m.once = l.once /\ m.signal = l.signal
    /\ l.removed => m.removed

Kept(l, m) ==
    /\ Alike(l, m)
    /\ m.runs = l.runs
    /\ l.closure.kind # "user" => m.removed = l.removed

Grown(ls, ms) ==
    /\ ms \in Seq(Entry)
    /\ Len(ls) <= Len(ms)
    /\ \A i \in DOMAIN ls : i \in DOMAIN ms /\ Alike(ls[i], ms[i])

Evolves(ls, ms) ==
    /\ ms \in Seq(Entry)
    /\ Len(ls) <= Len(ms)
    /\ \A i \in DOMAIN ls : i \in DOMAIN ms /\ Kept(ls[i], ms[i])
    /\ OneOfEach(ls) => OneOfEach(ms)

LEMMA EvolvesSame ==
    ASSUME NEW ls \in Seq(Entry)
    PROVE  Evolves(ls, ls)
  <1>1. Len(ls) \in Nat
    OBVIOUS
  <1> QED BY <1>1 DEF Evolves, Kept, Alike

LEMMA EvolvesTwice ==
    ASSUME NEW ls \in Seq(Entry), NEW ms, NEW ns, Evolves(ls, ms), Evolves(ms, ns)
    PROVE  Evolves(ls, ns)
  <1>1. Len(ls) \in Nat /\ Len(ms) \in Nat /\ Len(ns) \in Nat
    <2>1. ms \in Seq(Entry) /\ ns \in Seq(Entry)
      BY DEF Evolves
    <2> QED BY <2>1
  <1>2. Len(ls) <= Len(ns)
    BY <1>1 DEF Evolves
  <1>3. ASSUME NEW i \in DOMAIN ls PROVE i \in DOMAIN ns /\ Kept(ls[i], ns[i])
    <2>1. i \in DOMAIN ms /\ Kept(ls[i], ms[i])
      BY DEF Evolves
    <2>2. i \in DOMAIN ns /\ Kept(ms[i], ns[i])
      BY <2>1 DEF Evolves
    <2> QED BY <2>1, <2>2 DEF Kept, Alike
  <1> QED BY <1>2, <1>3 DEF Evolves

LEMMA EvolvesGrows ==
    ASSUME NEW ls, NEW ms, Evolves(ls, ms)
    PROVE  Grown(ls, ms)
  BY DEF Evolves, Grown, Kept

LEMMA AddedEvolves ==
    ASSUME NEW ls \in Seq(Entry), NEW l \in Entry
    PROVE  /\ Evolves(ls, Added(ls, l))
           /\ \A i \in DOMAIN ls : Added(ls, l)[i] = ls[i]
           /\ \A i \in DOMAIN Added(ls, l) \ DOMAIN ls : Added(ls, l)[i] = l
           /\ l.closure.kind # "user" =>
                 /\ Len(ls) + 1 \in DOMAIN Added(ls, l)
                 /\ Added(ls, l)[Len(ls) + 1] = l
  <1>1. CASE Matches(ls, l.type, l.closure) # {}
    <2>1. Added(ls, l) = ls /\ l.closure.kind = "user"
      BY <1>1 DEF Added, Matches, Same
    <2> QED BY <2>1, EvolvesSame
  <1>2. CASE Matches(ls, l.type, l.closure) = {}
    <2> DEFINE ms == Append(ls, l)
    <2>1. Added(ls, l) = ms
      BY <1>2 DEF Added
    <2>2. /\ ms \in Seq(Entry)
          /\ Len(ls) \in Nat /\ DOMAIN ls = 1 .. Len(ls)
          /\ Len(ms) = Len(ls) + 1
          /\ DOMAIN ms = 1 .. Len(ls) + 1
          /\ ms[Len(ls) + 1] = l
          /\ \A i \in DOMAIN ls : ms[i] = ls[i]
      BY AppendFacts
    <2> HIDE DEF ms
    <2>3. \A i \in DOMAIN ls : ~Same(ls[i], l.type, l.closure)
      BY <1>2 DEF Matches
    <2>4. DOMAIN ms = DOMAIN ls \cup {Len(ls) + 1}
      BY <2>2
    <2>5. ASSUME OneOfEach(ls) PROVE OneOfEach(ms)
      <3> SUFFICES ASSUME NEW i \in DOMAIN ms, NEW j \in DOMAIN ms,
                          ms[i].closure.kind = "user", ~ms[i].removed, ~ms[j].removed,
                          ms[i].type = ms[j].type, ms[i].closure = ms[j].closure
                   PROVE  i = j
        BY DEF OneOfEach
      <3>1. CASE i \in DOMAIN ls /\ j \in DOMAIN ls
        BY <2>2, <2>5, <3>1 DEF OneOfEach
      <3>2. CASE i \notin DOMAIN ls /\ j \in DOMAIN ls
        BY <2>2, <2>3, <2>4, <3>2 DEF Same
      <3>3. CASE i \in DOMAIN ls /\ j \notin DOMAIN ls
        BY <2>2, <2>3, <2>4, <3>3 DEF Same
      <3>4. CASE i \notin DOMAIN ls /\ j \notin DOMAIN ls
        BY <2>4, <3>4
      <3> QED BY <3>1, <3>2, <3>3, <3>4
    <2>6. \A i \in DOMAIN ls : i \in DOMAIN ms /\ Kept(ls[i], ms[i])
      BY <2>2, <2>4 DEF Kept, Alike
    <2>7. Evolves(ls, ms)
      BY <2>2, <2>5, <2>6 DEF Evolves
    <2> QED BY <2>1, <2>2, <2>4, <2>7
  <1> QED BY <1>1, <1>2

LEMMA TakenOff ==
    ASSUME NEW l \in Entry
    PROVE  LET m == [l EXCEPT !.removed = TRUE] IN
           /\ m \in Entry /\ m.removed
           /\ m.type = l.type /\ m.closure = l.closure /\ m.once = l.once
           /\ m.signal = l.signal /\ m.runs = l.runs
  BY DEF Entry

LEMMA RemovedEvolves ==
    ASSUME NEW ls \in Seq(Entry), NEW ty, NEW c
    PROVE  /\ Evolves(ls, Removed(ls, ty, c))
           /\ DOMAIN Removed(ls, ty, c) = DOMAIN ls
           /\ OneOfEach(ls) => \A i \in DOMAIN ls : ~Same(Removed(ls, ty, c)[i], ty, c)
  <1>1. CASE Matches(ls, ty, c) = {}
    <2>1. Removed(ls, ty, c) = ls /\ \A i \in DOMAIN ls : ~Same(ls[i], ty, c)
      BY <1>1 DEF Removed, Matches
    <2> QED BY <2>1, EvolvesSame
  <1>2. CASE Matches(ls, ty, c) # {}
    <2>1. PICK m : m = Min(Matches(ls, ty, c))
      OBVIOUS
    <2> DEFINE ms == [ls EXCEPT ![m].removed = TRUE]
    <2>2. Removed(ls, ty, c) = ms
      BY <1>2, <2>1 DEF Removed
    <2>3. DOMAIN ls = 1 .. Len(ls) /\ Len(ls) \in Nat
      OBVIOUS
    <2>4. m \in DOMAIN ls /\ Same(ls[m], ty, c)
      <3>1. Matches(ls, ty, c) \subseteq Nat
        BY <2>3 DEF Matches
      <3>2. m \in Matches(ls, ty, c)
        BY <1>2, <2>1, <3>1, NatMin
      <3> QED BY <3>2 DEF Matches
    <2>5. PICK l : l = [ls[m] EXCEPT !.removed = TRUE]
      OBVIOUS
    <2>6. /\ l \in Entry /\ l.removed
          /\ l.type = ls[m].type /\ l.closure = ls[m].closure /\ l.once = ls[m].once
          /\ l.signal = ls[m].signal /\ l.runs = ls[m].runs
      BY <2>4, <2>5, TakenOff
    <2>7. /\ DOMAIN ms = DOMAIN ls /\ ms[m] = l
          /\ \A i \in DOMAIN ls : i # m => ms[i] = ls[i]
      BY <2>4, <2>5
    <2>8. ms \in Seq(Entry) /\ Len(ms) = Len(ls)
      <3>1. ms = [ls EXCEPT ![m] = l]
        BY <2>5
      <3>2. [ls EXCEPT ![m] = l] \in Seq(Entry) /\ Len([ls EXCEPT ![m] = l]) = Len(ls)
        BY <2>4, <2>6, ReplaceFacts
      <3> QED BY <3>1, <3>2
    <2> HIDE DEF ms
    <2>9. ls[m].closure.kind = "user" /\ ls[m].type = ty /\ ls[m].closure = c /\ ~ls[m].removed
      BY <2>4 DEF Same
    <2>10. ASSUME NEW i \in DOMAIN ls PROVE i \in DOMAIN ms /\ Kept(ls[i], ms[i])
      BY <2>6, <2>7, <2>9 DEF Kept, Alike
    <2>11. ASSUME OneOfEach(ls) PROVE OneOfEach(ms)
      <3> SUFFICES ASSUME NEW i \in DOMAIN ms, NEW j \in DOMAIN ms,
                          ms[i].closure.kind = "user", ~ms[i].removed, ~ms[j].removed,
                          ms[i].type = ms[j].type, ms[i].closure = ms[j].closure
                   PROVE  i = j
        BY DEF OneOfEach
      <3>1. i # m /\ j # m
        BY <2>6, <2>7
      <3> QED BY <2>7, <2>11, <3>1 DEF OneOfEach
    <2>12. ASSUME OneOfEach(ls), NEW i \in DOMAIN ls PROVE ~Same(ms[i], ty, c)
      <3>1. CASE i = m
        BY <2>6, <2>7, <3>1 DEF Same
      <3>2. CASE i # m
        BY <2>4, <2>7, <2>9, <2>12, <3>2 DEF Same, OneOfEach
      <3> QED BY <3>1, <3>2
    <2>13. Evolves(ls, ms)
      BY <2>3, <2>8, <2>10, <2>11 DEF Evolves
    <2> QED BY <2>2, <2>7, <2>12, <2>13
  <1> QED BY <1>1, <1>2

-----------------------------------------------------------------------------
(* Closures, events, listeners and dispatches                              *)

LEMMA ClosureFacts ==
    /\ \A c \in Callback : User(c) \in AnyClosure /\ User(c) \in UserClosure /\ User(c).kind = "user"
    /\ \A t \in Target, ty \in Type, u \in UserClosure :
          /\ Remover(t, ty, u) \in AnyClosure /\ Remover(t, ty, u).kind = "remover"
          /\ Remover(t, ty, u).target = t /\ Remover(t, ty, u).type = ty /\ Remover(t, ty, u).code = u
    /\ \A s, r \in Signal :
          /\ Dependent(s, r) \in AnyClosure /\ Dependent(s, r).kind = "dependent"
          /\ Dependent(s, r).source = s /\ Dependent(s, r).result = r
    /\ \A c \in AnyClosure :
          /\ c.kind \in {"user", "remover", "dependent"}
          /\ c.kind = "user" => c \in UserClosure
          /\ c.kind = "remover" => c \in RemoverClosure
          /\ c.kind = "dependent" => c \in DependentClosure
  <1>1. \A c \in Callback : User(c) \in AnyClosure /\ User(c) \in UserClosure /\ User(c).kind = "user"
    BY DEF User, AnyClosure, UserClosure
  <1>2. \A t \in Target, ty \in Type, u \in UserClosure :
          /\ Remover(t, ty, u) \in RemoverClosure /\ Remover(t, ty, u).kind = "remover"
          /\ Remover(t, ty, u).target = t /\ Remover(t, ty, u).type = ty /\ Remover(t, ty, u).code = u
    BY DEF Remover, RemoverClosure
  <1>3. \A s, r \in Signal :
          /\ Dependent(s, r) \in DependentClosure /\ Dependent(s, r).kind = "dependent"
          /\ Dependent(s, r).source = s /\ Dependent(s, r).result = r
    BY DEF Dependent, DependentClosure
  <1>4. ASSUME NEW c \in AnyClosure
        PROVE  /\ c.kind \in {"user", "remover", "dependent"}
               /\ c.kind = "user" => c \in UserClosure
               /\ c.kind = "remover" => c \in RemoverClosure
               /\ c.kind = "dependent" => c \in DependentClosure
    <2>1. CASE c \in UserClosure
      <3>1. c.kind = "user"
        BY <2>1 DEF UserClosure
      <3> QED BY <2>1, <3>1
    <2>2. CASE c \in RemoverClosure
      <3>1. c.kind = "remover"
        BY <2>2 DEF RemoverClosure
      <3> QED BY <2>2, <3>1
    <2>3. CASE c \in DependentClosure
      <3>1. c.kind = "dependent"
        BY <2>3 DEF DependentClosure
      <3> QED BY <2>3, <3>1
    <2> QED BY <2>1, <2>2, <2>3 DEF AnyClosure
  <1>5. UserClosure \subseteq AnyClosure /\ RemoverClosure \subseteq AnyClosure
        /\ DependentClosure \subseteq AnyClosure
    BY DEF AnyClosure
  <1> QED BY <1>1, <1>2, <1>3, <1>4, <1>5

LEMMA EventFacts ==
    /\ \A e \in Event : e.type \in Type
    /\ \A s \in Signal : Fired(s) \in Event /\ Fired(s).type = "abort" /\ Fired(s).by = s
  <1>1. \A s \in Signal : Fired(s).type = "abort" /\ Fired(s).by = s
    BY DEF Fired
  <1>2. ASSUME NEW e \in Event PROVE e.type \in Type
    <2>1. CASE \E ty \in Type : e = Made(ty)
      BY <2>1 DEF Made
    <2>2. CASE \E s \in Signal : e = Fired(s)
      BY <1>1, <2>2, EventsAssumption
    <2> QED BY <2>1, <2>2 DEF Event
  <1> QED BY <1>1, <1>2 DEF Event

LEMMA ListenerFacts ==
    ASSUME NEW ty \in Type, NEW c \in AnyClosure, NEW o \in BOOLEAN, NEW s \in Signal \cup {NoSignal}
    PROVE  LET l == Listener(ty, c, o, s) IN
           /\ l \in Entry /\ ~l.removed /\ l.runs = 0
           /\ l.type = ty /\ l.closure = c /\ l.once = o /\ l.signal = s
  BY DEF Listener, Entry

LEMMA EntryFacts ==
    ASSUME NEW l \in Entry
    PROVE  /\ l.type \in Type /\ l.closure \in AnyClosure /\ l.once \in BOOLEAN
           /\ l.signal \in Signal \cup {NoSignal} /\ l.removed \in BOOLEAN /\ l.runs \in 0 .. 2
  BY DEF Entry

LEMMA DispatchFacts ==
    ASSUME NEW f \in Dispatch
    PROVE  /\ f.target \in Target /\ f.event \in Event /\ f.boundary \in Nat /\ f.listener \in Nat
           /\ f.at \in {"scan", "call", "return"}
  BY DEF Dispatch

LEMMA MovedFacts ==
    ASSUME NEW f \in Dispatch, NEW w \in {"scan", "call", "return"}
    PROVE  LET g == [f EXCEPT !.at = w] IN
           /\ g \in Dispatch /\ g.at = w
           /\ g.target = f.target /\ g.event = f.event
           /\ g.boundary = f.boundary /\ g.listener = f.listener
  BY DEF Dispatch

LEMMA CallingFacts ==
    ASSUME NEW f \in Dispatch, NEW i \in Nat
    PROVE  LET g == [f EXCEPT !.listener = i, !.at = "call"] IN
           /\ g \in Dispatch /\ g.at = "call" /\ g.listener = i
           /\ g.target = f.target /\ g.event = f.event /\ g.boundary = f.boundary
  BY DEF Dispatch

LEMMA FrameFacts ==
    ASSUME TypeOK, NEW t \in Target, NEW e \in Event
    PROVE  /\ Frame(t, e) \in Dispatch
           /\ Frame(t, e).target = t /\ Frame(t, e).event = e /\ Frame(t, e).at = "scan"
           /\ Frame(t, e).boundary = Len(list[t]) /\ Frame(t, e).listener = 0
  <1>1. Len(list[t]) \in Nat
    <2>1. list[t] \in Seq(Entry)
      BY DEF TypeOK
    <2> QED BY <2>1
  <1> QED BY <1>1 DEF Frame, Dispatch

(* A listener called once goes off and counts the call. *)
LEMMA InvokedFacts ==
    ASSUME NEW l \in Entry
    PROVE  /\ Invoked(l) \in Entry
           /\ Alike(l, Invoked(l))
           /\ l.once => Invoked(l).removed
           /\ ~l.once => Invoked(l) = l
           /\ l.runs = 0 => Invoked(l).runs <= 1
  <1>1. CASE l.once
    <2>1. PICK k : k = Min({l.runs + 1, 2})
      OBVIOUS
    <2>2. l.runs \in 0 .. 2
      BY EntryFacts
    <2>3. k \in {l.runs + 1, 2} /\ k <= 2 /\ k <= l.runs + 1
      <3>1. {l.runs + 1, 2} \subseteq Nat
        BY <2>2
      <3>2. k \in {l.runs + 1, 2} /\ \A y \in {l.runs + 1, 2} : k <= y
        BY <2>1, <3>1, NatMin
      <3> QED BY <3>2
    <2>4. k \in 0 .. 2 /\ (l.runs = 0 => k <= 1)
      BY <2>2, <2>3
    <2>5. Invoked(l) = [l EXCEPT !.removed = TRUE, !.runs = k]
      BY <1>1, <2>1 DEF Invoked
    <2>6. LET m == [l EXCEPT !.removed = TRUE, !.runs = k] IN
          /\ m \in Entry /\ m.removed /\ m.runs = k
          /\ m.type = l.type /\ m.closure = l.closure /\ m.once = l.once /\ m.signal = l.signal
      BY <2>4 DEF Entry
    <2> QED BY <1>1, <2>4, <2>5, <2>6 DEF Alike
  <1>2. CASE ~l.once
    BY <1>2 DEF Invoked, Alike
  <1> QED BY <1>1, <1>2

-----------------------------------------------------------------------------
(* What a step does to the dispatches of its task                          *)

OthersWait(a) ==
    /\ calls' \in [Task -> Seq(Dispatch)]
    /\ \A b \in Task : b # a => calls'[b] = calls[b]

(* The innermost dispatch becomes f. *)
Replaces(a, f) ==
    /\ OthersWait(a)
    /\ calls[a] # <<>> /\ 1 \in DOMAIN calls[a] /\ calls'[a] # <<>>
    /\ DOMAIN calls'[a] = DOMAIN calls[a]
    /\ calls'[a][1] = f /\ f \in Dispatch
    /\ \A n \in DOMAIN calls[a] : n > 1 => calls'[a][n] = calls[a][n]

(* The innermost dispatch ends. *)
Leaves(a) ==
    /\ OthersWait(a)
    /\ calls[a] # <<>> /\ 1 \in DOMAIN calls[a]
    /\ \A n \in DOMAIN calls'[a] : n + 1 \in DOMAIN calls[a] /\ calls'[a][n] = calls[a][n + 1]
    /\ \A n \in DOMAIN calls[a] : n > 1 => n - 1 \in DOMAIN calls'[a] /\ calls'[a][n - 1] = calls[a][n]

(* A dispatch that stays in its callback, or returns from its listener. *)
Stays(f, g) ==
    /\ g.target = f.target /\ g.event = f.event
    /\ g.boundary = f.boundary /\ g.listener = f.listener
    /\ f.at # "scan"
    /\ g.at = "return" \/ (g.at = f.at /\ Closure(f).kind = "user")

(* A dispatch f begins on top of those there are. *)
Enters(a, f) ==
    /\ OthersWait(a)
    /\ calls'[a] # <<>>
    /\ 1 \in DOMAIN calls'[a] /\ calls'[a][1] = f /\ f \in Dispatch
    /\ \A n \in DOMAIN calls[a] : n + 1 \in DOMAIN calls'[a]
    /\ \A n \in DOMAIN calls'[a] : n > 1 =>
          /\ n - 1 \in DOMAIN calls[a]
          /\ n > 2 => calls'[a][n] = calls[a][n - 1]
          /\ n = 2 => Stays(calls[a][1], calls'[a][2])

LEMMA CallsTyped ==
    ASSUME TypeOK, NEW a \in Task
    PROVE  /\ calls[a] \in Seq(Dispatch) /\ DOMAIN calls[a] = 1 .. Len(calls[a])
           /\ Len(calls[a]) \in Nat
           /\ calls[a] # <<>> => Head(calls[a]) = calls[a][1] /\ calls[a][1] \in Dispatch
           /\ \A n \in DOMAIN calls[a] : calls[a][n] \in Dispatch
  <1>1. calls[a] \in Seq(Dispatch)
    BY DEF TypeOK
  <1>2. calls[a] # <<>> => Head(calls[a]) = calls[a][1] /\ calls[a][1] \in Dispatch
    BY <1>1, TopFacts
  <1>3. DOMAIN calls[a] = 1 .. Len(calls[a]) /\ Len(calls[a]) \in Nat
        /\ \A n \in DOMAIN calls[a] : calls[a][n] \in Dispatch
    BY <1>1
  <1> QED BY <1>1, <1>2, <1>3

LEMMA CallsSet ==
    ASSUME TypeOK, NEW a \in Task, NEW q \in Seq(Dispatch), calls' = [calls EXCEPT ![a] = q]
    PROVE  OthersWait(a) /\ calls'[a] = q
  BY DEF OthersWait, TypeOK

LEMMA GotoReplaces ==
    ASSUME TypeOK, NEW a \in Task, NEW f \in Dispatch, calls[a] # <<>>, Goto(a, f)
    PROVE  Replaces(a, f)
  <1> DEFINE p == calls[a]
             q == <<f>> \o Tail(p)
  <1>1. p \in Seq(Dispatch)
    BY CallsTyped
  <1>2. /\ 1 \in DOMAIN p /\ Tail(p) \in Seq(Dispatch) /\ Len(Tail(p)) = Len(p) - 1
        /\ \A i \in DOMAIN p : i > 1 => i - 1 \in DOMAIN Tail(p) /\ Tail(p)[i - 1] = p[i]
    BY <1>1, TopFacts
  <1>3. /\ q \in Seq(Dispatch) /\ q # <<>> /\ Len(q) = Len(Tail(p)) + 1 /\ q[1] = f
        /\ \A i \in DOMAIN q : i > 1 => i - 1 \in DOMAIN Tail(p) /\ q[i] = Tail(p)[i - 1]
    BY <1>2, PushFacts
  <1>4. calls' = [calls EXCEPT ![a] = q]
    BY DEF Goto
  <1>5. OthersWait(a) /\ calls'[a] = q
    BY <1>3, <1>4, CallsSet
  <1> HIDE DEF q
  <1>6. DOMAIN q = DOMAIN p
    <2>1. DOMAIN q = 1 .. Len(q) /\ DOMAIN p = 1 .. Len(p) /\ Len(p) \in Nat
      BY <1>1, <1>3
    <2> QED BY <1>2, <1>3, <2>1
  <1> QED BY <1>2, <1>3, <1>5, <1>6 DEF Replaces

LEMMA LeaveLeaves ==
    ASSUME TypeOK, NEW a \in Task, calls[a] # <<>>, Leave(a)
    PROVE  Leaves(a)
  <1>1. calls[a] \in Seq(Dispatch)
    BY CallsTyped
  <1>2. /\ 1 \in DOMAIN calls[a] /\ Tail(calls[a]) \in Seq(Dispatch)
        /\ \A i \in DOMAIN Tail(calls[a]) :
              i + 1 \in DOMAIN calls[a] /\ Tail(calls[a])[i] = calls[a][i + 1]
        /\ \A i \in DOMAIN calls[a] :
              i > 1 => i - 1 \in DOMAIN Tail(calls[a]) /\ Tail(calls[a])[i - 1] = calls[a][i]
    BY <1>1, TopFacts
  <1>3. calls' = [calls EXCEPT ![a] = Tail(calls[a])]
    BY DEF Leave
  <1>4. OthersWait(a) /\ calls'[a] = Tail(calls[a])
    BY <1>2, <1>3, CallsSet
  <1> QED BY <1>2, <1>4 DEF Leaves

(* A dispatch that begins in a callback, or in no dispatch. *)
LEMMA PushEnters ==
    ASSUME TypeOK, NEW a \in Task, NEW f \in Dispatch, NEW p \in Seq(Dispatch),
           calls' = [calls EXCEPT ![a] = <<f>> \o p],
           DOMAIN p = DOMAIN calls[a],
           \A n \in DOMAIN p : n > 1 => p[n] = calls[a][n],
           1 \in DOMAIN p => Stays(calls[a][1], p[1])
    PROVE  Enters(a, f)
  <1> DEFINE q == <<f>> \o p
  <1>1. /\ q \in Seq(Dispatch) /\ q # <<>> /\ Len(q) = Len(p) + 1 /\ q[1] = f
        /\ \A i \in DOMAIN q : i > 1 => i - 1 \in DOMAIN p /\ q[i] = p[i - 1]
    BY PushFacts
  <1>2. OthersWait(a) /\ calls'[a] = q
    BY <1>1, CallsSet
  <1> HIDE DEF q
  <1>3. /\ DOMAIN q = 1 .. Len(p) + 1 /\ DOMAIN p = 1 .. Len(p) /\ Len(p) \in Nat
    BY <1>1
  <1>4. 1 \in DOMAIN q /\ \A n \in DOMAIN calls[a] : n + 1 \in DOMAIN q
    BY <1>3
  <1>5. ASSUME NEW n \in DOMAIN q, n > 1
        PROVE  /\ n - 1 \in DOMAIN calls[a]
               /\ n > 2 => q[n] = calls[a][n - 1]
               /\ n = 2 => Stays(calls[a][1], q[2])
    <2>1. n - 1 \in DOMAIN p /\ q[n] = p[n - 1] /\ n \in Nat
      BY <1>1, <1>3, <1>5
    <2>2. n > 2 => n - 1 > 1
      BY <2>1
    <2>3. n = 2 => n - 1 = 1
      OBVIOUS
    <2> QED BY <2>1, <2>2, <2>3
  <1> QED BY <1>1, <1>2, <1>4, <1>5 DEF Enters

-----------------------------------------------------------------------------
(* Kinds of steps                                                          *)

(* What a listener is that was not there before. *)
NewListener(t, l) ==
    /\ ~l.removed /\ l.runs = 0
    /\ t \in Signal => kind[t] # "none"
    /\ l.closure.kind = "user" =>
          \A s \in Signal : l.signal = s =>
              \E j \in DOMAIN list'[s] :
                  /\ list'[s][j].closure = Remover(t, l.type, l.closure)
                  /\ ~list'[s][j].removed
    /\ l.closure.kind # "user" =>
          /\ l.signal = NoSignal /\ l.type = "abort"
          /\ t \in Signal /\ ~aborted[t]
    /\ l.closure.kind = "remover" => l.once
    /\ l.closure.kind = "dependent" =>
          ~l.once /\ l.closure.source = t /\ t \in sources'[l.closure.result]

Edited ==
    /\ list' \in [Target -> Seq(Entry)]
    /\ \A t \in Target :
          /\ Evolves(list[t], list'[t])
          /\ \A i \in DOMAIN list'[t] \ DOMAIN list[t] : NewListener(t, list'[t][i])

SameSignal(s) ==
    kind'[s] = kind[s] /\ aborted'[s] = aborted[s] /\ reason'[s] = reason[s] /\ sources'[s] = sources[s]

(* A signal that is made now listens to its sources, or takes its reason   *)
(* from one that is aborted.                                               *)
Newborn(s) ==
    /\ kind'[s] # "none"
    /\ \A q \in sources'[s] :
          aborted'[s] \/ \E j \in DOMAIN list'[q] : list'[q][j].closure = Dependent(q, s)
    /\ kind'[s] = "any" /\ aborted'[s] =>
          \E q \in sources'[s] : q # s /\ aborted[q] /\ reason'[s] = reason[q]

(* The program changes lists and makes signals. *)
Making ==
    /\ ProgramRuns
    /\ Edited
    /\ UNCHANGED <<calls, stopped, history>>
    /\ SignalsOK'
    /\ \A s \in Signal : SameSignal(s) \/ (kind[s] = "none" /\ Newborn(s))

StopStep(e) ==
    /\ ProgramRuns
    /\ e \in Event
    /\ stopped' = stopped \cup {e}
    /\ silenced' = silenced \cup ({e.by} \cap Signal)
    /\ UNCHANGED <<list, calls, signals, forged>>

(* A listener returns, or the dispatch goes on after it. *)
TurnStep(a, w) ==
    /\ Replaces(a, [calls[a][1] EXCEPT !.at = w])
    /\ \/ w = "return" /\ ProgramRuns /\ InCallback(a)
       \/ /\ w = "return" /\ calls[a][1].at = "call"
          /\ Closure(calls[a][1]).kind = "dependent"
          /\ aborted[Closure(calls[a][1]).result]
       \/ w = "scan" /\ calls[a][1].at = "return" /\ ~AtBoundary(calls[a][1])
    /\ UNCHANGED <<list, stopped, signals, history>>

RemoverStep(a) ==
    /\ calls[a] # <<>> /\ calls[a][1].at = "call"
    /\ Closure(calls[a][1]).kind = "remover"
    /\ Replaces(a, [calls[a][1] EXCEPT !.at = "return"])
    /\ list' \in [Target -> Seq(Entry)]
    /\ \A t \in Target : Evolves(list[t], list'[t]) /\ DOMAIN list'[t] = DOMAIN list[t]
    /\ LET c == Closure(calls[a][1]) IN
       OneOfEach(list[c.target]) =>
           \A i \in DOMAIN list[c.target] : ~Same(list'[c.target][i], c.type, c.code)
    /\ UNCHANGED <<stopped, signals, history>>

CallStep(a, i) ==
    /\ calls[a] # <<>> /\ calls[a][1].at = "scan"
    /\ i \in Following(calls[a][1]) /\ \A k \in Following(calls[a][1]) : i <= k
    /\ Replaces(a, [calls[a][1] EXCEPT !.listener = i, !.at = "call"])
    /\ list' \in [Target -> Seq(Entry)]
    /\ LET t == calls[a][1].target IN
       /\ \A u \in Target : u # t => list'[u] = list[u]
       /\ DOMAIN list'[t] = DOMAIN list[t]
       /\ list'[t][i] = Invoked(list[t][i])
       /\ \A k \in DOMAIN list[t] : k # i => list'[t][k] = list[t][k]
    /\ UNCHANGED <<stopped, signals, history>>

EndStep(a) ==
    /\ Leaves(a)
    /\ \/ calls[a][1].at = "scan" /\ Following(calls[a][1]) = {}
       \/ /\ calls[a][1].at = "return"
          /\ calls[a][1].event \in stopped \/ AtBoundary(calls[a][1])
    /\ UNCHANGED <<list, stopped, signals, history>>

AbortStep(a, s, r) ==
    /\ ~aborted[s]
    /\ aborted' = [aborted EXCEPT ![s] = TRUE]
    /\ reason' = [reason EXCEPT ![s] = r]
    /\ SignalsOK'
    /\ Enters(a, Frame(s, Fired(s)))
    /\ stopped' = stopped \ {Fired(s)}
    /\ \/ ProgramRuns /\ kind[s] \in {"controller", "timeout"}
       \/ /\ calls[a] # <<>> /\ calls[a][1].at = "call"
          /\ Closure(calls[a][1]).kind = "dependent"
          /\ Closure(calls[a][1]).result = s /\ r = reason[Closure(calls[a][1]).source]
    /\ UNCHANGED <<list, kind, onabort, sources, history>>

DispatchStep(a, t, e) ==
    /\ ProgramRuns
    /\ Enters(a, Frame(t, e))
    /\ stopped' = stopped \ {e}
    /\ forged \subseteq forged' /\ forged' \subseteq Signal
    /\ e.type = "abort" /\ t \in Signal => aborted[t] \/ t \in forged'
    /\ UNCHANGED <<list, signals, silenced>>

-----------------------------------------------------------------------------
(* The program changes lists                                               *)

LEMMA RegistrationFacts ==
    ASSUME NEW g \in Registration
    PROVE  /\ g.target \in Target /\ g.type \in Type /\ g.code \in Callback
           /\ g.once \in BOOLEAN /\ g.signal \in Signal \cup {NoSignal}
  BY DEF Registration

LEMMA ExistingMade ==
    ASSUME NEW t \in Existing
    PROVE  t \in Target /\ (t \in Signal => kind[t] # "none")
  BY EventsAssumption DEF Existing, Target

LEMMA ListsTyped ==
    ASSUME TypeOK, NEW t \in Target
    PROVE  list[t] \in Seq(Entry) /\ \A i \in DOMAIN list[t] : list[t][i] \in Entry
  <1>1. list[t] \in Seq(Entry)
    BY DEF TypeOK
  <1> QED BY <1>1

(* An edit of one list. *)
LEMMA OneListEdited ==
    ASSUME TypeOK, NEW t \in Target,
           list' \in [Target -> Seq(Entry)],
           \A u \in Target : u # t => list'[u] = list[u],
           Evolves(list[t], list'[t]),
           \A i \in DOMAIN list'[t] \ DOMAIN list[t] : NewListener(t, list'[t][i])
    PROVE  Edited
  <1>1. ASSUME NEW u \in Target, u # t
        PROVE  /\ Evolves(list[u], list'[u])
               /\ \A i \in DOMAIN list'[u] \ DOMAIN list[u] : NewListener(u, list'[u][i])
    <2>1. list'[u] = list[u] /\ list[u] \in Seq(Entry)
      BY <1>1, ListsTyped
    <2> QED BY <2>1, EvolvesSame
  <1> QED BY <1>1 DEF Edited

LEMMA EditMakes ==
    ASSUME TypeOK, ProgramRuns, Edited,
           UNCHANGED <<calls, stopped, kind, aborted, reason, sources, history>>,
           onabort' \in [Signal -> Callback \cup {NoHandler}]
    PROVE  Making
  <1>1. SignalsOK'
    BY DEF TypeOK, SignalsOK, history
  <1>2. \A s \in Signal : SameSignal(s)
    BY DEF SameSignal
  <1> QED BY <1>1, <1>2 DEF Making

LEMMA AddIsMaking ==
    ASSUME TypeOK, NEW g \in Registration, AddEventListener(g)
    PROVE  Making
  <1>1. PICK l : l = Listener(g.type, User(g.code), g.once, NoSignal)
    OBVIOUS
  <1>2. /\ l \in Entry /\ ~l.removed /\ l.runs = 0
        /\ l.closure = User(g.code) /\ l.signal = NoSignal
    BY <1>1, RegistrationFacts, ClosureFacts, ListenerFacts
  <1>3. PICK t \in Target : t = g.target /\ (t \in Signal => kind[t] # "none")
    BY RegistrationFacts, ExistingMade DEF AddEventListener
  <1>4. list[t] \in Seq(Entry)
    BY ListsTyped
  <1>5. list' = [list EXCEPT ![t] = Added(list[t], l)]
    BY <1>1, <1>3 DEF AddEventListener
  <1>6. Evolves(list[t], Added(list[t], l))
    BY <1>2, <1>4, AddedEvolves
  <1>7. Added(list[t], l) \in Seq(Entry)
    BY <1>6 DEF Evolves
  <1>8. /\ list' \in [Target -> Seq(Entry)]
        /\ \A u \in Target : u # t => list'[u] = list[u]
        /\ list'[t] = Added(list[t], l)
    BY <1>5, <1>7 DEF TypeOK
  <1>9. NewListener(t, l)
    <2>1. l.closure.kind = "user"
      BY <1>2, RegistrationFacts, ClosureFacts
    <2>2. \A s \in Signal : l.signal # s
      BY <1>2, EventsAssumption
    <2> QED BY <1>2, <1>3, <2>1, <2>2 DEF NewListener
  <1>10. \A i \in DOMAIN list'[t] \ DOMAIN list[t] : list'[t][i] = l
    BY <1>2, <1>4, <1>8, AddedEvolves
  <1>11. Edited
    BY <1>6, <1>8, <1>9, <1>10, OneListEdited
  <1> QED BY <1>11, EditMakes DEF AddEventListener, signals, TypeOK, SignalsOK

LEMMA RemoveIsMaking ==
    ASSUME TypeOK, NEW t \in Target, NEW ty, NEW c, RemoveEventListener(t, ty, c)
    PROVE  Making
  <1>1. list[t] \in Seq(Entry)
    BY ListsTyped
  <1>2. PICK ms : ms = Removed(list[t], ty, User(c))
    OBVIOUS
  <1>3. Evolves(list[t], ms) /\ DOMAIN ms = DOMAIN list[t]
    BY <1>1, <1>2, RemovedEvolves
  <1>4. list' = [list EXCEPT ![t] = ms]
    BY <1>2 DEF RemoveEventListener
  <1>5. ms \in Seq(Entry)
    BY <1>3 DEF Evolves
  <1>6. /\ list' \in [Target -> Seq(Entry)]
        /\ \A u \in Target : u # t => list'[u] = list[u]
        /\ list'[t] = ms
    BY <1>4, <1>5 DEF TypeOK
  <1>7. Edited
    BY <1>3, <1>6, OneListEdited
  <1> QED BY <1>7, EditMakes DEF RemoveEventListener, signals, TypeOK, SignalsOK

LEMMA OnAbortIsMaking ==
    ASSUME TypeOK, NEW s \in Signal, NEW c \in Callback \cup {NoHandler}, SetOnAbort(s, c)
    PROVE  Making
  <1>1. s \in Target /\ kind[s] # "none"
    BY DEF Target, SetOnAbort
  <1>2. list[s] \in Seq(Entry)
    BY <1>1, ListsTyped
  <1>3. PICK ls : ls = WithoutHandler(list[s], s)
    OBVIOUS
  <1>4. Evolves(list[s], ls) /\ DOMAIN ls = DOMAIN list[s]
    <2>1. CASE onabort[s] = NoHandler
      BY <1>2, <1>3, <2>1, EvolvesSame DEF WithoutHandler
    <2>2. CASE onabort[s] # NoHandler
      <3>1. ls = Removed(list[s], "abort", User(onabort[s]))
        BY <1>3, <2>2 DEF WithoutHandler
      <3> QED BY <1>2, <3>1, RemovedEvolves
    <2> QED BY <2>1, <2>2
  <1>5. ls \in Seq(Entry)
    BY <1>4 DEF Evolves
  <1>6. PICK l : l = Listener("abort", User(c), FALSE, NoSignal)
    OBVIOUS
  <1>7. PICK ms : ms = IF c = NoHandler THEN ls ELSE Added(ls, l)
    OBVIOUS
  <1>8. list' = [list EXCEPT ![s] = ms]
    BY <1>3, <1>6, <1>7 DEF SetOnAbort
  <1>9. /\ Evolves(list[s], ms)
        /\ \A i \in DOMAIN ms \ DOMAIN list[s] : NewListener(s, ms[i])
    <2>1. CASE c = NoHandler
      BY <1>4, <1>7, <2>1
    <2>2. CASE c # NoHandler
      <3>1. c \in Callback
        BY <2>2
      <3>2. User(c) \in AnyClosure /\ User(c).kind = "user"
        BY <3>1, ClosureFacts
      <3>3. /\ l \in Entry /\ ~l.removed /\ l.runs = 0 /\ l.closure = User(c) /\ l.signal = NoSignal
        <4>1. "abort" \in Type /\ NoSignal \in Signal \cup {NoSignal}
          BY EventsAssumption
        <4> HIDE DEF NoSignal
        <4> QED BY <1>6, <3>2, <4>1 DEF Listener, Entry
      <3>4. NewListener(s, l)
        <4>1. \A r \in Signal : l.signal # r
          BY <3>3, EventsAssumption
        <4> QED BY <1>1, <3>2, <3>3, <4>1 DEF NewListener
      <3>5. ms = Added(ls, l)
        BY <1>7, <2>2
      <3>6. Evolves(ls, ms) /\ \A i \in DOMAIN ms \ DOMAIN ls : ms[i] = l
        BY <1>5, <3>3, <3>5, AddedEvolves
      <3>7. Evolves(list[s], ms)
        BY <1>2, <1>4, <3>6, EvolvesTwice
      <3> QED BY <1>4, <3>4, <3>6, <3>7
    <2> QED BY <2>1, <2>2
  <1>10. ms \in Seq(Entry)
    BY <1>9 DEF Evolves
  <1>11. /\ list' \in [Target -> Seq(Entry)]
         /\ \A u \in Target : u # s => list'[u] = list[u]
         /\ list'[s] = ms
    BY <1>1, <1>8, <1>10 DEF TypeOK
  <1>12. Edited
    BY <1>1, <1>9, <1>11, OneListEdited
  <1>13. onabort' \in [Signal -> Callback \cup {NoHandler}]
    BY DEF SetOnAbort, TypeOK, SignalsOK
  <1> QED BY <1>12, <1>13, EditMakes DEF SetOnAbort

LEMMA BindIsMaking ==
    ASSUME TypeOK, NEW g \in Registration, AddWithSignal(g)
    PROVE  Making
  <1>1. PICK t \in Target : t = g.target /\ (t \in Signal => kind[t] # "none")
    BY RegistrationFacts, ExistingMade DEF AddWithSignal
  <1>2. PICK s \in Signal : s = g.signal /\ kind[s] # "none" /\ ~aborted[s] /\ s \in Target
    BY RegistrationFacts, ExistingMade DEF AddWithSignal, Target
  <1>3. PICK l : l = Listener(g.type, User(g.code), g.once, s)
    OBVIOUS
  <1>4. /\ l \in Entry /\ ~l.removed /\ l.runs = 0
        /\ l.closure = User(g.code) /\ l.signal = s /\ l.type = g.type
    BY <1>3, RegistrationFacts, ClosureFacts, ListenerFacts
  <1>5. PICK m : m = Listener("abort", Remover(t, g.type, User(g.code)), TRUE, NoSignal)
    OBVIOUS
  <1>6. /\ Remover(t, g.type, User(g.code)) \in AnyClosure
        /\ Remover(t, g.type, User(g.code)).kind = "remover"
        /\ User(g.code).kind = "user"
    BY RegistrationFacts, ClosureFacts
  <1>7. /\ m \in Entry /\ ~m.removed /\ m.runs = 0 /\ m.once
        /\ m.closure = Remover(t, g.type, User(g.code)) /\ m.signal = NoSignal /\ m.type = "abort"
    <2>1. "abort" \in Type /\ NoSignal \in Signal \cup {NoSignal}
      BY EventsAssumption
    <2> HIDE DEF NoSignal
    <2> QED BY <1>5, <1>6, <2>1 DEF Listener, Entry
  <1>8. list[t] \in Seq(Entry) /\ list[s] \in Seq(Entry)
    BY <1>2, ListsTyped
  <1>9. PICK A : A = Added(list[t], l)
    OBVIOUS
  <1>10. Evolves(list[t], A) /\ \A i \in DOMAIN A \ DOMAIN list[t] : A[i] = l
    BY <1>4, <1>8, <1>9, AddedEvolves
  <1>11. PICK B : B = IF s = t THEN A ELSE list[s]
    OBVIOUS
  <1>12. Evolves(list[s], B) /\ \A i \in DOMAIN B \ DOMAIN list[s] : s = t /\ B[i] = l
    <2>1. CASE s = t
      BY <1>10, <1>11, <2>1
    <2>2. CASE s # t
      BY <1>8, <1>11, <2>2, EvolvesSame
    <2> QED BY <2>1, <2>2
  <1>13. A \in Seq(Entry) /\ B \in Seq(Entry)
    BY <1>10, <1>12 DEF Evolves
  <1>14. PICK C : C = Added(B, m)
    OBVIOUS
  <1>15. /\ Evolves(B, C)
         /\ \A i \in DOMAIN B : C[i] = B[i]
         /\ \A i \in DOMAIN C \ DOMAIN B : C[i] = m
         /\ Len(B) + 1 \in DOMAIN C /\ C[Len(B) + 1] = m
    BY <1>6, <1>7, <1>13, <1>14, AddedEvolves
  <1>16. Evolves(list[s], C) /\ C \in Seq(Entry)
    <2>1. Evolves(list[s], C)
      BY <1>8, <1>12, <1>15, EvolvesTwice
    <2> QED BY <2>1 DEF Evolves
  <1>17. list' = [[list EXCEPT ![t] = A] EXCEPT ![s] = C]
    <2>1. list' = [[list EXCEPT ![t] = A] EXCEPT ![s] = Added([list EXCEPT ![t] = A][s], m)]
      BY <1>1, <1>2, <1>3, <1>5, <1>9 DEF AddWithSignal
    <2>2. [list EXCEPT ![t] = A][s] = B
      BY <1>2, <1>11 DEF TypeOK
    <2> QED BY <1>14, <2>1, <2>2
  <1>18. /\ list' \in [Target -> Seq(Entry)]
         /\ list'[s] = C
         /\ s # t => list'[t] = A
         /\ \A u \in Target : u # s /\ u # t => list'[u] = list[u]
    BY <1>2, <1>13, <1>16, <1>17 DEF TypeOK
  <1>19. NewListener(t, l)
    <2>1. \E j \in DOMAIN list'[s] :
             list'[s][j].closure = Remover(t, l.type, l.closure) /\ ~list'[s][j].removed
      BY <1>4, <1>7, <1>15, <1>18
    <2>2. \A r \in Signal : l.signal = r => r = s
      BY <1>4
    <2> QED BY <1>1, <1>4, <1>6, <2>1, <2>2 DEF NewListener
  <1>20. NewListener(s, m)
    BY <1>2, <1>6, <1>7 DEF NewListener
  <1>21. ASSUME NEW u \in Target
         PROVE  /\ Evolves(list[u], list'[u])
                /\ \A i \in DOMAIN list'[u] \ DOMAIN list[u] : NewListener(u, list'[u][i])
    <2>1. CASE u = s
      <3>1. ASSUME NEW i \in DOMAIN C \ DOMAIN list[s] PROVE NewListener(s, C[i])
        <4>1. CASE i \in DOMAIN B
          <5>1. s = t /\ C[i] = l
            BY <1>12, <1>15, <4>1
          <5> QED BY <1>19, <5>1
        <4>2. CASE i \notin DOMAIN B
          <5>1. C[i] = m
            BY <1>15, <4>2
          <5> QED BY <1>20, <5>1
        <4> QED BY <4>1, <4>2
      <3> QED BY <1>16, <1>18, <2>1, <3>1
    <2>2. CASE u = t /\ u # s
      BY <1>10, <1>18, <1>19, <2>2
    <2>3. CASE u # s /\ u # t
      BY <1>18, <2>3, ListsTyped, EvolvesSame
    <2> QED BY <2>1, <2>2, <2>3
  <1>22. Edited
    BY <1>18, <1>21 DEF Edited
  <1> QED BY <1>22, EditMakes DEF AddWithSignal, signals, TypeOK, SignalsOK

-----------------------------------------------------------------------------
(* The program makes signals                                               *)

LEMMA MenuFacts ==
    ASSUME TypeOK
    PROVE  /\ menu.listen \subseteq Registration
           /\ menu.dispatch \subseteq Target \X Event
           /\ menu.handle \subseteq Signal \X (Callback \cup {NoHandler})
           /\ menu.make \subseteq Signal \X Kind
           /\ menu.reasons \subseteq Reason
  <1>1. menu \in Menu
    BY DEF TypeOK
  <1> QED BY <1>1, EventsAssumption

LEMMA ListsKept ==
    ASSUME TypeOK, UNCHANGED list
    PROVE  Edited
  <1>1. list' \in [Target -> Seq(Entry)]
    BY DEF TypeOK
  <1>2. ASSUME NEW t \in Target
        PROVE  /\ Evolves(list[t], list'[t])
               /\ \A i \in DOMAIN list'[t] \ DOMAIN list[t] : NewListener(t, list'[t][i])
    <2>1. list'[t] = list[t] /\ list[t] \in Seq(Entry)
      BY ListsTyped
    <2> QED BY <2>1, EvolvesSame
  <1> QED BY <1>1, <1>2 DEF Edited

LEMMA NewSignalMeans ==
    ASSUME TypeOK, NEW s \in Signal, NEW k, NewSignal(s, k)
    PROVE  /\ ProgramRuns /\ k \in Kind /\ k # "none" /\ kind[s] = "none"
           /\ kind' \in [Signal -> Kind \cup {"none"}]
           /\ kind'[s] = k /\ \A q \in Signal : q # s => kind'[q] = kind[q]
  <1>1. k \in Kind
    BY MenuFacts DEF NewSignal
  <1>2. k # "none"
    BY <1>1 DEF Kind
  <1>3. kind' = [kind EXCEPT ![s] = k] /\ ProgramRuns /\ kind[s] = "none"
    BY DEF NewSignal
  <1>4. kind \in [Signal -> Kind \cup {"none"}]
    BY DEF TypeOK, SignalsOK
  <1> QED BY <1>1, <1>2, <1>3, <1>4

LEMMA PlainSignalIsMaking ==
    ASSUME TypeOK, Unmade, NEW s \in Signal, NEW k, k # "any", NewSignal(s, k),
           UNCHANGED <<list, calls, stopped, aborted, reason, onabort, sources, history>>
    PROVE  Making
  <1>1. /\ ProgramRuns /\ k # "none" /\ kind[s] = "none"
        /\ kind' \in [Signal -> Kind \cup {"none"}]
        /\ kind'[s] = k /\ \A q \in Signal : q # s => kind'[q] = kind[q]
    BY NewSignalMeans
  <1>2. SignalsOK'
    BY <1>1 DEF TypeOK, SignalsOK, history
  <1>3. Newborn(s)
    BY <1>1 DEF Newborn, Unmade
  <1>4. \A q \in Signal : q # s => SameSignal(q)
    BY <1>1 DEF SameSignal
  <1> QED BY <1>1, <1>2, <1>3, <1>4, ListsKept DEF Making

LEMMA SetReasonMeans ==
    ASSUME TypeOK, NEW s \in Signal, NEW r \in AnyReason, SetReason(s, r)
    PROVE  /\ aborted' \in [Signal -> BOOLEAN] /\ reason' \in [Signal -> AnyReason]
           /\ aborted'[s] /\ reason'[s] = r
           /\ \A q \in Signal : q # s => aborted'[q] = aborted[q] /\ reason'[q] = reason[q]
  BY DEF SetReason, TypeOK, SignalsOK

LEMMA StaticIsMaking ==
    ASSUME TypeOK, Unmade, NEW s \in Signal, NEW r \in menu.reasons, SignalAbort(s, r)
    PROVE  Making
  <1>1. /\ ProgramRuns /\ kind[s] = "none"
        /\ kind' \in [Signal -> Kind \cup {"none"}]
        /\ kind'[s] = "static" /\ \A q \in Signal : q # s => kind'[q] = kind[q]
    BY NewSignalMeans DEF SignalAbort
  <1>2. r \in AnyReason
    BY MenuFacts DEF AnyReason
  <1>3. /\ aborted' \in [Signal -> BOOLEAN] /\ reason' \in [Signal -> AnyReason]
        /\ aborted'[s]
        /\ \A q \in Signal : q # s => aborted'[q] = aborted[q] /\ reason'[q] = reason[q]
    BY <1>2, SetReasonMeans DEF SignalAbort
  <1>4. UNCHANGED <<list, calls, stopped, onabort, sources, history>>
    BY DEF SignalAbort
  <1>5. SignalsOK'
    BY <1>1, <1>3, <1>4 DEF TypeOK, SignalsOK, history
  <1>6. Newborn(s)
    BY <1>1, <1>3 DEF Newborn
  <1>7. \A q \in Signal : q # s => SameSignal(q)
    BY <1>1, <1>3, <1>4 DEF SameSignal
  <1> QED BY <1>1, <1>4, <1>5, <1>6, <1>7, ListsKept DEF Making

(* The signals an AbortSignal.any hears are its sources up to the first    *)
(* that is aborted.                                                        *)
LEMMA SourcesFacts ==
    ASSUME NEW from \in Sources
    PROVE  \/ DOMAIN from = {1} /\ from[1] \in Signal
           \/ DOMAIN from = {1, 2} /\ from[1] \in Signal /\ from[2] \in Signal
  <1>1. CASE \E s \in Signal : from = <<s>>
    BY <1>1
  <1>2. CASE from \in Signal \X Signal
    BY <1>2
  <1> QED BY <1>1, <1>2 DEF Sources

LEMMA ListenedFacts ==
    ASSUME NEW from \in Sources
    PROVE  /\ Listened(from) \subseteq DOMAIN from
           /\ \A i \in Listened(from) : ~aborted[from[i]]
           /\ (\A i \in DOMAIN from : ~aborted[from[i]]) => Listened(from) = DOMAIN from
           /\ (\E i \in DOMAIN from : aborted[from[i]]) =>
                 LET k == Cardinality(Listened(from)) + 1 IN k \in DOMAIN from /\ aborted[from[k]]
  <1>1. /\ \A i \in DOMAIN from : i = 1 \/ i = 2
        /\ 1 \in DOMAIN from
        /\ 1 .. 1 = {1} /\ 1 .. 2 = {1, 2}
    BY SourcesFacts
  <1>2. ASSUME NEW i \in DOMAIN from
        PROVE  i \in 1 .. i /\ 1 .. i \subseteq DOMAIN from
    <2>1. CASE i = 1
      BY <1>1, <2>1
    <2>2. CASE i = 2
      <3>1. DOMAIN from = {1, 2}
        BY <1>2, <2>2, SourcesFacts
      <3> QED BY <1>1, <2>2, <3>1
    <2> QED BY <1>1, <2>1, <2>2
  <1>3. ASSUME \E i \in DOMAIN from : aborted[from[i]]
        PROVE  LET k == Cardinality(Listened(from)) + 1 IN k \in DOMAIN from /\ aborted[from[k]]
    <2>1. CASE aborted[from[1]]
      <3>1. Listened(from) = {}
        BY <1>1, <2>1 DEF Listened
      <3>2. Cardinality(Listened(from)) = 0
        BY <3>1, FS_EmptySet
      <3> QED BY <1>1, <2>1, <3>2
    <2>2. CASE ~aborted[from[1]]
      <3>1. 2 \in DOMAIN from /\ aborted[from[2]]
        BY <1>1, <1>3, <2>2
      <3>2. Listened(from) = {1}
        BY <1>1, <2>2, <3>1 DEF Listened
      <3>3. Cardinality(Listened(from)) = 1
        BY <3>2, FS_Singleton
      <3> QED BY <3>1, <3>3
    <2> QED BY <2>1, <2>2
  <1>4. ASSUME \A i \in DOMAIN from : ~aborted[from[i]]
        PROVE  Listened(from) = DOMAIN from
    BY <1>2, <1>4 DEF Listened
  <1> QED BY <1>2, <1>3, <1>4 DEF Listened

LEMMA AnyIsMaking ==
    ASSUME TypeOK, Unmade, NEW s \in Signal, NEW from \in Sources, SignalAny(s, from)
    PROVE  Making
  <1>1. /\ ProgramRuns /\ kind[s] = "none"
        /\ kind' \in [Signal -> Kind \cup {"none"}]
        /\ kind'[s] = "any" /\ \A q \in Signal : q # s => kind'[q] = kind[q]
    BY NewSignalMeans DEF SignalAny
  <1>2. /\ \A i \in DOMAIN from : kind[from[i]] # "none" /\ from[i] \in Signal
        /\ UNCHANGED <<calls, stopped, onabort, history>>
    BY SourcesFacts DEF SignalAny
  <1>3. PICK heard : heard = {from[i] : i \in Listened(from)}
    OBVIOUS
  <1>4. PICK all : all = {from[i] : i \in DOMAIN from}
    OBVIOUS
  <1>5. /\ heard \subseteq all /\ all \subseteq Signal
        /\ \A q \in heard : ~aborted[q]
        /\ \A q \in all : kind[q] # "none"
    BY <1>2, <1>3, <1>4, ListenedFacts
  <1>6. list' = [t \in Target |->
                    IF t \in heard
                    THEN Added(list[t], Listener("abort", Dependent(t, s), FALSE, NoSignal))
                    ELSE list[t]]
    BY <1>3 DEF SignalAny
  <1>7. sources' = [sources EXCEPT ![s] = all]
    BY <1>4 DEF SignalAny
  <1>8. /\ sources' \in [Signal -> SUBSET Signal]
        /\ sources'[s] = all /\ \A q \in Signal : q # s => sources'[q] = sources[q]
    BY <1>5, <1>7 DEF TypeOK, SignalsOK
  <1>9. ASSUME NEW t \in Target
        PROVE  /\ Evolves(list[t], list'[t])
               /\ \A i \in DOMAIN list'[t] \ DOMAIN list[t] : NewListener(t, list'[t][i])
               /\ t \in heard => \E j \in DOMAIN list'[t] : list'[t][j].closure = Dependent(t, s)
    <2>1. CASE t \notin heard
      <3>1. list'[t] = list[t] /\ list[t] \in Seq(Entry)
        BY <1>6, <2>1, ListsTyped
      <3> QED BY <2>1, <3>1, EvolvesSame
    <2>2. CASE t \in heard
      <3>1. t \in Signal /\ ~aborted[t] /\ kind[t] # "none" /\ t \in sources'[s]
        BY <1>5, <1>8, <2>2
      <3>2. PICK l : l = Listener("abort", Dependent(t, s), FALSE, NoSignal)
        OBVIOUS
      <3>3. /\ Dependent(t, s) \in AnyClosure /\ Dependent(t, s).kind = "dependent"
            /\ Dependent(t, s).source = t /\ Dependent(t, s).result = s
        BY <3>1, ClosureFacts
      <3>4. /\ l \in Entry /\ ~l.removed /\ l.runs = 0 /\ ~l.once
            /\ l.closure = Dependent(t, s) /\ l.signal = NoSignal /\ l.type = "abort"
        <4>1. "abort" \in Type /\ NoSignal \in Signal \cup {NoSignal}
          BY EventsAssumption
        <4> HIDE DEF NoSignal
        <4> QED BY <3>2, <3>3, <4>1 DEF Listener, Entry
      <3>5. list'[t] = Added(list[t], l) /\ list[t] \in Seq(Entry)
        BY <1>6, <2>2, <3>2, ListsTyped
      <3>6. NewListener(t, l)
        BY <3>1, <3>3, <3>4 DEF NewListener
      <3>7. /\ Evolves(list[t], list'[t])
            /\ \A i \in DOMAIN list'[t] \ DOMAIN list[t] : list'[t][i] = l
            /\ \E j \in DOMAIN list'[t] : list'[t][j] = l
        BY <3>3, <3>4, <3>5, AddedEvolves
      <3> QED BY <3>4, <3>6, <3>7
    <2> QED BY <2>1, <2>2
  <1>10. Edited
    <2>1. \A t \in Target : list'[t] \in Seq(Entry)
      BY <1>9 DEF Evolves
    <2>2. list' \in [Target -> Seq(Entry)]
      BY <1>6, <2>1
    <2> QED BY <1>9, <2>2 DEF Edited
  <1>11. heard \subseteq Target
    BY <1>5 DEF Target
  <1>12. CASE \E i \in DOMAIN from : aborted[from[i]]
    <2>1. PICK k : k = Cardinality(Listened(from)) + 1
      OBVIOUS
    <2>2. k \in DOMAIN from /\ aborted[from[k]]
      BY <1>12, <2>1, ListenedFacts
    <2>3. SetReason(s, reason[from[k]])
      BY <1>12, <2>1 DEF SignalAny
    <2>4. from[k] \in all /\ from[k] \in Signal /\ from[k] # s
      BY <1>1, <1>2, <1>4, <2>2
    <2>5. reason[from[k]] \in AnyReason
      BY <2>4 DEF TypeOK, SignalsOK
    <2>6. /\ aborted' \in [Signal -> BOOLEAN] /\ reason' \in [Signal -> AnyReason]
          /\ aborted'[s] /\ reason'[s] = reason[from[k]]
          /\ \A q \in Signal : q # s => aborted'[q] = aborted[q] /\ reason'[q] = reason[q]
      BY <2>3, <2>5, SetReasonMeans
    <2>7. Newborn(s)
      BY <1>1, <1>8, <2>2, <2>4, <2>6 DEF Newborn
    <2>8. SignalsOK'
      BY <1>1, <1>2, <1>8, <2>6 DEF TypeOK, SignalsOK, history
    <2>9. \A q \in Signal : q # s => SameSignal(q)
      BY <1>1, <1>8, <2>6 DEF SameSignal
    <2> QED BY <1>1, <1>2, <1>10, <2>7, <2>8, <2>9 DEF Making
  <1>13. CASE \A i \in DOMAIN from : ~aborted[from[i]]
    <2>1. UNCHANGED <<aborted, reason>>
      BY <1>13 DEF SignalAny
    <2>2. heard = all
      BY <1>3, <1>4, <1>13, ListenedFacts
    <2>3. ~aborted'[s]
      BY <1>1, <2>1 DEF Unmade
    <2>4. \A q \in all : \E j \in DOMAIN list'[q] : list'[q][j].closure = Dependent(q, s)
      BY <1>9, <1>11, <2>2
    <2>5. Newborn(s)
      BY <1>1, <1>8, <2>3, <2>4 DEF Newborn
    <2>6. SignalsOK'
      BY <1>1, <1>2, <1>8, <2>1 DEF TypeOK, SignalsOK, history
    <2>7. \A q \in Signal : q # s => SameSignal(q)
      BY <1>1, <1>8, <2>1 DEF SameSignal
    <2> QED BY <1>1, <1>2, <1>10, <2>5, <2>6, <2>7 DEF Making
  <1> QED BY <1>12, <1>13

LEMMA CreateIsMaking ==
    ASSUME TypeOK, Unmade, Create
    PROVE  Making
  <1>1. PICK s \in Signal :
           \/ NewController(s) \/ SignalTimeout(s)
           \/ \E r \in menu.reasons : SignalAbort(s, r)
           \/ \E from \in Sources : SignalAny(s, from)
    BY DEF Create
  <1>2. CASE NewController(s)
    BY <1>2, PlainSignalIsMaking DEF NewController
  <1>3. CASE SignalTimeout(s)
    BY <1>3, PlainSignalIsMaking DEF SignalTimeout
  <1>4. CASE \E r \in menu.reasons : SignalAbort(s, r)
    BY <1>4, StaticIsMaking
  <1>5. CASE \E from \in Sources : SignalAny(s, from)
    BY <1>5, AnyIsMaking
  <1> QED BY <1>1, <1>2, <1>3, <1>4, <1>5

LEMMA ListenIsMaking ==
    ASSUME TypeOK, Listen
    PROVE  Making
  <1>1. CASE \E g \in menu.listen : AddEventListener(g)
    BY <1>1, MenuFacts, AddIsMaking
  <1>2. CASE \E g \in menu.listen : AddWithSignal(g)
    BY <1>2, MenuFacts, BindIsMaking
  <1>3. CASE \E g \in menu.listen : RemoveEventListener(g.target, g.type, g.code)
    BY <1>3, MenuFacts, RegistrationFacts, RemoveIsMaking
  <1>4. CASE \E h \in menu.handle : SetOnAbort(h[1], h[2])
    BY <1>4, MenuFacts, OnAbortIsMaking
  <1> QED BY <1>1, <1>2, <1>3, <1>4 DEF Listen

-----------------------------------------------------------------------------
(* The steps of dispatches and aborts                                      *)

LEMMA TopDispatch ==
    ASSUME TypeOK, DispatchesPlaced, NEW a \in Task, calls[a] # <<>>
    PROVE  /\ Head(calls[a]) = calls[a][1] /\ 1 \in DOMAIN calls[a]
           /\ calls[a][1] \in Dispatch /\ Placed(calls[a][1])
           /\ calls[a][1].at # "scan" =>
                 /\ calls[a][1].listener \in DOMAIN list[calls[a][1].target]
                 /\ Closure(calls[a][1]) \in AnyClosure
  <1>1. /\ Head(calls[a]) = calls[a][1] /\ 1 \in DOMAIN calls[a]
        /\ calls[a][1] \in Dispatch
    <2>1. calls[a] \in Seq(Dispatch)
      BY CallsTyped
    <2> QED BY <2>1, TopFacts
  <1>2. Placed(calls[a][1])
    BY <1>1 DEF DispatchesPlaced
  <1>3. PICK f \in Dispatch : f = calls[a][1]
    BY <1>1
  <1>4. ASSUME f.at # "scan"
        PROVE  f.listener \in DOMAIN list[f.target] /\ Closure(f) \in AnyClosure
    <2>1. f.target \in Target /\ f.listener \in Nat
      BY DispatchFacts
    <2>2. list[f.target] \in Seq(Entry)
      BY <2>1, ListsTyped
    <2>3. f.listener <= Len(list[f.target]) /\ f.listener > 0
      BY <1>2, <1>3, <1>4 DEF Placed
    <2>4. f.listener \in DOMAIN list[f.target]
      BY <2>1, <2>2, <2>3
    <2>5. list[f.target][f.listener] \in Entry
      BY <2>1, <2>4, ListsTyped
    <2> QED BY <2>4, <2>5, EntryFacts DEF Closure
  <1> QED BY <1>1, <1>2, <1>3, <1>4

LEMMA MovesTop ==
    ASSUME TypeOK, DispatchesPlaced, NEW a \in Task, calls[a] # <<>>,
           NEW w \in {"scan", "call", "return"},
           Goto(a, [Head(calls[a]) EXCEPT !.at = w])
    PROVE  Replaces(a, [calls[a][1] EXCEPT !.at = w])
  <1>1. Head(calls[a]) = calls[a][1] /\ calls[a][1] \in Dispatch
    BY TopDispatch
  <1>2. [calls[a][1] EXCEPT !.at = w] \in Dispatch
    BY <1>1, MovedFacts
  <1> QED BY <1>1, <1>2, GotoReplaces

LEMMA CallIs ==
    ASSUME TypeOK, DispatchesPlaced, NEW a \in Task, CallNext(a)
    PROVE  \E i \in Nat : CallStep(a, i)
  <1>1. calls[a] # <<>>
    BY DEF CallNext
  <1>2. /\ Head(calls[a]) = calls[a][1] /\ calls[a][1] \in Dispatch
    BY <1>1, TopDispatch
  <1>3. PICK f \in Dispatch : f = calls[a][1]
    BY <1>2
  <1>4. PICK t \in Target : t = f.target
    BY DispatchFacts
  <1>5. list[t] \in Seq(Entry)
    BY ListsTyped
  <1>6. PICK F : F = Following(f)
    OBVIOUS
  <1>7. F \subseteq DOMAIN list[t] /\ F \subseteq Nat
    BY <1>4, <1>5, <1>6 DEF Following
  <1>8. PICK i : i = Min(F)
    OBVIOUS
  <1>9. F # {} /\ f.at = "scan"
    BY <1>2, <1>3, <1>6 DEF CallNext
  <1>10. i \in F /\ \A k \in F : i <= k
    BY <1>7, <1>8, <1>9, NatMin
  <1>11. i \in DOMAIN list[t] /\ i \in Nat
    BY <1>7, <1>10
  <1>12. list[t][i] \in Entry
    BY <1>11, ListsTyped
  <1>13. list' = [list EXCEPT ![t] = [list[t] EXCEPT ![i] = Invoked(list[t][i])]]
    BY <1>2, <1>3, <1>4, <1>6, <1>8 DEF CallNext
  <1>14. PICK l \in Entry : l = Invoked(list[t][i])
    BY <1>12, InvokedFacts
  <1>15. /\ [list[t] EXCEPT ![i] = l] \in Seq(Entry)
         /\ DOMAIN [list[t] EXCEPT ![i] = l] = DOMAIN list[t]
         /\ [list[t] EXCEPT ![i] = l][i] = l
         /\ \A k \in DOMAIN list[t] : k # i => [list[t] EXCEPT ![i] = l][k] = list[t][k]
    BY <1>5, <1>11, ReplaceFacts
  <1>16. PICK ms : ms = [list[t] EXCEPT ![i] = l]
    OBVIOUS
  <1>17. /\ list' \in [Target -> Seq(Entry)] /\ list'[t] = ms
         /\ \A u \in Target : u # t => list'[u] = list[u]
    BY <1>13, <1>14, <1>15, <1>16 DEF TypeOK
  <1>18. Replaces(a, [f EXCEPT !.listener = i, !.at = "call"])
    <2>1. Goto(a, [f EXCEPT !.listener = i, !.at = "call"])
      BY <1>2, <1>3, <1>6, <1>8 DEF CallNext
    <2>2. [f EXCEPT !.listener = i, !.at = "call"] \in Dispatch
      BY <1>11, CallingFacts
    <2> QED BY <1>1, <2>1, <2>2, GotoReplaces
  <1>19. UNCHANGED <<stopped, signals, history>>
    BY DEF CallNext
  <1>20. CallStep(a, i)
    BY <1>1, <1>3, <1>4, <1>6, <1>9, <1>10, <1>14, <1>15, <1>16, <1>17, <1>18, <1>19 DEF CallStep
  <1> QED BY <1>11, <1>20

LEMMA NoneLeftIs ==
    ASSUME TypeOK, DispatchesPlaced, NEW a \in Task, NoneLeft(a)
    PROVE  EndStep(a)
  <1>1. calls[a] # <<>> /\ Leave(a)
    BY DEF NoneLeft
  <1> QED BY <1>1, TopDispatch, LeaveLeaves DEF NoneLeft, EndStep

LEMMA AfterIs ==
    ASSUME TypeOK, DispatchesPlaced, NEW a \in Task, AfterCallback(a)
    PROVE  EndStep(a) \/ TurnStep(a, "scan")
  <1>1. calls[a] # <<>> /\ Head(calls[a]) = calls[a][1]
    BY TopDispatch DEF AfterCallback
  <1>2. calls[a][1].at = "return" /\ UNCHANGED <<list, stopped, signals, history>>
    BY <1>1 DEF AfterCallback
  <1>3. CASE calls[a][1].event \in stopped \/ AtBoundary(calls[a][1])
    <2>1. Leave(a)
      BY <1>1, <1>3 DEF AfterCallback
    <2> QED BY <1>1, <1>2, <1>3, <2>1, LeaveLeaves DEF EndStep
  <1>4. CASE ~(calls[a][1].event \in stopped \/ AtBoundary(calls[a][1]))
    <2>1. Goto(a, [Head(calls[a]) EXCEPT !.at = "scan"])
      BY <1>1, <1>4 DEF AfterCallback
    <2>2. Replaces(a, [calls[a][1] EXCEPT !.at = "scan"])
      BY <1>1, <2>1, MovesTop
    <2> QED BY <1>2, <1>4, <2>2 DEF TurnStep
  <1> QED BY <1>3, <1>4

LEMMA ReturnIs ==
    ASSUME TypeOK, DispatchesPlaced, NEW a \in Task, Return(a)
    PROVE  TurnStep(a, "return")
  <1>1. calls[a] # <<>> /\ Goto(a, [Head(calls[a]) EXCEPT !.at = "return"])
    BY DEF Return, InCallback
  <1>2. Replaces(a, [calls[a][1] EXCEPT !.at = "return"])
    BY <1>1, MovesTop
  <1> QED BY <1>2 DEF Return, TurnStep

LEMMA ReturnedReplaces ==
    ASSUME TypeOK, DispatchesPlaced, NEW a \in Task, calls[a] # <<>>, calls' = Returned(a)
    PROVE  Replaces(a, [calls[a][1] EXCEPT !.at = "return"])
  <1>1. Goto(a, [Head(calls[a]) EXCEPT !.at = "return"])
    BY DEF Returned, Goto
  <1> QED BY <1>1, MovesTop

LEMMA RemoverIs ==
    ASSUME TypeOK, DispatchesPlaced, NEW a \in Task, RemoverRuns(a)
    PROVE  RemoverStep(a)
  <1>1. calls[a] # <<>> /\ Head(calls[a]) = calls[a][1]
    BY TopDispatch DEF RemoverRuns, InRuntimeClosure
  <1>2. calls[a][1].at = "call" /\ Closure(calls[a][1]).kind = "remover"
    BY <1>1 DEF RemoverRuns, InRuntimeClosure
  <1>3. PICK c \in AnyClosure : c = Closure(calls[a][1]) /\ c.kind = "remover"
    BY <1>1, <1>2, TopDispatch
  <1>4. c \in RemoverClosure
    BY <1>3, ClosureFacts
  <1>5. PICK t \in Target : t = c.target
    BY <1>4 DEF RemoverClosure
  <1>6. list[t] \in Seq(Entry)
    BY ListsTyped
  <1>7. PICK ms : ms = Removed(list[t], c.type, c.code)
    OBVIOUS
  <1>8. /\ Evolves(list[t], ms) /\ DOMAIN ms = DOMAIN list[t]
        /\ OneOfEach(list[t]) => \A i \in DOMAIN list[t] : ~Same(ms[i], c.type, c.code)
    BY <1>6, <1>7, RemovedEvolves
  <1>9. ms \in Seq(Entry)
    BY <1>8 DEF Evolves
  <1>10. list' = [list EXCEPT ![t] = ms]
    BY <1>1, <1>3, <1>5, <1>7 DEF RemoverRuns
  <1>11. /\ list' \in [Target -> Seq(Entry)] /\ list'[t] = ms
         /\ \A u \in Target : u # t => list'[u] = list[u]
    BY <1>9, <1>10 DEF TypeOK
  <1>12. \A u \in Target : Evolves(list[u], list'[u]) /\ DOMAIN list'[u] = DOMAIN list[u]
    BY <1>8, <1>11, ListsTyped, EvolvesSame
  <1>13. Replaces(a, [calls[a][1] EXCEPT !.at = "return"])
    BY <1>1, ReturnedReplaces DEF RemoverRuns
  <1>14. UNCHANGED <<stopped, signals, history>>
    BY DEF RemoverRuns
  <1> QED BY <1>1, <1>2, <1>3, <1>5, <1>8, <1>11, <1>12, <1>13, <1>14 DEF RemoverStep

LEMMA AbortTyped ==
    ASSUME TypeOK, NEW s \in Signal, NEW r \in AnyReason, SetReason(s, r),
           UNCHANGED <<kind, onabort, sources, history>>
    PROVE  SignalsOK'
  BY SetReasonMeans DEF TypeOK, SignalsOK, history

LEMMA DependentIs ==
    ASSUME TypeOK, DispatchesPlaced, NEW a \in Task, DependentRuns(a)
    PROVE  TurnStep(a, "return") \/ \E s \in Signal, r \in AnyReason : AbortStep(a, s, r)
  <1>1. calls[a] # <<>> /\ Head(calls[a]) = calls[a][1]
    BY TopDispatch DEF DependentRuns, InRuntimeClosure
  <1>2. calls[a][1].at = "call" /\ Closure(calls[a][1]).kind = "dependent"
    BY <1>1 DEF DependentRuns, InRuntimeClosure
  <1>3. PICK c \in AnyClosure : c = Closure(calls[a][1]) /\ c.kind = "dependent"
    BY <1>1, <1>2, TopDispatch
  <1>4. c \in DependentClosure
    BY <1>3, ClosureFacts
  <1>5. PICK s \in Signal : s = c.result /\ c.source \in Signal
    BY <1>4 DEF DependentClosure
  <1>6. PICK r \in AnyReason : r = reason[c.source]
    BY <1>5 DEF TypeOK, SignalsOK
  <1>7. UNCHANGED <<list, kind, onabort, sources, history>>
    BY DEF DependentRuns
  <1>8. CASE aborted[s]
    <2>1. calls' = Returned(a) /\ UNCHANGED <<stopped, aborted, reason>>
      BY <1>1, <1>3, <1>5, <1>8 DEF DependentRuns, FirstAbort
    <2>2. Replaces(a, [calls[a][1] EXCEPT !.at = "return"])
      BY <1>1, <2>1, ReturnedReplaces
    <2>3. UNCHANGED <<list, stopped, signals, history>>
      BY <1>7, <2>1 DEF signals
    <2> QED BY <1>2, <1>3, <1>5, <1>8, <2>2, <2>3 DEF TurnStep
  <1>9. CASE ~aborted[s]
    <2>1. /\ SetReason(s, r)
          /\ calls' = [Returned(a) EXCEPT ![a] = <<Frame(s, Fired(s))>> \o @]
          /\ stopped' = stopped \ {Fired(s)}
      BY <1>1, <1>3, <1>5, <1>6, <1>9 DEF DependentRuns, FirstAbort
    <2>2. PICK f \in Dispatch : f = Frame(s, Fired(s))
      BY FrameFacts, EventFacts DEF Target
    <2>3. PICK g \in Dispatch : g = [calls[a][1] EXCEPT !.at = "return"] /\ Stays(calls[a][1], g)
      <3>1. PICK h \in Dispatch : h = calls[a][1] /\ h.at = "call"
        BY <1>1, <1>2, TopDispatch
      <3>2. PICK g : g = [h EXCEPT !.at = "return"]
        OBVIOUS
      <3>3. /\ g \in Dispatch /\ g.at = "return"
            /\ g.target = h.target /\ g.event = h.event
            /\ g.boundary = h.boundary /\ g.listener = h.listener
        BY <3>2, MovedFacts
      <3> QED BY <3>1, <3>2, <3>3 DEF Stays
    <2>4. PICK p : p = <<g>> \o Tail(calls[a])
      OBVIOUS
    <2>5. calls[a] \in Seq(Dispatch)
      BY CallsTyped
    <2>6. /\ 1 \in DOMAIN calls[a] /\ Tail(calls[a]) \in Seq(Dispatch)
          /\ Len(Tail(calls[a])) = Len(calls[a]) - 1
          /\ \A i \in DOMAIN calls[a] :
                i > 1 => i - 1 \in DOMAIN Tail(calls[a]) /\ Tail(calls[a])[i - 1] = calls[a][i]
      BY <1>1, <2>5, TopFacts
    <2>7. /\ p \in Seq(Dispatch) /\ Len(p) = Len(Tail(calls[a])) + 1 /\ p[1] = g
          /\ \A i \in DOMAIN p : i > 1 => p[i] = Tail(calls[a])[i - 1]
      BY <2>4, <2>6, PushFacts
    <2>8. DOMAIN p = DOMAIN calls[a]
      <3>1. DOMAIN p = 1 .. Len(p)
        BY <2>7, SeqDomain
      <3>2. DOMAIN calls[a] = 1 .. Len(calls[a]) /\ Len(calls[a]) \in Nat
        BY <2>5, SeqDomain
      <3> QED BY <2>6, <2>7, <3>1, <3>2
    <2>9. calls' = [calls EXCEPT ![a] = <<f>> \o p]
      <3>1. Returned(a) = [calls EXCEPT ![a] = p]
        BY <1>1, <2>3, <2>4 DEF Returned
      <3>2. calls \in [Task -> Seq(Dispatch)]
        BY DEF TypeOK
      <3> QED BY <2>1, <2>2, <3>1, <3>2
    <2>10. Enters(a, f)
      <3>1. \A n \in DOMAIN p : n > 1 => p[n] = calls[a][n]
        BY <2>6, <2>7, <2>8
      <3>2. Stays(calls[a][1], p[1])
        BY <2>3, <2>7
      <3> QED BY <2>7, <2>8, <2>9, <3>1, <3>2, PushEnters
    <2>11. SignalsOK'
      BY <1>7, <2>1, AbortTyped
    <2>12. AbortStep(a, s, r)
      BY <1>1, <1>2, <1>3, <1>5, <1>6, <1>7, <1>9, <2>1, <2>2, <2>10, <2>11 DEF AbortStep, SetReason
    <2> QED BY <2>12
  <1> QED BY <1>8, <1>9

(* A dispatch that begins where the program is in control. *)
LEMMA BeginEnters ==
    ASSUME TypeOK, DispatchesPlaced, NEW a \in Task, NEW t \in Target, NEW e \in Event,
           ProgramRuns, Begin(a, t, e)
    PROVE  Enters(a, Frame(t, e)) /\ stopped' = stopped \ {e}
  <1>1. PICK f \in Dispatch : f = Frame(t, e)
    BY FrameFacts
  <1>2. calls[a] \in Seq(Dispatch)
    BY CallsTyped
  <1>3. calls' = [calls EXCEPT ![a] = <<f>> \o calls[a]]
    BY <1>1 DEF Begin
  <1>4. 1 \in DOMAIN calls[a] => Stays(calls[a][1], calls[a][1])
    <2>1. SUFFICES ASSUME 1 \in DOMAIN calls[a]
                   PROVE  calls[a][1].at # "scan" /\ Closure(calls[a][1]).kind = "user"
      BY DEF Stays
    <2>2. calls[a] # <<>>
      BY <2>1
    <2>3. /\ Head(calls[a]).at = "call" /\ Head(calls[a]) = calls[a][1]
          /\ Closure(Head(calls[a])).kind = "user"
      BY <2>2, TopDispatch DEF ProgramRuns, InCallback
    <2> QED BY <2>3
  <1>5. Enters(a, f)
    BY <1>2, <1>3, <1>4, PushEnters
  <1> QED BY <1>1, <1>5 DEF Begin

LEMMA FiresIs ==
    ASSUME TypeOK, DispatchesPlaced, NEW a \in Task, NEW s \in Signal, NEW r \in AnyReason,
           ProgramRuns, kind[s] \in {"controller", "timeout"}, AbortSignalFires(a, s, r)
    PROVE  AbortStep(a, s, r)
  <1>1. s \in Target /\ Fired(s) \in Event
    BY EventFacts DEF Target
  <1>2. Enters(a, Frame(s, Fired(s))) /\ stopped' = stopped \ {Fired(s)}
    BY <1>1, BeginEnters DEF AbortSignalFires
  <1>3. SignalsOK'
    BY AbortTyped DEF AbortSignalFires
  <1> QED BY <1>2, <1>3 DEF AbortSignalFires, AbortStep, SetReason, FirstAbort

LEMMA DispatchIs ==
    ASSUME TypeOK, DispatchesPlaced, NEW a \in Task, NEW t \in Target, NEW e \in Event,
           DispatchEvent(a, t, e)
    PROVE  DispatchStep(a, t, e)
  <1>1. Enters(a, Frame(t, e)) /\ stopped' = stopped \ {e} /\ ProgramRuns
    BY BeginEnters DEF DispatchEvent
  <1>2. /\ forged \subseteq forged' /\ forged' \subseteq Signal
        /\ e.type = "abort" /\ t \in Signal => aborted[t] \/ t \in forged'
    BY DEF DispatchEvent, TypeOK, SignalsOK
  <1> QED BY <1>1, <1>2 DEF DispatchEvent, DispatchStep

LEMMA StopIs ==
    ASSUME NEW e \in Event, StopImmediatePropagation(e)
    PROVE  StopStep(e)
  BY DEF StopImmediatePropagation, StopStep

(* Every step is of one of these kinds. *)
LEMMA StepKinds ==
    ASSUME TypeOK, Unmade, DispatchesPlaced, Next
    PROVE  /\ menu' = menu
           /\ \/ Making
              \/ \E e \in Event : StopStep(e)
              \/ \E a \in Task :
                    \/ \E w \in {"scan", "return"} : TurnStep(a, w)
                    \/ RemoverStep(a)
                    \/ \E i \in Nat : CallStep(a, i)
                    \/ EndStep(a)
                    \/ \E s \in Signal, r \in AnyReason : AbortStep(a, s, r)
                    \/ \E t \in Target, e \in Event : DispatchStep(a, t, e)
  <1>1. menu' = menu
    BY DEF Next
  <1>2. CASE Create
    BY <1>1, <1>2, CreateIsMaking
  <1>3. CASE Listen
    BY <1>1, <1>3, ListenIsMaking
  <1>4. CASE \E e \in Event : StopImmediatePropagation(e)
    BY <1>1, <1>4, StopIs
  <1>5. ASSUME NEW a \in Task, Runtime(a)
        PROVE  \/ \E w \in {"scan", "return"} : TurnStep(a, w)
               \/ RemoverStep(a)
               \/ \E i \in Nat : CallStep(a, i)
               \/ EndStep(a)
               \/ \E s \in Signal, r \in AnyReason : AbortStep(a, s, r)
    BY <1>5, CallIs, NoneLeftIs, AfterIs, RemoverIs, DependentIs DEF Runtime
  <1>6. ASSUME NEW a \in Task, Program(a)
        PROVE  \/ \E w \in {"scan", "return"} : TurnStep(a, w)
               \/ \E s \in Signal, r \in AnyReason : AbortStep(a, s, r)
               \/ \E t \in Target, e \in Event : DispatchStep(a, t, e)
    <2>1. CASE Return(a)
      BY <2>1, ReturnIs
    <2>2. CASE \E d \in menu.dispatch : DispatchEvent(a, d[1], d[2])
      BY <2>2, MenuFacts, DispatchIs
    <2>3. CASE \E s \in Signal, r \in menu.reasons : ControllerAbort(a, s, r)
      <3>1. menu.reasons \subseteq AnyReason
        BY MenuFacts DEF AnyReason
      <3> QED BY <2>3, <3>1, FiresIs DEF ControllerAbort
    <2>4. CASE \E s \in Signal : TimeoutAbort(a, s)
      <3>1. "TimeoutError" \in AnyReason
        BY DEF AnyReason
      <3> QED BY <2>4, <3>1, FiresIs DEF TimeoutAbort
    <2> QED BY <1>6, <2>1, <2>2, <2>3, <2>4 DEF Program
  <1> QED BY <1>1, <1>2, <1>3, <1>4, <1>5, <1>6 DEF Next

-----------------------------------------------------------------------------
(* What every step keeps                                                   *)

LEMMA TypeStep ==
    ASSUME TypeOK, Unmade, DispatchesPlaced, Next
    PROVE  TypeOK'
  <1>1. menu' \in Menu
    BY StepKinds DEF TypeOK
  <1>2. ASSUME UNCHANGED <<kind, aborted, reason, onabort, sources>>,
               silenced' \subseteq Signal, forged' \subseteq Signal
        PROVE  SignalsOK'
    BY <1>2 DEF TypeOK, SignalsOK
  <1>3. ASSUME UNCHANGED history
        PROVE  silenced' \subseteq Signal /\ forged' \subseteq Signal
    BY <1>3 DEF TypeOK, SignalsOK, history
  <1>4. CASE Making
    BY <1>1, <1>4 DEF TypeOK, Making, Edited
  <1>5. CASE \E e \in Event : StopStep(e)
    <2>1. silenced' \subseteq Signal /\ forged' \subseteq Signal /\ stopped' \subseteq Event
      BY <1>5 DEF TypeOK, SignalsOK, StopStep
    <2> QED BY <1>1, <1>2, <1>5, <2>1 DEF TypeOK, StopStep, signals
  <1>6. ASSUME NEW a \in Task, NEW w, TurnStep(a, w) PROVE TypeOK'
    BY <1>1, <1>2, <1>3, <1>6 DEF TypeOK, TurnStep, Replaces, OthersWait, signals
  <1>7. ASSUME NEW a \in Task, RemoverStep(a) PROVE TypeOK'
    BY <1>1, <1>2, <1>3, <1>7 DEF TypeOK, RemoverStep, Replaces, OthersWait, signals
  <1>8. ASSUME NEW a \in Task, NEW i, CallStep(a, i) PROVE TypeOK'
    BY <1>1, <1>2, <1>3, <1>8 DEF TypeOK, CallStep, Replaces, OthersWait, signals
  <1>9. ASSUME NEW a \in Task, EndStep(a) PROVE TypeOK'
    BY <1>1, <1>2, <1>3, <1>9 DEF TypeOK, EndStep, Leaves, OthersWait, signals
  <1>10. ASSUME NEW a \in Task, NEW s \in Signal, NEW r, AbortStep(a, s, r) PROVE TypeOK'
    BY <1>1, <1>10 DEF TypeOK, AbortStep, Enters, OthersWait
  <1>11. ASSUME NEW a \in Task, NEW t, NEW e, DispatchStep(a, t, e) PROVE TypeOK'
    <2>1. silenced' \subseteq Signal
      BY <1>11 DEF TypeOK, SignalsOK, DispatchStep
    <2> QED BY <1>1, <1>2, <1>11, <2>1 DEF TypeOK, DispatchStep, Enters, OthersWait, signals
  <1> QED BY <1>4, <1>5, <1>6, <1>7, <1>8, <1>9, <1>10, <1>11, StepKinds

(* Nothing an abort has done is taken back, and no listener is changed but *)
(* to take it off.                                                         *)
Forward ==
    /\ \A t \in Target : Grown(list[t], list'[t])
    /\ \A s \in Signal : aborted[s] => aborted'[s] /\ reason'[s] = reason[s]
    /\ \A s \in Signal : kind[s] # "none" => kind'[s] = kind[s] /\ sources'[s] = sources[s]
    /\ \A s \in Signal : sources[s] \subseteq sources'[s]
    /\ silenced \subseteq silenced' /\ forged \subseteq forged'

LEMMA CallGrows ==
    ASSUME TypeOK, DispatchesPlaced, NEW a \in Task, NEW i \in Nat, CallStep(a, i), NEW t \in Target
    PROVE  Grown(list[t], list'[t]) /\ DOMAIN list'[t] = DOMAIN list[t]
  <1>1. list[t] \in Seq(Entry) /\ list'[t] \in Seq(Entry)
    BY ListsTyped DEF CallStep
  <1>2. CASE t # calls[a][1].target
    <2>1. list'[t] = list[t]
      BY <1>2 DEF CallStep
    <2> QED BY <1>1, <2>1, EvolvesSame, EvolvesGrows
  <1>3. CASE t = calls[a][1].target
    <2>1. /\ DOMAIN list'[t] = DOMAIN list[t]
          /\ list'[t][i] = Invoked(list[t][i])
          /\ \A k \in DOMAIN list[t] : k # i => list'[t][k] = list[t][k]
      BY <1>3 DEF CallStep
    <2>2. Len(list[t]) <= Len(list'[t])
      <3>1. /\ DOMAIN list[t] = 1 .. Len(list[t]) /\ Len(list[t]) \in Nat
            /\ DOMAIN list'[t] = 1 .. Len(list'[t]) /\ Len(list'[t]) \in Nat
        BY <1>1, SeqDomain
      <3> QED BY <2>1, <3>1
    <2>3. ASSUME NEW k \in DOMAIN list[t] PROVE Alike(list[t][k], list'[t][k])
      <3>1. list[t][k] \in Entry
        BY ListsTyped
      <3>2. CASE k = i
        BY <2>1, <3>1, <3>2, InvokedFacts
      <3>3. CASE k # i
        BY <2>1, <3>3 DEF Alike
      <3> QED BY <3>2, <3>3
    <2> QED BY <1>1, <2>1, <2>2, <2>3 DEF Grown
  <1> QED BY <1>2, <1>3

LEMMA SameGrows ==
    ASSUME TypeOK, UNCHANGED list, NEW t \in Target
    PROVE  Grown(list[t], list'[t])
  <1>1. list'[t] = list[t] /\ list[t] \in Seq(Entry)
    BY ListsTyped
  <1> QED BY <1>1, EvolvesSame, EvolvesGrows

LEMMA ForwardStep ==
    ASSUME TypeOK, Unmade, DispatchesPlaced, Next
    PROVE  Forward
  <1>1. CASE Making
    <2>1. \A t \in Target : Grown(list[t], list'[t])
      BY <1>1, EvolvesGrows DEF Making, Edited
    <2>2. ASSUME NEW s \in Signal
          PROVE  /\ aborted[s] => aborted'[s] /\ reason'[s] = reason[s]
                 /\ kind[s] # "none" => kind'[s] = kind[s] /\ sources'[s] = sources[s]
                 /\ sources[s] \subseteq sources'[s]
      <3>1. CASE SameSignal(s)
        BY <3>1 DEF SameSignal
      <3>2. CASE kind[s] = "none"
        BY <3>2 DEF Unmade
      <3> QED BY <1>1, <3>1, <3>2 DEF Making
    <2> QED BY <1>1, <2>1, <2>2 DEF Forward, Making, history
  <1>2. CASE \E e \in Event : StopStep(e)
    <2>1. UNCHANGED list
      BY <1>2 DEF StopStep
    <2> QED BY <1>2, <2>1, SameGrows DEF Forward, StopStep, signals
  <1>3. ASSUME NEW a \in Task, NEW w, TurnStep(a, w) PROVE Forward
    <2>1. UNCHANGED list
      BY <1>3 DEF TurnStep
    <2> QED BY <1>3, <2>1, SameGrows DEF Forward, TurnStep, signals, history
  <1>4. ASSUME NEW a \in Task, RemoverStep(a) PROVE Forward
    <2>1. \A t \in Target : Grown(list[t], list'[t])
      BY <1>4, EvolvesGrows DEF RemoverStep
    <2> QED BY <1>4, <2>1 DEF Forward, RemoverStep, signals, history
  <1>5. ASSUME NEW a \in Task, NEW i \in Nat, CallStep(a, i) PROVE Forward
    <2>1. \A t \in Target : Grown(list[t], list'[t])
      BY <1>5, CallGrows
    <2> QED BY <1>5, <2>1 DEF Forward, CallStep, signals, history
  <1>6. ASSUME NEW a \in Task, EndStep(a) PROVE Forward
    <2>1. UNCHANGED list
      BY <1>6 DEF EndStep
    <2> QED BY <1>6, <2>1, SameGrows DEF Forward, EndStep, signals, history
  <1>7. ASSUME NEW a \in Task, NEW s \in Signal, NEW r, AbortStep(a, s, r) PROVE Forward
    <2>1. UNCHANGED list
      BY <1>7 DEF AbortStep
    <2>2. \A q \in Signal : aborted[q] => aborted'[q] /\ reason'[q] = reason[q]
      BY <1>7 DEF AbortStep, TypeOK, SignalsOK
    <2> QED BY <1>7, <2>1, <2>2, SameGrows DEF Forward, AbortStep, history
  <1>8. ASSUME NEW a \in Task, NEW t, NEW e, DispatchStep(a, t, e) PROVE Forward
    <2>1. UNCHANGED list
      BY <1>8 DEF DispatchStep
    <2> QED BY <1>8, <2>1, SameGrows DEF Forward, DispatchStep, signals
  <1> QED BY <1>1, <1>2, <1>3, <1>4, <1>5, <1>6, <1>7, <1>8, StepKinds

-----------------------------------------------------------------------------
(* Listeners stay proper                                                   *)

LEMMA ProperKept ==
    ASSUME NEW t \in Target, NEW l \in Entry, NEW m, Proper(t, l), Kept(l, m), Unmade, Forward
    PROVE  Proper(t, m)'
  <1>1. l.closure.kind = "dependent" => l.closure.result \in Signal
    <2>1. l.closure \in AnyClosure
      BY EntryFacts
    <2> QED BY <2>1, ClosureFacts DEF DependentClosure
  <1>2. l.closure.kind = "dependent" => t \in sources'[l.closure.result]
    BY <1>1 DEF Proper, Forward
  <1>3. l.runs \in 0 .. 2
    BY EntryFacts
  <1> QED BY <1>2, <1>3 DEF Proper, Kept, Alike

LEMMA ProperStep ==
    ASSUME Shapes, Next
    PROVE  ListenersProper'
  <1> USE DEF Shapes
  <1>1. TypeOK' /\ Forward
    BY TypeStep, ForwardStep
  <1>2. SUFFICES ASSUME NEW t \in Target, NEW i, i \in DOMAIN list'[t]
                 PROVE  Proper(t, list[t][i])'
    BY DEF ListenersProper
  <1>3. i \in DOMAIN list[t] => list[t][i] \in Entry /\ Proper(t, list[t][i])
    BY ListsTyped DEF ListenersProper
  <1>4. PICK m : m = list'[t][i]
    OBVIOUS
  <1>5. SUFFICES Proper(t, m)'
    BY <1>4 DEF Proper
  <1>6. ASSUME i \in DOMAIN list[t], Evolves(list[t], list'[t])
        PROVE  Proper(t, m)'
    <2>1. Kept(list[t][i], m)
      BY <1>4, <1>6 DEF Evolves
    <2>2. PICK l \in Entry : l = list[t][i]
      BY <1>3, <1>6
    <2> QED BY <1>1, <1>3, <1>6, <2>1, <2>2, ProperKept
  <1>7. ASSUME i \in DOMAIN list[t], list'[t][i] = list[t][i]
        PROVE  Proper(t, m)'
    <2>1. PICK l \in Entry : l = list[t][i]
      BY <1>3, <1>7
    <2>2. Kept(l, m)
      BY <1>4, <1>7, <2>1 DEF Kept, Alike
    <2> QED BY <1>1, <1>3, <1>7, <2>1, <2>2, ProperKept
  <1>8. CASE Making
    <2>1. Evolves(list[t], list'[t])
      BY <1>8 DEF Making, Edited
    <2>2. CASE i \notin DOMAIN list[t]
      <3>1. NewListener(t, m)
        BY <1>2, <1>4, <1>8, <2>2 DEF Making, Edited
      <3>2. m.signal # NoSignal => m.closure.kind = "user"
        BY <3>1 DEF NewListener
      <3> QED BY <3>1, <3>2 DEF NewListener, Proper
    <2> QED BY <1>6, <2>1, <2>2
  <1>9. ASSUME NEW a \in Task, RemoverStep(a) PROVE Proper(t, m)'
    BY <1>2, <1>6, <1>9 DEF RemoverStep
  <1>10. ASSUME NEW a \in Task, NEW k \in Nat, CallStep(a, k) PROVE Proper(t, m)'
    <2>1. i \in DOMAIN list[t]
      BY <1>2, <1>10, CallGrows
    <2>2. CASE t # calls[a][1].target \/ i # k
      BY <1>7, <1>10, <2>1, <2>2 DEF CallStep
    <2>3. CASE t = calls[a][1].target /\ i = k
      <3>1. m = Invoked(list[t][i])
        BY <1>4, <1>10, <2>3 DEF CallStep
      <3>2. PICK l \in Entry : l = list[t][i]
        BY <1>3, <2>1
      <3>3. ~l.removed
        BY <1>10, <2>3, <3>2 DEF CallStep, Following
      <3>4. Proper(t, l) /\ l.runs \in 0 .. 2
        BY <1>3, <2>1, <3>2, EntryFacts
      <3>5. l.runs = 0
        BY <3>3, <3>4 DEF Proper
      <3>6. /\ m \in Entry /\ Alike(l, m) /\ m.runs <= 1
            /\ l.once => m.removed
            /\ ~l.once => m = l
        BY <3>1, <3>2, <3>5, InvokedFacts
      <3>7. CASE ~l.once
        <4>1. Kept(l, m)
          BY <3>6, <3>7 DEF Kept, Alike
        <4> QED BY <1>1, <3>4, <4>1, ProperKept
      <3>8. CASE l.once
        <4>1. m.removed /\ m.once /\ m.type = l.type /\ m.closure = l.closure /\ m.signal = l.signal
          BY <3>6, <3>8 DEF Alike
        <4>2. m.closure.kind # "dependent"
          BY <3>4, <3>8, <4>1 DEF Proper
        <4> QED BY <3>4, <3>6, <4>1, <4>2 DEF Proper
      <3> QED BY <3>7, <3>8
    <2> QED BY <2>2, <2>3
  <1>11. ASSUME UNCHANGED list PROVE Proper(t, m)'
    BY <1>2, <1>7, <1>11
  <1> QED BY <1>8, <1>9, <1>10, <1>11, StepKinds
       DEF StopStep, TurnStep, EndStep, AbortStep, DispatchStep

LEMMA DistinctStep ==
    ASSUME Shapes, Next
    PROVE  ListsDistinct'
  <1> USE DEF Shapes
  <1>1. SUFFICES ASSUME NEW t \in Target PROVE OneOfEach(list'[t])
    BY DEF ListsDistinct
  <1>2. OneOfEach(list[t])
    BY DEF ListsDistinct
  <1>3. CASE Making
    BY <1>2, <1>3 DEF Making, Edited, Evolves
  <1>4. ASSUME NEW a \in Task, RemoverStep(a) PROVE OneOfEach(list'[t])
    BY <1>2, <1>4 DEF RemoverStep, Evolves
  <1>5. ASSUME NEW a \in Task, NEW k \in Nat, CallStep(a, k) PROVE OneOfEach(list'[t])
    <2>1. Grown(list[t], list'[t]) /\ DOMAIN list'[t] = DOMAIN list[t]
      BY <1>5, CallGrows
    <2>2. \A i \in DOMAIN list[t] : Alike(list[t][i], list'[t][i])
      BY <2>1 DEF Grown
    <2>3. PICK ms : ms = list'[t]
      OBVIOUS
    <2> SUFFICES ASSUME NEW i \in DOMAIN ms, NEW j \in DOMAIN ms,
                        ms[i].closure.kind = "user", ~ms[i].removed, ~ms[j].removed,
                        ms[i].type = ms[j].type, ms[i].closure = ms[j].closure
                 PROVE  i = j
      BY <2>3 DEF OneOfEach
    <2>4. i \in DOMAIN list[t] /\ j \in DOMAIN list[t]
      BY <2>1, <2>3
    <2>5. Alike(list[t][i], ms[i]) /\ Alike(list[t][j], ms[j])
      BY <2>2, <2>3, <2>4
    <2> QED BY <1>2, <2>4, <2>5 DEF OneOfEach, Alike
  <1>6. ASSUME UNCHANGED list PROVE OneOfEach(list'[t])
    BY <1>2, <1>6
  <1> QED BY <1>3, <1>4, <1>5, <1>6, StepKinds
       DEF StopStep, TurnStep, EndStep, AbortStep, DispatchStep

(* A dependent signal that is about to be aborted was made. *)
LEMMA DependentMade ==
    ASSUME TypeOK, ListenersProper, Unmade, DispatchesPlaced, NEW a \in Task,
           calls[a] # <<>>, calls[a][1].at = "call",
           Closure(calls[a][1]).kind = "dependent"
    PROVE  LET f == calls[a][1] IN
           /\ Closure(f).result \in Signal /\ kind[Closure(f).result] # "none"
           /\ Closure(f).source = f.target /\ f.target \in Signal
           /\ f.target \in sources[Closure(f).result] /\ f.event.type = "abort"
  <1>1. PICK f \in Dispatch : f = calls[a][1]
    BY TopDispatch
  <1>2. f.listener \in DOMAIN list[f.target] /\ Placed(f) /\ f.target \in Target
    BY <1>1, TopDispatch, DispatchFacts
  <1>3. PICK l \in Entry : l = list[f.target][f.listener] /\ Proper(f.target, l)
    BY <1>2, ListsTyped DEF ListenersProper
  <1>4. l.closure = Closure(f)
    BY <1>3 DEF Closure
  <1>5. l.closure \in DependentClosure
    BY <1>1, <1>3, <1>4, EntryFacts, ClosureFacts
  <1>6. l.closure.result \in Signal /\ l.closure.source \in Signal
    BY <1>5 DEF DependentClosure
  <1>7. l.type = "abort" /\ l.closure.source = f.target /\ f.target \in sources[l.closure.result]
    BY <1>1, <1>3, <1>4 DEF Proper
  <1>8. f.event.type = "abort"
    BY <1>1, <1>2, <1>3, <1>7 DEF Placed
  <1>9. kind[l.closure.result] # "none"
    BY <1>6, <1>7 DEF Unmade
  <1> QED BY <1>1, <1>4, <1>6, <1>7, <1>8, <1>9

LEMMA UnmadeStep ==
    ASSUME Shapes, Next
    PROVE  Unmade'
  <1> USE DEF Shapes
  <1>1. SUFFICES ASSUME NEW s \in Signal, kind'[s] = "none"
                 PROVE  list'[s] = <<>> /\ ~aborted'[s] /\ sources'[s] = {}
    BY DEF Unmade
  <1>2. s \in Target
    BY DEF Target
  <1>3. list[s] \in Seq(Entry) /\ list'[s] \in Seq(Entry)
    <2>1. TypeOK'
      BY TypeStep
    <2> QED BY <1>2, <2>1 DEF TypeOK
  <1>4. kind[s] = "none" => list[s] = <<>> /\ ~aborted[s] /\ sources[s] = {}
    BY DEF Unmade
  <1>5. ASSUME kind[s] = "none", DOMAIN list'[s] = DOMAIN list[s] PROVE list'[s] = <<>>
    <2>1. DOMAIN list[s] = {}
      BY <1>4, <1>5
    <2>2. DOMAIN list'[s] = 1 .. Len(list'[s]) /\ Len(list'[s]) \in Nat
      BY <1>3, SeqDomain
    <2>3. Len(list'[s]) = 0
      BY <1>5, <2>1, <2>2
    <2> QED BY <1>3, <2>3
  <1>6. CASE Making
    <2>1. SameSignal(s)
      BY <1>1, <1>6 DEF Making, Newborn
    <2>2. kind[s] = "none"
      BY <1>1, <2>1 DEF SameSignal
    <2>3. DOMAIN list'[s] \subseteq DOMAIN list[s]
      BY <1>2, <1>6, <2>2 DEF Making, Edited, NewListener
    <2>4. DOMAIN list'[s] = DOMAIN list[s]
      BY <1>2, <1>6, <2>3 DEF Making, Edited, Evolves
    <2> QED BY <1>4, <1>5, <2>1, <2>2, <2>4 DEF SameSignal
  <1>7. ASSUME NEW a \in Task, RemoverStep(a)
        PROVE  list'[s] = <<>> /\ ~aborted'[s] /\ sources'[s] = {}
    <2>1. kind[s] = "none" /\ UNCHANGED signals /\ DOMAIN list'[s] = DOMAIN list[s]
      BY <1>1, <1>2, <1>7 DEF RemoverStep, signals
    <2> QED BY <1>4, <1>5, <2>1 DEF signals
  <1>8. ASSUME NEW a \in Task, NEW i \in Nat, CallStep(a, i)
        PROVE  list'[s] = <<>> /\ ~aborted'[s] /\ sources'[s] = {}
    <2>1. kind[s] = "none" /\ UNCHANGED signals /\ DOMAIN list'[s] = DOMAIN list[s]
      BY <1>1, <1>2, <1>8, CallGrows DEF CallStep, signals
    <2> QED BY <1>4, <1>5, <2>1 DEF signals
  <1>9. ASSUME NEW a \in Task, NEW q \in Signal, NEW r, AbortStep(a, q, r)
        PROVE  list'[s] = <<>> /\ ~aborted'[s] /\ sources'[s] = {}
    <2>1. kind[q] # "none"
      BY <1>9, DependentMade DEF AbortStep
    <2>2. kind[s] = "none" /\ q # s
      BY <1>1, <1>9, <2>1 DEF AbortStep
    <2>3. aborted'[s] = aborted[s]
      BY <1>9, <2>2 DEF AbortStep, TypeOK, SignalsOK
    <2> QED BY <1>4, <1>9, <2>2, <2>3 DEF AbortStep
  <1>10. ASSUME UNCHANGED <<list, signals>>
         PROVE  list'[s] = <<>> /\ ~aborted'[s] /\ sources'[s] = {}
    BY <1>1, <1>4, <1>10 DEF signals
  <1> QED BY <1>6, <1>7, <1>8, <1>9, <1>10, StepKinds
       DEF StopStep, TurnStep, EndStep, DispatchStep

-----------------------------------------------------------------------------
(* Dispatches stay within their boundary                                   *)

LEMMA PlacedKept ==
    ASSUME TypeOK, Forward, NEW f \in Dispatch, Placed(f),
           f.at # "scan" \/ Len(list'[f.target]) = Len(list[f.target])
    PROVE  Placed(f)'
  <1>1. f.target \in Target /\ f.boundary \in Nat /\ f.listener \in Nat
    BY DispatchFacts
  <1>2. PICK ls \in Seq(Entry) : ls = list[f.target]
    BY <1>1, ListsTyped
  <1>3. PICK ms : ms = list'[f.target]
    OBVIOUS
  <1>4. /\ ms \in Seq(Entry) /\ Len(ls) <= Len(ms)
        /\ \A i \in DOMAIN ls : i \in DOMAIN ms /\ Alike(ls[i], ms[i])
    BY <1>1, <1>2, <1>3 DEF Forward, Grown
  <1>5. DOMAIN ls = 1 .. Len(ls) /\ Len(ls) \in Nat /\ Len(ms) \in Nat
    BY <1>4, SeqDomain
  <1>6. f.boundary <= Len(ls) /\ f.listener <= Len(ls)
    BY <1>2 DEF Placed
  <1>7. f.boundary <= Len(ms) /\ f.listener <= Len(ms)
    BY <1>1, <1>4, <1>5, <1>6
  <1>8. f.at # "scan" => f.listener > 0 /\ ms[f.listener].type = f.event.type
    <2>1. SUFFICES ASSUME f.at # "scan"
                   PROVE  f.listener > 0 /\ ms[f.listener].type = f.event.type
      OBVIOUS
    <2>2. f.listener > 0 /\ ls[f.listener].type = f.event.type
      BY <1>2, <2>1 DEF Placed
    <2>3. f.listener \in DOMAIN ls
      BY <1>1, <1>5, <1>6, <2>2
    <2> QED BY <1>4, <2>2, <2>3 DEF Alike
  <1>9. f.at = "scan" /\ f.listener = f.boundary => Len(ms) = f.boundary
    BY <1>2, <1>3 DEF Placed
  <1>10. f.listener > f.boundary =>
            f.boundary > 0 /\ (ms[f.boundary].removed \/ ms[f.boundary].type # f.event.type)
    <2>1. SUFFICES ASSUME f.listener > f.boundary
                   PROVE  /\ f.boundary > 0
                          /\ ms[f.boundary].removed \/ ms[f.boundary].type # f.event.type
      OBVIOUS
    <2>2. /\ f.boundary > 0
          /\ ls[f.boundary].removed \/ ls[f.boundary].type # f.event.type
      BY <1>2, <2>1 DEF Placed, Passed
    <2>3. f.boundary \in DOMAIN ls
      BY <1>1, <1>5, <1>6, <2>2
    <2> QED BY <1>4, <2>2, <2>3 DEF Alike
  <1>11. f.target \in Signal /\ f.event.type = "abort" => aborted'[f.target] \/ f.target \in forged'
    BY DEF Placed, Forward
  <1> QED BY <1>3, <1>7, <1>8, <1>9, <1>10, <1>11 DEF Placed, Passed

LEMMA LengthsKept ==
    ASSUME TypeOK, Unmade, DispatchesPlaced, Next, ~Making, NEW t \in Target
    PROVE  Len(list'[t]) = Len(list[t])
  <1>1. list[t] \in Seq(Entry) /\ list'[t] \in Seq(Entry)
    <2>1. TypeOK'
      BY TypeStep
    <2> QED BY <2>1 DEF TypeOK
  <1>2. ASSUME DOMAIN list'[t] = DOMAIN list[t] PROVE Len(list'[t]) = Len(list[t])
    <2>1. /\ DOMAIN list[t] = 1 .. Len(list[t]) /\ Len(list[t]) \in Nat
          /\ DOMAIN list'[t] = 1 .. Len(list'[t]) /\ Len(list'[t]) \in Nat
      BY <1>1, SeqDomain
    <2> QED BY <1>2, <2>1
  <1>3. ASSUME NEW a \in Task, RemoverStep(a) PROVE Len(list'[t]) = Len(list[t])
    BY <1>2, <1>3 DEF RemoverStep
  <1>4. ASSUME NEW a \in Task, NEW i \in Nat, CallStep(a, i) PROVE Len(list'[t]) = Len(list[t])
    BY <1>2, <1>4, CallGrows
  <1> QED BY <1>3, <1>4, StepKinds DEF StopStep, TurnStep, EndStep, AbortStep, DispatchStep

(* While the program runs no dispatch scans. *)
LEMMA NoneScans ==
    ASSUME TypeOK, DispatchesPlaced, ProgramRuns, NEW b \in Task, NEW n \in DOMAIN calls[b]
    PROVE  calls[b][n].at # "scan"
  <1>1. CASE n > 1
    BY <1>1 DEF DispatchesPlaced
  <1>2. CASE ~(n > 1)
    <2>1. n = 1 /\ calls[b] # <<>>
      BY <1>2, CallsTyped
    <2>2. Head(calls[b]) = calls[b][1] /\ Head(calls[b]).at = "call"
      BY <2>1, CallsTyped DEF ProgramRuns, InCallback
    <2> QED BY <2>1, <2>2
  <1> QED BY <1>1, <1>2

LEMMA OldPlaced ==
    ASSUME TypeOK, Unmade, DispatchesPlaced, Next, NEW b \in Task, NEW n \in DOMAIN calls[b],
           NEW f, f = calls[b][n]
    PROVE  Placed(f)'
  <1>1. f \in Dispatch /\ Placed(f) /\ f.target \in Target
    BY CallsTyped, DispatchFacts DEF DispatchesPlaced
  <1>2. CASE Making
    <2>1. f.at # "scan"
      BY <1>2, NoneScans DEF Making
    <2> QED BY <1>1, <2>1, ForwardStep, PlacedKept
  <1>3. CASE ~Making
    BY <1>1, <1>3, LengthsKept, ForwardStep, PlacedKept
  <1> QED BY <1>2, <1>3

(* Where it stands alone decides whether a dispatch that has moved is      *)
(* placed.                                                                 *)
LEMMA MovedPlaced ==
    ASSUME NEW f \in Dispatch, NEW w \in {"scan", "return"}, Placed(f)',
           w = "scan" => f.at # "scan" /\ f.listener # f.boundary, w = "return" => f.at # "scan"
    PROVE  Placed([f EXCEPT !.at = w])'
  <1>1. PICK g : g = [f EXCEPT !.at = w]
    OBVIOUS
  <1>2. /\ g.at = w /\ g.target = f.target /\ g.event = f.event
        /\ g.boundary = f.boundary /\ g.listener = f.listener
    BY <1>1, MovedFacts
  <1>3. Placed(g)'
    BY <1>2 DEF Placed, Passed
  <1> QED BY <1>1, <1>3

(* A dispatch that goes beyond its boundary has found nothing to call at   *)
(* it.                                                                     *)
LEMMA CallPlaced ==
    ASSUME Shapes, Next, NEW a \in Task, NEW i \in Nat, CallStep(a, i), NEW f, f = calls[a][1]
    PROVE  Placed([f EXCEPT !.listener = i, !.at = "call"])'
  <1> USE DEF Shapes
  <1>1. f \in Dispatch /\ Placed(f) /\ f.at = "scan"
    BY TopDispatch DEF CallStep
  <1>2. PICK g : g = [f EXCEPT !.listener = i, !.at = "call"]
    OBVIOUS
  <1>3. /\ g.at = "call" /\ g.listener = i
        /\ g.target = f.target /\ g.event = f.event /\ g.boundary = f.boundary
    BY <1>1, <1>2 DEF Dispatch
  <1>4. PICK t \in Target : t = f.target
    BY <1>1, DispatchFacts
  <1>5. f.boundary \in Nat /\ f.listener \in Nat
    BY <1>1, DispatchFacts
  <1>6. PICK ls \in Seq(Entry) : ls = list[t]
    BY ListsTyped
  <1>7. PICK ms : ms = list'[t]
    OBVIOUS
  <1>8. /\ ms \in Seq(Entry) /\ Len(ls) <= Len(ms)
        /\ \A k \in DOMAIN ls : k \in DOMAIN ms /\ Alike(ls[k], ms[k])
    BY <1>6, <1>7, CallGrows DEF Grown
  <1>9. DOMAIN ls = 1 .. Len(ls) /\ Len(ls) \in Nat /\ Len(ms) \in Nat
    BY <1>8, SeqDomain
  <1>10. /\ i \in DOMAIN ls /\ i > f.listener /\ ls[i].type = f.event.type
         /\ \A k \in DOMAIN ls : k > f.listener /\ ~ls[k].removed /\ ls[k].type = f.event.type => i <= k
    BY <1>4, <1>6 DEF CallStep, Following
  <1>11. f.boundary <= Len(ls) /\ (f.listener = f.boundary => Len(ls) = f.boundary)
    BY <1>1, <1>4, <1>6 DEF Placed
  <1>12. i > 0 /\ i <= Len(ms) /\ f.boundary <= Len(ms) /\ ms[i].type = f.event.type
    <2>1. ms[i].type = f.event.type
      BY <1>8, <1>10 DEF Alike
    <2>2. i \in 1 .. Len(ls) /\ Len(ls) <= Len(ms)
      BY <1>8, <1>9, <1>10
    <2> QED BY <1>5, <1>9, <1>11, <2>1, <2>2
  <1>13. ASSUME i > f.boundary
         PROVE  /\ f.boundary > 0
                /\ ms[f.boundary].removed \/ ms[f.boundary].type # f.event.type
    <2>1. f.listener # f.boundary
      BY <1>5, <1>9, <1>10, <1>11, <1>13
    <2>2. CASE f.listener > f.boundary
      <3>1. /\ f.boundary > 0
            /\ ls[f.boundary].removed \/ ls[f.boundary].type # f.event.type
        BY <1>1, <1>4, <1>6, <2>2 DEF Placed, Passed
      <3>2. f.boundary \in DOMAIN ls
        BY <1>5, <1>9, <1>11, <3>1
      <3> QED BY <1>8, <3>1, <3>2 DEF Alike
    <2>3. CASE f.listener < f.boundary
      <3>1. f.boundary > 0 /\ f.boundary \in DOMAIN ls
        BY <1>5, <1>9, <1>11, <2>3
      <3>2. ls[f.boundary].removed \/ ls[f.boundary].type # f.event.type
        BY <1>5, <1>10, <1>13, <2>3, <3>1
      <3> QED BY <1>8, <3>1, <3>2 DEF Alike
    <2> QED BY <1>5, <2>1, <2>2, <2>3
  <1>14. f.target \in Signal /\ f.event.type = "abort" => aborted'[f.target] \/ f.target \in forged'
    BY <1>1, ForwardStep DEF Placed, Forward
  <1>15. Placed(g)'
    BY <1>3, <1>4, <1>7, <1>12, <1>13, <1>14 DEF Placed, Passed
  <1> QED BY <1>2, <1>15

LEMMA PlacedStep ==
    ASSUME Shapes, Next
    PROVE  DispatchesPlaced'
  <1> USE DEF Shapes
  <1>1. SUFFICES ASSUME NEW b \in Task, NEW n \in DOMAIN calls'[b], NEW g, g = calls'[b][n]
                 PROVE  Placed(g)' /\ (n > 1 => g.at # "scan")
    BY DEF DispatchesPlaced
  <1>2. TypeOK' /\ Forward
    BY TypeStep, ForwardStep
  <1>3. n \in Nat \ {0}
    <2>1. calls'[b] \in Seq(Dispatch)
      BY <1>2 DEF TypeOK
    <2>2. DOMAIN calls'[b] = 1 .. Len(calls'[b]) /\ Len(calls'[b]) \in Nat
      BY <2>1, SeqDomain
    <2> QED BY <2>2
  <1>4. ASSUME NEW m \in DOMAIN calls[b], g = calls[b][m], n > 1 => m > 1
        PROVE  Placed(g)' /\ (n > 1 => g.at # "scan")
    BY <1>4, OldPlaced DEF DispatchesPlaced
  <1>5. ASSUME UNCHANGED calls PROVE Placed(g)' /\ (n > 1 => g.at # "scan")
    BY <1>1, <1>4, <1>5
  <1>6. ASSUME NEW a \in Task, OthersWait(a), b # a PROVE Placed(g)' /\ (n > 1 => g.at # "scan")
    <2>1. calls'[b] = calls[b]
      BY <1>6 DEF OthersWait
    <2> QED BY <1>1, <1>4, <2>1
  <1>7. ASSUME NEW f, Replaces(b, f), Placed(f)'
        PROVE  Placed(g)' /\ (n > 1 => g.at # "scan")
    <2>1. CASE n = 1
      BY <1>1, <1>7, <2>1 DEF Replaces
    <2>2. CASE n # 1
      <3>1. n \in DOMAIN calls[b] /\ n > 1
        BY <1>3, <1>7, <2>2 DEF Replaces
      <3>2. calls'[b][n] = calls[b][n]
        BY <1>7, <3>1 DEF Replaces
      <3> QED BY <1>1, <1>4, <3>1, <3>2
    <2> QED BY <2>1, <2>2
  <1>8. ASSUME NEW w, TurnStep(b, w) PROVE Placed(g)' /\ (n > 1 => g.at # "scan")
    <2>1. calls[b] # <<>> /\ Replaces(b, [calls[b][1] EXCEPT !.at = w])
      BY <1>8 DEF TurnStep, Replaces
    <2>2. PICK f \in Dispatch : f = calls[b][1] /\ 1 \in DOMAIN calls[b] /\ Head(calls[b]) = f
      BY <2>1, TopDispatch
    <2>3. Placed(f)'
      BY <2>2, OldPlaced
    <2>4. /\ w \in {"scan", "return"}
          /\ w = "scan" => f.at # "scan" /\ f.listener # f.boundary
          /\ w = "return" => f.at # "scan"
      BY <1>8, <2>2 DEF TurnStep, InCallback, AtBoundary
    <2>5. Placed([f EXCEPT !.at = w])'
      BY <2>3, <2>4, MovedPlaced
    <2> QED BY <1>7, <2>1, <2>2, <2>5
  <1>9. ASSUME RemoverStep(b) PROVE Placed(g)' /\ (n > 1 => g.at # "scan")
    <2>1. calls[b] # <<>> /\ Replaces(b, [calls[b][1] EXCEPT !.at = "return"])
      BY <1>9 DEF RemoverStep
    <2>2. PICK f \in Dispatch : f = calls[b][1] /\ 1 \in DOMAIN calls[b]
      BY <2>1, TopDispatch
    <2>3. Placed(f)' /\ f.at # "scan"
      BY <1>9, <2>2, OldPlaced DEF RemoverStep
    <2>4. Placed([f EXCEPT !.at = "return"])'
      BY <2>3, MovedPlaced
    <2> QED BY <1>7, <2>1, <2>2, <2>4
  <1>10. ASSUME NEW i \in Nat, CallStep(b, i) PROVE Placed(g)' /\ (n > 1 => g.at # "scan")
    <2>1. PICK f : f = calls[b][1]
      OBVIOUS
    <2>2. Placed([f EXCEPT !.listener = i, !.at = "call"])'
      BY <1>10, <2>1, CallPlaced
    <2>3. Replaces(b, [f EXCEPT !.listener = i, !.at = "call"])
      BY <1>10, <2>1 DEF CallStep
    <2> QED BY <1>7, <2>2, <2>3
  <1>11. ASSUME EndStep(b) PROVE Placed(g)' /\ (n > 1 => g.at # "scan")
    <2>1. n + 1 \in DOMAIN calls[b] /\ calls'[b][n] = calls[b][n + 1]
      BY <1>1, <1>11 DEF EndStep, Leaves
    <2> QED BY <1>1, <1>3, <1>4, <2>1
  <1>12. ASSUME NEW t \in Target, NEW e \in Event, Enters(b, Frame(t, e)), UNCHANGED list,
                e.type = "abort" /\ t \in Signal => aborted'[t] \/ t \in forged'
         PROVE  Placed(g)' /\ (n > 1 => g.at # "scan")
    <2>1. PICK f \in Dispatch : f = Frame(t, e)
      BY FrameFacts
    <2>2. CASE n = 1
      <3>1. g = f
        BY <1>1, <1>12, <2>1, <2>2 DEF Enters
      <3>2. /\ f.target = t /\ f.event = e /\ f.at = "scan"
            /\ f.boundary = Len(list[t]) /\ f.listener = 0
        BY <2>1, FrameFacts
      <3>3. Len(list[t]) \in Nat /\ Len(list'[t]) = Len(list[t])
        BY <1>12, ListsTyped, SeqDomain
      <3>4. Placed(f)'
        BY <1>12, <3>2, <3>3 DEF Placed, Passed
      <3> QED BY <2>2, <3>1, <3>4
    <2>3. CASE n > 2
      <3>1. n - 1 \in DOMAIN calls[b] /\ g = calls[b][n - 1] /\ n - 1 > 1
        BY <1>1, <1>3, <1>12, <2>3 DEF Enters
      <3> QED BY <1>4, <3>1
    <2>4. CASE n = 2
      <3>1. 2 - 1 \in DOMAIN calls[b] /\ Stays(calls[b][1], g)
        BY <1>1, <1>12, <2>4 DEF Enters
      <3>2. PICK h \in Dispatch : h = calls[b][1] /\ Placed(h)'
        BY <3>1, CallsTyped, OldPlaced
      <3>3. Stays(h, g) /\ g.at # "scan"
        BY <3>1, <3>2 DEF Stays
      <3>4. Placed(g)'
        BY <3>2, <3>3 DEF Stays, Placed, Passed
      <3> QED BY <3>3, <3>4
    <2> QED BY <1>3, <2>2, <2>3, <2>4
  <1>13. ASSUME NEW s \in Signal, NEW r, AbortStep(b, s, r) PROVE Placed(g)' /\ (n > 1 => g.at # "scan")
    <2>1. s \in Target /\ Fired(s) \in Event /\ aborted'[s]
      BY <1>13, EventFacts DEF Target, AbortStep, TypeOK, SignalsOK
    <2> QED BY <1>12, <1>13, <2>1 DEF AbortStep
  <1>14. ASSUME NEW t \in Target, NEW e \in Event, DispatchStep(b, t, e)
         PROVE  Placed(g)' /\ (n > 1 => g.at # "scan")
    BY <1>2, <1>12, <1>14 DEF DispatchStep, Forward, signals
  <1>15. CASE Making
    BY <1>5, <1>15 DEF Making
  <1>16. CASE \E e \in Event : StopStep(e)
    BY <1>5, <1>16 DEF StopStep
  <1>17. ASSUME NEW a \in Task,
                \/ \E w \in {"scan", "return"} : TurnStep(a, w)
                \/ RemoverStep(a)
                \/ \E i \in Nat : CallStep(a, i)
                \/ EndStep(a)
                \/ \E s \in Signal, r \in AnyReason : AbortStep(a, s, r)
                \/ \E t \in Target, e \in Event : DispatchStep(a, t, e)
         PROVE  Placed(g)' /\ (n > 1 => g.at # "scan")
    <2>1. OthersWait(a)
      BY <1>17 DEF TurnStep, RemoverStep, CallStep, EndStep, AbortStep, DispatchStep,
           Replaces, Leaves, Enters
    <2>2. CASE b # a
      BY <1>6, <2>1, <2>2
    <2>3. CASE b = a
      BY <1>8, <1>9, <1>10, <1>11, <1>13, <1>14, <1>17, <2>3
    <2> QED BY <2>2, <2>3
  <1> QED BY <1>15, <1>16, <1>17, StepKinds

-----------------------------------------------------------------------------
(* One task at a time                                                      *)

LEMMA CallbackKept ==
    ASSUME TypeOK, DispatchesPlaced, Forward, NEW b \in Task, calls'[b] = calls[b], InCallback(b)
    PROVE  InCallback(b)'
  <1>1. calls[b] # <<>> /\ Head(calls[b]).at = "call" /\ Closure(Head(calls[b])).kind = "user"
    BY DEF InCallback
  <1>2. PICK f \in Dispatch : /\ f = Head(calls[b]) /\ f = calls[b][1] /\ f.at = "call"
                              /\ f.listener \in DOMAIN list[f.target]
    BY <1>1, TopDispatch
  <1>3. f.target \in Target
    BY DispatchFacts
  <1>4. Alike(list[f.target][f.listener], list'[f.target][f.listener])
    BY <1>2, <1>3 DEF Forward, Grown
  <1>5. Closure(f)' = Closure(f)
    BY <1>4 DEF Closure, Alike
  <1>6. f = Head(calls'[b])
    BY <1>2
  <1>7. Closure(Head(calls[b]))' = Closure(f)'
    BY <1>6 DEF Closure
  <1> QED BY <1>1, <1>2, <1>5, <1>6, <1>7 DEF InCallback

(* Whoever steps is the program, or the task in which the runtime works.   *)
LEMMA ActorBusy ==
    ASSUME TypeOK, DispatchesPlaced, NEW a \in Task,
           \/ \E w \in {"scan", "return"} : TurnStep(a, w)
           \/ RemoverStep(a)
           \/ \E i \in Nat : CallStep(a, i)
           \/ EndStep(a)
           \/ \E s \in Signal, r \in AnyReason : AbortStep(a, s, r)
           \/ \E t \in Target, e \in Event : DispatchStep(a, t, e)
    PROVE  OthersWait(a) /\ (ProgramRuns \/ Busy(a))
  <1>1. OthersWait(a)
    BY DEF TurnStep, RemoverStep, CallStep, EndStep, AbortStep, DispatchStep, Replaces, Leaves, Enters
  <1>2. ASSUME calls[a] # <<>>, calls[a][1].at # "call" \/ Closure(calls[a][1]).kind # "user"
        PROVE  Busy(a)
    <2>1. Head(calls[a]) = calls[a][1]
      BY <1>2, TopDispatch
    <2> QED BY <1>2, <2>1 DEF Busy, InCallback
  <1>3. ASSUME NEW w \in {"scan", "return"}, TurnStep(a, w) PROVE ProgramRuns \/ Busy(a)
    BY <1>2, <1>3 DEF TurnStep, Replaces
  <1>4. ASSUME RemoverStep(a) PROVE ProgramRuns \/ Busy(a)
    BY <1>2, <1>4 DEF RemoverStep
  <1>5. ASSUME NEW i \in Nat, CallStep(a, i) PROVE ProgramRuns \/ Busy(a)
    BY <1>2, <1>5 DEF CallStep
  <1>6. ASSUME EndStep(a) PROVE ProgramRuns \/ Busy(a)
    BY <1>2, <1>6 DEF EndStep, Leaves
  <1>7. ASSUME NEW s \in Signal, NEW r \in AnyReason, AbortStep(a, s, r) PROVE ProgramRuns \/ Busy(a)
    BY <1>2, <1>7 DEF AbortStep
  <1> QED BY <1>1, <1>3, <1>4, <1>5, <1>6, <1>7 DEF DispatchStep

(* A task that waits is as busy after the step as before it.               *)
LEMMA WaitingBusy ==
    ASSUME TypeOK, DispatchesPlaced, Forward, NEW b \in Task, calls'[b] = calls[b], Busy(b)'
    PROVE  Busy(b)
  BY CallbackKept DEF Busy

LEMMA BusyStep ==
    ASSUME Shapes, Next
    PROVE  OneBusy'
  <1> USE DEF Shapes
  <1>1. Forward
    BY ForwardStep
  <1>2. ASSUME ProgramRuns, NEW b \in Task PROVE ~Busy(b)
    BY <1>2 DEF ProgramRuns, Busy
  <1>3. ASSUME ProgramRuns, UNCHANGED calls PROVE OneBusy'
    BY <1>1, <1>2, <1>3, WaitingBusy DEF OneBusy
  <1>4. ASSUME NEW a \in Task,
               \/ \E w \in {"scan", "return"} : TurnStep(a, w)
               \/ RemoverStep(a)
               \/ \E i \in Nat : CallStep(a, i)
               \/ EndStep(a)
               \/ \E s \in Signal, r \in AnyReason : AbortStep(a, s, r)
               \/ \E t \in Target, e \in Event : DispatchStep(a, t, e)
        PROVE  OneBusy'
    <2>1. OthersWait(a) /\ (ProgramRuns \/ Busy(a))
      BY <1>4, ActorBusy
    <2>2. ASSUME NEW b \in Task, Busy(b)' PROVE b = a
      <3>1. SUFFICES ASSUME b # a PROVE FALSE
        OBVIOUS
      <3>2. Busy(b)
        BY <1>1, <2>1, <2>2, <3>1, WaitingBusy DEF OthersWait
      <3> QED BY <1>2, <2>1, <3>1, <3>2 DEF OneBusy
    <2> QED BY <2>2 DEF OneBusy
  <1> QED BY <1>3, <1>4, StepKinds DEF Making, StopStep

LEMMA StopsStep ==
    ASSUME Shapes, Next
    PROVE  StopsAreKnown'
  <1> USE DEF Shapes
  <1>1. SUFFICES ASSUME NEW s \in Signal, Fired(s) \in stopped' PROVE s \in silenced'
    BY DEF StopsAreKnown
  <1>2. Forward
    BY ForwardStep
  <1>3. CASE Fired(s) \in stopped
    BY <1>2, <1>3 DEF StopsAreKnown, Forward
  <1>4. CASE Fired(s) \notin stopped
    <2>1. ASSUME NEW e \in Event, StopStep(e) PROVE s \in silenced'
      <3>1. e = Fired(s)
        BY <1>1, <1>4, <2>1 DEF StopStep
      <3>2. e.by = s
        BY <3>1, EventFacts
      <3> QED BY <2>1, <3>2 DEF StopStep
    <2>2. stopped' \subseteq stopped => FALSE
      BY <1>1, <1>4
    <2> QED BY <2>1, <2>2, StepKinds
         DEF Making, TurnStep, RemoverStep, CallStep, EndStep, AbortStep, DispatchStep
  <1> QED BY <1>3, <1>4

LEMMA ShapesStep ==
    ASSUME Shapes, Next
    PROVE  Shapes' /\ Forward
  BY TypeStep, ForwardStep, ProperStep, DistinctStep, UnmadeStep, PlacedStep, BusyStep, StopsStep
     DEF Shapes

LEMMA ShapesInit == Init => Shapes
  <1> SUFFICES ASSUME Init PROVE Shapes
    OBVIOUS
  <1>1. TypeOK
    <2>1. "none" \in Kind \cup {"none"} /\ "undefined" \in AnyReason
      BY DEF AnyReason
    <2> QED BY <2>1 DEF Init, TypeOK, SignalsOK
  <1>2. \A t \in Target : list[t] = <<>>
    BY DEF Init
  <1>3. \A a \in Task : calls[a] = <<>>
    BY DEF Init
  <1>4. ListenersProper /\ ListsDistinct
    BY <1>2 DEF ListenersProper, ListsDistinct, OneOfEach
  <1>5. Unmade
    BY <1>2 DEF Unmade, Init, Target
  <1>6. DispatchesPlaced /\ OneBusy
    BY <1>3 DEF DispatchesPlaced, OneBusy, Busy
  <1>7. StopsAreKnown
    BY DEF Init, StopsAreKnown
  <1> QED BY <1>1, <1>4, <1>5, <1>6, <1>7 DEF Shapes

LEMMA ShapesStutter ==
    ASSUME Shapes, UNCHANGED vars
    PROVE  Shapes'
  <1>1. UNCHANGED <<menu, list, calls, stopped, kind, aborted, reason, onabort, sources, silenced, forged>>
    BY DEF vars, signals, history
  <1>2. TypeOK'
    BY <1>1 DEF Shapes, TypeOK, SignalsOK
  <1>3. ListenersProper' /\ ListsDistinct'
    BY <1>1 DEF Shapes, ListenersProper, ListsDistinct, Proper
  <1>4. Unmade' /\ StopsAreKnown'
    BY <1>1 DEF Shapes, Unmade, StopsAreKnown
  <1>5. DispatchesPlaced'
    BY <1>1 DEF Shapes, DispatchesPlaced, Placed, Passed
  <1>6. OneBusy'
    BY <1>1 DEF Shapes, OneBusy, Busy, InCallback, Closure
  <1> QED BY <1>2, <1>3, <1>4, <1>5, <1>6 DEF Shapes

(* A listener added with once is called at most once, also when its        *)
(* callback dispatches the same event, or blocks while another task does.  *)
THEOREM OnceIsOnce == Spec => []OnceRunsOnce
  <1>1. Shapes => OnceRunsOnce
    BY DEF Shapes, ListenersProper, Proper, OnceRunsOnce
  <1>2. Shapes /\ [Next]_vars => Shapes'
    BY ShapesStep, ShapesStutter
  <1> QED BY <1>1, <1>2, ShapesInit, PTL DEF Spec

(* A dispatch that goes on after the listener that was last when it began  *)
(* never called that one: it is of another type, or was removed.           *)
THEOREM DispatchesEndAtBoundary == Spec => []BoundaryRespected
  <1>1. Shapes => BoundaryRespected
    BY DEF Shapes, DispatchesPlaced, Placed, Passed, BoundaryRespected
  <1>2. Shapes /\ [Next]_vars => Shapes'
    BY ShapesStep, ShapesStutter
  <1> QED BY <1>1, <1>2, ShapesInit, PTL DEF Spec

-----------------------------------------------------------------------------
(* What becomes of a dispatch                                              *)

Acts(a) ==
    \/ \E w \in {"scan", "return"} : TurnStep(a, w)
    \/ RemoverStep(a)
    \/ \E i \in Nat : CallStep(a, i)
    \/ EndStep(a)
    \/ \E s \in Signal, r \in AnyReason : AbortStep(a, s, r)
    \/ \E t \in Target, e \in Event : DispatchStep(a, t, e)

LEMMA StepsAct ==
    ASSUME Shapes, Next
    PROVE  \/ Making
           \/ \E e \in Event : StopStep(e)
           \/ \E a \in Task : Acts(a)
  BY StepKinds DEF Shapes, Acts

LEMMA OthersStay ==
    ASSUME Shapes, Next, NEW b \in Task, calls'[b] # calls[b]
    PROVE  Acts(b) /\ (ProgramRuns \/ Busy(b)) /\ OthersWait(b)
  <1>1. ~Making /\ ~\E e \in Event : StopStep(e)
    BY DEF Making, StopStep
  <1>2. PICK a \in Task : Acts(a)
    BY <1>1, StepsAct
  <1>3. OthersWait(a) /\ (ProgramRuns \/ Busy(a))
    BY <1>2, ActorBusy DEF Acts, Shapes
  <1>4. b = a
    BY <1>3 DEF OthersWait
  <1> QED BY <1>2, <1>3, <1>4

LEMMA ClosureKept ==
    ASSUME TypeOK, Forward, NEW f \in Dispatch, Placed(f), f.at # "scan"
    PROVE  Closure(f)' = Closure(f)
  <1>1. f.target \in Target /\ f.listener \in Nat
    BY DispatchFacts
  <1>2. f.listener \in DOMAIN list[f.target]
    <2>1. f.listener > 0 /\ f.listener <= Len(list[f.target])
      BY DEF Placed
    <2>2. DOMAIN list[f.target] = 1 .. Len(list[f.target]) /\ Len(list[f.target]) \in Nat
      BY <1>1, ListsTyped, SeqDomain
    <2> QED BY <1>1, <2>1, <2>2
  <1>3. Alike(list[f.target][f.listener], list'[f.target][f.listener])
    BY <1>1, <1>2 DEF Forward, Grown
  <1> QED BY <1>3 DEF Closure, Alike

LEMMA CallsDomain ==
    ASSUME TypeOK, NEW b \in Task, NEW n \in DOMAIN calls[b]
    PROVE  n \in Nat \ {0} /\ calls[b] # <<>> /\ 1 \in DOMAIN calls[b]
  <1>1. DOMAIN calls[b] = 1 .. Len(calls[b]) /\ Len(calls[b]) \in Nat
    BY CallsTyped
  <1> QED BY <1>1

(* A dispatch that waits was there before, or is the one that was          *)
(* innermost.                                                              *)
LEMMA WaitingOrigin ==
    ASSUME Shapes, Next, NEW b \in Task, NEW n \in DOMAIN calls'[b], n > 1
    PROVE  \/ \E m \in DOMAIN calls[b] : m > 1 /\ calls'[b][n] = calls[b][m]
           \/ 1 \in DOMAIN calls[b] /\ Stays(calls[b][1], calls'[b][n])
  <1> USE DEF Shapes
  <1>1. n \in Nat
    <2>1. TypeOK'
      BY TypeStep
    <2>2. calls'[b] \in Seq(Dispatch)
      BY <2>1 DEF TypeOK
    <2>3. DOMAIN calls'[b] = 1 .. Len(calls'[b]) /\ Len(calls'[b]) \in Nat
      BY <2>2, SeqDomain
    <2> QED BY <2>3
  <1>2. CASE calls'[b] = calls[b]
    BY <1>2
  <1>3. CASE calls'[b] # calls[b]
    <2>1. Acts(b)
      BY <1>3, OthersStay
    <2>2. ASSUME NEW f, Replaces(b, f)
          PROVE  \E m \in DOMAIN calls[b] : m > 1 /\ calls'[b][n] = calls[b][m]
      BY <2>2 DEF Replaces
    <2>3. ASSUME Leaves(b)
          PROVE  \E m \in DOMAIN calls[b] : m > 1 /\ calls'[b][n] = calls[b][m]
      <3>1. n + 1 \in DOMAIN calls[b] /\ calls'[b][n] = calls[b][n + 1] /\ n + 1 > 1
        BY <1>1, <2>3 DEF Leaves
      <3> QED BY <3>1
    <2>4. ASSUME NEW f, Enters(b, f)
          PROVE  \/ \E m \in DOMAIN calls[b] : m > 1 /\ calls'[b][n] = calls[b][m]
                 \/ 1 \in DOMAIN calls[b] /\ Stays(calls[b][1], calls'[b][n])
      <3>1. CASE n > 2
        <4>1. n - 1 \in DOMAIN calls[b] /\ calls'[b][n] = calls[b][n - 1] /\ n - 1 > 1
          BY <1>1, <2>4, <3>1 DEF Enters
        <4> QED BY <4>1
      <3>2. CASE n = 2
        <4>1. 2 - 1 \in DOMAIN calls[b] /\ Stays(calls[b][1], calls'[b][n])
          BY <2>4, <3>2 DEF Enters
        <4> QED BY <4>1
      <3> QED BY <1>1, <3>1, <3>2
    <2> QED BY <2>1, <2>2, <2>3, <2>4
         DEF Acts, TurnStep, RemoverStep, CallStep, EndStep, AbortStep, DispatchStep
  <1> QED BY <1>2, <1>3

LEMMA WaitingStep ==
    ASSUME Shapes, WaitingInProgram, Next
    PROVE  WaitingInProgram'
  <1> SUFFICES ASSUME NEW b \in Task, NEW n \in DOMAIN calls'[b], n > 1
               PROVE  InProgram(calls[b][n])'
    BY DEF WaitingInProgram
  <1>1. TypeOK /\ Forward
    BY ShapesStep DEF Shapes
  <1>2. PICK g : g = calls'[b][n]
    OBVIOUS
  <1>3. SUFFICES InProgram(g)'
    BY <1>2 DEF InProgram, Closure
  <1>4. ASSUME NEW m \in DOMAIN calls[b], m > 1, g = calls[b][m]
        PROVE  InProgram(g)'
    <2>1. g \in Dispatch /\ Placed(g) /\ InProgram(g)
      BY <1>1, <1>4, CallsTyped DEF Shapes, DispatchesPlaced, WaitingInProgram
    <2> QED BY <1>1, <2>1, ClosureKept DEF InProgram
  <1>5. ASSUME 1 \in DOMAIN calls[b], Stays(calls[b][1], g)
        PROVE  InProgram(g)'
    <2>1. PICK f \in Dispatch : f = calls[b][1] /\ Placed(f) /\ f.at # "scan"
      BY <1>1, <1>5, CallsTyped DEF Shapes, DispatchesPlaced, Stays
    <2>2. Closure(f)' = Closure(f)
      BY <1>1, <2>1, ClosureKept
    <2>3. /\ g.target = f.target /\ g.listener = f.listener
          /\ g.at = "return" \/ Closure(f).kind = "user"
      BY <1>5, <2>1 DEF Stays
    <2> QED BY <2>2, <2>3 DEF InProgram, Closure
  <1> QED BY <1>2, <1>4, <1>5, WaitingOrigin

(* A dispatch goes on, for the same target and event and with the same     *)
(* listener, until it calls the next or ends.                              *)
SameWork(f, g) ==
    g.target = f.target /\ g.event = f.event /\ g.boundary = f.boundary /\ g.listener = f.listener

LEMMA DispatchKept ==
    ASSUME Shapes, Next, NEW b \in Task, NEW m \in DOMAIN calls[b]
    PROVE  \/ \E n \in DOMAIN calls'[b] : SameWork(calls[b][m], calls'[b][n])
           \/ m = 1 /\ (EndStep(b) \/ \E i \in Nat : CallStep(b, i))
  <1> USE DEF Shapes
  <1>1. m \in Nat \ {0}
    BY CallsDomain
  <1>2. CASE calls'[b] = calls[b]
    BY <1>2 DEF SameWork
  <1>3. CASE calls'[b] # calls[b]
    <2>1. Acts(b)
      BY <1>3, OthersStay
    <2>2. ASSUME NEW f, Replaces(b, f), m > 1
          PROVE  \E n \in DOMAIN calls'[b] : SameWork(calls[b][m], calls'[b][n])
      BY <2>2 DEF Replaces, SameWork
    <2>3. ASSUME Leaves(b), m > 1
          PROVE  \E n \in DOMAIN calls'[b] : SameWork(calls[b][m], calls'[b][n])
      BY <2>3 DEF Leaves, SameWork
    <2>4. ASSUME NEW f, Enters(b, f)
          PROVE  \E n \in DOMAIN calls'[b] : SameWork(calls[b][m], calls'[b][n])
      <3>1. m + 1 \in DOMAIN calls'[b] /\ m + 1 > 1 /\ (m + 1) - 1 = m
        BY <1>1, <2>4 DEF Enters
      <3>2. CASE m = 1
        <4>1. Stays(calls[b][1], calls'[b][2]) /\ 2 \in DOMAIN calls'[b]
          BY <2>4, <3>1, <3>2 DEF Enters
        <4> QED BY <3>2, <4>1 DEF Stays, SameWork
      <3>3. CASE m > 1
        <4>1. calls'[b][m + 1] = calls[b][(m + 1) - 1]
          <5>1. m + 1 > 2
            BY <1>1, <3>3
          <5> QED BY <2>4, <3>1, <5>1 DEF Enters
        <4> QED BY <3>1, <4>1 DEF SameWork
      <3> QED BY <1>1, <3>2, <3>3
    <2>5. ASSUME NEW w \in {"scan", "return"}, Replaces(b, [calls[b][1] EXCEPT !.at = w]), m = 1
          PROVE  \E n \in DOMAIN calls'[b] : SameWork(calls[b][m], calls'[b][n])
      <3>1. PICK f \in Dispatch : f = calls[b][1]
        BY <2>5, CallsTyped
      <3>2. PICK g : g = [f EXCEPT !.at = w]
        OBVIOUS
      <3>3. g.target = f.target /\ g.event = f.event /\ g.boundary = f.boundary /\ g.listener = f.listener
        BY <3>2, MovedFacts
      <3>4. 1 \in DOMAIN calls'[b] /\ calls'[b][1] = g
        BY <2>5, <3>1, <3>2 DEF Replaces
      <3> QED BY <2>5, <3>1, <3>3, <3>4 DEF SameWork
    <2>6. m = 1 \/ m > 1
      BY <1>1
    <2>7. CASE \E w \in {"scan", "return"} : TurnStep(b, w)
      BY <2>2, <2>5, <2>6, <2>7 DEF TurnStep
    <2>8. CASE RemoverStep(b)
      BY <2>2, <2>5, <2>6, <2>8 DEF RemoverStep
    <2>9. CASE \E i \in Nat : CallStep(b, i)
      BY <2>2, <2>6, <2>9 DEF CallStep
    <2>10. CASE EndStep(b)
      BY <2>3, <2>6, <2>10 DEF EndStep
    <2>11. CASE \E s \in Signal, r \in AnyReason : AbortStep(b, s, r)
      BY <2>4, <2>11 DEF AbortStep
    <2>12. CASE \E t \in Target, e \in Event : DispatchStep(b, t, e)
      BY <2>4, <2>12 DEF DispatchStep
    <2> QED BY <2>1, <2>7, <2>8, <2>9, <2>10, <2>11, <2>12 DEF Acts
  <1> QED BY <1>2, <1>3

-----------------------------------------------------------------------------
(* What becomes of an abort event                                          *)

LEMMA CallMoves ==
    ASSUME TypeOK, NEW a \in Task, NEW i \in Nat, CallStep(a, i)
    PROVE  /\ 1 \in DOMAIN calls'[a] /\ calls'[a] # <<>>
           /\ calls'[a][1].at = "call" /\ calls'[a][1].listener = i
           /\ calls'[a][1].target = calls[a][1].target
           /\ calls'[a][1].event = calls[a][1].event
           /\ calls'[a][1].boundary = calls[a][1].boundary
  <1>1. PICK f \in Dispatch : f = calls[a][1]
    BY CallsTyped DEF CallStep
  <1>2. PICK g : g = [f EXCEPT !.listener = i, !.at = "call"]
    OBVIOUS
  <1>3. /\ g.at = "call" /\ g.listener = i
        /\ g.target = f.target /\ g.event = f.event /\ g.boundary = f.boundary
    BY <1>2, CallingFacts
  <1>4. calls'[a][1] = g /\ 1 \in DOMAIN calls'[a] /\ calls'[a] # <<>>
    BY <1>1, <1>2 DEF CallStep, Replaces
  <1> QED BY <1>1, <1>3, <1>4

(* The abort of s goes on until a dispatch ends.                           *)
LEMMA AbortingKept ==
    ASSUME Shapes, Next, NEW s \in Signal, Aborting(s), \A b \in Task : ~EndStep(b)
    PROVE  Aborting(s)'
  <1>0. PICK b \in Task : \E m \in DOMAIN calls[b] :
            calls[b][m].target = s /\ calls[b][m].event = Fired(s)
    BY DEF Aborting
  <1>1. PICK m \in DOMAIN calls[b] :
            calls[b][m].target = s /\ calls[b][m].event = Fired(s)
    BY <1>0
  <1>2. CASE \E n \in DOMAIN calls'[b] : SameWork(calls[b][m], calls'[b][n])
    BY <1>1, <1>2 DEF Aborting, SameWork, Fired
  <1>3. CASE m = 1 /\ \E i \in Nat : CallStep(b, i)
    <2>1. PICK i \in Nat : CallStep(b, i)
      BY <1>3
    <2>2. 1 \in DOMAIN calls'[b] /\ calls'[b][1].target = s /\ calls'[b][1].event = Fired(s)
      BY <1>1, <1>3, <2>1, CallMoves DEF Shapes
    <2> QED BY <2>2 DEF Aborting, Fired
  <1> QED BY <1>2, <1>3, DispatchKept

(* A listener in effect that the abort of s has before it stays so, or is  *)
(* called: the dispatch can only end before it if somebody stops it.       *)
LEMMA AheadKept ==
    ASSUME Shapes, Next, NEW s \in Signal, NEW j \in DOMAIN list[s], Ahead(s, j),
           s \notin silenced', ~list[s][j].removed, list[s][j].type = "abort"
    PROVE  \/ Ahead(s, j)'
           \/ \E a \in Task :
                 CallStep(a, j) /\ calls[a][1].target = s /\ calls[a][1].event = Fired(s)
  <1> USE DEF Shapes
  <1>0. PICK b \in Task : \E m \in DOMAIN calls[b] :
            /\ calls[b][m].target = s /\ calls[b][m].event = Fired(s)
            /\ calls[b][m].listener < j /\ j <= calls[b][m].boundary
    BY DEF Ahead
  <1>1. PICK m \in DOMAIN calls[b] :
            /\ calls[b][m].target = s /\ calls[b][m].event = Fired(s)
            /\ calls[b][m].listener < j /\ j <= calls[b][m].boundary
    BY <1>0
  <1>2. j \in Nat
    <2>1. s \in Target
      BY DEF Target
    <2>2. DOMAIN list[s] = 1 .. Len(list[s])
      BY <2>1, ListsTyped, SeqDomain
    <2> QED BY <2>2
  <1>3. CASE \E n \in DOMAIN calls'[b] : SameWork(calls[b][m], calls'[b][n])
    BY <1>1, <1>3 DEF Ahead, SameWork, Fired
  <1>4. CASE m = 1 /\ EndStep(b)
    <2>1. PICK f \in Dispatch : f = calls[b][1]
      BY <1>1, <1>4, CallsTyped
    <2>2. /\ f.target = s /\ f.event = Fired(s) /\ f.listener < j /\ j <= f.boundary
          /\ f.listener \in Nat /\ f.boundary \in Nat
      BY <1>1, <1>4, <2>1, DispatchFacts
    <2>3. j \in Following(f)
      <3>1. f.event.type = "abort" /\ j > f.listener
        BY <1>2, <2>2, EventFacts
      <3> QED BY <2>2, <3>1 DEF Following
    <2>4. f.event \notin stopped
      <3>1. s \notin silenced
        BY ShapesStep DEF Forward
      <3> QED BY <2>2, <3>1 DEF StopsAreKnown
    <2>5. ~AtBoundary(f)
      BY <1>2, <2>2 DEF AtBoundary
    <2> QED BY <1>4, <2>1, <2>3, <2>4, <2>5 DEF EndStep
  <1>5. CASE m = 1 /\ \E i \in Nat : CallStep(b, i)
    <2>1. PICK i \in Nat : CallStep(b, i)
      BY <1>5
    <2>2. PICK f \in Dispatch : f = calls[b][1]
      BY <1>1, <1>5, CallsTyped
    <2>3. /\ f.target = s /\ f.event = Fired(s) /\ f.listener < j /\ j <= f.boundary
          /\ f.listener \in Nat /\ f.boundary \in Nat
      BY <1>1, <1>5, <2>2, DispatchFacts
    <2>4. j \in Following(f)
      <3>1. f.event.type = "abort" /\ j > f.listener
        BY <1>2, <2>3, EventFacts
      <3> QED BY <2>3, <3>1 DEF Following
    <2>5. i <= j
      BY <2>1, <2>2, <2>4 DEF CallStep
    <2>6. CASE i = j
      BY <2>1, <2>2, <2>3, <2>6
    <2>7. CASE i < j
      <3>1. /\ 1 \in DOMAIN calls'[b] /\ calls'[b][1].target = s /\ calls'[b][1].event = Fired(s)
            /\ calls'[b][1].listener = i /\ calls'[b][1].boundary = f.boundary
        BY <2>1, <2>2, <2>3, CallMoves
      <3> QED BY <2>3, <2>7, <3>1 DEF Ahead, Fired
    <2> QED BY <1>2, <2>5, <2>6, <2>7
  <1> QED BY <1>3, <1>4, <1>5, DispatchKept

(* What a signal that is aborted now has before its abort.                 *)
LEMMA NewlyAborted ==
    ASSUME Shapes, Next, NEW s \in Signal, ~aborted[s], aborted'[s], NEW j \in DOMAIN list'[s]
    PROVE  Ahead(s, j)' /\ Aborting(s)'
  <1> USE DEF Shapes
  <1>1. s \in Target
    BY DEF Target
  <1>2. ~Making
    <2>1. SUFFICES ASSUME Making PROVE FALSE
      OBVIOUS
    <2>2. kind[s] = "none"
      BY <2>1 DEF Making, SameSignal
    <2>3. j \notin DOMAIN list[s]
      BY <2>2 DEF Unmade
    <2>4. NewListener(s, list'[s][j])
      BY <1>1, <2>1, <2>3 DEF Making, Edited
    <2> QED BY <2>2, <2>4 DEF NewListener
  <1>3. \E a \in Task : \E q \in Signal, r \in AnyReason : AbortStep(a, q, r)
    BY <1>2, StepKinds
       DEF StopStep, TurnStep, RemoverStep, CallStep, EndStep, DispatchStep, signals
  <1>4. PICK a \in Task, q \in Signal, r \in AnyReason : AbortStep(a, q, r)
    BY <1>3
  <1>5. q = s
    BY <1>4 DEF AbortStep, TypeOK, SignalsOK
  <1>6. 1 \in DOMAIN calls'[a] /\ calls'[a][1] = Frame(s, Fired(s)) /\ list' = list
    BY <1>4, <1>5 DEF AbortStep, Enters
  <1>7. j \in 1 .. Len(list[s]) /\ Len(list[s]) \in Nat
    BY <1>1, <1>6, ListsTyped, SeqDomain
  <1>8. PICK f : f = Frame(s, Fired(s))
    OBVIOUS
  <1>9. /\ f.target = s /\ f.event = Fired(s) /\ f.listener < j /\ j <= f.boundary
    <2>1. Fired(s) \in Event
      BY EventFacts
    <2> QED BY <1>1, <1>7, <1>8, <2>1, FrameFacts
  <1>10. 1 \in DOMAIN calls'[a] /\ calls'[a][1] = f
    BY <1>6, <1>8
  <1> QED BY <1>9, <1>10 DEF Ahead, Aborting, Fired

(* The runtime adds its listeners only to a signal that is not aborted.    *)
LEMMA OldListener ==
    ASSUME Shapes, Next, NEW s \in Signal, aborted[s], NEW j \in DOMAIN list'[s],
           list'[s][j].closure.kind # "user"
    PROVE  /\ j \in DOMAIN list[s] /\ Alike(list[s][j], list'[s][j])
           /\ list[s][j] \in Entry /\ Proper(s, list[s][j])
  <1> USE DEF Shapes
  <1>1. s \in Target
    BY DEF Target
  <1>2. j \in DOMAIN list[s]
    <2>1. CASE Making
      BY <1>1, <2>1 DEF Making, Edited, NewListener
    <2>2. CASE ~Making
      <3>1. TypeOK'
        BY TypeStep
      <3>2. list'[s] \in Seq(Entry) /\ list[s] \in Seq(Entry)
        BY <1>1, <3>1 DEF TypeOK
      <3>3. Len(list'[s]) = Len(list[s])
        BY <1>1, <2>2, LengthsKept
      <3> QED BY <3>2, <3>3, SeqDomain
    <2> QED BY <2>1, <2>2
  <1>3. Forward
    BY ShapesStep
  <1> QED BY <1>1, <1>2, <1>3, ListsTyped DEF Forward, Grown, ListenersProper

(* A listener of the runtime goes off only when it is called.              *)
LEMMA OffByCall ==
    ASSUME Shapes, Next, NEW s \in Target, NEW j \in DOMAIN list[s],
           list[s][j].closure.kind # "user", ~list[s][j].removed, list'[s][j].removed
    PROVE  \E a \in Task : CallStep(a, j) /\ calls[a][1].target = s
  <1> USE DEF Shapes
  <1>1. ~Evolves(list[s], list'[s])
    BY DEF Evolves, Kept
  <1>2. ~UNCHANGED list
    <2>1. list[s] \in Seq(Entry)
      BY ListsTyped
    <2> QED BY <1>1, <2>1, EvolvesSame
  <1>3. PICK a \in Task, i \in Nat : CallStep(a, i)
    BY <1>1, <1>2, StepKinds
       DEF Making, Edited, StopStep, TurnStep, RemoverStep, EndStep, AbortStep, DispatchStep
  <1>4. calls[a][1].target = s /\ i = j
    <2>1. PICK t : t = calls[a][1].target
      OBVIOUS
    <2>2. /\ \A u \in Target : u # t => list'[u] = list[u]
          /\ \A k \in DOMAIN list[t] : k # i => list'[t][k] = list[t][k]
      BY <1>3, <2>1 DEF CallStep
    <2> QED BY <2>1, <2>2
  <1> QED BY <1>3, <1>4

(* A task in a listener of the runtime is busy.                            *)
LEMMA CallingBusy ==
    ASSUME Shapes, NEW a \in Task, NEW s \in Target, NEW j \in DOMAIN list[s], Calling(a, s, j),
           list[s][j].closure.kind # "user"
    PROVE  /\ Busy(a) /\ ~ProgramRuns /\ ~InCallback(a)
           /\ calls[a][1].at = "call" /\ Closure(calls[a][1]) = list[s][j].closure
  <1>1. Head(calls[a]) = calls[a][1] /\ calls[a] # <<>>
    BY TopDispatch DEF Shapes, Calling
  <1>2. calls[a][1].at = "call" /\ Closure(calls[a][1]) = list[s][j].closure
    BY DEF Calling, Closure
  <1> QED BY <1>1, <1>2 DEF Busy, InCallback, ProgramRuns

(* Such a task is the one that steps, or nothing moves but the program.    *)
LEMMA CallingActs ==
    ASSUME Shapes, Next, NEW a \in Task, NEW s \in Target, NEW j \in DOMAIN list[s],
           Calling(a, s, j), list[s][j].closure.kind # "user", calls'[a] # calls[a]
    PROVE  \/ \E w \in {"scan", "return"} : TurnStep(a, w) /\ list[s][j].closure.kind = "dependent"
                                            /\ aborted[list[s][j].closure.result]
           \/ RemoverStep(a)
           \/ \E q \in Signal, r \in AnyReason :
                 AbortStep(a, q, r) /\ list[s][j].closure.kind = "dependent"
                 /\ list[s][j].closure.result = q
  <1>1. /\ Busy(a) /\ ~ProgramRuns /\ ~InCallback(a)
        /\ calls[a][1].at = "call" /\ Closure(calls[a][1]) = list[s][j].closure
    BY CallingBusy
  <1>2. Acts(a)
    BY OthersStay
  <1>3. CASE \E w \in {"scan", "return"} : TurnStep(a, w)
    BY <1>1, <1>3 DEF TurnStep
  <1>4. ~\E i \in Nat : CallStep(a, i)
    BY <1>1 DEF CallStep
  <1>5. ~EndStep(a)
    BY <1>1 DEF EndStep
  <1>6. CASE \E q \in Signal, r \in AnyReason : AbortStep(a, q, r)
    BY <1>1, <1>6 DEF AbortStep
  <1>7. ~\E t \in Target, e \in Event : DispatchStep(a, t, e)
    BY <1>1 DEF DispatchStep
  <1> QED BY <1>2, <1>3, <1>4, <1>5, <1>6, <1>7 DEF Acts

(* No dispatch ends while a listener of the runtime is being called.       *)
LEMMA CallingHolds ==
    ASSUME Shapes, NEW a \in Task, NEW s \in Target, NEW j \in DOMAIN list[s],
           Calling(a, s, j), list[s][j].closure.kind # "user", NEW b \in Task
    PROVE  ~EndStep(b)
  <1>1. SUFFICES ASSUME EndStep(b) PROVE FALSE
    OBVIOUS
  <1>2. Busy(a) /\ calls[a][1].at = "call"
    BY CallingBusy
  <1>3. calls[b] # <<>> /\ calls[b][1].at # "call"
    BY <1>1 DEF EndStep, Leaves
  <1>4. Busy(b)
    <2>1. Head(calls[b]) = calls[b][1]
      BY <1>3, TopDispatch DEF Shapes
    <2> QED BY <1>3, <2>1 DEF Busy, InCallback
  <1> QED BY <1>2, <1>3, <1>4 DEF Shapes, OneBusy

(* A call of a listener of the runtime was going on, or begins now.        *)
LEMMA CallingFrom ==
    ASSUME Shapes, WaitingInProgram, Next, NEW a \in Task, NEW s \in Target, NEW j \in DOMAIN list[s],
           Calling(a, s, j)', list[s][j].closure.kind # "user"
    PROVE  Calling(a, s, j) \/ (CallStep(a, j) /\ calls[a][1].target = s)
  <1> USE DEF Shapes
  <1>1. SUFFICES ASSUME ~Calling(a, s, j) PROVE CallStep(a, j) /\ calls[a][1].target = s
    OBVIOUS
  <1>2. calls'[a] # <<>> /\ calls'[a][1].at = "call"
        /\ calls'[a][1].target = s /\ calls'[a][1].listener = j
    BY DEF Calling
  <1>3. Acts(a)
    <2>1. calls'[a] # calls[a]
      BY <1>1, <1>2 DEF Calling
    <2> QED BY <2>1, OthersStay
  <1>4. ASSUME NEW w \in {"scan", "return"}, Replaces(a, [calls[a][1] EXCEPT !.at = w])
        PROVE  FALSE
    <2>1. PICK f \in Dispatch : f = calls[a][1]
      BY <1>4, CallsTyped DEF Replaces
    <2>2. PICK g : g = [f EXCEPT !.at = w]
      OBVIOUS
    <2>3. g.at = w
      BY <2>2, MovedFacts
    <2>4. calls'[a][1] = g
      BY <1>4, <2>1, <2>2 DEF Replaces
    <2> QED BY <1>2, <2>3, <2>4
  <1>5. ASSUME NEW t \in Target, NEW e \in Event, Enters(a, Frame(t, e))
        PROVE  FALSE
    <2>1. Frame(t, e).at = "scan"
      BY FrameFacts
    <2> QED BY <1>2, <1>5, <2>1 DEF Enters
  <1>6. ASSUME EndStep(a) PROVE FALSE
    <2>1. Leaves(a)
      BY <1>6 DEF EndStep
    <2>2. 1 \in DOMAIN calls'[a]
      <3>1. calls'[a] \in Seq(Dispatch)
        BY <2>1 DEF Leaves, OthersWait
      <3> QED BY <1>2, <3>1, TopFacts
    <2>3. 2 \in DOMAIN calls[a] /\ calls'[a][1] = calls[a][2]
      <3>1. 1 + 1 \in DOMAIN calls[a] /\ calls'[a][1] = calls[a][1 + 1]
        BY <2>1, <2>2 DEF Leaves
      <3> QED BY <3>1
    <2>4. InProgram(calls[a][2])
      BY <2>3 DEF WaitingInProgram
    <2> QED BY <1>2, <2>3, <2>4 DEF InProgram, Closure
  <1>7. ASSUME NEW i \in Nat, CallStep(a, i)
        PROVE  i = j /\ calls[a][1].target = s
    BY <1>2, <1>7, CallMoves
  <1>8. CASE \E i \in Nat : CallStep(a, i)
    BY <1>7, <1>8
  <1>9. CASE \E q \in Signal, r \in AnyReason : AbortStep(a, q, r)
    <2>1. \A q \in Signal : q \in Target /\ Fired(q) \in Event
      BY EventFacts DEF Target
    <2> QED BY <1>5, <1>9, <2>1 DEF AbortStep
  <1> QED BY <1>3, <1>4, <1>5, <1>6, <1>8, <1>9 DEF Acts, TurnStep, RemoverStep, DispatchStep

-----------------------------------------------------------------------------
(* Aborts reach removers and dependents                                    *)

LEMMA RemoversStep ==
    ASSUME Shapes, WaitingInProgram, RemoversHear, Next
    PROVE  RemoversHear'
  <1> USE DEF Shapes
  <1>0. Forward
    BY ShapesStep
  <1> SUFFICES ASSUME NEW s \in Signal, Sounding(s)', NEW j \in DOMAIN list'[s],
                      list'[s][j].closure.kind = "remover"
               PROVE  /\ ~list'[s][j].removed => Ahead(s, j)'
                      /\ (\E a \in Task : Calling(a, s, j)') => Aborting(s)'
    BY DEF RemoversHear
  <1>1. aborted'[s] /\ s \notin silenced' /\ s \notin silenced /\ s \in Target
    BY <1>0 DEF Sounding, Forward, Target
  <1>2. CASE ~aborted[s]
    BY <1>1, <1>2, NewlyAborted
  <1>3. CASE aborted[s]
    <2>1. /\ j \in DOMAIN list[s] /\ Alike(list[s][j], list'[s][j])
          /\ list[s][j] \in Entry /\ Proper(s, list[s][j])
      BY <1>3, OldListener
    <2>2. PICK l \in Entry : /\ l = list[s][j] /\ l.closure.kind = "remover"
                             /\ l.type = "abort" /\ l.once
      BY <2>1 DEF Alike, Proper
    <2>3. /\ ~l.removed => Ahead(s, j)
          /\ \A a \in Task : Calling(a, s, j) => Aborting(s)
      BY <1>1, <1>3, <2>1, <2>2 DEF RemoversHear, Sounding
    <2>4. ASSUME NEW a \in Task, CallStep(a, j), calls[a][1].target = s
          PROVE  list'[s][j].removed /\ ~l.removed
      <3>1. list'[s][j] = Invoked(l)
        BY <2>2, <2>4 DEF CallStep
      <3>2. PICK f : f = calls[a][1]
        OBVIOUS
      <3>3. j \in Following(f) /\ f.target = s
        BY <2>4, <3>2 DEF CallStep
      <3>4. ~l.removed
        BY <2>2, <3>3 DEF Following
      <3> QED BY <2>2, <3>1, <3>4, InvokedFacts
    <2>5. ~list'[s][j].removed => Ahead(s, j)'
      <3>1. SUFFICES ASSUME ~list'[s][j].removed PROVE Ahead(s, j)'
        OBVIOUS
      <3>2. ~l.removed /\ Ahead(s, j)
        BY <2>1, <2>2, <2>3, <3>1 DEF Alike
      <3> QED BY <1>1, <2>1, <2>2, <2>4, <3>1, <3>2, AheadKept
    <2>6. ASSUME NEW a \in Task, Calling(a, s, j)' PROVE Aborting(s)'
      <3>1. CASE Calling(a, s, j)
        <4>1. Aborting(s)
          BY <2>3, <3>1
        <4>2. \A b \in Task : ~EndStep(b)
          BY <1>1, <2>1, <2>2, <3>1, CallingHolds
        <4> QED BY <4>1, <4>2, AbortingKept
      <3>2. CASE CallStep(a, j) /\ calls[a][1].target = s
        <4>1. Ahead(s, j)
          BY <2>3, <2>4, <3>2
        <4>2. Aborting(s)
          BY <4>1 DEF Ahead, Aborting
        <4>3. \A b \in Task : ~EndStep(b)
          <5>1. SUFFICES ASSUME NEW b \in Task, EndStep(b) PROVE FALSE
            OBVIOUS
          <5>2. list'[s][j] = list[s][j]
            BY <5>1 DEF EndStep
          <5> QED BY <2>2, <2>4, <3>2, <5>2
        <4> QED BY <4>2, <4>3, AbortingKept
      <3> QED BY <1>1, <2>1, <2>2, <2>6, <3>1, <3>2, CallingFrom
    <2> QED BY <2>5, <2>6
  <1> QED BY <1>2, <1>3

LEMMA DependentsStep ==
    ASSUME Shapes, DependentsHear, Next
    PROVE  DependentsHear'
  <1> USE DEF Shapes
  <1>0. Forward
    BY ShapesStep
  <1> SUFFICES ASSUME NEW s \in Signal, Sounding(s)', NEW j \in DOMAIN list'[s],
                      list'[s][j].closure.kind = "dependent"
               PROVE  \/ aborted'[list'[s][j].closure.result]
                      \/ Ahead(s, j)'
                      \/ \E a \in Task : Calling(a, s, j)' /\ calls'[a][1].event = Fired(s)
    BY DEF DependentsHear, Fired
  <1>1. aborted'[s] /\ s \notin silenced' /\ s \notin silenced /\ s \in Target
    BY <1>0 DEF Sounding, Forward, Target
  <1>2. CASE ~aborted[s]
    BY <1>1, <1>2, NewlyAborted
  <1>3. CASE aborted[s]
    <2>1. /\ j \in DOMAIN list[s] /\ Alike(list[s][j], list'[s][j])
          /\ list[s][j] \in Entry /\ Proper(s, list[s][j])
      BY <1>3, OldListener
    <2>2. PICK l \in Entry : /\ l = list[s][j] /\ l.closure.kind = "dependent"
                             /\ l.type = "abort" /\ ~l.removed
                             /\ list'[s][j].closure = l.closure
      BY <2>1 DEF Alike, Proper
    <2>3. PICK r \in Signal : r = l.closure.result
      <3>1. l.closure \in DependentClosure
        BY <2>2, EntryFacts, ClosureFacts
      <3> QED BY <3>1 DEF DependentClosure
    <2>4. CASE aborted[r]
      BY <1>0, <2>2, <2>3, <2>4 DEF Forward
    <2>5. CASE Ahead(s, j)
      <3>1. CASE Ahead(s, j)'
        BY <3>1
      <3>2. ASSUME NEW a \in Task, CallStep(a, j),
                   calls[a][1].target = s, calls[a][1].event = Fired(s)
            PROVE  Calling(a, s, j)' /\ calls'[a][1].event = Fired(s)
        <4>1. j \in Nat
          BY <1>1, <2>1, ListsTyped, SeqDomain
        <4> QED BY <3>2, <4>1, CallMoves DEF Calling
      <3> QED BY <1>1, <2>1, <2>2, <2>5, <3>1, <3>2, AheadKept
    <2>6. ASSUME NEW a \in Task, Calling(a, s, j), calls[a][1].event = Fired(s)
          PROVE  \/ aborted'[r]
                 \/ Calling(a, s, j)' /\ calls'[a][1].event = Fired(s)
      <3>1. CASE calls'[a] = calls[a]
        BY <2>6, <3>1 DEF Calling
      <3>2. CASE calls'[a] # calls[a]
        <4>1. CASE aborted[r]
          BY <1>0, <4>1 DEF Forward
        <4>2. ~RemoverStep(a)
          BY <1>1, <2>1, <2>2, <2>6, CallingBusy DEF RemoverStep
        <4>3. CASE \E q \in Signal, z \in AnyReason : AbortStep(a, q, z) /\ l.closure.result = q
          <5>1. PICK z \in AnyReason : AbortStep(a, r, z)
            BY <2>3, <4>3
          <5> QED BY <5>1 DEF AbortStep, SignalsOK, TypeOK
        <4> QED BY <1>1, <2>1, <2>2, <2>3, <2>6, <3>2, <4>1, <4>2, <4>3, CallingActs
      <3> QED BY <3>1, <3>2
    <2>7. aborted[r] \/ Ahead(s, j)
          \/ \E a \in Task : Calling(a, s, j) /\ calls[a][1].event = Fired(s)
      BY <1>1, <1>3, <2>1, <2>2, <2>3 DEF DependentsHear, Sounding
    <2> QED BY <2>2, <2>3, <2>4, <2>5, <2>6, <2>7
  <1> QED BY <1>2, <1>3

LEMMA BoundStep ==
    ASSUME Shapes, BoundHaveRemovers, Next
    PROVE  BoundHaveRemovers'
  <1> USE DEF Shapes
  <1>0. Forward
    BY ShapesStep
  <1> SUFFICES ASSUME NEW t \in Target, NEW i \in DOMAIN list'[t], NEW s \in Signal,
                      ~list'[t][i].removed, list'[t][i].signal = s
               PROVE  \E j \in DOMAIN list'[s] :
                         /\ list'[s][j].closure = Remover(t, list'[t][i].type, list'[t][i].closure)
                         /\ ~list'[s][j].removed \/ \E a \in Task : Calling(a, s, j)'
    BY DEF BoundHaveRemovers, HasRemover, Remover
  <1>1. s \in Target
    BY DEF Target
  <1>2. PICK m : m = list'[t][i]
    OBVIOUS
  <1>3. CASE i \in DOMAIN list[t]
    <2>1. PICK l \in Entry : /\ l = list[t][i] /\ Alike(l, m) /\ Proper(t, l)
      BY <1>0, <1>2, <1>3, ListsTyped DEF Forward, Grown, ListenersProper
    <2>2. /\ ~l.removed /\ l.signal = s /\ l.type = m.type /\ l.closure = m.closure
          /\ l.closure.kind = "user"
      BY <1>2, <2>1, EventsAssumption DEF Alike, Proper
    <2>3. PICK u \in UserClosure, y \in Type : u = l.closure /\ y = l.type
      BY <2>2, EntryFacts, ClosureFacts
    <2>4. PICK j \in DOMAIN list[s] :
              /\ list[s][j].closure = Remover(t, y, u)
              /\ ~list[s][j].removed \/ \E a \in Task : Calling(a, s, j)
      BY <1>3, <2>1, <2>2, <2>3 DEF BoundHaveRemovers, HasRemover
    <2>5. j \in DOMAIN list'[s] /\ list'[s][j].closure = Remover(t, y, u)
      BY <1>0, <1>1, <2>4 DEF Forward, Grown, Alike
    <2>6. PICK c : c = Remover(t, y, u)
      OBVIOUS
    <2>7. c.kind = "remover" /\ c.target = t /\ c.type = y /\ c.code = u
      BY <2>3, <2>6, ClosureFacts
    <2>8. ASSUME ~list[s][j].removed, list'[s][j].removed
          PROVE  \E a \in Task : Calling(a, s, j)'
      <3>1. PICK a \in Task : CallStep(a, j) /\ calls[a][1].target = s
        BY <1>1, <2>4, <2>6, <2>7, <2>8, OffByCall
      <3>2. j \in Nat
        BY <1>1, <2>4, ListsTyped, SeqDomain
      <3> QED BY <3>1, <3>2, CallMoves DEF Calling
    <2>9. ASSUME NEW a \in Task, Calling(a, s, j)
          PROVE  Calling(a, s, j)'
      <3>1. CASE calls'[a] = calls[a]
        BY <2>9, <3>1 DEF Calling
      <3>2. CASE calls'[a] # calls[a]
        <4>1. RemoverStep(a)
          BY <1>1, <2>4, <2>6, <2>7, <2>9, <3>2, CallingActs
        <4>2. Closure(calls[a][1]) = c
          BY <1>1, <2>4, <2>6, <2>7, <2>9, CallingBusy
        <4>3. OneOfEach(list[t])
          BY DEF ListsDistinct
        <4>4. ~Same(list'[t][i], y, u)
          BY <1>3, <2>7, <4>1, <4>2, <4>3 DEF RemoverStep
        <4>5. Same(m, y, u)
          BY <1>2, <2>2, <2>3 DEF Same
        <4> QED BY <1>2, <4>4, <4>5
      <3> QED BY <3>1, <3>2
    <2> QED BY <1>2, <2>2, <2>3, <2>4, <2>5, <2>8, <2>9
  <1>4. CASE i \notin DOMAIN list[t]
    <2>1. Making
      <3>1. SUFFICES ASSUME ~Making PROVE FALSE
        OBVIOUS
      <3>2. TypeOK'
        BY TypeStep
      <3>3. list'[t] \in Seq(Entry) /\ list[t] \in Seq(Entry)
        BY <3>2 DEF TypeOK
      <3>4. Len(list'[t]) = Len(list[t])
        BY <3>1, LengthsKept
      <3>5. DOMAIN list'[t] = DOMAIN list[t]
        BY <3>3, <3>4, SeqDomain
      <3> QED BY <1>4, <3>5
    <2>2. NewListener(t, m)
      BY <1>2, <1>4, <2>1 DEF Making, Edited
    <2>3. m.closure.kind = "user"
      BY <1>2, <2>2, EventsAssumption DEF NewListener
    <2>4. \E j \in DOMAIN list'[s] :
             /\ list'[s][j].closure = Remover(t, m.type, m.closure)
             /\ ~list'[s][j].removed
      BY <1>2, <2>2, <2>3 DEF NewListener
    <2> QED BY <1>2, <2>4
  <1> QED BY <1>3, <1>4

LEMMA ListensStep ==
    ASSUME Shapes, DependentsListen, Next
    PROVE  DependentsListen'
  <1> USE DEF Shapes
  <1>0. Forward
    BY ShapesStep
  <1> SUFFICES ASSUME NEW r \in Signal, NEW s \in Signal, s \in sources'[r]
               PROVE  \/ aborted'[r]
                      \/ \E j \in DOMAIN list'[s] : list'[s][j].closure = Dependent(s, r)
    BY DEF DependentsListen, Dependent
  <1>1. s \in Target
    BY DEF Target
  <1>2. CASE s \in sources[r]
    <2>1. CASE aborted[r]
      BY <1>0, <2>1 DEF Forward
    <2>2. ASSUME NEW j \in DOMAIN list[s], list[s][j].closure = Dependent(s, r)
          PROVE  j \in DOMAIN list'[s] /\ list'[s][j].closure = Dependent(s, r)
      BY <1>0, <1>1, <2>2 DEF Forward, Grown, Alike
    <2> QED BY <1>2, <2>1, <2>2 DEF DependentsListen
  <1>3. CASE s \notin sources[r]
    <2>1. Making /\ ~SameSignal(r)
      BY <1>3, StepKinds
         DEF Making, SameSignal, StopStep, TurnStep, RemoverStep, CallStep, EndStep, AbortStep,
             DispatchStep, signals
    <2>2. Newborn(r)
      BY <2>1 DEF Making
    <2> QED BY <2>2 DEF Newborn
  <1> QED BY <1>2, <1>3

LEMMA ReasonStep ==
    ASSUME Shapes, ReasonInherited, Next
    PROVE  ReasonInherited'
  <1> USE DEF Shapes
  <1>0. Forward
    BY ShapesStep
  <1> SUFFICES ASSUME NEW r \in Signal, kind'[r] = "any", aborted'[r]
               PROVE  \E s \in sources'[r] :
                         (aborted'[s] /\ reason'[r] = reason'[s]) \/ s \in forged'
    BY DEF ReasonInherited
  <1>1. sources[r] \subseteq Signal
    BY DEF TypeOK, SignalsOK
  <1>2. CASE aborted[r]
    <2>1. kind[r] # "none"
      BY <1>2 DEF Unmade
    <2>2. kind[r] = "any" /\ sources'[r] = sources[r] /\ reason'[r] = reason[r]
      BY <1>0, <1>2, <2>1 DEF Forward
    <2>3. PICK s \in sources[r] : (aborted[s] /\ reason[r] = reason[s]) \/ s \in forged
      BY <1>2, <2>2 DEF ReasonInherited
    <2>4. (aborted'[s] /\ reason'[r] = reason'[s]) \/ s \in forged'
      BY <1>0, <1>1, <2>2, <2>3 DEF Forward
    <2> QED BY <2>2, <2>4
  <1>3. CASE ~aborted[r] /\ Making
    <2>1. Newborn(r)
      BY <1>3 DEF Making, SameSignal
    <2>2. PICK s \in sources'[r] : s # r /\ aborted[s] /\ reason'[r] = reason[s]
      BY <2>1 DEF Newborn
    <2>3. s \in Signal
      BY <1>3 DEF Making, SignalsOK
    <2> QED BY <1>0, <2>2, <2>3 DEF Forward
  <1>4. CASE ~aborted[r] /\ ~Making
    <2>1. \E a \in Task : \E q \in Signal, z \in AnyReason : AbortStep(a, q, z)
      BY <1>4, StepKinds
         DEF StopStep, TurnStep, RemoverStep, CallStep, EndStep, DispatchStep, signals
    <2>2. PICK a \in Task, q \in Signal, z \in AnyReason : AbortStep(a, q, z)
      BY <2>1
    <2>3. q = r /\ reason'[r] = z /\ kind[r] = "any" /\ sources'[r] = sources[r]
      BY <1>4, <2>2 DEF AbortStep, SignalsOK
    <2>4. /\ calls[a] # <<>> /\ calls[a][1].at = "call"
          /\ Closure(calls[a][1]).kind = "dependent"
          /\ Closure(calls[a][1]).result = r /\ z = reason[Closure(calls[a][1]).source]
      BY <2>2, <2>3 DEF AbortStep
    <2>5. PICK f \in Dispatch : f = calls[a][1] /\ Placed(f)
      BY <2>4, TopDispatch
    <2>6. /\ Closure(f).source = f.target /\ f.target \in Signal
          /\ f.target \in sources[r] /\ f.event.type = "abort"
      BY <2>4, <2>5, DependentMade
    <2>7. aborted[f.target] \/ f.target \in forged
      BY <2>5, <2>6 DEF Placed
    <2>8. z = reason[f.target]
      BY <2>4, <2>5, <2>6
    <2>9. (aborted'[f.target] /\ reason'[r] = reason'[f.target]) \/ f.target \in forged'
      BY <1>0, <2>3, <2>6, <2>7, <2>8 DEF Forward
    <2> QED BY <2>3, <2>6, <2>9
  <1> QED BY <1>2, <1>3, <1>4

LEMMA EInvStep ==
    ASSUME EInv, Next
    PROVE  EInv'
  BY ShapesStep, WaitingStep, BoundStep, RemoversStep, DependentsStep, ListensStep, ReasonStep
     DEF EInv

LEMMA EInvInit == Init => EInv
  <1> SUFFICES ASSUME Init PROVE EInv
    OBVIOUS
  <1>1. \A t \in Target : DOMAIN list[t] = {}
    BY DEF Init
  <1>2. \A a \in Task : DOMAIN calls[a] = {}
    BY DEF Init
  <1>3. \A s \in Signal : ~aborted[s] /\ sources[s] = {}
    BY DEF Init
  <1>4. WaitingInProgram
    BY <1>2 DEF WaitingInProgram
  <1>5. BoundHaveRemovers
    BY <1>1 DEF BoundHaveRemovers
  <1>6. RemoversHear /\ DependentsHear
    BY <1>3 DEF RemoversHear, DependentsHear, Sounding
  <1>7. DependentsListen /\ ReasonInherited
    BY <1>3 DEF DependentsListen, ReasonInherited
  <1> QED BY <1>4, <1>5, <1>6, <1>7, ShapesInit DEF EInv

LEMMA EInvStutter ==
    ASSUME EInv, UNCHANGED vars
    PROVE  EInv'
  <1>1. UNCHANGED <<list, calls, kind, aborted, reason, sources, silenced, forged>>
    BY DEF vars, signals, history
  <1>2. WaitingInProgram'
    BY <1>1 DEF EInv, WaitingInProgram, InProgram, Closure
  <1>3. BoundHaveRemovers'
    BY <1>1 DEF EInv, BoundHaveRemovers, HasRemover, Calling
  <1>4. RemoversHear'
    BY <1>1 DEF EInv, RemoversHear, Sounding, Ahead, Calling, Aborting
  <1>5. DependentsHear'
    BY <1>1 DEF EInv, DependentsHear, Sounding, Ahead, Calling
  <1>6. DependentsListen' /\ ReasonInherited'
    BY <1>1 DEF EInv, DependentsListen, ReasonInherited
  <1> QED BY <1>2, <1>3, <1>4, <1>5, <1>6, ShapesStutter DEF EInv

LEMMA EInvArrives ==
    ASSUME EInv
    PROVE  AbortArrives
  <1> USE DEF EInv
  <1>1. SUFFICES ASSUME NEW s \in Signal, aborted[s], ~Aborting(s), s \notin silenced
                 PROVE  /\ \A t \in Target : \A i \in DOMAIN list[t] :
                              list[t][i].signal = s => list[t][i].removed
                        /\ \A r \in Signal : s \in sources[r] => aborted[r]
    BY DEF AbortArrives, AbortReaches
  <1>2. \A j : ~Ahead(s, j)
    BY <1>1 DEF Ahead, Aborting
  <1>3. ASSUME NEW t \in Target, NEW i \in DOMAIN list[t], list[t][i].signal = s
        PROVE  list[t][i].removed
    <2>1. SUFFICES ASSUME ~list[t][i].removed PROVE FALSE
      OBVIOUS
    <2>2. PICK l \in Entry : l = list[t][i] /\ Proper(t, l)
      BY <1>3, ListsTyped DEF Shapes, ListenersProper
    <2>3. PICK u \in UserClosure, y \in Type : u = l.closure /\ y = l.type
      BY <1>3, <2>2, EntryFacts, ClosureFacts, EventsAssumption DEF Proper
    <2>4. PICK j \in DOMAIN list[s] :
              /\ list[s][j].closure = Remover(t, y, u)
              /\ ~list[s][j].removed \/ \E a \in Task : Calling(a, s, j)
      BY <1>3, <2>1, <2>2, <2>3 DEF BoundHaveRemovers, HasRemover
    <2>5. Remover(t, y, u).kind = "remover"
      BY <2>3, ClosureFacts
    <2>6. list[s][j].closure.kind = "remover"
      BY <2>4, <2>5
    <2> QED BY <1>1, <1>2, <2>4, <2>6 DEF RemoversHear, Sounding
  <1>4. ASSUME NEW r \in Signal, s \in sources[r] PROVE aborted[r]
    <2>1. SUFFICES ASSUME ~aborted[r] PROVE FALSE
      OBVIOUS
    <2>2. PICK j \in DOMAIN list[s] : list[s][j].closure = Dependent(s, r)
      BY <1>4, <2>1 DEF DependentsListen
    <2>3. list[s][j].closure.kind = "dependent" /\ list[s][j].closure.result = r
      BY <2>2, ClosureFacts
    <2>4. PICK a \in Task : Calling(a, s, j) /\ calls[a][1].event = Fired(s)
      BY <1>1, <1>2, <2>1, <2>3 DEF DependentsHear, Sounding
    <2>5. 1 \in DOMAIN calls[a] /\ calls[a][1].target = s
      BY <2>4, TopDispatch DEF Calling, Shapes
    <2> QED BY <1>1, <2>4, <2>5 DEF Aborting
  <1> QED BY <1>3, <1>4

(* When the abort of a signal is over, every listener added with it is off *)
(* and every signal that depends on it is aborted, whatever the callbacks  *)
(* did on the way, unless the program stopped the abort event; a dependent *)
(* signal has the reason of one of its sources.                            *)
THEOREM AbortsArrive == Spec => []AbortArrives
  <1>1. EInv /\ [Next]_vars => EInv'
    BY EInvStep, EInvStutter
  <1>2. EInv => AbortArrives
    BY EInvArrives
  <1> QED BY <1>1, <1>2, EInvInit, PTL DEF Spec

=============================================================================
