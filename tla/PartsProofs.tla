----------------------------- MODULE PartsProofs -----------------------------
(***************************************************************************)
(* Promises: for any promises, aggregates, thenables and bounds, an        *)
(* aggregate never waits past a poll that saw what decides it and settles  *)
(* from the right members, and a thenable settles once.  Intervals: for    *)
(* any number of timers and addresses, in any order of callbacks, waits,   *)
(* clears and collections, a clear that finds its timer stops it.          *)
(* Containers: for any keys, names, hashes, elements and indexes, a Map,   *)
(* Set, dynamic object or array answers as the calls before it call for.   *)
(***************************************************************************)
EXTENDS Promises, Integers, FiniteSetTheorems, WellFoundedInduction, TLAPS

CONSTANTS Addr, Timer, MaxFires,                                \* of Intervals
          Kind, Key, Same, Name, HashOf, Element, MaxIndex      \* of Containers

VARIABLES kind, address, place, calling, cancelled, fires, stopped, missed, struck,
          count, slots, last, given, answer

Timers == INSTANCE Intervals
Tables == INSTANCE Containers

-----------------------------------------------------------------------------
(* Intervals.                                                               *)

(* A timer is somewhere from the moment it is made. *)
MadeIsPlaced ==
    \A t \in Timer : kind[t] = "none" <=> place[t] = "none"

(* The allocator gives an address to one task at a time. *)
AddressesDiffer ==
    \A t, u \in Timer : Timers!Exists(t) /\ Timers!Exists(u) /\ address[t] = address[u] => t = u

(* A timer that a clear has stopped is marked, and calls no more; no timer *)
(* is marked before it is made.                                            *)
StoppedIsMarked ==
    \A t \in Timer :
        /\ stopped[t] # Timers!NotStopped => cancelled[t] /\ fires[t] = stopped[t]
        /\ kind[t] = "none" => ~cancelled[t]

(* A timeout leaves the timer list only when its callback begins, and a    *)
(* callback that has begun has been counted.                               *)
BegunHasFired ==
    \A t \in Timer :
        /\ calling[t] => fires[t] > 0
        /\ kind[t] = "timeout" /\ place[t] \in {"current", "runnable", "join"} => calling[t]

(* The clears that found nothing, as in ClearedStops. *)
MissedLate ==
    \A m \in missed :
        /\ m[1] \in Timer
        /\ \/ m[3] \in {"join", "finished", "freed"}
           \/ m[2] = "timeout" /\ m[3] \in {"current", "runnable"} /\ fires[m[1]] > 0

(* Whoever is marked and was not cleared was struck by an old handle.      *)
StruckByOld ==
    \A t \in Timer : cancelled[t] /\ stopped[t] = Timers!NotStopped =>
        \E u \in Timer : u # t /\ address[u] = address[t] /\ place[u] = "freed" /\ t \in struck

TimersInv ==
    /\ Timers!TypeOK
    /\ MadeIsPlaced
    /\ AddressesDiffer
    /\ StoppedIsMarked
    /\ BegunHasFired
    /\ MissedLate
    /\ StruckByOld

LEMMA IntervalsBegin ==
    ASSUME Timers!IntervalsAssumption, Timers!Init
    PROVE  TimersInv
  <1>1. (CHOOSE a \in Addr : TRUE) \in Addr
    BY DEF Timers!IntervalsAssumption
  <1>2. Timers!TypeOK
    BY <1>1 DEF Timers!Init, Timers!TypeOK, Timers!Place, Timers!NotStopped, Timers!IntervalsAssumption
  <1> QED BY <1>2 DEF Timers!Init, TimersInv, MadeIsPlaced, AddressesDiffer, Timers!Exists, StoppedIsMarked,
                     BegunHasFired, MissedLate, StruckByOld

(* Moving a timer that is made to another place, or letting it call when it *)
(* is not marked, keeps the invariant.                                      *)
LEMMA MoveKeeps ==
    ASSUME Timers!IntervalsAssumption, TimersInv, NEW t \in Timer, NEW p \in Timers!Place \ {"none"},
           place[t] \notin {"none", "freed"}, Timers!Move(t, p),
           UNCHANGED <<kind, address, cancelled, stopped, missed, struck>>,
           calling' \in [Timer -> BOOLEAN], \A u \in Timer \ {t} : calling'[u] = calling[u],
           kind[t] = "timeout" /\ p \in {"current", "runnable", "join"} => calling'[t],
           \/ UNCHANGED fires /\ (calling'[t] => calling[t])
           \/ ~cancelled[t] /\ fires[t] < MaxFires /\ fires' = [fires EXCEPT ![t] = @ + 1]
    PROVE  TimersInv'
  <1> USE DEF TimersInv, Timers!TypeOK, Timers!Move
  <1>1. \A u \in Timer : place'[u] = IF u = t THEN p ELSE place[u]
    OBVIOUS
  <1>2. Timers!TypeOK'
    <2>1. fires' \in [Timer -> 0 .. MaxFires]
      BY DEF Timers!IntervalsAssumption
    <2>2. place' \in [Timer -> Timers!Place]
      OBVIOUS
    <2> QED BY <2>1, <2>2
  <1>3. MadeIsPlaced'
    BY <1>1 DEF MadeIsPlaced
  <1>4. AddressesDiffer'
    BY <1>1 DEF AddressesDiffer, Timers!Exists
  <1>5. StoppedIsMarked'
    BY DEF StoppedIsMarked
  <1>6. \A u \in Timer : fires[u] \in Nat /\ fires'[u] \in Nat /\ fires'[u] >= fires[u]
    BY DEF Timers!IntervalsAssumption
  <1>7. BegunHasFired'
    <2>1. calling'[t] => fires'[t] > 0
      <3>1. CASE UNCHANGED fires /\ (calling'[t] => calling[t])
        BY <3>1 DEF BegunHasFired
      <3>2. CASE fires' = [fires EXCEPT ![t] = @ + 1]
        BY <1>6, <3>2
      <3> QED BY <3>1, <3>2
    <2> QED BY <1>1, <1>6, <2>1 DEF BegunHasFired
  <1>8. MissedLate'
    BY <1>6 DEF MissedLate
  <1>9. StruckByOld'
    BY <1>1 DEF StruckByOld
  <1> QED BY <1>2, <1>3, <1>4, <1>5, <1>7, <1>8, <1>9

LEMMA TickKeeps ==
    ASSUME Timers!IntervalsAssumption, TimersInv, NEW t \in Timer, NEW sleeps \in BOOLEAN,
           place[t] \notin {"none", "freed"}, Timers!Tick(t, sleeps),
           UNCHANGED <<kind, address, cancelled, stopped, missed, struck>>
    PROVE  TimersInv'
  <1>1. calling' \in [Timer -> BOOLEAN] /\ \A u \in Timer \ {t} : calling'[u] = calling[u]
    BY DEF TimersInv, Timers!TypeOK, Timers!Tick, Timers!Fire
  <1>2. CASE cancelled[t]
    <2>1. Timers!Move(t, "finished") /\ UNCHANGED fires /\ ~calling'[t]
      BY <1>2 DEF Timers!Tick, TimersInv, Timers!TypeOK
    <2> QED BY <1>1, <2>1, MoveKeeps DEF Timers!Place
  <1>3. CASE ~cancelled[t] /\ sleeps
    <2>1. Timers!Move(t, "timers") /\ UNCHANGED fires /\ ~calling'[t]
      BY <1>3 DEF Timers!Tick, TimersInv, Timers!TypeOK
    <2> QED BY <1>1, <2>1, MoveKeeps DEF Timers!Place
  <1>4. CASE ~cancelled[t] /\ ~sleeps
    <2>1. Timers!Fire(t) /\ calling'[t]
      BY <1>4 DEF Timers!Tick, Timers!Fire, TimersInv, Timers!TypeOK
    <2> QED BY <1>1, <1>4, <2>1, MoveKeeps DEF Timers!Fire, Timers!Place
  <1> QED BY <1>2, <1>3, <1>4

LEMMA MakeKeeps ==
    ASSUME Timers!IntervalsAssumption, TimersInv, NEW t \in Timer,
           NEW k \in {"timeout", "interval"}, NEW p \in {"timers", "runnable"}, Timers!Make(t, k, p),
           k = "timeout" => p = "timers"
    PROVE  TimersInv'
  <1> USE DEF TimersInv, Timers!TypeOK
  <1>1. PICK a \in Addr : (\A u \in Timer : ~Timers!Holds(a, u)) /\ address' = [address EXCEPT ![t] = a]
    BY DEF Timers!Make
  <1>2. /\ kind[t] = "none" /\ place[t] = "none"
        /\ \A u \in Timer : /\ place'[u] = IF u = t THEN p ELSE place[u]
                            /\ kind'[u] = IF u = t THEN k ELSE kind[u]
                            /\ address'[u] = IF u = t THEN a ELSE address[u]
    BY <1>1 DEF Timers!Make, Timers!Move, MadeIsPlaced
  <1>3. Timers!TypeOK'
    BY <1>1 DEF Timers!Make, Timers!Move, Timers!Place
  <1>4. MadeIsPlaced'
    BY <1>2 DEF MadeIsPlaced
  <1>5. AddressesDiffer'
    BY <1>1, <1>2 DEF AddressesDiffer, Timers!Exists, Timers!Holds
  <1>6. StoppedIsMarked'
    BY <1>2 DEF Timers!Make, StoppedIsMarked
  <1>7. MissedLate' /\ BegunHasFired'
    BY <1>2 DEF Timers!Make, MissedLate, BegunHasFired
  <1>8. StruckByOld'
    <2>1. ~cancelled[t]
      BY <1>2 DEF StoppedIsMarked
    <2>2. \A u \in Timer : place[u] = "freed" => u # t
      BY <1>2
    <2> QED BY <1>2, <2>1, <2>2 DEF Timers!Make, StruckByOld
  <1> QED BY <1>3, <1>4, <1>5, <1>6, <1>7, <1>8

LEMMA ClearKeeps ==
    ASSUME Timers!IntervalsAssumption, TimersInv, NEW t \in Timer, Timers!Clear(t)
    PROVE  TimersInv'
  <1> DEFINE found == {u \in Timer : Timers!Holds(address[t], u) /\ place[u] \in Timers!Searched(kind[t])}
  <1> USE DEF TimersInv, Timers!TypeOK
  <1>1. /\ kind[t] # "none"
        /\ cancelled' = [u \in Timer |-> cancelled[u] \/ u \in found]
        /\ stopped' = IF t \in found /\ stopped[t] = Timers!NotStopped
                      THEN [stopped EXCEPT ![t] = fires[t]] ELSE stopped
        /\ missed' = IF t \in found THEN missed ELSE missed \cup {<<t, kind[t], place[t]>>}
        /\ struck' = struck \cup (found \ {t})
        /\ UNCHANGED <<kind, address, place, calling, fires>>
    BY DEF Timers!Clear
  <1>2. found \subseteq Timer /\ \A u \in found : Timers!Exists(u) /\ address[u] = address[t]
    BY DEF Timers!Holds
  <1> HIDE DEF found
  <1>3. \A u \in Timer : stopped'[u] = IF u = t /\ t \in found /\ stopped[t] = Timers!NotStopped
                                       THEN fires[t] ELSE stopped[u]
    BY <1>1
  <1>4. Timers!TypeOK'
    <2>1. stopped' \in [Timer -> Timers!NotStopped .. MaxFires]
      BY <1>1 DEF Timers!NotStopped, Timers!IntervalsAssumption
    <2>2. struck' \subseteq Timer
      BY <1>1, <1>2
    <2>3. cancelled' \in [Timer -> BOOLEAN]
      <3>1. \A u \in Timer : (cancelled[u] \/ u \in found) \in BOOLEAN
        OBVIOUS
      <3> QED BY <1>1, <3>1
    <2> QED BY <1>1, <2>1, <2>2, <2>3
  <1>5. MadeIsPlaced' /\ AddressesDiffer' /\ BegunHasFired'
    BY <1>1 DEF MadeIsPlaced, AddressesDiffer, Timers!Exists, BegunHasFired
  <1>6. StoppedIsMarked'
    <2>1. \A u \in found : kind[u] # "none"
      BY <1>2 DEF MadeIsPlaced, Timers!Exists
    <2> QED BY <1>1, <1>2, <1>3, <2>1 DEF StoppedIsMarked
  <1>7. MissedLate'
    <2>1. CASE t \in found
      BY <1>1, <2>1 DEF MissedLate
    <2>2. CASE t \notin found
      <3>1. place[t] # "none"
        BY <1>1 DEF MadeIsPlaced
      <3>2. place[t] # "freed" => place[t] \notin Timers!Searched(kind[t])
        BY <2>2, <3>1 DEF found, Timers!Holds, Timers!Exists
      <3>3. \/ place[t] \in {"join", "finished", "freed"}
            \/ kind[t] = "timeout" /\ place[t] \in {"current", "runnable"} /\ fires[t] > 0
        BY <1>1, <3>1, <3>2 DEF Timers!Searched, Timers!Place, BegunHasFired
      <3> QED BY <1>1, <2>2, <3>3 DEF MissedLate
    <2> QED BY <2>1, <2>2
  <1>8. StruckByOld'
    <2> SUFFICES ASSUME NEW u \in Timer, cancelled'[u], stopped'[u] = Timers!NotStopped
                 PROVE  \E w \in Timer : w # u /\ address[w] = address[u] /\ place[w] = "freed" /\ u \in struck'
      BY <1>1 DEF StruckByOld
    <2>1. stopped[u] = Timers!NotStopped
      BY <1>3 DEF StoppedIsMarked, Timers!NotStopped
    <2>2. CASE cancelled[u]
      BY <1>1, <2>1, <2>2 DEF StruckByOld
    <2>3. CASE ~cancelled[u]
      <3>1. u \in found
        BY <1>1, <2>3
      <3>2. u # t
        <4> SUFFICES ASSUME u = t PROVE FALSE
          OBVIOUS
        <4>1. stopped'[u] = fires[t]
          BY <1>3, <2>1, <3>1
        <4>2. fires[t] \in Nat
          BY DEF Timers!IntervalsAssumption
        <4> QED BY <4>1, <4>2 DEF Timers!NotStopped
      <3>3. place[t] = "freed"
        <4>1. ~Timers!Exists(t)
          BY <1>2, <3>1, <3>2 DEF AddressesDiffer
        <4> QED BY <1>1, <4>1 DEF Timers!Exists, MadeIsPlaced
      <3> QED BY <1>1, <1>2, <3>1, <3>2, <3>3
    <2> QED BY <2>2, <2>3
  <1> QED BY <1>4, <1>5, <1>6, <1>7, <1>8

LEMMA IntervalsStep ==
    ASSUME Timers!IntervalsAssumption, TimersInv, [Timers!Next]_(Timers!vars)
    PROVE  TimersInv'
  <1>1. CASE UNCHANGED Timers!vars
    BY <1>1 DEF Timers!vars, TimersInv, Timers!TypeOK, MadeIsPlaced, AddressesDiffer, Timers!Exists, StoppedIsMarked,
                BegunHasFired, MissedLate, StruckByOld
  <1>2. ASSUME NEW t \in Timer, Timers!SetTimeout(t) \/ Timers!SetInterval(t) PROVE TimersInv'
    BY <1>2, MakeKeeps DEF Timers!SetTimeout, Timers!SetInterval
  <1>3. \A t \in Timer : calling \in [Timer -> BOOLEAN] /\ \A b \in BOOLEAN : [calling EXCEPT ![t] = b] \in [Timer -> BOOLEAN]
    BY DEF TimersInv, Timers!TypeOK
  <1>4. ASSUME NEW t \in Timer, Timers!RunTimeout(t) PROVE TimersInv'
    <2>1. CASE cancelled[t]
      <3>1. Timers!Move(t, "finished") /\ UNCHANGED <<fires, calling>> /\ place[t] = "timers"
        BY <1>4, <2>1 DEF Timers!RunTimeout, Timers!Expires
      <3> QED BY <1>3, <1>4, <3>1, MoveKeeps DEF Timers!RunTimeout, Timers!Place
    <2>2. CASE ~cancelled[t]
      <3>1. Timers!Fire(t) /\ place[t] = "timers"
        BY <1>4, <2>2 DEF Timers!RunTimeout, Timers!Expires
      <3>2. calling' \in [Timer -> BOOLEAN] /\ calling'[t] /\ \A u \in Timer \ {t} : calling'[u] = calling[u]
        BY <1>3, <3>1 DEF Timers!Fire
      <3> QED BY <1>4, <2>2, <3>1, <3>2, MoveKeeps DEF Timers!RunTimeout, Timers!Fire, Timers!Place
    <2> QED BY <2>1, <2>2
  <1>5. ASSUME NEW t \in Timer, Timers!BeginInterval(t) \/ Timers!WakeInterval(t) PROVE TimersInv'
    BY <1>5, TickKeeps DEF Timers!BeginInterval, Timers!WakeInterval, Timers!Expires
  <1>6. ASSUME NEW t \in Timer, NEW p \in {"runnable", "timers", "join"}, Timers!CallbackWaits(t, p) PROVE TimersInv'
    BY <1>3, <1>6, MoveKeeps DEF Timers!CallbackWaits, Timers!Place
  <1>7. ASSUME NEW t \in Timer, Timers!CallbackResumes(t) PROVE TimersInv'
    BY <1>3, <1>7, MoveKeeps DEF Timers!CallbackResumes, Timers!Place
  <1>8. ASSUME NEW t \in Timer, Timers!CallbackReturns(t) PROVE TimersInv'
    <2>1. CASE kind[t] = "timeout"
      <3>1. Timers!Move(t, "finished") /\ UNCHANGED fires /\ ~calling'[t] /\ place[t] = "current"
        BY <1>3, <1>8, <2>1 DEF Timers!CallbackReturns
      <3>2. calling' \in [Timer -> BOOLEAN] /\ \A u \in Timer \ {t} : calling'[u] = calling[u]
        BY <1>3, <1>8, <2>1 DEF Timers!CallbackReturns
      <3> QED BY <1>8, <3>1, <3>2, MoveKeeps DEF Timers!CallbackReturns, Timers!Place
    <2>2. CASE kind[t] # "timeout"
      BY <1>8, <2>2, TickKeeps DEF Timers!CallbackReturns
    <2> QED BY <2>1, <2>2
  <1>9. ASSUME NEW t \in Timer, Timers!Free(t) PROVE TimersInv'
    BY <1>3, <1>9, MoveKeeps DEF Timers!Free, Timers!Place
  <1>10. ASSUME NEW t \in Timer, Timers!Clear(t) PROVE TimersInv'
    BY <1>10, ClearKeeps
  <1> QED BY <1>1, <1>2, <1>3, <1>4, <1>5, <1>6, <1>7, <1>8, <1>9, <1>10 DEF Timers!Next

(* A clear that finds its own timer stops it, one that does not came too    *)
(* late or in a join, and a timer nobody cleared is cancelled only through  *)
(* a handle that outlived its timer (clear of timers_amd64.go and           *)
(* intervals_amd64.go), for any number of timers and addresses.             *)
THEOREM ClearStopsTimer ==
    ASSUME Timers!IntervalsAssumption
    PROVE  Timers!Spec => [](Timers!TypeOK /\ Timers!ClearedStops)
  <1>1. Timers!Init => TimersInv
    BY IntervalsBegin
  <1>2. TimersInv /\ [Timers!Next]_(Timers!vars) => TimersInv'
    BY IntervalsStep
  <1>3. TimersInv => Timers!TypeOK /\ Timers!ClearedStops
    BY DEF TimersInv, Timers!ClearedStops, StoppedIsMarked, MissedLate, StruckByOld
  <1> QED BY <1>1, <1>2, <1>3, PTL DEF Timers!Spec

-----------------------------------------------------------------------------
(* Promises.                                                                *)
Outcomes == {"fulfilled", "rejected"}

(* Types of what TypeOK leaves open. *)
TypeInv ==
    /\ TypeOK
    /\ value = [p \in Promise |-> value[p]]
    /\ order \in Seq(Promise)
    /\ polled \in [Aggregate -> Nat]
    /\ source \in [Aggregate -> Seq(Promise)]
    /\ settles \in [Thenable -> Seq(Outcomes)]
    /\ status \in [Thenable -> Seq(Outcomes)]
    /\ payload \in [Thenable -> Seq(Thenable \X Nat)]

(* What is not made is not settled, nor is a driver whose method runs.     *)
MadeBeforeSettled ==
    /\ \A a \in Aggregate : polled[a] <= Len(order)
    /\ \A a \in Aggregate : form[a] = "none" => ~Done(a) /\ polled[a] = 0
    /\ \A h \in Thenable : then[h] \in {"none", "called"} => ~Done(h)

(* What the last poll of an aggregate saw did not decide it. *)
PendingRight(a) ==
    LET ms == Range(members[a]) \cap SettledBy(polled[a]) IN
    form[a] # "none" /\ a \notin touched /\ ~Done(a) =>
        IF form[a] = "race" THEN ms = {}
        ELSE (\A m \in ms : ~Rejected(m)) /\ (polled[a] > 0 => Range(members[a]) \ ms # {})

(* An aggregate has the value and the outcome of what it settled from: the *)
(* one member that decided it, or all of them.                             *)
SourceRight(a) ==
    Done(a) =>
        /\ \A i \in DOMAIN source[a] : source[a][i] = members[a][i] \/ Len(source[a]) = 1
        /\ value[a] = FlattenSeq([i \in DOMAIN source[a] |-> value[source[a][i]]])
        /\ \A i \in DOMAIN source[a] : Done(source[a][i])
        /\ Rejected(a) => \E i \in DOMAIN source[a] : Rejected(source[a][i]) /\ handled[source[a][i]]
        /\ ~Rejected(a) => \A i \in DOMAIN source[a] : ~Rejected(source[a][i])

(* The channel of a thenable that is not settled holds the first call of   *)
(* its settlers, if there was one.                                         *)
FirstHeld(h) ==
    /\ then[h] = "none" => settles[h] = <<>>
    /\ ~Done(h) =>
          /\ status[h] = IF settles[h] = <<>> THEN <<>> ELSE <<settles[h][1]>>
          /\ payload[h] = IF settles[h] = <<>> THEN <<>> ELSE << <<h, 1>> >>
    /\ Done(h) /\ then[h] = "awaited" =>
          /\ settles[h] # <<>>
          /\ outcome[h] = settles[h][1] /\ value[h] = << <<h, 1>> >>

PromisesInv ==
    /\ TypeInv
    /\ MadeBeforeSettled
    /\ \A a \in Aggregate : PendingRight(a) /\ SourceRight(a)
    /\ \A h \in Thenable : FirstHeld(h)

-----------------------------------------------------------------------------
(* Sequences.                                                               *)
(* Every set of numbers has a least one.                                    *)
LEMMA NatMin ==
    ASSUME NEW S \in SUBSET Nat, S # {}
    PROVE  \E x \in S : \A y \in S : x <= y
  <1> DEFINE R == {p \in Nat \X Nat : p[1] < p[2]}
  <1>1. IsWellFoundedOn(R, Nat)
    BY NatLessThanWellFounded DEF OpToRel
  <1>2. S \subseteq Nat
    OBVIOUS
  <1> HIDE DEF R
  <1>3. \E x \in S : \A y \in S : ~(<<y, x>> \in R)
    BY ONLY <1>1, <1>2, S # {}, WFMin, Zenon
  <1>4. PICK x \in S : \A y \in S : ~(<<y, x>> \in R)
    BY <1>3
  <1>5. ASSUME NEW y \in S
        PROVE  x <= y
    <2>1. x \in Nat /\ y \in Nat
      BY <1>2
    <2>2. <<y, x>> \in Nat \X Nat /\ <<y, x>>[1] = y /\ <<y, x>>[2] = x
      BY <2>1
    <2>3. ~(y < x)
      BY <1>4, <2>2 DEF R
    <2> QED BY <2>1, <2>3
  <1> QED BY <1>5

(* The least and the greatest number of a set, as Min and Max choose them.  *)
LEMMA MinIsLeast ==
    ASSUME NEW S \in SUBSET Nat, S # {}
    PROVE  Min(S) \in S /\ \A y \in S : Min(S) <= y
  BY NatMin DEF Min

LEMMA SettledByIs ==
    ASSUME NEW s \in Seq(Promise), NEW n \in 0 .. Len(s)
    PROVE  Range(SubSeq(s, 1, n)) = {s[i] : i \in 1 .. n}
  <1>1. DOMAIN SubSeq(s, 1, n) = 1 .. n /\ \A i \in 1 .. n : SubSeq(s, 1, n)[i] = s[i]
    OBVIOUS
  <1> QED BY <1>1 DEF Range

LEMMA AppendFacts ==
    ASSUME NEW s \in Seq(Promise), NEW p \in Promise
    PROVE  /\ Append(s, p) \in Seq(Promise)
           /\ Len(Append(s, p)) = Len(s) + 1
           /\ Range(Append(s, p)) = Range(s) \cup {p}
           /\ IsInjective(s) /\ p \notin Range(s) => IsInjective(Append(s, p))
           /\ \A n \in 0 .. Len(s) : Range(SubSeq(Append(s, p), 1, n)) = Range(SubSeq(s, 1, n))
  <1>1. /\ Append(s, p) \in Seq(Promise)
        /\ Len(Append(s, p)) = Len(s) + 1
        /\ \A i \in 1 .. Len(s) : Append(s, p)[i] = s[i]
        /\ Append(s, p)[Len(s) + 1] = p
        /\ DOMAIN s = 1 .. Len(s) /\ DOMAIN Append(s, p) = 1 .. Len(s) + 1
        /\ Len(s) \in Nat
    OBVIOUS
  <1>2. Range(Append(s, p)) = Range(s) \cup {p}
    BY <1>1 DEF Range
  <1>3. IsInjective(s) /\ p \notin Range(s) => IsInjective(Append(s, p))
    BY <1>1 DEF IsInjective, Range
  <1>4. ASSUME NEW n \in 0 .. Len(s)
        PROVE  Range(SubSeq(Append(s, p), 1, n)) = Range(SubSeq(s, 1, n))
    <2>1. {Append(s, p)[i] : i \in 1 .. n} = {s[i] : i \in 1 .. n}
      BY <1>1
    <2>2. n \in 0 .. Len(Append(s, p))
      BY <1>1
    <2> QED BY <1>1, <2>1, <2>2, SettledByIs
  <1> QED BY <1>1, <1>2, <1>3, <1>4

LEMMA FlattenOne ==
    ASSUME NEW s
    PROVE  FlattenSeq(<<s>>) = s
  <1> DEFINE IsFlatten(f) == f = [i \in 1 .. 1 |-> IF i = 1 THEN <<s>>[i] ELSE f[i - 1] \o <<s>>[i]]
             g == [i \in 1 .. 1 |-> s]
  <1>1. IsFlatten(g)
    OBVIOUS
  <1>2. IsFlatten(CHOOSE f : IsFlatten(f))
    BY <1>1
  <1>3. ASSUME NEW f, IsFlatten(f)
        PROVE  f[1] = s
    BY <1>3
  <1>4. (CHOOSE f : IsFlatten(f))[1] = s
    BY <1>2, <1>3
  <1>5. Len(<<s>>) = 1
    OBVIOUS
  <1> QED BY <1>4, <1>5 DEF FlattenSeq

(* The first member in a set is one of the members that are in it. *)
LEMMA FirstInIsMember ==
    ASSUME NEW s \in Seq(Promise), NEW S, Range(s) \cap S # {}
    PROVE  FirstIn(s, S) \in Range(s) \cap S
  <1> DEFINE I == {i \in 1 .. Len(s) : s[i] \in S}
  <1>1. I # {} /\ I \in SUBSET Nat
    BY DEF Range
  <1>2. Min(I) \in I
    BY <1>1, MinIsLeast
  <1>3. FirstIn(s, S) = s[Min(I)]
    BY <1>1 DEF FirstIn, SelectInSeq
  <1>4. Min(I) \in DOMAIN s /\ s[Min(I)] \in S
    BY <1>2
  <1> HIDE DEF I
  <1> QED BY <1>3, <1>4 DEF Range

LEMMA PromisesBegin ==
    ASSUME PromisesAssumption, Init
    PROVE  PromisesInv
  <1>1. <<>> \in Members
    <2>1. <<>> \in [1 .. 0 -> Promise]
      OBVIOUS
    <2>2. 0 \in 0 .. MaxMembers
      BY DEF PromisesAssumption
    <2> QED BY <2>1, <2>2 DEF Members
  <1>2. TypeInv
    <2>1. TypeOK
      BY <1>1 DEF Init, TypeOK, IsInjective, Range, Done, Promise
    <2> QED BY <2>1 DEF Init, TypeInv, Outcomes
  <1>3. ASSUME NEW a \in Aggregate
        PROVE  PendingRight(a) /\ SourceRight(a)
    BY <1>3 DEF Init, PendingRight, SourceRight, Done, Promise
  <1>4. ASSUME NEW h \in Thenable
        PROVE  FirstHeld(h)
    BY <1>4 DEF Init, FirstHeld, Done, Promise
  <1>5. MadeBeforeSettled
    BY DEF Init, MadeBeforeSettled, Done, Promise
  <1> QED BY <1>2, <1>3, <1>4, <1>5 DEF PromisesInv

(* A promise settles that had not.                                          *)
LEMMA SettleFacts ==
    ASSUME TypeInv, NEW p \in Promise, NEW how \in Outcomes, NEW v, ~Done(p), Settle(p, how, v)
    PROVE  /\ outcome' \in [Promise -> {"pending", "fulfilled", "rejected"}]
           /\ outcome'[p] = how /\ value'[p] = v
           /\ \A q \in Promise \ {p} : outcome'[q] = outcome[q] /\ value'[q] = value[q]
           /\ value' = [q \in Promise |-> value'[q]]
           /\ order' \in Seq(Promise) /\ IsInjective(order')
           /\ Range(order') = {q \in Promise : Done(q)'}
           /\ Len(order') = Len(order) + 1
           /\ order' = Append(order, p)
  <1>1. /\ outcome' \in [Promise -> {"pending", "fulfilled", "rejected"}]
        /\ outcome'[p] = how
        /\ \A q \in Promise \ {p} : outcome'[q] = outcome[q]
    BY DEF Settle, TypeInv, TypeOK, Outcomes
  <1>2. DOMAIN value = Promise
    BY DEF TypeInv
  <1>3. /\ value'[p] = v
        /\ \A q \in Promise \ {p} : value'[q] = value[q]
        /\ value' = [q \in Promise |-> value'[q]]
    BY <1>2 DEF Settle
  <1>4. order \in Seq(Promise) /\ IsInjective(order) /\ Range(order) = {q \in Promise : Done(q)}
    BY DEF TypeInv, TypeOK
  <1>5. order' = Append(order, p)
    BY DEF Settle
  <1>6. p \notin Range(order)
    BY <1>4
  <1>7. /\ order' \in Seq(Promise) /\ IsInjective(order')
        /\ Range(order') = Range(order) \cup {p} /\ Len(order') = Len(order) + 1
    BY <1>4, <1>5, <1>6, AppendFacts
  <1>8. \A q \in Promise : Done(q)' <=> Done(q) \/ q = p
    BY <1>1 DEF Done, Outcomes
  <1> QED BY <1>1, <1>3, <1>4, <1>5, <1>7, <1>8

-----------------------------------------------------------------------------
(* The two polls, as kinds of steps: a member decides, all are fulfilled,  *)
(* or nothing is decided yet.                                              *)
FromMember(a, m) ==
    /\ m \in Range(members[a]) /\ Done(m)
    /\ Settle(a, outcome[m], value[m])
    /\ handled' = IF Rejected(m) THEN [handled EXCEPT ![m] = TRUE] ELSE handled
    /\ source' = [source EXCEPT ![a] = <<m>>]

FromAll(a) ==
    /\ \A i \in DOMAIN members[a] : outcome[members[a][i]] = "fulfilled"
    /\ Settle(a, "fulfilled", FlattenSeq([i \in DOMAIN members[a] |-> value[members[a][i]]]))
    /\ source' = [source EXCEPT ![a] = members[a]]
    /\ UNCHANGED handled

Undecided(a) ==
    /\ StillPending
    /\ IF form[a] = "race" THEN \A m \in Range(members[a]) : ~Done(m)
       ELSE /\ \A m \in Range(members[a]) : ~Rejected(m)
            /\ \E m \in Range(members[a]) : ~Done(m)

LEMMA MembersTyped ==
    ASSUME PromisesAssumption, TypeInv, NEW a \in Aggregate
    PROVE  members[a] \in Seq(Promise) /\ Range(members[a]) \subseteq Promise
  <1>1. PICK n \in 0 .. MaxMembers : members[a] \in [1 .. n -> Promise]
    BY DEF TypeInv, TypeOK, Members
  <1>2. n \in Nat
    BY DEF PromisesAssumption
  <1> QED BY <1>1, <1>2 DEF Range

LEMMA PollKinds ==
    ASSUME PromisesAssumption, TypeInv, NEW a \in Aggregate, Poll(a)
    PROVE  (\E m \in Promise : FromMember(a, m)) \/ FromAll(a) \/ Undecided(a)
  <1> DEFINE ms == members[a]
             bad == {m \in Range(ms) : Rejected(m)}
             settled == {m \in Range(ms) : Done(m)}
  <1>1. ms \in Seq(Promise) /\ Range(ms) \subseteq Promise
    BY MembersTyped
  <1>2. \A S : Range(ms) \cap S # {} => FirstIn(ms, S) \in Range(ms) \cap S
    BY <1>1, FirstInIsMember
  <1>3. \A m \in Range(ms) : ms # <<>> /\ outcome[m] \in {"pending", "fulfilled", "rejected"}
    BY <1>1 DEF TypeInv, TypeOK, Range
  <1>4. ASSUME NEW m \in bad, RejectFrom(a, m)
        PROVE  FromMember(a, m) /\ m \in Promise
    BY <1>1, <1>4 DEF RejectFrom, FromMember, Rejected, Done
  <1>5. CASE form[a] = "all"
    <2>1. PollAll(a)
      BY <1>5 DEF Poll
    <2>2. CASE bad # {}
      <3>1. FirstIn(ms, bad) \in bad
        BY <1>2, <2>2
      <3>2. RejectFrom(a, FirstIn(ms, bad))
        BY <2>1, <2>2 DEF PollAll
      <3> QED BY <1>4, <3>1, <3>2
    <2>3. CASE bad = {} /\ \A i \in DOMAIN ms : Done(ms[i])
      <3>1. /\ Settle(a, "fulfilled", FlattenSeq([i \in DOMAIN ms |-> value[ms[i]]]))
            /\ source' = [source EXCEPT ![a] = ms]
            /\ UNCHANGED handled
        BY <2>1, <2>3 DEF PollAll
      <3>2. \A i \in DOMAIN ms : outcome[ms[i]] = "fulfilled"
        BY <1>3, <2>3 DEF Done, Rejected, Range
      <3> QED BY <3>1, <3>2 DEF FromAll
    <2>4. CASE bad = {} /\ ~\A i \in DOMAIN ms : Done(ms[i])
      <3>1. StillPending
        BY <2>1, <2>4 DEF PollAll
      <3>2. \A m \in Range(ms) : ~Rejected(m)
        BY <2>4
      <3>3. \E m \in Range(ms) : ~Done(m)
        BY <2>4 DEF Range
      <3> QED BY <1>5, <3>1, <3>2, <3>3 DEF Undecided
    <2> QED BY <2>2, <2>3, <2>4
  <1>6. CASE form[a] # "all"
    <2>1. form[a] = "race" /\ PollRace(a)
      BY <1>6 DEF Poll, TypeInv, TypeOK
    <2>2. CASE settled = {}
      BY <2>1, <2>2 DEF PollRace, Undecided
    <2>3. CASE settled # {}
      <3>1. FirstIn(ms, settled) \in settled
        BY <1>2, <2>3
      <3>2. PICK m \in settled : m = FirstIn(ms, settled)
        BY <3>1
      <3>3. IF Rejected(m) THEN RejectFrom(a, m)
            ELSE /\ Settle(a, "fulfilled", value[m])
                 /\ source' = [source EXCEPT ![a] = <<m>>]
                 /\ UNCHANGED handled
        BY <2>1, <2>3, <3>2 DEF PollRace
      <3>4. CASE Rejected(m)
        BY <1>4, <3>3, <3>4
      <3>5. CASE ~Rejected(m)
        <4>1. outcome[m] = "fulfilled" /\ m \in Promise
          BY <1>1, <1>3, <3>2, <3>5 DEF Rejected, Done
        <4> QED BY <3>2, <3>3, <3>5, <4>1 DEF FromMember
      <3> QED BY <3>4, <3>5
    <2> QED BY <2>2, <2>3
  <1> QED BY <1>5, <1>6

(* Who settles in a step, if anybody does.                                  *)
LEMMA WhoSettles ==
    ASSUME PromisesAssumption, PromisesInv, Next
    PROVE  \/ UNCHANGED <<outcome, value, order>>
           \/ \E p \in Promise, how \in Outcomes : \E v : ~Done(p) /\ Settle(p, how, v)
  <1>1. CASE \E l \in Leaf, how \in {"fulfilled", "rejected"} : SettleLeaf(l, how)
    BY <1>1 DEF SettleLeaf, Promise, Outcomes
  <1>2. ASSUME NEW a \in Aggregate, Poll(a)
        PROVE  \/ UNCHANGED <<outcome, value, order>>
               \/ \E p \in Promise, how \in Outcomes : \E v : ~Done(p) /\ Settle(p, how, v)
    <2>1. ~Done(a) /\ a \in Promise
      BY <1>2 DEF Poll, Promise
    <2>2. ASSUME NEW m \in Promise, FromMember(a, m)
          PROVE  outcome[m] \in Outcomes /\ Settle(a, outcome[m], value[m])
      BY <2>2 DEF FromMember, Done, Outcomes, PromisesInv, TypeInv, TypeOK
    <2>3. ASSUME FromAll(a)
          PROVE  \E v : Settle(a, "fulfilled", v)
      BY <2>3 DEF FromAll
    <2>4. ASSUME Undecided(a)
          PROVE  UNCHANGED <<outcome, value, order>>
      BY <2>4 DEF Undecided, StillPending
    <2>5. "fulfilled" \in Outcomes
      BY DEF Outcomes
    <2> QED BY <1>2, <2>1, <2>2, <2>3, <2>4, <2>5, PollKinds DEF PromisesInv
  <1>3. ASSUME NEW h \in Thenable, ThenThrows(h)
        PROVE  \E v : h \in Promise /\ ~Done(h) /\ "rejected" \in Outcomes /\ Settle(h, "rejected", v)
    BY <1>3 DEF ThenThrows, Promise, Outcomes
  <1>4. ASSUME NEW h \in Thenable, ReceiveSettlement(h)
        PROVE  \E p \in Promise, how \in Outcomes : \E v : ~Done(p) /\ Settle(p, how, v)
    <2>1. status[h] \in Seq(Outcomes) /\ status[h] # <<>>
      BY <1>4 DEF ReceiveSettlement, PromisesInv, TypeInv
    <2>2. Head(status[h]) \in Outcomes
      BY <2>1
    <2>3. ~Done(h) /\ Settle(h, Head(status[h]), <<Head(payload[h])>>) /\ h \in Promise
      BY <1>4 DEF ReceiveSettlement, Promise
    <2> QED BY <2>2, <2>3
  <1>5. ASSUME NEW a \in Aggregate, NEW how, NEW fromArray, NEW ms, MakeAggregate(a, how, fromArray, ms)
        PROVE  UNCHANGED <<outcome, value, order>>
    BY <1>5 DEF MakeAggregate
  <1>6. ASSUME NEW a \in Aggregate, NEW i, NEW p, Replace(a, i, p)
        PROVE  UNCHANGED <<outcome, value, order>>
    BY <1>6 DEF Replace
  <1>7. ASSUME NEW h \in Thenable, NEW how,
               CallThen(h) \/ CallSettler(h, how) \/ ThenReturns(h)
        PROVE  UNCHANGED <<outcome, value, order>>
    BY <1>7 DEF CallThen, CallSettler, ThenReturns
  <1> QED BY <1>1, <1>2, <1>3, <1>4, <1>5, <1>6, <1>7 DEF Next

(* What is typed by who settles.                                            *)
LEMMA OutcomesTyped ==
    ASSUME PromisesAssumption, PromisesInv, Next
    PROVE  /\ outcome' \in [Promise -> {"pending", "fulfilled", "rejected"}]
           /\ value' = [p \in Promise |-> value'[p]]
           /\ order' \in Seq(Promise) /\ IsInjective(order')
           /\ Range(order') = {p \in Promise : Done(p)'}
           /\ Len(order) <= Len(order')
           /\ \A p \in Promise : Done(p) => outcome'[p] = outcome[p] /\ value'[p] = value[p] /\ Done(p)'
           /\ order' = order \/ \E p \in Promise : order' = Append(order, p)
  <1>1. TypeInv
    BY DEF PromisesInv
  <1>2. CASE UNCHANGED <<outcome, value, order>>
    <2>1. \A p \in Promise : Done(p)' <=> Done(p)
      BY <1>2 DEF Done
    <2>2. {p \in Promise : Done(p)'} = {p \in Promise : Done(p)}
      BY <2>1
    <2>3. Len(order) <= Len(order')
      BY <1>1, <1>2 DEF TypeInv
    <2> QED BY <1>1, <1>2, <2>1, <2>2, <2>3 DEF TypeInv, TypeOK
  <1>3. CASE \E p \in Promise, how \in Outcomes : \E v : ~Done(p) /\ Settle(p, how, v)
    <2>1. PICK p \in Promise, how \in Outcomes : \E v : ~Done(p) /\ Settle(p, how, v)
      BY <1>3
    <2>2. PICK v : ~Done(p) /\ Settle(p, how, v)
      BY <2>1
    <2>3. /\ outcome' \in [Promise -> {"pending", "fulfilled", "rejected"}]
          /\ \A q \in Promise \ {p} : outcome'[q] = outcome[q] /\ value'[q] = value[q]
          /\ value' = [q \in Promise |-> value'[q]]
          /\ order' \in Seq(Promise) /\ IsInjective(order')
          /\ Range(order') = {q \in Promise : Done(q)'}
          /\ Len(order') = Len(order) + 1
          /\ order' = Append(order, p)
      BY <1>1, <2>2, SettleFacts
    <2>4. Len(order) \in Nat
      BY <1>1 DEF TypeInv
    <2>5. ASSUME NEW q \in Promise, Done(q)
          PROVE  outcome'[q] = outcome[q] /\ value'[q] = value[q] /\ Done(q)'
      BY <2>2, <2>3, <2>5 DEF Done
    <2> QED BY <2>3, <2>4, <2>5
  <1> QED BY <1>2, <1>3, WhoSettles

LEMMA TypeStep ==
    ASSUME PromisesAssumption, PromisesInv, Next
    PROVE  TypeInv'
  <1> USE DEF PromisesInv
  <1> DEFINE Rest ==
            /\ handled \in [Promise -> BOOLEAN]
            /\ form \in [Aggregate -> {"none", "all", "race"}]
            /\ array \in [Aggregate -> BOOLEAN]
            /\ members \in [Aggregate -> Members]
            /\ then \in [Thenable -> {"none", "called", "awaited", "thrown"}]
            /\ \A h \in Thenable : Len(status[h]) <= 1 /\ Len(payload[h]) = Len(status[h])
            /\ touched \subseteq Aggregate
            /\ polled \in [Aggregate -> Nat]
            /\ source \in [Aggregate -> Seq(Promise)]
            /\ settles \in [Thenable -> Seq(Outcomes)]
            /\ status \in [Thenable -> Seq(Outcomes)]
            /\ payload \in [Thenable -> Seq(Thenable \X Nat)]
  <1>0. Rest
    BY DEF TypeInv, TypeOK
  <1>1. ASSUME NEW l \in Leaf, NEW how \in {"fulfilled", "rejected"}, SettleLeaf(l, how)
        PROVE  Rest'
    BY <1>0, <1>1 DEF SettleLeaf
  <1>2. ASSUME NEW a \in Aggregate, Poll(a)
        PROVE  Rest'
    <2>1. polled' \in [Aggregate -> Nat] /\ touched' \subseteq Aggregate
      BY <1>0, <1>2 DEF Poll, TypeInv
    <2>2. handled' \in [Promise -> BOOLEAN] /\ source' \in [Aggregate -> Seq(Promise)]
      <3>1. ASSUME NEW m \in Promise, FromMember(a, m)
            PROVE  handled' \in [Promise -> BOOLEAN] /\ source' \in [Aggregate -> Seq(Promise)]
        BY <1>0, <3>1 DEF FromMember
      <3>2. ASSUME FromAll(a)
            PROVE  handled' \in [Promise -> BOOLEAN] /\ source' \in [Aggregate -> Seq(Promise)]
        BY <1>0, <3>2, MembersTyped DEF FromAll
      <3>3. ASSUME Undecided(a)
            PROVE  handled' \in [Promise -> BOOLEAN] /\ source' \in [Aggregate -> Seq(Promise)]
        BY <1>0, <3>3 DEF Undecided, StillPending
      <3> QED BY <1>2, <3>1, <3>2, <3>3, PollKinds
    <2> QED BY <1>0, <1>2, <2>1, <2>2 DEF Poll
  <1>3. ASSUME NEW a \in Aggregate, NEW how \in {"all", "race"}, NEW fromArray \in BOOLEAN,
               NEW ms \in Members, MakeAggregate(a, how, fromArray, ms)
        PROVE  Rest'
    BY <1>0, <1>3 DEF MakeAggregate
  <1>4. ASSUME NEW a \in Aggregate, NEW i \in 1 .. MaxMembers, NEW p \in Leaf, Replace(a, i, p)
        PROVE  Rest'
    <2>0. members[a] \in Members
      BY <1>0
    <2>1. PICK n \in 0 .. MaxMembers : members[a] \in [1 .. n -> Promise]
      BY <2>0 DEF Members
    <2>2. [members[a] EXCEPT ![i] = p] \in [1 .. n -> Promise]
      BY <2>1 DEF Promise
    <2>3. [members[a] EXCEPT ![i] = p] \in Members
      BY <2>2 DEF Members
    <2>4. members' = [members EXCEPT ![a] = [members[a] EXCEPT ![i] = p]]
      BY <1>0, <1>4 DEF Replace
    <2>5. members' \in [Aggregate -> Members]
      BY <1>0, <2>3, <2>4
    <2> QED BY <1>0, <1>4, <2>5 DEF Replace
  <1>5. ASSUME NEW h \in Thenable, CallThen(h) \/ ThenReturns(h) \/ ThenThrows(h)
        PROVE  Rest'
    BY <1>0, <1>5 DEF CallThen, ThenReturns, ThenThrows
  <1>6. ASSUME NEW h \in Thenable, NEW how \in {"fulfilled", "rejected"}, CallSettler(h, how)
        PROVE  Rest'
    <2>1. settles' \in [Thenable -> Seq(Outcomes)]
      BY <1>0, <1>6 DEF CallSettler, Outcomes
    <2>2. CASE status[h] = <<>>
      <3>1. Len(payload[h]) = 0 /\ payload[h] \in Seq(Thenable \X Nat) /\ Len(settles[h]) + 1 \in Nat
        BY <1>0, <2>2
      <3>2. payload[h] = <<>>
        BY <3>1
      <3>3. <<h, Len(settles[h]) + 1>> \in Thenable \X Nat
        BY <3>1
      <3>4. /\ status' = [status EXCEPT ![h] = <<how>>]
            /\ payload' = [payload EXCEPT ![h] = << <<h, Len(settles[h]) + 1>> >>]
        BY <1>0, <1>6, <2>2, <3>2 DEF CallSettler
      <3>5. /\ <<how>> \in Seq(Outcomes) /\ Len(<<how>>) = 1
            /\ << <<h, Len(settles[h]) + 1>> >> \in Seq(Thenable \X Nat)
            /\ Len(<< <<h, Len(settles[h]) + 1>> >>) = 1
        BY <3>3 DEF Outcomes
      <3> QED BY <1>0, <1>6, <2>1, <3>4, <3>5 DEF CallSettler
    <2>3. CASE status[h] # <<>>
      BY <1>0, <1>6, <2>1, <2>3 DEF CallSettler
    <2> QED BY <2>2, <2>3
  <1>7. ASSUME NEW h \in Thenable, ReceiveSettlement(h)
        PROVE  Rest'
    <2>1. /\ status' = [status EXCEPT ![h] = Tail(status[h])] /\ status[h] # <<>>
          /\ payload' = [payload EXCEPT ![h] = Tail(payload[h])] /\ payload[h] # <<>>
      BY <1>7 DEF ReceiveSettlement
    <2>2. /\ Tail(status[h]) \in Seq(Outcomes) /\ Len(Tail(status[h])) = Len(status[h]) - 1
          /\ Tail(payload[h]) \in Seq(Thenable \X Nat) /\ Len(Tail(payload[h])) = Len(payload[h]) - 1
          /\ Len(status[h]) \in Nat
      BY <1>0, <2>1
    <2> QED BY <1>0, <1>7, <2>1, <2>2 DEF ReceiveSettlement
  <1>8. Rest'
    BY <1>1, <1>2, <1>3, <1>4, <1>5, <1>6, <1>7 DEF Next
  <1> QED BY <1>8, OutcomesTyped DEF TypeInv, TypeOK

-----------------------------------------------------------------------------
(* An aggregate in a step of something else than itself.                   *)
Elsewhere(a) ==
    /\ form'[a] = form[a] /\ polled'[a] = polled[a] /\ source'[a] = source[a]
    /\ a \in touched => a \in touched'
    /\ members'[a] = members[a] \/ (~Done(a) /\ a \in touched')
    /\ outcome'[a] = outcome[a] /\ value'[a] = value[a]
    /\ \A p \in Promise : handled[p] => handled'[p]

LEMMA AggregateSteps ==
    ASSUME PromisesAssumption, PromisesInv, Next, NEW a \in Aggregate
    PROVE  \/ Elsewhere(a)
           \/ Poll(a)
           \/ \E how \in {"all", "race"}, fromArray \in BOOLEAN, ms \in Members :
                MakeAggregate(a, how, fromArray, ms)
  <1> USE DEF PromisesInv
  <1>0. /\ a \in Promise /\ TypeInv
        /\ \A p \in Promise \ {a} : \A how, v : Settle(p, how, v) =>
              outcome'[a] = outcome[a] /\ value'[a] = value[a]
    BY DEF Settle, TypeInv, TypeOK, Promise
  <1>1. ASSUME NEW l \in Leaf, NEW how, SettleLeaf(l, how)
        PROVE  Elsewhere(a)
    BY <1>0, <1>1 DEF SettleLeaf, Elsewhere, Promise, PromisesAssumption
  <1>2. ASSUME NEW b \in Aggregate, Poll(b), a # b
        PROVE  Elsewhere(a)
    <2>1. ASSUME NEW m \in Promise, FromMember(b, m)
          PROVE  Elsewhere(a)
      BY <1>0, <1>2, <2>1 DEF FromMember, Elsewhere, Poll, Promise, TypeInv, TypeOK
    <2>2. ASSUME FromAll(b)
          PROVE  Elsewhere(a)
      BY <1>0, <1>2, <2>2 DEF FromAll, Elsewhere, Poll, Promise, TypeInv, TypeOK
    <2>3. ASSUME Undecided(b)
          PROVE  Elsewhere(a)
      BY <1>0, <1>2, <2>3 DEF Undecided, StillPending, Elsewhere, Poll, TypeInv, TypeOK
    <2> QED BY <1>2, <2>1, <2>2, <2>3, PollKinds
  <1>3. ASSUME NEW b \in Aggregate, NEW how, NEW fromArray, NEW ms,
               MakeAggregate(b, how, fromArray, ms), a # b
        PROVE  Elsewhere(a)
    BY <1>0, <1>3 DEF MakeAggregate, Elsewhere, TypeInv, TypeOK
  <1>4. ASSUME NEW b \in Aggregate, NEW i, NEW p, Replace(b, i, p)
        PROVE  Elsewhere(a)
    BY <1>0, <1>4 DEF Replace, Elsewhere, TypeInv, TypeOK
  <1>5. ASSUME NEW h \in Thenable, NEW how,
               CallThen(h) \/ CallSettler(h, how) \/ ThenReturns(h)
        PROVE  Elsewhere(a)
    BY <1>0, <1>5 DEF CallThen, CallSettler, ThenReturns, Elsewhere
  <1>6. ASSUME NEW h \in Thenable, ThenThrows(h) \/ ReceiveSettlement(h)
        PROVE  Elsewhere(a)
    BY <1>0, <1>6 DEF ThenThrows, ReceiveSettlement, Elsewhere, Promise, PromisesAssumption
  <1> QED BY <1>1, <1>2, <1>3, <1>4, <1>5, <1>6 DEF Next

(* What was settled at a poll is what is settled then, for ever after.     *)
LEMMA SettledByKept ==
    ASSUME PromisesAssumption, PromisesInv, Next, NEW n \in 0 .. Len(order)
    PROVE  Range(SubSeq(order', 1, n)) = SettledBy(n)
  <1>1. order \in Seq(Promise)
    BY DEF PromisesInv, TypeInv
  <1>2. \A p \in Promise : Range(SubSeq(Append(order, p), 1, n)) = Range(SubSeq(order, 1, n))
    BY <1>1, AppendFacts
  <1>3. order' = order \/ \E p \in Promise : order' = Append(order, p)
    BY OutcomesTyped
  <1>4. CASE order' = order
    BY <1>4 DEF SettledBy
  <1>5. ASSUME NEW p \in Promise, order' = Append(order, p)
        PROVE  Range(SubSeq(order', 1, n)) = SettledBy(n)
    BY <1>2, <1>5 DEF SettledBy
  <1> QED BY <1>3, <1>4, <1>5

LEMMA SettledByAll ==
    ASSUME TypeInv
    PROVE  SettledBy(Len(order)) = {p \in Promise : Done(p)}
  <1>1. order \in Seq(Promise) /\ Range(order) = {p \in Promise : Done(p)}
    BY DEF TypeInv, TypeOK
  <1>2. SubSeq(order, 1, Len(order)) = order
    BY <1>1
  <1> QED BY <1>1, <1>2 DEF SettledBy

LEMMA PendingStep ==
    ASSUME PromisesAssumption, PromisesInv, Next, NEW a \in Aggregate
    PROVE  PendingRight(a)'
  <1> DEFINE ms == Range(members[a]) \cap SettledBy(polled[a])
             msN == Range(members'[a]) \cap SettledBy(polled[a])'
  <1>0. TypeInv /\ polled[a] \in 0 .. Len(order) /\ PendingRight(a) /\ a \in Promise
    BY DEF PromisesInv, MadeBeforeSettled, TypeInv, Promise
  <1>1. SettledBy(polled[a]) \subseteq {p \in Promise : Done(p)}
    <2>1. order \in Seq(Promise) /\ Range(order) = {p \in Promise : Done(p)}
      BY <1>0 DEF TypeInv, TypeOK
    <2>2. Range(SubSeq(order, 1, polled[a])) = {order[i] : i \in 1 .. polled[a]}
      BY <1>0, <2>1, SettledByIs
    <2> QED BY <1>0, <2>1, <2>2 DEF SettledBy, Range
  <1>2. CASE Elsewhere(a)
    <2> SUFFICES ASSUME form'[a] # "none", a \notin touched', ~Done(a)'
                 PROVE  IF form'[a] = "race" THEN msN = {}
                        ELSE /\ \A m \in msN : ~Rejected(m)'
                             /\ polled'[a] > 0 => Range(members'[a]) \ msN # {}
      BY DEF PendingRight
    <2>1. /\ form[a] # "none" /\ a \notin touched /\ ~Done(a)
          /\ members'[a] = members[a] /\ form'[a] = form[a] /\ polled'[a] = polled[a]
      BY <1>2 DEF Elsewhere, Done
    <2>2. SettledBy(polled[a])' = SettledBy(polled[a])
      BY <1>0, <2>1, SettledByKept DEF SettledBy
    <2>3. msN = ms
      BY <2>1, <2>2
    <2>4. \A m \in ms : Rejected(m)' <=> Rejected(m)
      BY <1>1, OutcomesTyped DEF Rejected
    <2> QED BY <1>0, <2>1, <2>3, <2>4 DEF PendingRight
  <1>3. CASE Poll(a)
    <2>1. ~Done(a) /\ polled' = [polled EXCEPT ![a] = Len(order)]
          /\ UNCHANGED <<form, members>>
      BY <1>3 DEF Poll
    <2>2. ASSUME NEW m \in Promise, FromMember(a, m)
          PROVE  Done(a)'
      BY <1>0, <2>2 DEF FromMember, Settle, Done, TypeInv, TypeOK
    <2>3. ASSUME FromAll(a)
          PROVE  Done(a)'
      BY <1>0, <2>3 DEF FromAll, Settle, Done, TypeInv, TypeOK
    <2>4. ASSUME Undecided(a)
          PROVE  PendingRight(a)'
      <3>1. outcome' = outcome /\ order' = order
        BY <2>4 DEF Undecided, StillPending
      <3>2. SettledBy(polled[a])' = SettledBy(Len(order))
        BY <1>0, <2>1, <3>1 DEF SettledBy, TypeInv
      <3>3. SettledBy(polled[a])' = {p \in Promise : Done(p)}
        BY <1>0, <3>2, SettledByAll
      <3>4. Range(members[a]) \subseteq Promise
        BY <1>0, MembersTyped
      <3>5. CASE form[a] = "race"
        BY <2>1, <2>4, <3>1, <3>3, <3>4, <3>5 DEF Undecided, PendingRight
      <3>6. CASE form[a] # "race"
        <4>1. /\ \A m \in Range(members[a]) : ~Rejected(m)
              /\ \E m \in Range(members[a]) : ~Done(m)
          BY <2>4, <3>6 DEF Undecided
        <4> QED BY <2>1, <3>1, <3>3, <3>4, <3>6, <4>1 DEF PendingRight, Rejected
      <3> QED BY <3>5, <3>6
    <2> QED BY <1>0, <1>3, <2>2, <2>3, <2>4, PollKinds DEF PendingRight
  <1>4. ASSUME NEW how, NEW fromArray, NEW mems, MakeAggregate(a, how, fromArray, mems)
        PROVE  PendingRight(a)'
    <2>1. polled'[a] = 0 /\ order' = order
      BY <1>4 DEF MakeAggregate, PromisesInv, MadeBeforeSettled
    <2>2. SettledBy(polled[a])' = Range(SubSeq(order, 1, 0))
      BY <2>1 DEF SettledBy
    <2>3. Range(SubSeq(order, 1, 0)) = {}
      <3>1. order \in Seq(Promise) /\ 0 \in 0 .. Len(order) /\ 1 .. 0 = {}
        BY <1>0 DEF TypeInv
      <3>2. Range(SubSeq(order, 1, 0)) = {order[i] : i \in 1 .. 0}
        BY <3>1, SettledByIs
      <3> QED BY <3>1, <3>2
    <2> QED BY <2>1, <2>2, <2>3 DEF PendingRight
  <1> QED BY <1>2, <1>3, <1>4, AggregateSteps

(* An aggregate settles from its members, and nothing changes that.        *)
LEMMA SourceStep ==
    ASSUME PromisesAssumption, PromisesInv, Next, NEW a \in Aggregate
    PROVE  SourceRight(a)'
  <1>0. /\ TypeInv /\ SourceRight(a) /\ a \in Promise
        /\ source[a] \in Seq(Promise) /\ DOMAIN source = Aggregate
        /\ members[a] \in Seq(Promise)
    BY MembersTyped DEF PromisesInv, TypeInv, Promise
  <1> PICK src \in Seq(Promise), mems \in Seq(Promise) : src = source[a] /\ mems = members[a]
    BY <1>0
  <1>1. \A p \in Promise : Done(p) => /\ outcome'[p] = outcome[p] /\ value'[p] = value[p]
                                      /\ Done(p)' /\ (Rejected(p)' <=> Rejected(p))
    BY OutcomesTyped DEF Rejected
  <1>2. CASE Elsewhere(a)
    <2> SUFFICES ASSUME Done(a)'
                 PROVE  SourceRight(a)'
      BY DEF SourceRight
    <2>1. /\ Done(a) /\ source'[a] = src /\ members'[a] = members[a] /\ value'[a] = value[a]
          /\ Rejected(a)' <=> Rejected(a)
          /\ \A p \in Promise : handled[p] => handled'[p]
      BY <1>2 DEF Elsewhere, Done, Rejected
    <2>2. \A i \in DOMAIN src : /\ src[i] \in Promise /\ Done(src[i]) /\ Done(src[i])'
                                /\ value'[src[i]] = value[src[i]]
                                /\ Rejected(src[i])' <=> Rejected(src[i])
      BY <1>0, <1>1, <2>1 DEF SourceRight
    <2>3. [i \in DOMAIN src |-> value'[src[i]]] = [i \in DOMAIN src |-> value[src[i]]]
      BY <2>2
    <2>4. value[a] = FlattenSeq([i \in DOMAIN src |-> value[src[i]]])
      BY <1>0, <2>1 DEF SourceRight
    <2>5. value'[a] = FlattenSeq([i \in DOMAIN source'[a] |-> value'[source'[a][i]]])
      BY <2>1, <2>3, <2>4
    <2>6. /\ \A i \in DOMAIN src : src[i] = members[a][i] \/ Len(src) = 1
          /\ Rejected(a) => \E i \in DOMAIN src : Rejected(src[i]) /\ handled[src[i]]
          /\ ~Rejected(a) => \A i \in DOMAIN src : ~Rejected(src[i])
      BY <1>0, <2>1 DEF SourceRight
    <2>7. /\ Rejected(a)' => \E i \in DOMAIN src : Rejected(src[i])' /\ handled'[src[i]]
          /\ ~Rejected(a)' => \A i \in DOMAIN src : ~Rejected(src[i])'
      BY <2>1, <2>2, <2>6
    <2> QED BY <2>1, <2>2, <2>5, <2>6, <2>7 DEF SourceRight
  <1>3. CASE Poll(a)
    <2>1. ~Done(a) /\ members' = members
      BY <1>3 DEF Poll
    <2>2. ASSUME NEW m \in Promise, FromMember(a, m)
          PROVE  SourceRight(a)'
      <3>1. /\ Done(m) /\ m # a /\ source'[a] = <<m>>
            /\ outcome'[a] = outcome[m] /\ value'[a] = value[m]
        BY <1>0, <2>1, <2>2 DEF FromMember, Settle, TypeInv, TypeOK
      <3>2. Rejected(m) => handled'[m]
        BY <1>0, <2>2 DEF FromMember, TypeInv, TypeOK
      <3>3. /\ value'[m] = value[m] /\ Done(m)' /\ (Rejected(m)' <=> Rejected(m))
            /\ Rejected(a)' <=> Rejected(m)
        BY <1>1, <3>1 DEF Rejected
      <3>4. DOMAIN <<m>> = {1} /\ <<m>>[1] = m /\ Len(<<m>>) = 1
        OBVIOUS
      <3>5. [i \in DOMAIN <<m>> |-> value'[<<m>>[i]]] = <<value[m]>>
        BY <3>3, <3>4
      <3>6. value'[a] = FlattenSeq([i \in DOMAIN source'[a] |-> value'[source'[a][i]]])
        BY <3>1, <3>5, FlattenOne
      <3>7. \A i \in DOMAIN source'[a] : source'[a][i] = m
        BY <3>1, <3>4
      <3> QED BY <3>1, <3>2, <3>3, <3>4, <3>6, <3>7 DEF SourceRight
    <2>3. ASSUME FromAll(a)
          PROVE  SourceRight(a)'
      <3>1. /\ source'[a] = mems /\ members'[a] = mems /\ outcome'[a] = "fulfilled"
            /\ value'[a] = FlattenSeq([i \in DOMAIN mems |-> value[mems[i]]])
        BY <1>0, <2>1, <2>3 DEF FromAll, Settle, TypeInv, TypeOK
      <3>2. \A i \in DOMAIN mems :
                /\ mems[i] \in Promise /\ Done(mems[i]) /\ ~Rejected(mems[i])
        BY <1>0, <2>3 DEF FromAll, Done, Rejected
      <3>3. \A i \in DOMAIN mems :
                /\ value'[mems[i]] = value[mems[i]]
                /\ Done(mems[i])' /\ ~Rejected(mems[i])'
        BY <1>1, <3>2
      <3>4. [i \in DOMAIN mems |-> value'[mems[i]]]
                = [i \in DOMAIN mems |-> value[mems[i]]]
        BY <3>3
      <3>5. value'[a] = FlattenSeq([i \in DOMAIN source'[a] |-> value'[source'[a][i]]])
        BY <3>1, <3>4
      <3>6. ~Rejected(a)'
        BY <3>1 DEF Rejected
      <3> QED BY <2>1, <3>1, <3>3, <3>5, <3>6 DEF SourceRight
    <2>4. ASSUME Undecided(a)
          PROVE  SourceRight(a)'
      BY <2>1, <2>4 DEF Undecided, StillPending, SourceRight, Done
    <2> QED BY <1>0, <1>3, <2>2, <2>3, <2>4, PollKinds
  <1>4. ASSUME NEW how, NEW fromArray, NEW ms, MakeAggregate(a, how, fromArray, ms)
        PROVE  SourceRight(a)'
    BY <1>4 DEF MakeAggregate, PromisesInv, MadeBeforeSettled, SourceRight, Done
  <1> QED BY <1>2, <1>3, <1>4, AggregateSteps

-----------------------------------------------------------------------------
(* A thenable in a step of something else than itself.                     *)
Aside(h) ==
    /\ then'[h] = then[h] /\ settles'[h] = settles[h]
    /\ status'[h] = status[h] /\ payload'[h] = payload[h]
    /\ outcome'[h] = outcome[h] /\ value'[h] = value[h]

LEMMA ThenableSteps ==
    ASSUME PromisesAssumption, PromisesInv, Next, NEW h \in Thenable
    PROVE  \/ Aside(h)
           \/ CallThen(h) \/ ThenReturns(h) \/ ThenThrows(h) \/ ReceiveSettlement(h)
           \/ \E how \in Outcomes : CallSettler(h, how)
  <1>0. /\ h \in Promise /\ h \notin Leaf /\ h \notin Aggregate /\ TypeInv
        /\ \A p \in Promise \ {h} : \A how, v : Settle(p, how, v) =>
              outcome'[h] = outcome[h] /\ value'[h] = value[h]
    BY DEF Settle, PromisesInv, TypeInv, TypeOK, Promise, PromisesAssumption
  <1>1. ASSUME NEW l \in Leaf, NEW how, SettleLeaf(l, how)
        PROVE  Aside(h)
    BY <1>0, <1>1 DEF SettleLeaf, Aside, Promise
  <1>2. ASSUME NEW a \in Aggregate, Poll(a)
        PROVE  Aside(h)
    <2>0. UNCHANGED <<then, status, payload, settles>> /\ a \in Promise
      BY <1>2 DEF Poll, Promise
    <2>1. ASSUME NEW m \in Promise, FromMember(a, m)
          PROVE  Aside(h)
      BY <1>0, <2>0, <2>1 DEF FromMember, Aside
    <2>2. ASSUME FromAll(a)
          PROVE  Aside(h)
      BY <1>0, <2>0, <2>2 DEF FromAll, Aside
    <2>3. ASSUME Undecided(a)
          PROVE  Aside(h)
      BY <2>0, <2>3 DEF Undecided, StillPending, Aside
    <2> QED BY <1>0, <1>2, <2>1, <2>2, <2>3, PollKinds
  <1>3. ASSUME NEW a \in Aggregate, NEW how, NEW fromArray, NEW ms, NEW i, NEW p,
               MakeAggregate(a, how, fromArray, ms) \/ Replace(a, i, p)
        PROVE  Aside(h)
    BY <1>3 DEF MakeAggregate, Replace, Aside
  <1>4. ASSUME NEW g \in Thenable, g # h, NEW how,
               \/ CallThen(g) \/ CallSettler(g, how) \/ ThenReturns(g)
               \/ ThenThrows(g) \/ ReceiveSettlement(g)
        PROVE  Aside(h)
    BY <1>0, <1>4 DEF CallThen, CallSettler, ThenReturns, ThenThrows, ReceiveSettlement, Aside,
                      TypeInv, TypeOK, Promise
  <1> QED BY <1>1, <1>2, <1>3, <1>4 DEF Next, Outcomes

LEMMA FirstStep ==
    ASSUME PromisesAssumption, PromisesInv, Next, NEW h \in Thenable
    PROVE  FirstHeld(h)'
  <1>0. /\ TypeInv /\ FirstHeld(h) /\ h \in Promise
        /\ then[h] \in {"none", "called"} => ~Done(h)
        /\ settles[h] \in Seq(Outcomes)
    BY DEF PromisesInv, MadeBeforeSettled, TypeInv, Promise
  <1>1. CASE Aside(h)
    BY <1>0, <1>1 DEF Aside, FirstHeld, Done
  <1>2. CASE CallThen(h) \/ ThenReturns(h)
    BY <1>0, <1>2 DEF CallThen, ThenReturns, FirstHeld, Done, TypeInv, TypeOK
  <1>3. CASE ThenThrows(h)
    <2>1. then'[h] = "thrown" /\ Done(h)'
      BY <1>0, <1>3 DEF ThenThrows, Settle, Done, TypeInv, TypeOK
    <2> QED BY <2>1 DEF FirstHeld
  <1>4. CASE ReceiveSettlement(h)
    <2>1. /\ then[h] = "awaited" /\ ~Done(h) /\ status[h] # <<>>
          /\ then' = then /\ settles' = settles
          /\ outcome'[h] = Head(status[h]) /\ value'[h] = <<Head(payload[h])>>
      BY <1>0, <1>4 DEF ReceiveSettlement, Settle, TypeInv, TypeOK
    <2>2. settles[h] # <<>> /\ status[h] = <<settles[h][1]>> /\ payload[h] = << <<h, 1>> >>
      BY <1>0, <2>1 DEF FirstHeld
    <2>3. outcome'[h] = settles[h][1] /\ value'[h] = << <<h, 1>> >>
      BY <2>1, <2>2
    <2>4. settles[h][1] \in Outcomes
      BY <1>0, <2>2
    <2>5. Done(h)'
      BY <2>3, <2>4 DEF Done, Outcomes
    <2> QED BY <2>1, <2>2, <2>3, <2>5 DEF FirstHeld
  <1>5. ASSUME NEW how \in Outcomes, CallSettler(h, how)
        PROVE  FirstHeld(h)'
    <2>1. /\ then[h] # "none" /\ then' = then /\ outcome' = outcome /\ value' = value
          /\ settles'[h] = Append(settles[h], how)
      BY <1>0, <1>5 DEF CallSettler, TypeInv
    <2>2. /\ settles'[h] # <<>>
          /\ settles'[h][1] = IF settles[h] = <<>> THEN how ELSE settles[h][1]
      <3>1. PICK s \in Seq(Outcomes) : s = settles[h]
        BY <1>0
      <3>2. CASE s = <<>>
        BY <2>1, <3>1, <3>2
      <3>3. CASE s # <<>>
        <4>1. Len(s) \in Nat \ {0} /\ Append(s, how)[1] = s[1] /\ Len(Append(s, how)) = Len(s) + 1
          BY <3>3
        <4> QED BY <2>1, <3>1, <3>3, <4>1
      <3> QED BY <3>2, <3>3
    <2>3. CASE Done(h)
      BY <1>0, <2>1, <2>2, <2>3 DEF FirstHeld, Done
    <2>4. CASE ~Done(h) /\ settles[h] = <<>>
      <3>1. status[h] = <<>> /\ payload[h] = <<>> /\ Len(settles[h]) = 0
        BY <1>0, <2>4 DEF FirstHeld
      <3>2. status'[h] = <<how>> /\ payload'[h] = << <<h, 1>> >>
        BY <1>0, <1>5, <3>1 DEF CallSettler, TypeInv
      <3> QED BY <2>1, <2>2, <2>4, <3>2 DEF FirstHeld, Done
    <2>5. CASE ~Done(h) /\ settles[h] # <<>>
      <3>1. status[h] = <<settles[h][1]>> /\ payload[h] = << <<h, 1>> >>
        BY <1>0, <2>5 DEF FirstHeld
      <3>2. status' = status /\ payload' = payload
        BY <1>5, <3>1 DEF CallSettler
      <3> QED BY <2>1, <2>2, <2>5, <3>1, <3>2 DEF FirstHeld, Done
    <2> QED BY <2>3, <2>4, <2>5
  <1> QED BY <1>1, <1>2, <1>3, <1>4, <1>5, ThenableSteps

LEMMA MadeStep ==
    ASSUME PromisesAssumption, PromisesInv, Next
    PROVE  MadeBeforeSettled'
  <1>0. /\ TypeInv /\ MadeBeforeSettled /\ Len(order) <= Len(order')
        /\ Len(order) \in Nat /\ Len(order') \in Nat
    BY OutcomesTyped DEF PromisesInv, TypeInv
  <1>1. ASSUME NEW a \in Aggregate
        PROVE  polled'[a] <= Len(order') /\ (form'[a] = "none" => ~Done(a)' /\ polled'[a] = 0)
    <2>0. polled[a] \in Nat /\ polled[a] <= Len(order) /\ (form[a] = "none" => ~Done(a) /\ polled[a] = 0)
      BY <1>0 DEF MadeBeforeSettled, TypeInv
    <2>1. CASE Elsewhere(a)
      BY <1>0, <2>0, <2>1 DEF Elsewhere, Done
    <2>2. CASE Poll(a)
      BY <1>0, <2>0, <2>2 DEF Poll, TypeInv
    <2>3. ASSUME NEW how \in {"all", "race"}, NEW fromArray, NEW ms, MakeAggregate(a, how, fromArray, ms)
          PROVE  form'[a] # "none" /\ polled' = polled
      BY <1>0, <2>3 DEF MakeAggregate, TypeInv, TypeOK
    <2> QED BY <1>0, <2>0, <2>1, <2>2, <2>3, AggregateSteps
  <1>2. ASSUME NEW h \in Thenable, then'[h] \in {"none", "called"}
        PROVE  ~Done(h)'
    BY <1>0, <1>2, ThenableSteps
       DEF Aside, CallThen, CallSettler, ThenReturns, ThenThrows, ReceiveSettlement,
           MadeBeforeSettled, Done, TypeInv, TypeOK
  <1> QED BY <1>1, <1>2 DEF MadeBeforeSettled

LEMMA PromisesStutter ==
    ASSUME PromisesInv, UNCHANGED vars
    PROVE  PromisesInv'
  <1> USE DEF vars, Done, Rejected, SettledBy
  <1>1. TypeInv'
    BY DEF PromisesInv, TypeInv, TypeOK
  <1>2. MadeBeforeSettled'
    BY DEF PromisesInv, MadeBeforeSettled
  <1>3. ASSUME NEW a \in Aggregate
        PROVE  PendingRight(a)' /\ SourceRight(a)'
    BY DEF PromisesInv, PendingRight, SourceRight
  <1>4. ASSUME NEW h \in Thenable
        PROVE  FirstHeld(h)'
    BY DEF PromisesInv, FirstHeld
  <1> QED BY <1>1, <1>2, <1>3, <1>4 DEF PromisesInv

LEMMA InvIsRight ==
    ASSUME PromisesInv
    PROVE  AggregateRight
  <1>1. ASSUME NEW a \in Aggregate, form[a] # "none", a \notin touched
        PROVE  LET ms == Range(members[a]) \cap SettledBy(polled[a]) IN
               IF ~Done(a)
               THEN IF form[a] = "race" THEN ms = {}
                    ELSE /\ \A m \in ms : ~Rejected(m)
                         /\ polled[a] > 0 => Range(members[a]) \ ms # {}
               ELSE TRUE
    BY <1>1 DEF PromisesInv, PendingRight
  <1>2. ASSUME NEW a \in Aggregate, Done(a)
        PROVE  /\ \A i \in DOMAIN source[a] : source[a][i] = members[a][i] \/ Len(source[a]) = 1
               /\ value[a] = FlattenSeq([i \in DOMAIN source[a] |-> value[source[a][i]]])
               /\ Rejected(a) <=> \E m \in Range(source[a]) : Rejected(m) /\ handled[m]
    <2>1. SourceRight(a)
      BY DEF PromisesInv
    <2>2. Rejected(a) => \E m \in Range(source[a]) : Rejected(m) /\ handled[m]
      BY <1>2, <2>1 DEF SourceRight, Range
    <2>3. ~Rejected(a) => \A m \in Range(source[a]) : ~Rejected(m)
      BY <1>2, <2>1 DEF SourceRight, Range
    <2> QED BY <1>2, <2>1, <2>2, <2>3 DEF SourceRight
  <1>3. ASSUME NEW h \in Thenable, Done(h), then[h] = "awaited"
        PROVE  outcome[h] = settles[h][1] /\ value[h] = << <<h, 1>> >>
    BY <1>3 DEF PromisesInv, FirstHeld
  <1> QED BY <1>1, <1>2, <1>3 DEF AggregateRight

(* Promise.all and Promise.race never wait past a poll that saw what        *)
(* decides them, settle from the member that decided them or from all of    *)
(* them in order, and mark a rejection they pass on as handled; a thenable  *)
(* gives its first settlement (promises.go).                                *)
THEOREM AggregatesSettleRight ==
    ASSUME PromisesAssumption
    PROVE  Spec => [](TypeOK /\ AggregateRight)
  <1>1. Init => PromisesInv
    BY PromisesBegin
  <1>2. PromisesInv /\ [Next]_vars => PromisesInv'
    <2>1. ASSUME PromisesInv, Next
          PROVE  PromisesInv'
      BY <2>1, TypeStep, MadeStep, PendingStep, SourceStep, FirstStep DEF PromisesInv
    <2> QED BY <2>1, PromisesStutter
  <1>3. PromisesInv => TypeOK /\ AggregateRight
    BY InvIsRight DEF PromisesInv, TypeInv
  <1> QED BY <1>1, <1>2, <1>3, PTL DEF Spec

-----------------------------------------------------------------------------
(* Containers.                                                              *)

(* The d-th slot that a search for a name looks at, and the slots of a     *)
(* table that hold that name.                                              *)
Spot(s, n, d) == 1 + ((Tables!Home(n, Len(s)) + d) % Len(s))
Holds(s, n) == \E i \in Tables!Occupied(s) : s[i].key = n

(* A table in which searches find what there is: no name is twice in it,   *)
(* and no slot between the home of a name and its entry is empty.          *)
Table == Seq([key : Name \cup {Tables!NoKey}, value : Nat])

Searchable(s) ==
    /\ s \in Table
    /\ s # <<>>
    /\ \A i, j \in Tables!Occupied(s) : s[i].key = s[j].key => i = j
    /\ \A i \in Tables!Occupied(s), d \in 0 .. Len(s) - 1 :
          Spot(s, s[i].key, d) = i =>
              \A e \in 0 .. d - 1 : Spot(s, s[i].key, e) \in Tables!Occupied(s)

Content(s) == {s[i] : i \in Tables!Occupied(s)}

(* Dynamic objects: the table is searchable, holds what was given, and is  *)
(* never more than three quarters full.                                    *)
ObjectRight ==
    /\ Searchable(slots)
    /\ Len(slots) >= 4
    /\ given \in Seq([key : Name, value : Nat])
    /\ \A i, j \in DOMAIN given : given[i].key = given[j].key => i = j
    /\ Content(slots) = {given[i] : i \in DOMAIN given}
    /\ count = Len(given)
    /\ Cardinality(Tables!Occupied(slots)) = count
    /\ 4 * count <= 3 * Len(slots)
    /\ last \in -1 .. Len(slots) - 1

(* Collections: the entries are at the front, in the order given, no two   *)
(* of them of one key, and the rest is zero.                               *)
CollectionRight ==
    /\ slots \in Seq([key : Key \cup {Tables!NoKey}, value : Nat])
    /\ slots # <<>>
    /\ given \in Seq([key : Key, value : Nat])
    /\ count = Len(given)
    /\ count <= Len(slots)
    /\ \A i \in 1 .. count : slots[i] = given[i]
    /\ \A i \in count + 1 .. Len(slots) : slots[i] = Tables!Zero
    /\ \A i, j \in DOMAIN given : Tables!IsSame(given[i].key, given[j].key) => i = j
    /\ last = -1

(* Arrays: likewise. *)
ArrayRight ==
    /\ slots \in Seq(Nat)
    /\ slots # <<>>
    /\ given \in Seq(Nat)
    /\ count = Len(given)
    /\ count <= Len(slots)
    /\ \A i \in 1 .. count : slots[i] = given[i]
    /\ \A i \in count + 1 .. Len(slots) : slots[i] = 0
    /\ last = -1

TablesInv ==
    /\ kind \in Kind
    /\ answer = <<>> \/ \E x : answer = <<x, x>>
    /\ kind = "collection" => CollectionRight
    /\ kind = "object" => ObjectRight
    /\ Tables!IsArray => ArrayRight

(* A function that starts with a and goes on by g, however often: it is    *)
(* defined, and stays where g keeps it.                                    *)
Keeps(g, n, O, T) ==
    /\ \A i \in 0 .. n : O[i] \subseteq T
    /\ \A i \in 1 .. n : \A t \in O[i - 1] : g[<<i, t>>] \in O[i]

Folds(f, n, a, g, O) ==
    /\ f[0] = a
    /\ \A i \in 1 .. n : f[i] = g[<<i, f[i - 1]>>]
    /\ \A i \in 0 .. n : f[i] \in O[i]

LEMMA FoldExists ==
    ASSUME NEW n \in Nat, NEW T, NEW O, NEW g, Keeps(g, n, O, T), NEW a, a \in O[0]
    PROVE  \E f \in [0 .. n -> T] : Folds(f, n, a, g, O)
  <1>0. /\ \A i \in 0 .. n : O[i] \subseteq T
        /\ \A i \in 1 .. n : \A t \in O[i - 1] : g[<<i, t>>] \in O[i]
    BY DEF Keeps
  <1> DEFINE Upto(m, f) == /\ f[0] = a
                           /\ \A i \in 1 .. m : f[i] = g[<<i, f[i - 1]>>]
                           /\ \A i \in 0 .. m : f[i] \in O[i]
             Bad == {m \in 0 .. n : ~\E f \in [0 .. m -> T] : Upto(m, f)}
  <1>1. ASSUME Bad # {}
        PROVE  FALSE
    <2>1. PICK m \in Bad : \A k \in Bad : m <= k
      <3>1. Bad \in SUBSET Nat
        OBVIOUS
      <3> HIDE DEF Bad
      <3> QED BY <1>1, <3>1, NatMin
    <2>2. m \in 0 .. n /\ ~\E f \in [0 .. m -> T] : Upto(m, f)
      OBVIOUS
    <2>3. CASE m = 0
      <3> DEFINE h == [i \in 0 .. 0 |-> a]
      <3>1. h \in [0 .. 0 -> T] /\ Upto(0, h)
        BY <1>0
      <3> QED BY <2>2, <2>3, <3>1
    <2>4. CASE m # 0
      <3>1. m - 1 \in 0 .. n /\ m - 1 \notin Bad
        <4>1. m - 1 \in 0 .. n /\ ~(m <= m - 1)
          BY <2>2, <2>4
        <4> QED BY <2>1, <4>1
      <3>2. PICK f \in [0 .. m - 1 -> T] : Upto(m - 1, f)
        BY <3>1
      <3> DEFINE h == [i \in 0 .. m |-> IF i = m THEN g[<<m, f[m - 1]>>] ELSE f[i]]
      <3>3. \A i \in 0 .. m - 1 : h[i] = f[i] /\ f[i] \in O[i]
        BY <2>2, <3>2
      <3>4. h[m] = g[<<m, f[m - 1]>>] /\ h[m] \in O[m]
        <4>1. m \in 1 .. n /\ m - 1 \in 0 .. m - 1
          BY <2>2, <2>4
        <4>2. f[m - 1] \in O[m - 1]
          BY <3>2, <4>1
        <4>3. m \in 0 .. m
          BY <2>2
        <4> QED BY <1>0, <4>1, <4>2, <4>3
      <3>5. ASSUME NEW i \in 0 .. m
            PROVE  h[i] \in O[i]
        <4>1. i \in 0 .. m - 1 \/ i = m
          BY <2>2
        <4> HIDE DEF h
        <4> QED BY <3>3, <3>4, <4>1
      <3>6. h \in [0 .. m -> T]
        <4>1. \A i \in 0 .. m : h[i] \in T
          BY <1>0, <2>2, <3>5
        <4> QED BY <4>1
      <3>7. \A i \in 1 .. m : h[i] = g[<<i, h[i - 1]>>]
        <4> TAKE i \in 1 .. m
        <4>1. CASE i = m
          <5>1. m - 1 \in 0 .. m - 1
            BY <2>2, <2>4
          <5> QED BY <3>3, <3>4, <4>1, <5>1
        <4>2. CASE i # m
          <5>1. i \in 1 .. m - 1 /\ i \in 0 .. m - 1 /\ i - 1 \in 0 .. m - 1
            BY <2>2, <4>2
          <5> QED BY <3>2, <3>3, <5>1
        <4> QED BY <4>1, <4>2
      <3>8. h[0] = a
        BY <2>2, <2>4, <3>2, <3>3
      <3> HIDE DEF h
      <3> QED BY <2>2, <3>5, <3>6, <3>7, <3>8
    <2> QED BY <2>3, <2>4
  <1>2. n \in 0 .. n /\ n \notin Bad
    BY <1>1
  <1> QED BY <1>2 DEF Folds

LEMMA SpotFacts ==
    ASSUME NEW s \in Table, s # <<>>, NEW n \in Name, HashOf \in [Name -> Nat]
    PROVE  /\ \A d \in 0 .. Len(s) - 1 : Spot(s, n, d) \in 1 .. Len(s)
           /\ \A d, e \in 0 .. Len(s) - 1 : Spot(s, n, d) = Spot(s, n, e) => d = e
           /\ \A i \in 1 .. Len(s) : \E d \in 0 .. Len(s) - 1 : Spot(s, n, d) = i
  <1> DEFINE size == Len(s)
             h == HashOf[n] % size
  <1>1. size \in Nat \ {0}
    BY DEF Table
  <1>2. h \in 0 .. size - 1
    <2>1. HashOf[n] \in Nat
      OBVIOUS
    <2> HIDE DEF size
    <2> QED BY <1>1, <2>1
  <1>3. \A d : Spot(s, n, d) = 1 + ((h + d) % size)
    BY DEF Spot, Tables!Home
  <1> HIDE DEF size, h
  <1>4. \A d \in 0 .. size - 1 : (h + d) % size = IF h + d < size THEN h + d ELSE h + d - size
    BY <1>1, <1>2
  <1>5. \A d \in 0 .. size - 1 : Spot(s, n, d) = IF h + d < size THEN 1 + h + d ELSE 1 + h + d - size
    <2> TAKE d \in 0 .. size - 1
    <2>1. Spot(s, n, d) = 1 + ((h + d) % size)
      BY <1>3
    <2>2. (h + d) % size = IF h + d < size THEN h + d ELSE h + d - size
      BY <1>4
    <2> QED BY <1>1, <1>2, <2>1, <2>2
  <1>6. \A d \in 0 .. size - 1 : Spot(s, n, d) \in 1 .. size
    BY <1>1, <1>2, <1>5
  <1>7. \A d, e \in 0 .. size - 1 : Spot(s, n, d) = Spot(s, n, e) => d = e
    BY <1>1, <1>2, <1>5
  <1>8. ASSUME NEW i \in 1 .. size
        PROVE  \E d \in 0 .. size - 1 : Spot(s, n, d) = i
    <2>1. CASE i - 1 >= h
      <3>1. i - 1 - h \in 0 .. size - 1 /\ Spot(s, n, i - 1 - h) = i
        BY <1>1, <1>2, <1>5, <2>1
      <3> QED BY <3>1
    <2>2. CASE i - 1 < h
      <3>1. i - 1 - h + size \in 0 .. size - 1 /\ Spot(s, n, i - 1 - h + size) = i
        BY <1>1, <1>2, <1>5, <2>2
      <3> QED BY <3>1
    <2> QED BY <1>1, <1>2, <2>1, <2>2
  <1> QED BY <1>6, <1>7, <1>8 DEF size

(* The first empty slot that a search for a name comes to. *)
FirstFree(s, n, i) ==
    /\ i \in 1 .. Len(s)
    /\ i \notin Tables!Occupied(s)
    /\ \E d \in 0 .. Len(s) - 1 :
          /\ Spot(s, n, d) = i
          /\ \A e \in 0 .. d - 1 : Spot(s, n, e) \in Tables!Occupied(s)

(* A search finds the name where it is, and otherwise its first empty slot. *)
LEMMA ProbeFinds ==
    ASSUME NEW s, Searchable(s), NEW n \in Name, HashOf \in [Name -> Nat], Tables!NoKey \notin Name,
           1 .. Len(s) \ Tables!Occupied(s) # {}
    PROVE  /\ Tables!Probe(s, n).at \in 0 .. Len(s) - 1
           /\ Tables!Probe(s, n).found <=> Holds(s, n)
           /\ Tables!Probe(s, n).found => s[Tables!Probe(s, n).at + 1].key = n
           /\ ~Tables!Probe(s, n).found => FirstFree(s, n, Tables!Probe(s, n).at + 1)
  <1> DEFINE size == Len(s)
             Nth(j) == (Tables!Home(n, size) + j) % size
             stops == {j \in 0 .. size - 1 : Tables!Slot(s, Nth(j)).key \in {Tables!NoKey, n}}
             j == CHOOSE j \in stops : \A l \in stops : j <= l
             p == Tables!Probe(s, n)
  <1>1. s \in Table /\ s # <<>> /\ size \in Nat \ {0} /\ DOMAIN s = 1 .. size
    BY DEF Searchable, Table
  <1>2. /\ \A d \in 0 .. size - 1 : Spot(s, n, d) \in 1 .. size
        /\ \A d, e \in 0 .. size - 1 : Spot(s, n, d) = Spot(s, n, e) => d = e
        /\ \A i \in 1 .. size : \E d \in 0 .. size - 1 : Spot(s, n, d) = i
    BY <1>1, SpotFacts
  <1>3. \A d \in 0 .. size - 1 : Nth(d) \in 0 .. size - 1 /\ Nth(d) + 1 = Spot(s, n, d)
    <2> TAKE d \in 0 .. size - 1
    <2>1. Spot(s, n, d) = 1 + Nth(d) /\ Spot(s, n, d) \in 1 .. size
      BY <1>2 DEF Spot
    <2>2. Tables!Home(n, size) \in Nat
      <3>1. HashOf[n] \in Nat
        OBVIOUS
      <3> HIDE DEF size
      <3> QED BY <1>1, <3>1 DEF Tables!Home
    <2>3. Nth(d) \in Int
      <3> HIDE DEF size
      <3> QED BY <1>1, <2>2
    <2> HIDE DEF Nth, size
    <2> QED BY <1>1, <2>1, <2>3
  <1>4. p = IF stops = {} THEN [found |-> FALSE, at |-> -1]
            ELSE [found |-> Tables!Slot(s, Nth(j)).key = n, at |-> Nth(j)]
    BY DEF Tables!Probe
  <1>5. stops = {d \in 0 .. size - 1 : s[Spot(s, n, d)].key \in {Tables!NoKey, n}}
    BY <1>3 DEF Tables!Slot
  <1>6. stops # {}
    <2>1. PICK i \in 1 .. size : i \notin Tables!Occupied(s)
      OBVIOUS
    <2>2. PICK d \in 0 .. size - 1 : Spot(s, n, d) = i
      BY <1>2, <2>1
    <2>3. s[i].key = Tables!NoKey
      BY <1>1, <2>1 DEF Tables!Occupied
    <2> QED BY <1>5, <2>2, <2>3
  <1>7. j \in stops /\ \A l \in stops : j <= l
    <2>1. stops \in SUBSET Nat
      BY <1>1
    <2> HIDE DEF stops
    <2> QED BY <1>6, <2>1, NatMin
  <1>8. p = [found |-> s[Spot(s, n, j)].key = n, at |-> Nth(j)]
    BY <1>3, <1>4, <1>6, <1>7 DEF Tables!Slot
  <1> HIDE DEF stops, j, Nth, p
  <1>9. j \in 0 .. size - 1 /\ s[Spot(s, n, j)].key \in {Tables!NoKey, n}
    BY <1>5, <1>7
  <1>10. \A e \in 0 .. j - 1 : s[Spot(s, n, e)].key \notin {Tables!NoKey, n}
    <2> TAKE e \in 0 .. j - 1
    <2>1. e \in 0 .. size - 1 /\ ~(j <= e)
      BY <1>1, <1>9
    <2> QED BY <1>5, <1>7, <2>1
  <1>11. p.at \in 0 .. size - 1 /\ p.at + 1 = Spot(s, n, j) /\ (p.found <=> s[Spot(s, n, j)].key = n)
    BY <1>3, <1>8, <1>9
  <1>12. \A e \in 0 .. j - 1 : Spot(s, n, e) \in Tables!Occupied(s)
    <2> TAKE e \in 0 .. j - 1
    <2>1. e \in 0 .. size - 1
      BY <1>1, <1>9
    <2> QED BY <1>1, <1>2, <1>10, <2>1 DEF Tables!Occupied
  <1>13. ~p.found => FirstFree(s, n, p.at + 1)
    <2>1. ~p.found => s[Spot(s, n, j)].key = Tables!NoKey
      BY <1>9, <1>11
    <2> QED BY <1>1, <1>2, <1>9, <1>11, <1>12, <2>1 DEF FirstFree, Tables!Occupied
  <1>14. p.found => Holds(s, n)
    BY <1>1, <1>2, <1>9, <1>11 DEF Holds, Tables!Occupied
  <1>15. Holds(s, n) => p.found
    <2> SUFFICES ASSUME Holds(s, n)
                 PROVE  p.found
      OBVIOUS
    <2>1. PICK i \in Tables!Occupied(s) : s[i].key = n
      BY DEF Holds
    <2>2. i \in 1 .. size
      BY <1>1 DEF Tables!Occupied
    <2>3. PICK d \in 0 .. size - 1 : Spot(s, n, d) = i
      BY <1>2, <2>2
    <2>4. \A e \in 0 .. d - 1 : Spot(s, n, e) \in Tables!Occupied(s)
      BY <2>1, <2>3 DEF Searchable
    <2>5. ~(j > d)
      BY <1>1, <1>9, <1>10, <2>1, <2>3
    <2>6. CASE j = d
      BY <1>11, <2>1, <2>3, <2>6
    <2>7. CASE j < d
      <3>1. j \in 0 .. d - 1
        BY <1>1, <1>9, <2>7
      <3>2. s[Spot(s, n, j)].key # Tables!NoKey
        BY <2>4, <3>1 DEF Tables!Occupied
      <3> QED BY <1>9, <1>11, <3>2
    <2> QED BY <1>1, <1>9, <2>5, <2>6, <2>7
  <1> QED BY <1>11, <1>13, <1>14, <1>15 DEF p

LEMMA ElementOf ==
    ASSUME NEW R, NEW s \in Seq(R), NEW i \in 1 .. Len(s)
    PROVE  s[i] \in R
  OBVIOUS

LEMMA SeqFrom ==
    ASSUME NEW R, NEW n \in Nat, NEW f, f = [i \in 1 .. n |-> f[i]], \A i \in 1 .. n : f[i] \in R
    PROVE  f \in Seq(R) /\ Len(f) = n /\ DOMAIN f = 1 .. n
  OBVIOUS

LEMMA TableTyped ==
    ASSUME NEW s \in Table
    PROVE  /\ Len(s) \in Nat /\ DOMAIN s = 1 .. Len(s) /\ (s # <<>> => Len(s) # 0)
           /\ \A i \in 1 .. Len(s) : s[i] \in [key : Name \cup {Tables!NoKey}, value : Nat]
  <1>1. Len(s) \in Nat /\ DOMAIN s = 1 .. Len(s) /\ (s # <<>> => Len(s) # 0)
    BY DEF Table
  <1>2. \A i \in 1 .. Len(s) : s[i] \in [key : Name \cup {Tables!NoKey}, value : Nat]
    BY ElementOf DEF Table
  <1> QED BY <1>1, <1>2

LEMMA PutKeeps ==
    ASSUME NEW s, Searchable(s), NEW n \in Name, NEW v \in Nat, HashOf \in [Name -> Nat],
           Tables!NoKey \notin Name, NEW i, FirstFree(s, n, i), ~Holds(s, n)
    PROVE  LET t == Tables!Put(s, i - 1, n, v) IN
           /\ Searchable(t) /\ Len(t) = Len(s)
           /\ Tables!Occupied(t) = Tables!Occupied(s) \cup {i}
           /\ Content(t) = Content(s) \cup {Tables!Entry(n, v)}
  <1> DEFINE t == Tables!Put(s, i - 1, n, v)
  <1>1. /\ s \in Table /\ s # <<>> /\ Len(s) \in Nat \ {0} /\ DOMAIN s = 1 .. Len(s)
        /\ i \in 1 .. Len(s) /\ i \notin Tables!Occupied(s)
    BY DEF Searchable, Table, FirstFree
  <1>2. t = [s EXCEPT ![i] = Tables!Entry(n, v)]
    <2>1. i - 1 + 1 = i
      BY <1>1
    <2> QED BY <2>1 DEF Tables!Put
  <1> HIDE DEF t
  <1>3. Tables!Entry(n, v) \in [key : Name \cup {Tables!NoKey}, value : Nat] /\ Tables!Entry(n, v).key = n
    BY DEF Tables!Entry
  <1>4. /\ t \in Table /\ t # <<>> /\ Len(t) = Len(s) /\ DOMAIN t = 1 .. Len(s)
        /\ t[i] = Tables!Entry(n, v) /\ \A j \in 1 .. Len(s) : j # i => t[j] = s[j]
    BY <1>1, <1>2, <1>3 DEF Table
  <1>5. Tables!Occupied(t) = Tables!Occupied(s) \cup {i}
    BY <1>1, <1>3, <1>4 DEF Tables!Occupied
  <1>6. \A j \in Tables!Occupied(s) : j # i /\ t[j] = s[j] /\ s[j].key # n /\ j \in 1 .. Len(s)
    BY <1>1, <1>4 DEF Holds, Tables!Occupied
  <1>7. Content(t) = Content(s) \cup {Tables!Entry(n, v)}
    BY <1>4, <1>5, <1>6 DEF Content
  <1>8. \A j, k \in Tables!Occupied(t) : t[j].key = t[k].key => j = k
    BY <1>3, <1>4, <1>5, <1>6 DEF Searchable
  <1>9. \A m, d : Spot(t, m, d) = Spot(s, m, d)
    BY <1>4 DEF Spot
  <1>10. ASSUME NEW j \in Tables!Occupied(t), NEW d \in 0 .. Len(t) - 1, Spot(t, t[j].key, d) = j,
                NEW e \in 0 .. d - 1
         PROVE  Spot(t, t[j].key, e) \in Tables!Occupied(t)
    <2>1. CASE j = i
      <3>1. PICK c \in 0 .. Len(s) - 1 :
               /\ Spot(s, n, c) = i
               /\ \A x \in 0 .. c - 1 : Spot(s, n, x) \in Tables!Occupied(s)
        BY DEF FirstFree
      <3>2. c = d
        BY <1>1, <1>3, <1>4, <1>9, <1>10, <2>1, <3>1, SpotFacts
      <3> QED BY <1>3, <1>4, <1>5, <1>9, <2>1, <3>1, <3>2
    <2>2. CASE j # i
      <3>1. j \in Tables!Occupied(s) /\ t[j] = s[j]
        BY <1>5, <1>6, <2>2
      <3> QED BY <1>4, <1>5, <1>9, <1>10, <3>1 DEF Searchable
    <2> QED BY <2>1, <2>2
  <1>11. Searchable(t)
    BY <1>4, <1>8, <1>10 DEF Searchable
  <1> QED BY <1>4, <1>5, <1>7, <1>11 DEF t

LEMMA RewriteKeeps ==
    ASSUME NEW s, Searchable(s), NEW n \in Name, NEW v \in Nat, Tables!NoKey \notin Name,
           NEW i \in Tables!Occupied(s), s[i].key = n
    PROVE  LET t == Tables!Put(s, i - 1, n, v) IN
           /\ Searchable(t) /\ Len(t) = Len(s)
           /\ Tables!Occupied(t) = Tables!Occupied(s)
           /\ Content(t) = {e \in Content(s) : e.key # n} \cup {Tables!Entry(n, v)}
  <1> DEFINE t == Tables!Put(s, i - 1, n, v)
  <1>1. /\ s \in Table /\ s # <<>> /\ Len(s) \in Nat \ {0} /\ DOMAIN s = 1 .. Len(s)
        /\ i \in 1 .. Len(s)
    BY DEF Searchable, Table, Tables!Occupied
  <1>2. t = [s EXCEPT ![i] = Tables!Entry(n, v)]
    <2>1. i - 1 + 1 = i
      BY <1>1
    <2> QED BY <2>1 DEF Tables!Put
  <1> HIDE DEF t
  <1>3. Tables!Entry(n, v) \in [key : Name \cup {Tables!NoKey}, value : Nat] /\ Tables!Entry(n, v).key = n
    BY DEF Tables!Entry
  <1>4. /\ t \in Table /\ t # <<>> /\ Len(t) = Len(s) /\ DOMAIN t = 1 .. Len(s)
        /\ t[i] = Tables!Entry(n, v) /\ \A j \in 1 .. Len(s) : j # i => t[j] = s[j]
    BY <1>1, <1>2, <1>3 DEF Table
  <1>5. \A j \in 1 .. Len(s) : t[j].key = s[j].key
    BY <1>3, <1>4
  <1>6. Tables!Occupied(t) = Tables!Occupied(s)
    BY <1>1, <1>4, <1>5 DEF Tables!Occupied
  <1>7. Tables!Occupied(s) \subseteq 1 .. Len(s)
    BY <1>1 DEF Tables!Occupied
  <1>8. \A j \in Tables!Occupied(s) : j # i => s[j].key # n
    BY DEF Searchable
  <1>9. Content(t) = {e \in Content(s) : e.key # n} \cup {Tables!Entry(n, v)}
    <2>1. \A e \in Content(t) : (e \in Content(s) /\ e.key # n) \/ e = Tables!Entry(n, v)
      BY <1>4, <1>6, <1>7, <1>8 DEF Content
    <2>2. \A e \in Content(s) : e.key # n => e \in Content(t)
      BY <1>4, <1>6, <1>7 DEF Content
    <2>3. Tables!Entry(n, v) \in Content(t)
      BY <1>4, <1>6 DEF Content
    <2> QED BY <2>1, <2>2, <2>3
  <1>10. \A m, d : Spot(t, m, d) = Spot(s, m, d)
    BY <1>4 DEF Spot
  <1>11. Searchable(t)
    <2>1. \A j, k \in Tables!Occupied(t) : t[j].key = t[k].key => j = k
      BY <1>5, <1>6, <1>7 DEF Searchable
    <2>2. \A j \in Tables!Occupied(t), d \in 0 .. Len(t) - 1 :
             Spot(t, t[j].key, d) = j =>
                 \A e \in 0 .. d - 1 : Spot(t, t[j].key, e) \in Tables!Occupied(t)
      BY <1>4, <1>5, <1>6, <1>7, <1>10 DEF Searchable
    <2> QED BY <1>4, <2>1, <2>2 DEF Searchable
  <1> QED BY <1>4, <1>6, <1>9, <1>11 DEF t

LEMMA PlaceIsPut ==
    ASSUME NEW s, Searchable(s), NEW e, e.key \in Name, HashOf \in [Name -> Nat],
           1 .. Len(s) \ Tables!Occupied(s) # {}
    PROVE  \E i : FirstFree(s, e.key, i) /\ Tables!Place(s, e) = Tables!Put(s, i - 1, e.key, e.value)
  <1> DEFINE size == Len(s)
             Nth(j) == (Tables!Home(e.key, size) + j) % size
             free == {j \in 0 .. size - 1 : Tables!Slot(s, Nth(j)).key = Tables!NoKey}
             j == CHOOSE j \in free : \A l \in free : j <= l
  <1>1. s \in Table /\ s # <<>> /\ size \in Nat \ {0} /\ DOMAIN s = 1 .. size
    BY DEF Searchable, Table
  <1>2. /\ \A d \in 0 .. size - 1 : Spot(s, e.key, d) \in 1 .. size
        /\ \A i \in 1 .. size : \E d \in 0 .. size - 1 : Spot(s, e.key, d) = i
    BY <1>1, SpotFacts
  <1>3. \A d \in 0 .. size - 1 : Nth(d) \in 0 .. size - 1 /\ Nth(d) + 1 = Spot(s, e.key, d)
    <2> TAKE d \in 0 .. size - 1
    <2>1. Spot(s, e.key, d) = 1 + Nth(d) /\ Spot(s, e.key, d) \in 1 .. size
      BY <1>2 DEF Spot
    <2>2. Tables!Home(e.key, size) \in Nat
      <3>1. HashOf[e.key] \in Nat
        OBVIOUS
      <3> HIDE DEF size
      <3> QED BY <1>1, <3>1 DEF Tables!Home
    <2>3. Nth(d) \in Int
      <3> HIDE DEF size
      <3> QED BY <1>1, <2>2
    <2> HIDE DEF Nth, size
    <2> QED BY <1>1, <2>1, <2>3
  <1>4. Tables!Place(s, e) = Tables!Put(s, Nth(j), e.key, e.value)
    BY DEF Tables!Place
  <1>5. free = {d \in 0 .. size - 1 : Spot(s, e.key, d) \notin Tables!Occupied(s)}
    <2>1. \A d \in 0 .. size - 1 : Tables!Slot(s, Nth(d)) = s[Spot(s, e.key, d)]
      BY <1>3 DEF Tables!Slot
    <2> QED BY <1>1, <1>2, <2>1 DEF Tables!Occupied
  <1>6. free # {}
    BY <1>2, <1>5
  <1>7. j \in free /\ \A l \in free : j <= l
    <2>1. free \in SUBSET Nat
      BY <1>1
    <2> HIDE DEF free
    <2> QED BY <1>6, <2>1, NatMin
  <1> HIDE DEF free, j, Nth
  <1>8. j \in 0 .. size - 1 /\ Spot(s, e.key, j) \notin Tables!Occupied(s)
    BY <1>5, <1>7
  <1>9. \A d \in 0 .. j - 1 : Spot(s, e.key, d) \in Tables!Occupied(s)
    <2> TAKE d \in 0 .. j - 1
    <2>1. d \in 0 .. size - 1 /\ ~(j <= d)
      BY <1>1, <1>8
    <2> QED BY <1>5, <1>7, <2>1
  <1>10. Nth(j) = Spot(s, e.key, j) - 1
    BY <1>1, <1>2, <1>3, <1>8
  <1>11. FirstFree(s, e.key, Spot(s, e.key, j))
    BY <1>2, <1>8, <1>9 DEF FirstFree
  <1> QED BY <1>4, <1>10, <1>11

LEMMA UptoCard ==
    ASSUME NEW m \in Nat
    PROVE  IsFiniteSet(1 .. m) /\ Cardinality(1 .. m) = m
  BY FS_Interval

LEMMA HasFree ==
    ASSUME NEW s \in Table, Cardinality(Tables!Occupied(s)) < Len(s)
    PROVE  1 .. Len(s) \ Tables!Occupied(s) # {}
  <1>1. Len(s) \in Nat /\ Tables!Occupied(s) \subseteq 1 .. Len(s)
    BY DEF Table, Tables!Occupied
  <1>2. Cardinality(1 .. Len(s)) = Len(s)
    BY <1>1, UptoCard
  <1>3. ASSUME 1 .. Len(s) \ Tables!Occupied(s) = {}
        PROVE  FALSE
    <2>1. Tables!Occupied(s) = 1 .. Len(s)
      BY <1>1, <1>3
    <2> QED BY <1>1, <1>2, <2>1
  <1> QED BY <1>3

LEMMA OccupiedFinite ==
    ASSUME NEW s \in Table, NEW m \in 0 .. Len(s)
    PROVE  /\ Tables!Occupied(s) \subseteq 1 .. Len(s)
           /\ IsFiniteSet(Tables!Occupied(s) \cap 1 .. m)
           /\ Cardinality(Tables!Occupied(s) \cap 1 .. m) \in 0 .. m
  <1>1. Len(s) \in Nat /\ Tables!Occupied(s) \subseteq 1 .. Len(s)
    BY DEF Table, Tables!Occupied
  <1>2. IsFiniteSet(1 .. m) /\ Cardinality(1 .. m) = m
    BY <1>1, UptoCard
  <1>3. Tables!Occupied(s) \cap 1 .. m \in SUBSET (1 .. m)
    OBVIOUS
  <1>4. IsFiniteSet(Tables!Occupied(s) \cap 1 .. m) /\ Cardinality(Tables!Occupied(s) \cap 1 .. m) <= m
    BY <1>2, <1>3, FS_Subset
  <1>5. Cardinality(Tables!Occupied(s) \cap 1 .. m) \in Nat
    BY <1>4, FS_CardinalityType
  <1> QED BY <1>1, <1>4, <1>5

(* However a block comes, what is handed out is zero.                      *)
LEMMA NewBlockIsZero ==
    ASSUME NEW n \in Nat, NEW reclaimed \in BOOLEAN
    PROVE  Tables!NewBlock(n, reclaimed) = [i \in 1 .. n |-> Tables!Zero]
  <1> DEFINE b == Tables!Block(n, reclaimed, Tables!Zero, Tables!StaleSlot)
  <1>1. DOMAIN b = 1 .. n /\ \A i \in 1 .. n : ~reclaimed => b[i] = Tables!Zero
    BY DEF Tables!Block
  <1>2. Tables!NewBlock(n, reclaimed) = [i \in DOMAIN b |-> IF reclaimed /\ i > 0 THEN Tables!Zero ELSE b[i]]
    BY DEF Tables!NewBlock, Tables!Cleared
  <1> HIDE DEF b
  <1> QED BY <1>1, <1>2

(* The tables that rehashing the first m slots can give. *)
Moved(m) ==
    {t \in Table :
        /\ Searchable(t)
        /\ Len(t) = 2 * Len(slots)
        /\ Content(t) = {slots[i] : i \in Tables!Occupied(slots) \cap 1 .. m}
        /\ Cardinality(Tables!Occupied(t)) = Cardinality(Tables!Occupied(slots) \cap 1 .. m)}

LEMMA MoveNone ==
    ASSUME kind = "object", slots \in Table, slots # <<>>, Tables!NoKey \notin Name,
           NEW reclaimed \in BOOLEAN
    PROVE  Tables!NewBlock(2 * Len(slots), reclaimed) \in Moved(0)
  <1> DEFINE t == Tables!NewBlock(2 * Len(slots), reclaimed)
  <1>1. Len(slots) \in Nat \ {0}
    BY DEF Table
  <1>2. t = [i \in 1 .. 2 * Len(slots) |-> Tables!Zero]
    BY <1>1, NewBlockIsZero
  <1>3. Tables!Zero \in [key : Name \cup {Tables!NoKey}, value : Nat] /\ Tables!Zero.key = Tables!NoKey
    BY DEF Tables!Zero, Tables!IsArray
  <1> HIDE DEF t
  <1>4. t \in Table /\ Len(t) = 2 * Len(slots) /\ t # <<>> /\ DOMAIN t = 1 .. Len(t)
    BY <1>1, <1>2, <1>3 DEF Table
  <1>5. Tables!Occupied(t) = {}
    BY <1>2, <1>3, <1>4 DEF Tables!Occupied
  <1>6. Searchable(t) /\ Content(t) = {}
    BY <1>4, <1>5 DEF Searchable, Content
  <1>7. Tables!Occupied(slots) \cap 1 .. 0 = {}
    OBVIOUS
  <1> QED BY <1>4, <1>5, <1>6, <1>7 DEF Moved, t

LEMMA MoveOne ==
    ASSUME Searchable(slots), HashOf \in [Name -> Nat], Tables!NoKey \notin Name,
           NEW i \in 1 .. Len(slots), NEW t \in Moved(i - 1)
    PROVE  (IF i \in Tables!Occupied(slots) THEN Tables!Place(t, slots[i]) ELSE t) \in Moved(i)
  <1> DEFINE I(m) == Tables!Occupied(slots) \cap 1 .. m
  <1>1. /\ slots \in Table /\ Len(slots) \in Nat \ {0} /\ DOMAIN slots = 1 .. Len(slots)
        /\ \A j \in DOMAIN slots : slots[j] \in [key : Name \cup {Tables!NoKey}, value : Nat]
    <2>1. slots \in Table /\ slots # <<>>
      BY DEF Searchable
    <2> QED BY <2>1, TableTyped
  <1>2. /\ t \in Table /\ Searchable(t) /\ Len(t) = 2 * Len(slots)
        /\ Content(t) = {slots[j] : j \in I(i - 1)}
        /\ Cardinality(Tables!Occupied(t)) = Cardinality(I(i - 1))
    BY DEF Moved
  <1>3. CASE i \notin Tables!Occupied(slots)
    <2>1. I(i) = I(i - 1)
      BY <1>1, <1>3
    <2> QED BY <1>2, <1>3, <2>1 DEF Moved
  <1>4. CASE i \in Tables!Occupied(slots)
    <2>1. slots[i].key \in Name /\ slots[i].value \in Nat
          /\ slots[i] = Tables!Entry(slots[i].key, slots[i].value)
      BY <1>1, <1>4 DEF Tables!Occupied, Tables!Entry
    <2>2. /\ I(i) = I(i - 1) \cup {i} /\ i \notin I(i - 1)
          /\ IsFiniteSet(I(i - 1)) /\ Cardinality(I(i - 1)) \in 0 .. i - 1
      <3>1. i - 1 \in 0 .. Len(slots)
        BY <1>1
      <3>2. IsFiniteSet(I(i - 1)) /\ Cardinality(I(i - 1)) \in 0 .. i - 1
        BY <1>1, <3>1, OccupiedFinite
      <3>3. 1 .. i = (1 .. i - 1) \cup {i} /\ i \notin 1 .. i - 1
        BY <1>1
      <3> QED BY <1>4, <3>2, <3>3
    <2>3. Cardinality(I(i)) = Cardinality(I(i - 1)) + 1
      BY <2>2, FS_AddElement
    <2>4. 1 .. Len(t) \ Tables!Occupied(t) # {}
      BY <1>1, <1>2, <2>2, HasFree
    <2>5. ~Holds(t, slots[i].key)
      <3>1. ASSUME NEW j \in Tables!Occupied(t), t[j].key = slots[i].key
            PROVE  FALSE
        <4>1. t[j] \in Content(t)
          BY DEF Content
        <4>2. PICK k \in I(i - 1) : t[j] = slots[k]
          BY <1>2, <4>1
        <4> QED BY <1>1, <1>4, <3>1, <4>2 DEF Searchable
      <3> QED BY <3>1 DEF Holds
    <2>6. PICK f : FirstFree(t, slots[i].key, f)
                   /\ Tables!Place(t, slots[i]) = Tables!Put(t, f - 1, slots[i].key, slots[i].value)
      BY <1>2, <2>1, <2>4, PlaceIsPut
    <2> DEFINE u == Tables!Place(t, slots[i])
    <2>7. /\ Searchable(u) /\ Len(u) = Len(t)
          /\ Tables!Occupied(u) = Tables!Occupied(t) \cup {f}
          /\ Content(u) = Content(t) \cup {slots[i]}
      BY <1>2, <2>1, <2>5, <2>6, PutKeeps
    <2> HIDE DEF u
    <2>8. Content(u) = {slots[j] : j \in I(i)}
      BY <1>2, <2>2, <2>7
    <2>9. Cardinality(Tables!Occupied(u)) = Cardinality(Tables!Occupied(t)) + 1
      <3>1. f \notin Tables!Occupied(t)
        BY <2>6 DEF FirstFree
      <3>2. IsFiniteSet(Tables!Occupied(t))
        <4>1. Len(t) \in Nat /\ Len(t) \in 0 .. Len(t)
          BY <1>1, <1>2
        <4>2. IsFiniteSet(Tables!Occupied(t) \cap 1 .. Len(t)) /\ Tables!Occupied(t) \subseteq 1 .. Len(t)
          BY <1>2, <4>1, OccupiedFinite
        <4>3. Tables!Occupied(t) \cap 1 .. Len(t) = Tables!Occupied(t)
          BY <4>2
        <4> QED BY <4>2, <4>3
      <3> QED BY <2>7, <3>1, <3>2, FS_AddElement
    <2>10. u \in Moved(i)
      <3>1. u \in Table
        BY <2>7 DEF Searchable
      <3> QED BY <1>2, <2>3, <2>7, <2>8, <2>9, <3>1 DEF Moved
    <2> QED BY <1>4, <2>10 DEF u
  <1> QED BY <1>3, <1>4

LEMMA RehashKeeps ==
    ASSUME kind = "object", Searchable(slots), HashOf \in [Name -> Nat], Tables!NoKey \notin Name,
           NEW reclaimed \in BOOLEAN
    PROVE  LET t == Tables!Rehashed(reclaimed) IN
           /\ Searchable(t) /\ Len(t) = 2 * Len(slots)
           /\ Content(t) = Content(slots)
           /\ Cardinality(Tables!Occupied(t)) = Cardinality(Tables!Occupied(slots))
  <1> DEFINE n == Len(slots)
             a == Tables!NewBlock(2 * n, reclaimed)
             Step(i, t) == IF i \in Tables!Occupied(slots) THEN Tables!Place(t, slots[i]) ELSE t
             O == [m \in 0 .. n |-> Moved(m)]
             g == [p \in (1 .. n) \X Table |-> Step(p[1], p[2])]
             Is(f) == f = [i \in 0 .. n |-> IF i = 0 THEN a ELSE Step(i, f[i - 1])]
  <1>1. n \in Nat \ {0} /\ slots \in Table /\ slots # <<>>
    BY DEF Searchable, Table
  <1>2. a \in Moved(0)
    BY <1>1, MoveNone
  <1>3. \A i \in 1 .. n : \A t \in Moved(i - 1) : Step(i, t) \in Moved(i)
    BY MoveOne
  <1>4. \A m : Moved(m) \subseteq Table
    BY DEF Moved
  <1> HIDE DEF a, Step, n
  <1>5. \A i \in 1 .. n : \A t \in Moved(i - 1) : g[<<i, t>>] = Step(i, t)
    BY <1>4
  <1>51. \A m \in 0 .. n : O[m] = Moved(m)
    OBVIOUS
  <1> HIDE DEF O, g
  <1>6. a \in O[0] /\ \A i \in 1 .. n : \A t \in O[i - 1] : g[<<i, t>>] \in O[i]
    <2>1. a \in O[0]
      BY <1>1, <1>2, <1>51
    <2>2. ASSUME NEW i \in 1 .. n, NEW t \in O[i - 1]
          PROVE  g[<<i, t>>] \in O[i]
      <3>1. i \in 0 .. n /\ i - 1 \in 0 .. n
        BY <1>1
      <3> QED BY <1>3, <1>5, <1>51, <2>2, <3>1
    <2> QED BY <2>1, <2>2
  <1>7. PICK f \in [0 .. n -> Table] : Folds(f, n, a, g, O)
    <2>1. n \in Nat /\ a \in O[0] /\ Keeps(g, n, O, Table)
      BY <1>1, <1>4, <1>6, <1>51 DEF Keeps
    <2> QED BY <2>1, FoldExists
  <1>8. Is(f)
    <2>1. \A i \in 1 .. n : f[i] = Step(i, f[i - 1])
      <3> TAKE i \in 1 .. n
      <3>1. i - 1 \in 0 .. n
        BY <1>1
      <3>2. f[i - 1] \in Moved(i - 1)
        BY <1>7, <1>51, <3>1 DEF Folds
      <3> QED BY <1>5, <1>7, <3>2 DEF Folds
    <2>2. \A i \in 0 .. n : f[i] = IF i = 0 THEN a ELSE Step(i, f[i - 1])
      <3>1. \A i \in 0 .. n : i # 0 => i \in 1 .. n
        BY <1>1
      <3> QED BY <1>7, <2>1, <3>1 DEF Folds
    <2> QED BY <1>7, <2>2
  <1>9. ASSUME NEW h, Is(h)
        PROVE  h[n] \in Moved(n)
    <2> DEFINE Bad == {i \in 0 .. n : h[i] \notin Moved(i)}
    <2>1. ASSUME Bad # {}
          PROVE  FALSE
      <3>1. Bad \in SUBSET Nat
        BY <1>1
      <3>2. PICK i \in Bad : \A k \in Bad : i <= k
        <4> HIDE DEF Bad
        <4> QED BY <2>1, <3>1, NatMin
      <3>3. i \in 0 .. n /\ h[i] \notin Moved(i)
        OBVIOUS
      <3>4. h[i] = IF i = 0 THEN a ELSE Step(i, h[i - 1])
        BY <1>9, <3>3
      <3>5. i # 0
        BY <1>2, <3>3, <3>4
      <3>6. i \in 1 .. n /\ i - 1 \in 0 .. n /\ ~(i <= i - 1)
        BY <1>1, <3>3, <3>5
      <3>7. h[i - 1] \in Moved(i - 1)
        BY <3>2, <3>6
      <3> QED BY <1>3, <3>3, <3>4, <3>5, <3>6, <3>7
    <2>2. n \in 0 .. n /\ n \notin Bad
      BY <1>1, <2>1
    <2> QED BY <2>2
  <1> DEFINE table == CHOOSE h : Is(h)
  <1>10. Is(table)
    <2> HIDE DEF Is
    <2> QED BY <1>8
  <1>11. table[n] \in Moved(n)
    BY <1>9, <1>10
  <1>12. Tables!Rehashed(reclaimed) = table[n]
    BY DEF Tables!Rehashed, n, a, Step, Tables!Capacity
  <1>13. Tables!Occupied(slots) \cap 1 .. n = Tables!Occupied(slots)
    <2>1. Tables!Occupied(slots) \subseteq 1 .. n
      BY <1>1 DEF n, Tables!Occupied, Table
    <2> QED BY <2>1
  <1> HIDE DEF table, Is
  <1> QED BY <1>11, <1>12, <1>13 DEF Moved, Content, n

(* Cardinality, named through the instance or not, is the same.            *)
LEMMA SameCardinality == \A S : Tables!Cardinality(S) = Cardinality(S)
  BY DEF Tables!Cardinality, Cardinality, Tables!IsFiniteSet, IsFiniteSet

(* The entry an enumeration gives at a place, counted among the occupied. *)
LEMMA RankFound ==
    ASSUME NEW n \in Nat, NEW S \in SUBSET (1 .. n), NEW i \in 0 .. Cardinality(S) - 1
    PROVE  \E p \in S : Cardinality({q \in S : q < p}) = i
  <1> DEFINE C(m) == Cardinality(S \cap 1 .. m)
             Over == {m \in 0 .. n : C(m) > i}
  <1>1. \A m \in 0 .. n : IsFiniteSet(S \cap 1 .. m) /\ C(m) \in Nat
    <2> TAKE m \in 0 .. n
    <2>1. IsFiniteSet(1 .. m) /\ S \cap 1 .. m \in SUBSET (1 .. m)
      BY UptoCard
    <2>2. IsFiniteSet(S \cap 1 .. m)
      BY <2>1, FS_Subset
    <2> QED BY <2>2, FS_CardinalityType
  <1>2. S \cap 1 .. n = S
    OBVIOUS
  <1>3. Cardinality(S) \in Nat
    BY <1>1, <1>2
  <1>4. n \in Over
    BY <1>2, <1>3
  <1>5. PICK m \in Over : \A k \in Over : m <= k
    <2>1. Over \in SUBSET Nat
      OBVIOUS
    <2> HIDE DEF Over
    <2> QED BY <1>4, <2>1, NatMin
  <1>6. m \in 0 .. n /\ C(m) > i
    OBVIOUS
  <1>7. C(0) = 0
    <2>1. S \cap 1 .. 0 = {}
      OBVIOUS
    <2> QED BY <2>1, FS_EmptySet
  <1>8. m # 0
    BY <1>3, <1>6, <1>7
  <1>9. m - 1 \in 0 .. n /\ ~(C(m - 1) > i)
    <2>1. m - 1 \in 0 .. n /\ ~(m <= m - 1)
      BY <1>6, <1>8
    <2> QED BY <1>5, <2>1
  <1>10. CASE m \notin S
    <2>1. S \cap 1 .. m = S \cap 1 .. m - 1
      BY <1>6, <1>10
    <2> QED BY <1>6, <1>9, <2>1
  <1>11. CASE m \in S
    <2>1. S \cap 1 .. m = (S \cap 1 .. m - 1) \cup {m} /\ m \notin S \cap 1 .. m - 1
      BY <1>6, <1>8, <1>11
    <2>2. C(m) = C(m - 1) + 1
      BY <1>1, <1>9, <2>1, FS_AddElement
    <2>3. {q \in S : q < m} = S \cap 1 .. m - 1
      <3>1. \A q \in S : q \in Nat /\ q >= 1 /\ m \in Nat
        BY <1>6
      <3>2. \A q \in S : q < m <=> q \in 1 .. m - 1
        BY <3>1
      <3> HIDE DEF Over
      <3> QED BY <3>2
    <2>4. C(m - 1) = i
      <3>1. C(m - 1) \in Nat /\ C(m) \in Nat
        BY <1>1, <1>6, <1>9
      <3> HIDE DEF C
      <3> QED BY <1>3, <1>6, <1>9, <2>2, <3>1
    <2> QED BY <1>11, <2>3, <2>4
  <1> QED BY <1>10, <1>11

LEMMA RankDiffers ==
    ASSUME NEW n \in Nat, NEW S \in SUBSET (1 .. n), NEW p \in S, NEW r \in S, p < r
    PROVE  /\ Cardinality({q \in S : q < p}) < Cardinality({q \in S : q < r})
           /\ Cardinality({q \in S : q < p}) \in 0 .. Cardinality(S) - 1
           /\ Cardinality({q \in S : q < r}) \in 0 .. Cardinality(S) - 1
  <1>1. IsFiniteSet(S) /\ Cardinality(S) \in Nat
    BY UptoCard, FS_Subset, FS_CardinalityType
  <1> DEFINE B(x) == {q \in S : q < x}
  <1>2. \A x : IsFiniteSet(B(x)) /\ Cardinality(B(x)) \in Nat
    <2> TAKE x
    <2>1. B(x) \in SUBSET S
      OBVIOUS
    <2> QED BY <1>1, <2>1, FS_Subset, FS_CardinalityType
  <1>3. ASSUME NEW x \in S, NEW T, IsFiniteSet(T), B(x) \cup {x} \subseteq T
        PROVE  Cardinality(B(x)) < Cardinality(T)
    <2>1. Cardinality(B(x) \cup {x}) = Cardinality(B(x)) + 1 /\ IsFiniteSet(B(x) \cup {x})
      <3>1. x \notin B(x)
        OBVIOUS
      <3> HIDE DEF B
      <3> QED BY <1>2, <3>1, FS_AddElement
    <2>2. Cardinality(B(x) \cup {x}) <= Cardinality(T) /\ Cardinality(T) \in Nat
      BY <1>3, FS_Subset, FS_CardinalityType
    <2> HIDE DEF B
    <2> QED BY <1>2, <2>1, <2>2
  <1>4. B(p) \cup {p} \subseteq B(r) /\ B(p) \cup {p} \subseteq S /\ B(r) \cup {r} \subseteq S
    <2>1. \A q \in S : q \in Nat
      OBVIOUS
    <2>2. \A q \in S : q < p => q < r
      BY <2>1
    <2> QED BY <2>2
  <1>5. /\ Cardinality(B(p)) < Cardinality(B(r))
        /\ Cardinality(B(p)) < Cardinality(S)
        /\ Cardinality(B(r)) < Cardinality(S)
    <2> HIDE DEF B
    <2> QED BY <1>1, <1>2, <1>3, <1>4
  <1> HIDE DEF B
  <1>6. Cardinality(B(p)) \in 0 .. Cardinality(S) - 1 /\ Cardinality(B(r)) \in 0 .. Cardinality(S) - 1
    BY <1>1, <1>2, <1>5
  <1> QED BY <1>5, <1>6 DEF B

LEMMA RankOne ==
    ASSUME NEW n \in Nat, NEW S \in SUBSET (1 .. n), NEW p \in S
    PROVE  Cardinality({q \in S : q < p}) \in 0 .. Cardinality(S) - 1
  <1> DEFINE B == {q \in S : q < p}
  <1>1. IsFiniteSet(S) /\ Cardinality(S) \in Nat
    BY UptoCard, FS_Subset, FS_CardinalityType
  <1>2. B \in SUBSET S /\ p \notin B
    OBVIOUS
  <1> HIDE DEF B
  <1>3. IsFiniteSet(B) /\ Cardinality(B) <= Cardinality(S) /\ (Cardinality(S) = Cardinality(B) => S = B)
    BY <1>1, <1>2, FS_Subset
  <1>4. Cardinality(B) \in Nat
    BY <1>3, FS_CardinalityType
  <1>5. Cardinality(B) \in 0 .. Cardinality(S) - 1
    BY <1>1, <1>2, <1>3, <1>4
  <1> QED BY <1>5 DEF B

LEMMA EntriesAre ==
    ASSUME slots \in Table, Cardinality(Tables!Occupied(slots)) = count
    PROVE  {Tables!emitAMD64DynamicEntryAt(i) : i \in 0 .. count - 1} = Content(slots)
  <1> DEFINE S == Tables!Occupied(slots)
             Rank(p) == Cardinality({q \in S : q < p})
             Here(i) == {p \in S : Rank(p) = i}
  <1>1. Len(slots) \in Nat /\ S \in SUBSET (1 .. Len(slots))
    BY DEF Table, Tables!Occupied
  <1>2. \A i \in 0 .. count - 1 : \E p \in S : Rank(p) = i
    BY <1>1, RankFound
  <1>3. \A p \in S : Rank(p) \in 0 .. count - 1
    BY <1>1, RankOne
  <1>4. \A p, r \in S : Rank(p) = Rank(r) => p = r
    <2>1. \A p, r \in S : p < r => Rank(p) < Rank(r)
      BY <1>1, RankDiffers
    <2>2. \A p \in S : p \in Nat /\ Rank(p) \in Int
      BY <1>1, <1>3
    <2> HIDE DEF S, Rank
    <2> QED BY <2>1, <2>2
  <1>5. \A i \in 0 .. count - 1 :
           Here(i) # {} /\ Tables!emitAMD64DynamicEntryAt(i) = slots[CHOOSE p \in Here(i) : TRUE]
    <2> TAKE i \in 0 .. count - 1
    <2>1. Here(i) # {}
      BY <1>2
    <2>2. Tables!emitAMD64DynamicEntryAt(i) =
             IF i \in 0 .. count - 1 /\ Here(i) # {} THEN slots[CHOOSE p \in Here(i) : TRUE]
             ELSE Tables!Entry(Tables!NoKey, Tables!Undefined)
      <3> DEFINE here == {p \in S : Tables!Cardinality({q \in S : q < p}) = i}
      <3>1. here = Here(i)
        BY SameCardinality
      <3>2. Tables!emitAMD64DynamicEntryAt(i) =
               IF i \in 0 .. count - 1 /\ here # {} THEN slots[CHOOSE p \in here : TRUE]
               ELSE Tables!Entry(Tables!NoKey, Tables!Undefined)
        BY DEF Tables!emitAMD64DynamicEntryAt, Tables!IsArray
      <3> HIDE DEF here, Here
      <3> QED BY <3>1, <3>2
    <2> HIDE DEF Here
    <2> QED BY <2>1, <2>2
  <1>6. \A i \in 0 .. count - 1, p \in S : Rank(p) = i => Tables!emitAMD64DynamicEntryAt(i) = slots[p]
    <2> TAKE i \in 0 .. count - 1, p \in S
    <2>1. (CHOOSE c \in Here(i) : TRUE) \in Here(i)
      BY <1>5
    <2> DEFINE c == CHOOSE c \in Here(i) : TRUE
    <2>2. c \in S /\ Rank(c) = i
      <3> HIDE DEF c, Rank
      <3> QED BY <2>1 DEF c
    <2>3. Tables!emitAMD64DynamicEntryAt(i) = slots[c]
      BY <1>5
    <2> HIDE DEF c, Rank, S
    <2> QED BY <1>4, <2>2, <2>3
  <1> HIDE DEF Rank, Here
  <1>7. \A i \in 0 .. count - 1 : Tables!emitAMD64DynamicEntryAt(i) \in Content(slots)
    BY <1>2, <1>6 DEF Content
  <1>8. \A e \in Content(slots) : \E i \in 0 .. count - 1 : e = Tables!emitAMD64DynamicEntryAt(i)
    BY <1>3, <1>6 DEF Content
  <1> QED BY <1>7, <1>8

Items(s) == {s[i] : i \in DOMAIN s}

Given == Seq([key : Name, value : Nat])

LEMMA GivenTyped ==
    ASSUME NEW s \in Given
    PROVE  /\ DOMAIN s = 1 .. Len(s) /\ Len(s) \in Nat
           /\ \A i \in 1 .. Len(s) : s[i] \in [key : Name, value : Nat]
  <1>1. DOMAIN s = 1 .. Len(s) /\ Len(s) \in Nat
    BY DEF Given
  <1>2. \A i \in 1 .. Len(s) : s[i] \in [key : Name, value : Nat]
    BY ElementOf DEF Given
  <1> QED BY <1>1, <1>2

LEMMA NamesApart ==
    ASSUME Tables!ContainersAssumption, NEW n \in Name, NEW m \in Name
    PROVE  Tables!IsSame(m, n) <=> m = n
  BY DEF Tables!ContainersAssumption, Tables!IsSame

LEMMA GivenNames ==
    ASSUME Tables!ContainersAssumption, given \in Given, NEW n \in Name,
           \A i, j \in DOMAIN given : given[i].key = given[j].key => i = j
    PROVE  /\ Tables!GivenAt(n) = {i \in 1 .. Len(given) : given[i].key = n}
           /\ \A i \in 1 .. Len(given) : given[i].key = n =>
                 Tables!GivenAt(n) = {i} /\ Tables!GivenValue(n) = given[i].value
           /\ Tables!GivenAt(n) = {} => Tables!GivenValue(n) = Tables!Undefined
  <1>1. /\ DOMAIN given = 1 .. Len(given)
        /\ \A i \in 1 .. Len(given) : given[i] \in [key : Name, value : Nat]
    BY GivenTyped
  <1>2. Tables!GivenAt(n) = {i \in 1 .. Len(given) : given[i].key = n}
    BY <1>1, NamesApart DEF Tables!GivenAt
  <1>3. ASSUME NEW i \in 1 .. Len(given), given[i].key = n
        PROVE  Tables!GivenAt(n) = {i} /\ Tables!GivenValue(n) = given[i].value
    <2>1. Tables!GivenAt(n) = {i}
      BY <1>1, <1>2, <1>3
    <2>2. (CHOOSE j \in {i} : TRUE) = i
      OBVIOUS
    <2> QED BY <2>1, <2>2 DEF Tables!GivenValue
  <1> QED BY <1>2, <1>3 DEF Tables!GivenValue

(* What a call that sets a name makes of what was given. *)
LEMMA GivenSetNames ==
    ASSUME Tables!ContainersAssumption, given \in Given, NEW n \in Name, NEW v \in Nat,
           \A i, j \in DOMAIN given : given[i].key = given[j].key => i = j,
           Tables!GivenSet(n, v)
    PROVE  /\ given' \in Given
           /\ \A i, j \in DOMAIN given' : given'[i].key = given'[j].key => i = j
           /\ Items(given') = {e \in Items(given) : e.key # n} \cup {Tables!Entry(n, v)}
           /\ Len(given') = IF \E e \in Items(given) : e.key = n THEN Len(given) ELSE Len(given) + 1
  <1>1. /\ DOMAIN given = 1 .. Len(given) /\ Len(given) \in Nat
        /\ \A i \in 1 .. Len(given) : given[i] \in [key : Name, value : Nat]
    BY GivenTyped
  <1>2. Tables!GivenAt(n) = {i \in 1 .. Len(given) : given[i].key = n}
    BY GivenNames
  <1>3. Tables!Entry(n, v) \in [key : Name, value : Nat] /\ Tables!Entry(n, v).key = n
    BY DEF Tables!Entry
  <1>4. CASE Tables!GivenAt(n) = {}
    <2>1. given' = Append(given, Tables!Entry(n, v))
      BY <1>4 DEF Tables!GivenSet
    <2>2. /\ given' \in Given /\ Len(given') = Len(given) + 1
          /\ DOMAIN given' = 1 .. Len(given) + 1
          /\ \A i \in 1 .. Len(given) : given'[i] = given[i]
          /\ given'[Len(given) + 1] = Tables!Entry(n, v)
      BY <1>1, <1>3, <2>1 DEF Given
    <2>3. \A i \in 1 .. Len(given) : given[i].key # n
      BY <1>2, <1>4
    <2>4. \A i \in 1 .. Len(given) + 1 : i \in 1 .. Len(given) \/ i = Len(given) + 1
      BY <1>1
    <2>5. \A i, j \in DOMAIN given' : given'[i].key = given'[j].key => i = j
      BY <1>1, <1>3, <2>2, <2>3, <2>4
    <2>6. Items(given') = Items(given) \cup {Tables!Entry(n, v)}
      BY <1>1, <2>2, <2>4 DEF Items
    <2>7. \A e \in Items(given) : e.key # n
      BY <1>1, <2>3 DEF Items
    <2> QED BY <2>2, <2>5, <2>6, <2>7
  <1>5. CASE Tables!GivenAt(n) # {}
    <2>1. PICK i \in 1 .. Len(given) : given[i].key = n
      BY <1>2, <1>5
    <2>2. Tables!GivenAt(n) = {i}
      BY <2>1, GivenNames
    <2>3. given' = [j \in 1 .. Len(given) |-> IF j = i THEN Tables!Entry(n, v) ELSE given[j]]
      <3>1. given' = [j \in DOMAIN given |-> IF j \in Tables!GivenAt(n) THEN Tables!Entry(given[j].key, v) ELSE given[j]]
        BY <1>5 DEF Tables!GivenSet
      <3> QED BY <1>1, <2>1, <2>2, <3>1
    <2>4. /\ DOMAIN given' = 1 .. Len(given)
          /\ \A j \in 1 .. Len(given) : j # i => given'[j] = given[j]
          /\ given'[i] = Tables!Entry(n, v)
      BY <2>3
    <2>5. given' \in Given /\ Len(given') = Len(given)
      <3>1. \A j \in 1 .. Len(given) : given'[j] \in [key : Name, value : Nat]
        BY <1>1, <1>3, <2>4
      <3> QED BY <1>1, <2>3, <3>1 DEF Given
    <2>6. \A j \in 1 .. Len(given) : given'[j].key = given[j].key
      BY <1>3, <2>1, <2>4
    <2>7. \A j, k \in DOMAIN given' : given'[j].key = given'[k].key => j = k
      BY <1>1, <2>4, <2>6
    <2>8. Items(given') = {e \in Items(given) : e.key # n} \cup {Tables!Entry(n, v)}
      <3>1. \A j \in 1 .. Len(given) : j # i => given[j].key # n
        BY <1>1, <2>1
      <3>2. \A e \in Items(given') : (e \in Items(given) /\ e.key # n) \/ e = Tables!Entry(n, v)
        BY <1>1, <2>4, <3>1 DEF Items
      <3>3. \A e \in Items(given) : e.key # n => e \in Items(given')
        BY <1>1, <2>1, <2>4 DEF Items
      <3>4. Tables!Entry(n, v) \in Items(given')
        BY <2>4 DEF Items
      <3> QED BY <3>2, <3>3, <3>4
    <2>9. \E e \in Items(given) : e.key = n
      BY <1>1, <2>1 DEF Items
    <2> QED BY <2>5, <2>7, <2>8, <2>9
  <1> QED BY <1>4, <1>5

(* A dynamic object after a name was set: the entry is rewritten where it  *)
(* is, or put in the first free slot of this table or of the larger one.   *)
LEMMA ObjectSetStep ==
    ASSUME Tables!ContainersAssumption, kind = "object", ObjectRight,
           NEW n \in Name, NEW v \in Element, Tables!emitAMD64DynamicSet(n, v)
    PROVE  ObjectRight'
  <1> DEFINE p == Tables!Probe(slots, n)
             Insert(s) == LET q == Tables!Probe(s, n)
                          IN  slots' = Tables!Put(s, q.at, n, v) /\ last' = q.at /\ count' = count + 1
  <1>1. HashOf \in [Name -> Nat] /\ Tables!NoKey \notin Name /\ v \in Nat
    BY DEF Tables!ContainersAssumption
  <1>2. /\ Searchable(slots) /\ slots \in Table /\ Len(slots) \in Nat /\ Len(slots) >= 4
        /\ DOMAIN slots = 1 .. Len(slots)
        /\ given \in Given /\ Content(slots) = Items(given) /\ count = Len(given) /\ count \in Nat
        /\ Cardinality(Tables!Occupied(slots)) = count /\ 4 * count <= 3 * Len(slots)
    BY DEF ObjectRight, Searchable, Table, Given, Items
  <1>3. /\ given' \in Given
        /\ \A i, j \in DOMAIN given' : given'[i].key = given'[j].key => i = j
        /\ Items(given') = {e \in Items(given) : e.key # n} \cup {Tables!Entry(n, v)}
        /\ Len(given') = IF \E e \in Items(given) : e.key = n THEN Len(given) ELSE Len(given) + 1
    BY <1>1, <1>2, GivenSetNames DEF ObjectRight, Tables!emitAMD64DynamicSet, Tables!IsArray
  <1>4. 1 .. Len(slots) \ Tables!Occupied(slots) # {}
    <2>1. Cardinality(Tables!Occupied(slots)) < Len(slots)
      BY <1>2
    <2> QED BY <1>2, <2>1, HasFree
  <1>5. Holds(slots, n) <=> \E e \in Items(given) : e.key = n
    BY <1>2 DEF Holds, Content
  <1> HIDE DEF p
  <1>6. /\ p.at \in 0 .. Len(slots) - 1
        /\ p.found <=> Holds(slots, n)
        /\ p.found => slots[p.at + 1].key = n
    BY <1>1, <1>2, <1>4, ProbeFinds DEF p
  (* The entry is there. *)
  <1>7. ASSUME NEW i \in 1 .. Len(slots), slots[i].key = n,
               slots' = Tables!Put(slots, i - 1, n, v), last' = i - 1, count' = count
        PROVE  ObjectRight'
    <2>1. i \in Tables!Occupied(slots)
      BY <1>1, <1>2, <1>7 DEF Tables!Occupied
    <2>2. /\ Searchable(slots') /\ Len(slots') = Len(slots)
          /\ Tables!Occupied(slots') = Tables!Occupied(slots)
          /\ Content(slots') = {e \in Content(slots) : e.key # n} \cup {Tables!Entry(n, v)}
      BY <1>1, <1>2, <1>7, <2>1, RewriteKeeps
    <2>3. Len(given') = Len(given)
      BY <1>3, <1>5, <1>7, <2>1 DEF Holds
    <2>4. last' \in -1 .. Len(slots') - 1
      BY <1>2, <1>7, <2>2
    <2> QED BY <1>2, <1>3, <1>7, <2>2, <2>3, <2>4 DEF ObjectRight, Given, Items
  (* It goes into a table that holds the same entries. *)
  <1>8. ASSUME NEW s, Searchable(s), Content(s) = Content(slots), ~Holds(slots, n),
               Cardinality(Tables!Occupied(s)) = count, Len(s) >= 4,
               4 * (count + 1) <= 3 * Len(s), Insert(s)
        PROVE  ObjectRight'
    <2> DEFINE q == Tables!Probe(s, n)
    <2>1. slots' = Tables!Put(s, q.at, n, v) /\ last' = q.at /\ count' = count + 1
      BY <1>8
    <2>2. s \in Table /\ Len(s) \in Nat
      BY <1>8, TableTyped DEF Searchable
    <2>3. 1 .. Len(s) \ Tables!Occupied(s) # {}
      <3>1. Cardinality(Tables!Occupied(s)) < Len(s)
        BY <1>2, <1>8, <2>2
      <3> QED BY <2>2, <3>1, HasFree
    <2>4. ~Holds(s, n)
      BY <1>8 DEF Holds, Content
    <2> HIDE DEF q
    <2>5. q.at \in 0 .. Len(s) - 1 /\ FirstFree(s, n, q.at + 1)
      BY <1>1, <1>8, <2>3, <2>4, ProbeFinds DEF q
    <2>6. q.at + 1 - 1 = q.at
      BY <2>5
    <2>7. /\ Searchable(slots') /\ Len(slots') = Len(s)
          /\ Tables!Occupied(slots') = Tables!Occupied(s) \cup {q.at + 1}
          /\ Content(slots') = Content(s) \cup {Tables!Entry(n, v)}
      BY <1>1, <1>8, <2>1, <2>4, <2>5, <2>6, PutKeeps
    <2>8. Cardinality(Tables!Occupied(slots')) = count + 1
      <3>1. IsFiniteSet(Tables!Occupied(s))
        <4>1. Len(s) \in 0 .. Len(s)
          BY <2>2
        <4>2. IsFiniteSet(Tables!Occupied(s) \cap 1 .. Len(s)) /\ Tables!Occupied(s) \subseteq 1 .. Len(s)
          BY <2>2, <4>1, OccupiedFinite
        <4>3. Tables!Occupied(s) \cap 1 .. Len(s) = Tables!Occupied(s)
          BY <4>2
        <4> QED BY <4>2, <4>3
      <3>2. q.at + 1 \notin Tables!Occupied(s)
        BY <2>5 DEF FirstFree
      <3> QED BY <1>8, <2>7, <3>1, <3>2, FS_AddElement
    <2>9. Content(slots') = Items(given')
      <3>1. {e \in Items(given) : e.key # n} = Items(given)
        BY <1>5, <1>8
      <3> QED BY <1>2, <1>3, <1>8, <2>7, <3>1
    <2>10. Len(given') = Len(given) + 1
      BY <1>3, <1>5, <1>8
    <2>11. last' \in -1 .. Len(slots') - 1
      BY <2>1, <2>2, <2>5, <2>7
    <2> QED BY <1>2, <1>3, <1>8, <2>1, <2>7, <2>8, <2>9, <2>10, <2>11 DEF ObjectRight, Given, Items
  <1>9. CASE Tables!Cached(n)
    <2>1. last \in 0 .. Len(slots) - 1 /\ slots[last + 1].key = n
      BY <1>9 DEF Tables!Cached, Tables!Slot, Tables!Capacity
    <2>2. slots' = Tables!Put(slots, last, n, v) /\ last' = last /\ count' = count
      BY <1>9 DEF Tables!emitAMD64DynamicSet, Tables!IsArray
    <2>3. last + 1 \in 1 .. Len(slots) /\ last + 1 - 1 = last
      BY <1>2, <2>1
    <2> QED BY <1>7, <2>1, <2>2, <2>3
  <1>10. CASE ~Tables!Cached(n) /\ p.found
    <2>1. slots' = Tables!Put(slots, p.at, n, v) /\ last' = p.at /\ count' = count
      BY <1>10 DEF Tables!emitAMD64DynamicSet, p, Tables!IsArray
    <2>2. p.at + 1 \in 1 .. Len(slots) /\ p.at + 1 - 1 = p.at
      BY <1>2, <1>6
    <2> QED BY <1>6, <1>7, <1>10, <2>1, <2>2
  <1>11. CASE ~Tables!Cached(n) /\ ~p.found /\ ~Tables!MustGrow
    <2>1. p.at # -1
      BY <1>2, <1>6
    <2>2. Insert(slots)
      BY <1>11, <2>1 DEF Tables!emitAMD64DynamicSet, p, Tables!IsArray
    <2>3. 4 * (count + 1) <= 3 * Len(slots)
      BY <1>2, <1>11 DEF Tables!MustGrow, Tables!Capacity
    <2> HIDE DEF Insert
    <2> QED BY <1>2, <1>6, <1>8, <1>11, <2>2, <2>3
  <1>12. CASE ~Tables!Cached(n) /\ ~p.found /\ Tables!MustGrow
    <2>1. PICK reclaimed \in BOOLEAN : Insert(Tables!Rehashed(reclaimed))
      BY <1>12 DEF Tables!emitAMD64DynamicSet, p, Tables!IsArray
    <2> DEFINE s == Tables!Rehashed(reclaimed)
    <2>2. /\ Searchable(s) /\ Len(s) = 2 * Len(slots) /\ Content(s) = Content(slots)
          /\ Cardinality(Tables!Occupied(s)) = Cardinality(Tables!Occupied(slots))
      BY <1>1, <1>2, RehashKeeps
    <2> HIDE DEF s, Insert
    <2>3. Len(s) >= 4 /\ 4 * (count + 1) <= 3 * Len(s)
      BY <1>2, <2>2
    <2>4. Insert(s)
      BY <2>1 DEF s
    <2> QED BY <1>2, <1>6, <1>8, <1>12, <2>2, <2>3, <2>4
  <1> QED BY <1>9, <1>10, <1>11, <1>12

(* The value in a slot is the one last given to its name. *)
LEMMA ValueOf ==
    ASSUME Tables!ContainersAssumption, ObjectRight, NEW i \in 1 .. Len(slots), slots[i].key \in Name
    PROVE  Tables!GivenValue(slots[i].key) = slots[i].value
  <1>1. slots \in Table /\ given \in Given /\ Content(slots) = Items(given)
    BY DEF ObjectRight, Searchable, Given, Items
  <1>2. i \in Tables!Occupied(slots)
    BY <1>1, TableTyped DEF Tables!Occupied, Tables!ContainersAssumption
  <1>3. slots[i] \in Items(given)
    BY <1>1, <1>2 DEF Content
  <1>4. PICK j \in 1 .. Len(given) : given[j] = slots[i]
    BY <1>1, <1>3, GivenTyped DEF Items
  <1> QED BY <1>1, <1>4, GivenNames DEF ObjectRight

LEMMA ObjectGetStep ==
    ASSUME Tables!ContainersAssumption, kind = "object", ObjectRight,
           NEW n \in Name, Tables!emitAMD64DynamicGet(n)
    PROVE  ObjectRight' /\ \E x : answer' = <<x, x>>
  <1> DEFINE p == Tables!Probe(slots, n)
  <1>1. HashOf \in [Name -> Nat] /\ Tables!NoKey \notin Name
    BY DEF Tables!ContainersAssumption
  <1>2. /\ Searchable(slots) /\ slots \in Table /\ Len(slots) \in Nat
        /\ given \in Given /\ Content(slots) = Items(given) /\ count \in Nat
        /\ last \in -1 .. Len(slots) - 1
        /\ Cardinality(Tables!Occupied(slots)) = count /\ 4 * count <= 3 * Len(slots) /\ Len(slots) >= 4
    BY DEF ObjectRight, Searchable, Table, Given, Items
  <1>3. 1 .. Len(slots) \ Tables!Occupied(slots) # {}
    <2>1. Cardinality(Tables!Occupied(slots)) < Len(slots)
      BY <1>2
    <2> QED BY <1>2, <2>1, HasFree
  <1> HIDE DEF p
  <1>4. /\ p.at \in 0 .. Len(slots) - 1
        /\ p.found <=> Holds(slots, n)
        /\ p.found => slots[p.at + 1].key = n
    BY <1>1, <1>2, <1>3, ProbeFinds DEF p
  <1>5. /\ slots' = slots /\ given' = given /\ count' = count /\ kind' = kind
        /\ \/ /\ Tables!Cached(n)
              /\ answer' = <<slots[last + 1].value, Tables!GivenValue(n)>> /\ last' = last
           \/ /\ p.found
              /\ answer' = <<slots[p.at + 1].value, Tables!GivenValue(n)>> /\ last' = p.at
           \/ /\ ~p.found
              /\ answer' = <<Tables!Undefined, Tables!GivenValue(n)>> /\ last' = last
    BY DEF Tables!emitAMD64DynamicGet, Tables!Slot, p, Tables!IsArray
  <1>6. last' \in -1 .. Len(slots') - 1
    BY <1>2, <1>4, <1>5
  <1>7. ObjectRight'
    BY <1>5, <1>6 DEF ObjectRight
  <1>8. CASE Tables!Cached(n) /\ answer' = <<slots[last + 1].value, Tables!GivenValue(n)>>
    <2>1. last \in 0 .. Len(slots) - 1 /\ slots[last + 1].key = n
      BY <1>8 DEF Tables!Cached, Tables!Slot, Tables!Capacity
    <2>2. last + 1 \in 1 .. Len(slots)
      BY <1>2, <2>1
    <2>3. Tables!GivenValue(n) = slots[last + 1].value
      BY <2>1, <2>2, ValueOf
    <2> QED BY <1>7, <1>8, <2>3
  <1>9. CASE p.found /\ answer' = <<slots[p.at + 1].value, Tables!GivenValue(n)>>
    <2>1. p.at + 1 \in 1 .. Len(slots)
      BY <1>2, <1>4
    <2>2. Tables!GivenValue(n) = slots[p.at + 1].value
      BY <1>4, <1>9, <2>1, ValueOf
    <2> QED BY <1>7, <1>9, <2>2
  <1>10. CASE ~p.found /\ answer' = <<Tables!Undefined, Tables!GivenValue(n)>>
    <2>1. \A e \in Items(given) : e.key # n
      BY <1>2, <1>4, <1>10 DEF Holds, Content
    <2>2. Tables!GivenAt(n) = {}
      BY <1>2, <2>1, GivenNames, GivenTyped DEF ObjectRight, Items
    <2>3. Tables!GivenValue(n) = Tables!Undefined
      BY <2>2 DEF Tables!GivenValue
    <2> QED BY <1>7, <1>10, <2>3
  <1> QED BY <1>5, <1>8, <1>9, <1>10

-----------------------------------------------------------------------------
(* Collections. *)
Row == [key : Key \cup {Tables!NoKey}, value : Nat]
GivenRow == [key : Key, value : Nat]

LEMMA SameIsEquivalence ==
    ASSUME Tables!ContainersAssumption
    PROVE  /\ \A k : Tables!IsSame(k, k)
           /\ \A k, l : Tables!IsSame(k, l) => Tables!IsSame(l, k)
           /\ \A k, l, m : Tables!IsSame(k, l) /\ Tables!IsSame(l, m) => Tables!IsSame(k, m)
           /\ \A k, l : Tables!emitAMD64JSKeyEq(k, l) <=> Tables!IsSame(k, l)
  <1>1. \A s, t \in Same : s = t \/ s \cap t = {}
    BY DEF Tables!ContainersAssumption
  <1>2. \A k, l : Tables!IsSame(k, l) <=> k = l \/ \E s \in Same : k \in s /\ l \in s
    BY DEF Tables!IsSame
  <1>3. ASSUME NEW k, NEW l, NEW m, Tables!IsSame(k, l), Tables!IsSame(l, m)
        PROVE  Tables!IsSame(k, m)
    <2>1. CASE k = l \/ l = m
      BY <1>3, <2>1
    <2>2. CASE k # l /\ l # m
      <3>1. PICK s \in Same : k \in s /\ l \in s
        BY <1>2, <1>3, <2>2
      <3>2. PICK t \in Same : l \in t /\ m \in t
        BY <1>2, <1>3, <2>2
      <3>3. s = t
        BY <1>1, <3>1, <3>2
      <3> QED BY <1>2, <3>1, <3>2, <3>3
    <2> QED BY <2>1, <2>2
  <1>4. \A k : Tables!IsSame(k, k)
    BY <1>2
  <1>5. \A k, l : Tables!IsSame(k, l) => Tables!IsSame(l, k)
    BY <1>2
  <1>6. \A k, l : Tables!emitAMD64JSKeyEq(k, l) <=> Tables!IsSame(k, l)
    BY <1>2 DEF Tables!emitAMD64JSKeyEq, Tables!IsArray
  <1> QED BY <1>3, <1>4, <1>5, <1>6

LEMMA CollectionTyped ==
    ASSUME CollectionRight
    PROVE  /\ Len(slots) \in Nat \ {0} /\ DOMAIN slots = 1 .. Len(slots)
           /\ Len(given) \in Nat /\ DOMAIN given = 1 .. Len(given)
           /\ count \in 0 .. Len(slots)
           /\ \A i \in 1 .. Len(slots) : slots[i] \in Row
           /\ \A i \in 1 .. Len(given) : given[i] \in GivenRow
  <1>1. slots \in Seq(Row) /\ given \in Seq(GivenRow) /\ slots # <<>> /\ count = Len(given) /\ count <= Len(slots)
    BY DEF CollectionRight, Row, GivenRow
  <1> QED BY <1>1, ElementOf

(* A search finds the one entry of a key, at its place among the given. *)
LEMMA CollectionFindIs ==
    ASSUME Tables!ContainersAssumption, CollectionRight, NEW k
    PROVE  LET at == Tables!emitAMD64CollectionFind(k) IN
           \/ at = -1 /\ Tables!GivenAt(k) = {} /\ Tables!GivenValue(k) = Tables!Undefined
           \/ /\ at \in 1 .. count /\ Tables!GivenAt(k) = {at}
              /\ Tables!IsSame(given[at].key, k)
              /\ Tables!GivenValue(k) = slots[at].value
  <1> DEFINE at == Tables!emitAMD64CollectionFind(k)
             hits == {i \in 1 .. count : Tables!emitAMD64JSKeyEq(slots[i].key, k)}
  <1>1. /\ DOMAIN given = 1 .. count /\ count \in Nat
        /\ \A i \in 1 .. count : slots[i] = given[i]
        /\ \A i, j \in 1 .. count : Tables!IsSame(given[i].key, given[j].key) => i = j
    BY CollectionTyped DEF CollectionRight
  <1>2. hits = Tables!GivenAt(k)
    BY <1>1, SameIsEquivalence DEF Tables!GivenAt
  <1>3. at = IF hits = {} THEN -1 ELSE CHOOSE i \in hits : \A j \in hits : i <= j
    BY DEF Tables!emitAMD64CollectionFind, Tables!IsArray
  <1>4. CASE hits = {}
    BY <1>2, <1>3, <1>4 DEF Tables!GivenValue
  <1>5. CASE hits # {}
    <2>1. at \in hits
      <3>1. hits \in SUBSET Nat
        OBVIOUS
      <3>2. \E i \in hits : \A j \in hits : i <= j
        <4> HIDE DEF hits
        <4> QED BY <1>5, <3>1, NatMin
      <3>3. at = CHOOSE i \in hits : \A j \in hits : i <= j
        BY <1>3, <1>5
      <3> HIDE DEF hits, at
      <3> QED BY <3>2, <3>3
    <2> HIDE DEF at
    <2>2. at \in 1 .. count /\ Tables!IsSame(given[at].key, k)
      BY <1>1, <2>1, SameIsEquivalence
    <2>3. \A i \in hits : i = at
      <3> TAKE i \in hits
      <3>1. i \in 1 .. count /\ Tables!IsSame(given[i].key, k)
        BY <1>1, SameIsEquivalence
      <3>2. Tables!IsSame(k, given[at].key)
        BY <2>2, SameIsEquivalence
      <3>3. Tables!IsSame(given[i].key, given[at].key)
        BY <3>1, <3>2, SameIsEquivalence
      <3> QED BY <1>1, <2>2, <3>1, <3>3
    <2>4. Tables!GivenAt(k) = {at}
      <3> HIDE DEF hits
      <3> QED BY <1>2, <2>1, <2>3
    <2>5. Tables!GivenValue(k) = given[at].value
      <3>1. (CHOOSE i \in {at} : TRUE) = at
        OBVIOUS
      <3> QED BY <2>4, <3>1 DEF Tables!GivenValue
    <2> QED BY <1>1, <2>2, <2>4, <2>5 DEF at
  <1> HIDE DEF hits
  <1> QED BY <1>4, <1>5

(* Block of a collection that is full: the entries, then zeros. *)
LEMMA CollectionGrownIs ==
    ASSUME kind = "collection", CollectionRight, count = Len(slots), NEW reclaimed \in BOOLEAN
    PROVE  Tables!CollectionGrown(reclaimed) =
              [i \in 1 .. 2 * Len(slots) |-> IF i <= count THEN slots[i] ELSE Tables!Zero]
  <1> DEFINE new == Tables!NewBlock(2 * Len(slots), reclaimed)
  <1>1. Len(slots) \in Nat
    BY CollectionTyped
  <1>2. new = [i \in 1 .. 2 * Len(slots) |-> Tables!Zero]
    BY <1>1, NewBlockIsZero
  <1>3. Tables!CollectionGrown(reclaimed) = [i \in DOMAIN new |-> IF i <= count THEN slots[i] ELSE new[i]]
    BY DEF Tables!CollectionGrown, Tables!Capacity
  <1> HIDE DEF new
  <1> QED BY <1>2, <1>3

LEMMA CollectionSetStep ==
    ASSUME Tables!ContainersAssumption, kind = "collection", CollectionRight,
           NEW k \in Key, NEW v \in Element, Tables!emitAMD64CollectionSet(k, v)
    PROVE  CollectionRight'
  <1> DEFINE at == Tables!emitAMD64CollectionFind(k)
             e == Tables!Entry(k, v)
  <1>1. /\ Len(slots) \in Nat \ {0} /\ DOMAIN slots = 1 .. Len(slots)
        /\ Len(given) = count /\ DOMAIN given = 1 .. count /\ count \in 0 .. Len(slots)
        /\ \A i \in 1 .. Len(slots) : slots[i] \in Row
        /\ \A i \in 1 .. count : given[i] \in GivenRow /\ slots[i] = given[i]
        /\ \A i \in count + 1 .. Len(slots) : slots[i] = Tables!Zero
        /\ \A i, j \in 1 .. count : Tables!IsSame(given[i].key, given[j].key) => i = j
    BY CollectionTyped DEF CollectionRight
  <1>2. v \in Nat /\ e \in Row /\ e \in GivenRow /\ e.key = k
    BY DEF Tables!ContainersAssumption, Row, GivenRow, Tables!Entry
  <1>3. Tables!Zero \in Row
    BY DEF Tables!Zero, Row, Tables!IsArray
  <1>4. Tables!GivenSet(k, v) /\ last' = last /\ kind' = kind
    BY DEF Tables!emitAMD64CollectionSet, Tables!IsArray
  <1>5. CASE at = -1
    <2>1. Tables!GivenAt(k) = {} /\ count' = count + 1
      BY <1>1, <1>5, CollectionFindIs DEF Tables!emitAMD64CollectionSet, Tables!IsArray
    <2>2. given' = Append(given, e)
      BY <1>4, <2>1 DEF Tables!GivenSet
    <2> HIDE DEF e, at
    <2>3. /\ given' \in Seq(GivenRow) /\ Len(given') = count + 1 /\ DOMAIN given' = 1 .. count + 1
          /\ \A i \in 1 .. count : given'[i] = given[i]
          /\ given'[count + 1] = e
      <3>1. given \in Seq(GivenRow)
        BY DEF CollectionRight, GivenRow
      <3> QED BY <1>1, <1>2, <2>2, <3>1
    <2>4. \A i \in 1 .. count + 1 : i \in 1 .. count \/ i = count + 1
      BY <1>1
    <2>5. \A i \in 1 .. count : ~Tables!IsSame(given[i].key, k)
      BY <1>1, <2>1 DEF Tables!GivenAt
    <2>6. \A i \in 1 .. count : ~Tables!IsSame(k, given[i].key)
      BY <2>5, SameIsEquivalence
    <2>7. \A i, j \in DOMAIN given' : Tables!IsSame(given'[i].key, given'[j].key) => i = j
      BY <1>1, <1>2, <2>3, <2>4, <2>5, <2>6
    <2>8. /\ slots' \in Seq(Row) /\ slots' # <<>> /\ count + 1 <= Len(slots')
          /\ \A i \in 1 .. count : slots'[i] = slots[i]
          /\ slots'[count + 1] = e
          /\ \A i \in count + 2 .. Len(slots') : slots'[i] = Tables!Zero
      <3>1. CASE count < Len(slots)
        <4>1. slots' = [slots EXCEPT ![count + 1] = e]
          BY <1>5, <3>1 DEF Tables!emitAMD64CollectionSet, Tables!Capacity, e, at, Tables!IsArray
        <4>2. /\ DOMAIN slots' = 1 .. Len(slots)
              /\ \A i \in 1 .. Len(slots) : slots'[i] = IF i = count + 1 THEN e ELSE slots[i]
          BY <1>1, <4>1
        <4>3. slots' \in Seq(Row) /\ Len(slots') = Len(slots)
          <5>1. slots' = [i \in 1 .. Len(slots) |-> slots'[i]]
            BY <1>1, <4>1
          <5>2. \A i \in 1 .. Len(slots) : slots'[i] \in Row
            BY <1>1, <1>2, <4>2
          <5> QED BY <1>1, <5>1, <5>2, SeqFrom
        <4> QED BY <1>1, <3>1, <4>2, <4>3
      <3>2. CASE ~(count < Len(slots))
        <4>1. PICK reclaimed \in BOOLEAN : slots' = [Tables!CollectionGrown(reclaimed) EXCEPT ![count + 1] = e]
          BY <1>5, <3>2 DEF Tables!emitAMD64CollectionSet, Tables!Capacity, e, at, Tables!IsArray
        <4>2. count = Len(slots)
          BY <1>1, <3>2
        <4> DEFINE g == [i \in 1 .. 2 * Len(slots) |-> IF i <= count THEN slots[i] ELSE Tables!Zero]
        <4>3. slots' = [g EXCEPT ![count + 1] = e]
          BY <4>1, <4>2, CollectionGrownIs
        <4>4. slots' = [i \in 1 .. 2 * Len(slots) |-> IF i = count + 1 THEN e ELSE g[i]]
          BY <4>3
        <4>5. /\ DOMAIN slots' = 1 .. 2 * Len(slots)
              /\ \A i \in 1 .. 2 * Len(slots) :
                    slots'[i] = IF i = count + 1 THEN e ELSE IF i <= count THEN slots[i] ELSE Tables!Zero
          BY <4>4
        <4>6. \A i \in 1 .. 2 * Len(slots) : slots'[i] \in Row
          BY <1>1, <1>2, <1>3, <4>5
        <4>7. slots' \in Seq(Row) /\ Len(slots') = 2 * Len(slots)
          <5>1. slots' = [i \in 1 .. 2 * Len(slots) |-> slots'[i]]
            BY <4>4
          <5>2. 2 * Len(slots) \in Nat
            BY <1>1
          <5> QED BY <4>6, <5>1, <5>2
        <4> QED BY <1>1, <4>2, <4>5, <4>7
      <3> QED BY <3>1, <3>2
    <2>9. \A i \in 1 .. count + 1 : slots'[i] = given'[i]
      BY <1>1, <2>3, <2>4, <2>8
    <2> QED BY <1>1, <1>4, <2>1, <2>3, <2>7, <2>8, <2>9 DEF CollectionRight, Row, GivenRow, Tables!Zero, Tables!IsArray
  <1>6. CASE at # -1
    <2>1. at \in 1 .. count /\ Tables!GivenAt(k) = {at}
      BY <1>6, CollectionFindIs
    <2>2. slots' = [slots EXCEPT ![at].value = v] /\ count' = count
      BY <1>6 DEF Tables!emitAMD64CollectionSet, Tables!IsArray
    <2>3. given' = [i \in DOMAIN given |-> IF i \in Tables!GivenAt(k) THEN Tables!Entry(given[i].key, v) ELSE given[i]]
      BY <1>4, <2>1 DEF Tables!GivenSet
    <2> HIDE DEF at, e
    <2> DEFINE new == Tables!Entry(given[at].key, v)
    <2>4. new \in Row /\ new \in GivenRow /\ new.key = given[at].key
      BY <1>1, <1>2, <2>1 DEF Tables!Entry, Row, GivenRow
    <2>5. [slots[at] EXCEPT !.value = v] = new
      BY <1>1, <2>1 DEF Tables!Entry, GivenRow
    <2> HIDE DEF new
    <2>6. given' = [i \in 1 .. count |-> IF i = at THEN new ELSE given[i]]
      BY <1>1, <2>1, <2>3 DEF new
    <2>7. slots' = [i \in 1 .. Len(slots) |-> IF i = at THEN new ELSE slots[i]]
      BY <1>1, <2>1, <2>2, <2>5
    <2>8. given' \in Seq(GivenRow) /\ Len(given') = count /\ DOMAIN given' = 1 .. count
      BY <1>1, <2>4, <2>6
    <2>9. slots' \in Seq(Row) /\ Len(slots') = Len(slots) /\ slots' # <<>>
      BY <1>1, <2>4, <2>7
    <2>10. \A i \in 1 .. count : slots'[i] = given'[i] /\ given'[i].key = given[i].key
      BY <1>1, <2>4, <2>6, <2>7
    <2>11. \A i \in count + 1 .. Len(slots) : slots'[i] = Tables!Zero
      BY <1>1, <2>1, <2>7
    <2>12. \A i, j \in 1 .. count : Tables!IsSame(given'[i].key, given'[j].key) => i = j
      BY <1>1, <2>10
    <2> QED BY <1>1, <1>4, <2>2, <2>8, <2>9, <2>10, <2>11, <2>12 DEF CollectionRight, Row, GivenRow, Tables!Zero, Tables!IsArray
  <1> QED BY <1>5, <1>6

LEMMA ConcatLen ==
    ASSUME NEW R, NEW a \in Seq(R), NEW b \in Seq(R)
    PROVE  a \o b \in Seq(R) /\ Len(a \o b) = Len(a) + Len(b)
  OBVIOUS

LEMMA RemovedAt ==
    ASSUME NEW R, NEW s \in Seq(R), NEW i \in 1 .. Len(s)
    PROVE  /\ Tables!RemoveAt(s, i) \in Seq(R)
           /\ Len(Tables!RemoveAt(s, i)) = Len(s) - 1
           /\ \A j \in 1 .. Len(s) - 1 : Tables!RemoveAt(s, i)[j] = IF j < i THEN s[j] ELSE s[j + 1]
  <1> DEFINE a == SubSeq(s, 1, i - 1)
             b == SubSeq(s, i + 1, Len(s))
  <1>1. Len(s) \in Nat /\ i \in Nat /\ i >= 1 /\ i <= Len(s)
    OBVIOUS
  <1>2. a \in Seq(R) /\ Len(a) = i - 1 /\ \A j \in 1 .. i - 1 : a[j] = s[j]
    BY <1>1
  <1>3. b \in Seq(R) /\ Len(b) = Len(s) - i /\ \A j \in 1 .. Len(s) - i : b[j] = s[j + i]
    BY <1>1
  <1>4. Tables!RemoveAt(s, i) = a \o b
    BY DEF Tables!RemoveAt
  <1> HIDE DEF a, b
  <1>5. a \o b \in Seq(R) /\ Len(a \o b) = Len(s) - 1
    <2>1. a \o b \in Seq(R) /\ Len(a \o b) = Len(a) + Len(b)
      BY <1>2, <1>3, ConcatLen
    <2> QED BY <1>1, <1>2, <1>3, <2>1
  <1>6. ASSUME NEW j \in 1 .. Len(s) - 1
        PROVE  (a \o b)[j] = IF j < i THEN s[j] ELSE s[j + 1]
    <2>1. CASE j < i
      BY <1>1, <1>2, <1>3, <2>1
    <2>2. CASE ~(j < i)
      <3>1. j - (i - 1) \in 1 .. Len(s) - i /\ j - (i - 1) + i = j + 1
        BY <1>1, <2>2
      <3>2. (a \o b)[j] = b[j - (i - 1)]
        BY <1>1, <1>2, <1>3, <2>2
      <3> QED BY <1>3, <2>2, <3>1, <3>2
    <2> QED BY <2>1, <2>2
  <1> QED BY <1>4, <1>5, <1>6

LEMMA CollectionDeleteStep ==
    ASSUME Tables!ContainersAssumption, kind = "collection", CollectionRight,
           NEW k \in Key, Tables!emitAMD64CollectionDelete(k)
    PROVE  CollectionRight' /\ \E x : answer' = <<x, x>>
  <1> DEFINE at == Tables!emitAMD64CollectionFind(k)
  <1>1. /\ Len(slots) \in Nat \ {0} /\ DOMAIN slots = 1 .. Len(slots)
        /\ Len(given) = count /\ DOMAIN given = 1 .. count /\ count \in 0 .. Len(slots)
        /\ \A i \in 1 .. Len(slots) : slots[i] \in Row
        /\ \A i \in 1 .. count : given[i] \in GivenRow /\ slots[i] = given[i]
        /\ \A i \in count + 1 .. Len(slots) : slots[i] = Tables!Zero
        /\ \A i, j \in 1 .. count : Tables!IsSame(given[i].key, given[j].key) => i = j
    BY CollectionTyped DEF CollectionRight
  <1>2. Tables!Zero \in Row
    BY DEF Tables!Zero, Row, Tables!IsArray
  <1>3. last' = last /\ kind' = kind /\ answer' = <<at # -1, Tables!GivenAt(k) # {}>>
    BY DEF Tables!emitAMD64CollectionDelete, Tables!IsArray
  <1>4. CASE at = -1
    <2>1. Tables!GivenAt(k) = {}
      BY <1>1, <1>4, CollectionFindIs
    <2>2. slots' = slots /\ count' = count /\ given' = given
      BY <1>4, <2>1 DEF Tables!emitAMD64CollectionDelete, Tables!IsArray
    <2>3. answer' = <<FALSE, FALSE>>
      BY <1>3, <1>4, <2>1
    <2> QED BY <1>3, <2>2, <2>3 DEF CollectionRight, Tables!Zero, Tables!IsArray
  <1>5. CASE at # -1
    <2>1. at \in 1 .. count /\ Tables!GivenAt(k) = {at}
      BY <1>5, CollectionFindIs
    <2>2. slots' = Tables!Shifted(at) /\ count' = count - 1
      BY <1>5 DEF Tables!emitAMD64CollectionDelete, Tables!IsArray
    <2>3. given' = Tables!RemoveAt(given, at)
      <3>1. given' = Tables!RemoveAt(given, CHOOSE i \in Tables!GivenAt(k) : TRUE)
        BY <2>1 DEF Tables!emitAMD64CollectionDelete, Tables!IsArray
      <3>2. (CHOOSE i \in {at} : TRUE) = at
        OBVIOUS
      <3> HIDE DEF at
      <3> QED BY <2>1, <3>1, <3>2
    <2> HIDE DEF at
    <2>4. answer' = <<TRUE, TRUE>>
      BY <1>3, <1>5, <2>1
    <2>5. /\ given' \in Seq(GivenRow) /\ Len(given') = count - 1 /\ DOMAIN given' = 1 .. count - 1
          /\ \A j \in 1 .. count - 1 : given'[j] = IF j < at THEN given[j] ELSE given[j + 1]
      <3>1. given \in Seq(GivenRow)
        BY DEF CollectionRight, GivenRow
      <3>2. at \in 1 .. Len(given)
        BY <1>1, <2>1
      <3>3. /\ given' \in Seq(GivenRow) /\ Len(given') = Len(given) - 1
            /\ \A j \in 1 .. Len(given) - 1 : given'[j] = IF j < at THEN given[j] ELSE given[j + 1]
        BY <2>3, <3>1, <3>2, RemovedAt
      <3>4. DOMAIN given' = 1 .. Len(given')
        BY <3>3
      <3> QED BY <1>1, <3>3, <3>4
    <2>6. slots' = [i \in 1 .. Len(slots) |-> IF i \in at .. count - 1 THEN slots[i + 1]
                                              ELSE IF i = count THEN Tables!Zero ELSE slots[i]]
      BY <1>1, <2>2 DEF Tables!Shifted
    <2>7. /\ DOMAIN slots' = 1 .. Len(slots)
          /\ \A i \in 1 .. Len(slots) : slots'[i] = IF i \in at .. count - 1 THEN slots[i + 1]
                                                    ELSE IF i = count THEN Tables!Zero ELSE slots[i]
      BY <2>6
    <2>8. slots' \in Seq(Row) /\ Len(slots') = Len(slots) /\ slots' # <<>>
      <3>1. slots' = [i \in 1 .. Len(slots) |-> slots'[i]]
        BY <2>6
      <3>2. \A i \in 1 .. Len(slots) : slots'[i] \in Row
        BY <1>1, <1>2, <2>1, <2>7
      <3> QED BY <1>1, <3>1, <3>2, SeqFrom
    <2>9. \A i \in 1 .. count - 1 : slots'[i] = given'[i]
      <3> TAKE i \in 1 .. count - 1
      <3>1. i \in 1 .. Len(slots) /\ i \in 1 .. count /\ i + 1 \in 1 .. count
        BY <1>1
      <3>2. i < at \/ i \in at .. count - 1
        BY <1>1, <2>1
      <3> QED BY <1>1, <2>1, <2>5, <2>7, <3>1, <3>2
    <2>10. \A i \in count .. Len(slots) : slots'[i] = Tables!Zero
      BY <1>1, <2>1, <2>7
    <2>11. ASSUME NEW i \in 1 .. count - 1, NEW j \in 1 .. count - 1,
                  Tables!IsSame(given'[i].key, given'[j].key)
           PROVE  i = j
      <3> DEFINE Old(m) == IF m < at THEN m ELSE m + 1
      <3>1. \A m \in 1 .. count - 1 : Old(m) \in 1 .. count /\ given'[m] = given[Old(m)]
        BY <1>1, <2>1, <2>5
      <3>2. Old(i) = Old(j)
        <4> HIDE DEF Old
        <4> QED BY <1>1, <2>11, <3>1
      <3> QED BY <1>1, <2>1, <2>11, <3>2
    <2>12. count - 1 \in 0 .. Len(slots) /\ count - 1 + 1 = count
      BY <1>1, <2>1
    <2>13. CollectionRight'
      <3>1. count' = Len(given') /\ count' <= Len(slots') /\ last' = -1
        BY <1>1, <1>3, <2>2, <2>5, <2>8 DEF CollectionRight
      <3>2. \A i \in 1 .. count' : slots'[i] = given'[i]
        BY <2>2, <2>9
      <3>3. \A i \in count' + 1 .. Len(slots') : slots'[i] = Tables!Zero'
        BY <1>3, <2>2, <2>8, <2>10, <2>12 DEF Tables!Zero, Tables!IsArray
      <3>4. \A i, j \in DOMAIN given' : Tables!IsSame(given'[i].key, given'[j].key) => i = j
        BY <2>5, <2>11
      <3> QED BY <2>5, <2>8, <3>1, <3>2, <3>3, <3>4 DEF CollectionRight, Row, GivenRow
    <2> QED BY <2>4, <2>13
  <1> QED BY <1>4, <1>5

LEMMA CollectionClearStep ==
    ASSUME kind = "collection", CollectionRight, Tables!emitAMD64CollectionClear
    PROVE  CollectionRight'
  <1>1. Len(slots) \in Nat \ {0} /\ DOMAIN slots = 1 .. Len(slots)
    BY CollectionTyped
  <1>2. /\ slots' = [i \in 1 .. Len(slots) |-> Tables!Zero] /\ count' = 0 /\ given' = <<>>
        /\ kind' = kind /\ last' = last
    BY <1>1 DEF Tables!emitAMD64CollectionClear, Tables!IsArray
  <1>3. Tables!Zero \in Row
    BY DEF Tables!Zero, Row, Tables!IsArray
  <1>4. slots' \in Seq(Row) /\ Len(slots') = Len(slots) /\ slots' # <<>>
    BY <1>1, <1>2, <1>3
  <1>5. given' \in Seq(GivenRow) /\ Len(given') = 0 /\ DOMAIN given' = {}
    BY <1>2
  <1>6. \A i \in 1 .. Len(slots) : slots'[i] = Tables!Zero
    BY <1>2
  <1>7. count' = Len(given') /\ count' <= Len(slots') /\ \A i : i \notin 1 .. count'
    BY <1>1, <1>2, <1>4, <1>5
  <1>8. \A i \in count' + 1 .. Len(slots') : slots'[i] = Tables!Zero
    BY <1>1, <1>2, <1>4, <1>6
  <1> QED BY <1>2, <1>4, <1>5, <1>7, <1>8 DEF CollectionRight, Row, GivenRow, Tables!Zero, Tables!IsArray

-----------------------------------------------------------------------------
(* Arrays. *)

LEMMA ArrayTyped ==
    ASSUME ArrayRight
    PROVE  /\ Len(slots) \in Nat \ {0} /\ DOMAIN slots = 1 .. Len(slots)
           /\ Len(given) = count /\ DOMAIN given = 1 .. count /\ count \in 0 .. Len(slots)
           /\ \A i \in 1 .. Len(slots) : slots[i] \in Nat
           /\ \A i \in 1 .. count : given[i] \in Nat
  BY ElementOf DEF ArrayRight

(* Doubling a capacity often enough passes any index. *)
LEMMA DoubledHolds ==
    ASSUME NEW c \in Nat \ {0}, NEW i \in Nat
    PROVE  Tables!Doubled(c, i) \in Nat /\ Tables!Doubled(c, i) > i /\ Tables!Doubled(c, i) >= c
  <1> DEFINE n == i + 1
             O == [m \in 0 .. n |-> {x \in Nat : x >= c + m}]
             g == [p \in (1 .. n) \X Nat |-> 2 * p[2]]
             Is(f) == f = [k \in 0 .. n |-> IF k = 0 THEN c ELSE 2 * f[k - 1]]
             size == CHOOSE f : Is(f)
             Enough(k) == i < size[k] /\ \A l \in 0 .. k - 1 : size[l] <= i
  <1>1. n \in Nat /\ \A m \in 0 .. n : O[m] = {x \in Nat : x >= c + m}
    OBVIOUS
  <1>2. \A k \in 1 .. n, x \in Nat : g[<<k, x>>] = 2 * x
    OBVIOUS
  <1> HIDE DEF g, O
  <1>3. \A k \in 1 .. n : \A x \in O[k - 1] : x \in Nat /\ 2 * x \in O[k]
    <2> TAKE k \in 1 .. n
    <2> TAKE x \in O[k - 1]
    <2>1. k - 1 \in 0 .. n /\ k \in 0 .. n
      BY <1>1
    <2>2. x \in Nat /\ x >= c + (k - 1)
      BY <1>1, <2>1
    <2>3. 2 * x \in Nat /\ 2 * x >= c + k
      BY <1>1, <2>1, <2>2
    <2> QED BY <1>1, <2>1, <2>2, <2>3
  <1>4. c \in O[0] /\ Keeps(g, n, O, Nat)
    <2>1. c \in O[0]
      BY <1>1
    <2> QED BY <1>1, <1>2, <1>3, <2>1 DEF Keeps
  <1>5. PICK f \in [0 .. n -> Nat] : Folds(f, n, c, g, O)
    <2> HIDE DEF n
    <2> QED BY <1>1, <1>4, FoldExists
  <1>6. Is(f)
    <2>1. \A k \in 0 .. n : f[k] = IF k = 0 THEN c ELSE 2 * f[k - 1]
      <3> TAKE k \in 0 .. n
      <3>1. CASE k = 0
        BY <1>5, <3>1 DEF Folds
      <3>2. CASE k # 0
        <4>1. k \in 1 .. n /\ k - 1 \in 0 .. n
          BY <1>1, <3>2
        <4> QED BY <1>2, <1>5, <3>2, <4>1 DEF Folds
      <3> QED BY <3>1, <3>2
    <2> QED BY <1>5, <2>1
  <1>7. Is(size)
    <2> HIDE DEF Is
    <2> QED BY <1>6
  <1> HIDE DEF size
  <1>8. \A k \in 0 .. n : size[k] = IF k = 0 THEN c ELSE 2 * size[k - 1]
    BY <1>7
  <1>9. \A k \in 0 .. n : size[k] \in Nat /\ size[k] >= c + k
    <2> DEFINE Bad == {k \in 0 .. n : ~(size[k] \in Nat /\ size[k] >= c + k)}
    <2>1. ASSUME Bad # {}
          PROVE  FALSE
      <3>1. Bad \in SUBSET Nat
        BY <1>1
      <3>2. PICK k \in Bad : \A l \in Bad : k <= l
        <4> HIDE DEF Bad
        <4> QED BY <2>1, <3>1, NatMin
      <3>3. k \in 0 .. n /\ ~(size[k] \in Nat /\ size[k] >= c + k)
        OBVIOUS
      <3>4. k # 0
        BY <1>1, <1>8, <3>3
      <3>5. k - 1 \in 0 .. n /\ ~(k <= k - 1)
        BY <1>1, <3>3, <3>4
      <3>6. size[k - 1] \in Nat /\ size[k - 1] >= c + (k - 1)
        BY <3>2, <3>5
      <3>7. size[k] = 2 * size[k - 1]
        BY <1>8, <3>3, <3>4
      <3> QED BY <1>1, <3>3, <3>5, <3>6, <3>7
    <2> QED BY <2>1
  <1>10. Tables!Doubled(c, i) = size[CHOOSE k \in 0 .. n : Enough(k)]
    BY DEF Tables!Doubled, size
  <1>11. \E k \in 0 .. n : Enough(k)
    <2> DEFINE Over == {k \in 0 .. n : size[k] > i}
    <2>1. n \in Over /\ Over \in SUBSET Nat
      BY <1>1, <1>9
    <2>2. PICK k \in Over : \A l \in Over : k <= l
      <3> HIDE DEF Over
      <3> QED BY <2>1, NatMin
    <2>3. k \in 0 .. n /\ i < size[k]
      BY <1>9
    <2>4. \A l \in 0 .. k - 1 : size[l] <= i
      <3> TAKE l \in 0 .. k - 1
      <3>1. l \in 0 .. n /\ ~(k <= l) /\ size[l] \in Nat
        BY <1>1, <1>9, <2>3
      <3>2. l \notin Over
        BY <2>2, <3>1
      <3> QED BY <3>1, <3>2
    <2> QED BY <2>3, <2>4
  <1> DEFINE k == CHOOSE k \in 0 .. n : Enough(k)
  <1>12. k \in 0 .. n /\ Enough(k)
    <2> HIDE DEF Enough
    <2> QED BY <1>11
  <1> HIDE DEF k
  <1> QED BY <1>1, <1>9, <1>10, <1>12 DEF k

(* An element stored, in this block or in a larger one. *)
LEMMA StoredIs ==
    ASSUME Tables!IsArray, ArrayRight, NEW i \in Nat, NEW v \in Nat, Tables!Stored(i, v)
    PROVE  /\ slots' \in Seq(Nat) /\ Len(slots') \in Nat
           /\ Len(slots') >= Len(slots) /\ Len(slots') > i
           /\ \A j \in 1 .. Len(slots') :
                 slots'[j] = IF j = i + 1 THEN v ELSE IF j <= count THEN slots[j] ELSE 0
  <1>1. /\ Len(slots) \in Nat \ {0} /\ DOMAIN slots = 1 .. Len(slots) /\ count \in 0 .. Len(slots)
        /\ \A j \in 1 .. Len(slots) : slots[j] \in Nat
        /\ \A j \in count + 1 .. Len(slots) : slots[j] = 0
    BY ArrayTyped DEF ArrayRight
  <1>2. ASSUME NEW n \in Nat, n >= Len(slots), n > i, slots' = [j \in 1 .. n |-> slots'[j]],
               \A j \in 1 .. n : slots'[j] = IF j = i + 1 THEN v ELSE IF j <= count THEN slots[j] ELSE 0
        PROVE  /\ slots' \in Seq(Nat) /\ Len(slots') \in Nat
               /\ Len(slots') >= Len(slots) /\ Len(slots') > i
               /\ \A j \in 1 .. Len(slots') :
                     slots'[j] = IF j = i + 1 THEN v ELSE IF j <= count THEN slots[j] ELSE 0
    <2>1. \A j \in 1 .. n : slots'[j] \in Nat
      BY <1>1, <1>2
    <2>2. slots' \in Seq(Nat) /\ Len(slots') = n
      BY <1>2, <2>1, SeqFrom
    <2> QED BY <1>2, <2>2
  <1>3. CASE i < Len(slots)
    <2>1. slots' = [slots EXCEPT ![i + 1] = v]
      BY <1>3 DEF Tables!Stored, Tables!Capacity
    <2>2. /\ slots' = [j \in 1 .. Len(slots) |-> slots'[j]]
          /\ \A j \in 1 .. Len(slots) : slots'[j] = IF j = i + 1 THEN v ELSE slots[j]
      BY <1>1, <2>1
    <2>3. \A j \in 1 .. Len(slots) : slots'[j] = IF j = i + 1 THEN v ELSE IF j <= count THEN slots[j] ELSE 0
      BY <1>1, <2>2
    <2> QED BY <1>1, <1>2, <1>3, <2>2, <2>3
  <1>4. CASE ~(i < Len(slots))
    <2> DEFINE n == Tables!Doubled(Len(slots), i)
    <2>1. PICK reclaimed \in BOOLEAN : slots' = [Tables!ArrayGrown(n, reclaimed) EXCEPT ![i + 1] = v]
      BY <1>4 DEF Tables!Stored, Tables!Capacity
    <2>2. n \in Nat /\ n > i /\ n >= Len(slots)
      BY <1>1, DoubledHolds
    <2> HIDE DEF n
    <2> DEFINE raw == Tables!Block(n, reclaimed, Tables!Zero, Tables!StaleSlot)
               copied == [j \in DOMAIN raw |-> IF j <= count THEN slots[j] ELSE raw[j]]
               grown == Tables!ArrayGrown(n, reclaimed)
    <2>3. DOMAIN raw = 1 .. n /\ \A j \in 1 .. n : ~reclaimed => raw[j] = 0
      BY DEF Tables!Block, Tables!Zero, Tables!IsArray
    <2>4. DOMAIN copied = 1 .. n /\ \A j \in 1 .. n : copied[j] = IF j <= count THEN slots[j] ELSE raw[j]
      <3> HIDE DEF raw
      <3> QED BY <2>3
    <2>5. grown = [j \in DOMAIN copied |-> IF reclaimed /\ j > count THEN 0 ELSE copied[j]]
      BY DEF Tables!ArrayGrown, Tables!Cleared, Tables!Zero, Tables!IsArray
    <2> HIDE DEF raw, copied, grown
    <2>6. DOMAIN grown = 1 .. n /\ \A j \in 1 .. n : grown[j] = IF j <= count THEN slots[j] ELSE 0
      BY <1>1, <2>3, <2>4, <2>5
    <2>7. slots' = [grown EXCEPT ![i + 1] = v]
      BY <2>1 DEF grown
    <2>8. /\ slots' = [j \in 1 .. n |-> slots'[j]]
          /\ \A j \in 1 .. n : slots'[j] = IF j = i + 1 THEN v ELSE grown[j]
      BY <2>5, <2>6, <2>7
    <2> QED BY <1>2, <2>2, <2>6, <2>8
  <1> QED BY <1>3, <1>4

LEMMA PastIs ==
    ASSUME NEW a \in Nat, NEW b \in Nat, NEW j \in a + 1 .. b
    PROVE  j \in Nat /\ j > a /\ j <= b
  OBVIOUS

LEMMA ArraySetStep ==
    ASSUME Tables!ContainersAssumption, Tables!IsArray, ArrayRight,
           NEW i \in Int, NEW v \in Element, Tables!emitAMD64ArraySet(i, v)
    PROVE  ArrayRight'
  <1>1. /\ Len(slots) \in Nat \ {0} /\ Len(given) = count /\ count \in 0 .. Len(slots)
        /\ DOMAIN given = 1 .. count
        /\ \A j \in 1 .. count : slots[j] = given[j] /\ given[j] \in Nat
        /\ last' = last /\ last = -1
    BY ArrayTyped DEF ArrayRight, Tables!emitAMD64ArraySet, Tables!IsArray
  <1>2. CASE i < 0
    BY <1>1, <1>2 DEF Tables!emitAMD64ArraySet, ArrayRight, Tables!IsArray
  <1>3. CASE ~(i < 0)
    <2>1. /\ Tables!Stored(i, v)
          /\ count' = IF i < count THEN count ELSE i + 1
          /\ given' = [j \in 1 .. (IF i < Len(given) THEN Len(given) ELSE i + 1) |->
                          IF j = i + 1 THEN v ELSE IF j <= Len(given) THEN given[j] ELSE 0]
      BY <1>3 DEF Tables!emitAMD64ArraySet, Tables!IsArray
    <2>2. v \in Nat /\ i \in Nat
      BY <1>3 DEF Tables!ContainersAssumption
    <2>3. /\ slots' \in Seq(Nat) /\ Len(slots') \in Nat
          /\ Len(slots') >= Len(slots) /\ Len(slots') > i
          /\ \A j \in 1 .. Len(slots') :
                slots'[j] = IF j = i + 1 THEN v ELSE IF j <= count THEN slots[j] ELSE 0
      BY <2>1, <2>2, StoredIs
    <2>4. count' \in Nat /\ count' <= Len(slots') /\ count' >= count /\ count' >= i + 1
          /\ (count' = count \/ count' = i + 1)
      BY <1>1, <2>1, <2>2, <2>3
    <2>5. given' = [j \in 1 .. count' |-> IF j = i + 1 THEN v ELSE IF j <= count THEN given[j] ELSE 0]
      BY <1>1, <2>1
    <2>6. \A j \in 1 .. count' : given'[j] = IF j = i + 1 THEN v ELSE IF j <= count THEN given[j] ELSE 0
      BY <2>5
    <2>7. given' \in Seq(Nat) /\ Len(given') = count'
      <3>1. \A j \in 1 .. count' : given'[j] \in Nat
        BY <1>1, <2>2, <2>4, <2>6
      <3>2. given' = [j \in 1 .. count' |-> given'[j]]
        BY <2>5
      <3> QED BY <2>4, <3>1, <3>2, SeqFrom
    <2>8. \A j \in 1 .. count' : slots'[j] = given'[j]
      <3> TAKE j \in 1 .. count'
      <3>1. j \in 1 .. Len(slots')
        BY <2>3, <2>4
      <3>2. j <= count => j \in 1 .. count
        BY <1>1, <2>4
      <3>3. slots'[j] = IF j = i + 1 THEN v ELSE IF j <= count THEN slots[j] ELSE 0
        BY <2>3, <3>1
      <3>4. given'[j] = IF j = i + 1 THEN v ELSE IF j <= count THEN given[j] ELSE 0
        BY <2>6
      <3> QED BY <1>1, <3>2, <3>3, <3>4
    <2>9. \A j \in count' + 1 .. Len(slots') : slots'[j] = 0
      <3> TAKE j \in count' + 1 .. Len(slots')
      <3>1. j \in 1 .. Len(slots') /\ j # i + 1 /\ ~(j <= count)
        <4>1. /\ count' \in Nat /\ Len(slots') \in Nat /\ count \in Nat
              /\ count' >= count /\ count' >= i + 1
          BY <1>1, <2>3, <2>4
        <4>2. j \in Nat /\ j > count' /\ j <= Len(slots')
          BY <4>1, PastIs
        <4> QED BY <2>2, <4>1, <4>2
      <3> QED BY <2>3, <3>1
    <2>10. slots' # <<>>
      BY <1>1, <2>3
    <2> QED BY <1>1, <2>3, <2>4, <2>7, <2>8, <2>9, <2>10 DEF ArrayRight
  <1> QED BY <1>2, <1>3

LEMMA ArrayPushStep ==
    ASSUME Tables!ContainersAssumption, Tables!IsArray, ArrayRight,
           NEW v \in Element, Tables!emitAMD64ArrayPush(v)
    PROVE  ArrayRight'
  <1>1. /\ Len(slots) \in Nat \ {0} /\ Len(given) = count /\ count \in 0 .. Len(slots)
        /\ DOMAIN given = 1 .. count /\ given \in Seq(Nat)
        /\ \A j \in 1 .. count : slots[j] = given[j]
        /\ last' = last /\ last = -1
    BY ArrayTyped DEF ArrayRight, Tables!emitAMD64ArrayPush, Tables!IsArray
  <1>2. v \in Nat /\ count \in Nat
    <2>1. Element \subseteq Nat
      BY ONLY Tables!ContainersAssumption DEF Tables!ContainersAssumption
    <2>2. count \in 0 .. Len(slots) /\ Len(slots) \in Nat
      BY ONLY <1>1
    <2> QED BY ONLY <2>1, <2>2, v \in Element
  <1>3. Tables!Stored(count, v) /\ count' = count + 1 /\ given' = Append(given, v)
    BY DEF Tables!emitAMD64ArrayPush, Tables!IsArray
  <1>4. /\ slots' \in Seq(Nat) /\ Len(slots') \in Nat
        /\ Len(slots') >= Len(slots) /\ Len(slots') > count
        /\ \A j \in 1 .. Len(slots') :
              slots'[j] = IF j = count + 1 THEN v ELSE IF j <= count THEN slots[j] ELSE 0
    BY <1>2, <1>3, StoredIs
  <1>5. /\ given' \in Seq(Nat) /\ Len(given') = count + 1
        /\ \A j \in 1 .. count : given'[j] = given[j]
        /\ given'[count + 1] = v
    BY <1>1, <1>2, <1>3
  <1>6. \A j \in 1 .. count' : slots'[j] = given'[j]
    <2> TAKE j \in 1 .. count'
    <2>1. j \in 1 .. Len(slots') /\ (j \in 1 .. count \/ j = count + 1)
      BY <1>2, <1>3, <1>4
    <2>2. slots'[j] = IF j = count + 1 THEN v ELSE IF j <= count THEN slots[j] ELSE 0
      BY <1>4, <2>1
    <2>3. CASE j \in 1 .. count
      <3>1. j # count + 1 /\ j <= count
        BY <1>2, <2>3
      <3> QED BY <1>1, <1>5, <2>2, <2>3, <3>1
    <2>4. CASE j = count + 1
      BY <1>5, <2>2, <2>4
    <2> QED BY <2>1, <2>3, <2>4
  <1>7. \A j \in count' + 1 .. Len(slots') : slots'[j] = 0
    BY <1>2, <1>3, <1>4
  <1>8. count' <= Len(slots') /\ slots' # <<>>
    BY <1>1, <1>2, <1>3, <1>4
  <1> QED BY <1>1, <1>3, <1>4, <1>5, <1>6, <1>7, <1>8 DEF ArrayRight

LEMMA ArrayPopStep ==
    ASSUME Tables!IsArray, ArrayRight, Tables!emitAMD64ArrayPop
    PROVE  ArrayRight' /\ \E x : answer' = <<x, x>>
  <1>1. /\ Len(slots) \in Nat \ {0} /\ Len(given) = count /\ count \in 0 .. Len(slots)
        /\ DOMAIN slots = 1 .. Len(slots)
        /\ DOMAIN given = 1 .. count /\ given \in Seq(Nat) /\ slots \in Seq(Nat)
        /\ \A j \in 1 .. count : slots[j] = given[j]
        /\ \A j \in count + 1 .. Len(slots) : slots[j] = 0
        /\ last' = last /\ last = -1
    BY ArrayTyped DEF ArrayRight, Tables!emitAMD64ArrayPop, Tables!IsArray
  <1>2. CASE count = 0
    BY <1>1, <1>2 DEF ArrayRight, Tables!emitAMD64ArrayPop, Tables!IsArray
  <1>3. CASE count # 0
    <2>1. /\ answer' = <<slots[count], given[Len(given)]>>
          /\ slots' = [slots EXCEPT ![count] = 0]
          /\ count' = count - 1
          /\ given' = SubSeq(given, 1, Len(given) - 1)
      BY <1>3 DEF Tables!emitAMD64ArrayPop, Tables!Last, Tables!Front, Tables!IsArray
    <2>2. answer' = <<given[count], given[count]>>
      BY <1>1, <1>3, <2>1
    <2>3. /\ given' \in Seq(Nat) /\ Len(given') = count - 1
          /\ \A j \in 1 .. count - 1 : given'[j] = given[j]
      BY <1>1, <1>3, <2>1
    <2>4. /\ slots' \in Seq(Nat) /\ Len(slots') = Len(slots) /\ slots' # <<>>
          /\ \A j \in 1 .. Len(slots) : slots'[j] = IF j = count THEN 0 ELSE slots[j]
      <3>1. /\ slots' = [j \in 1 .. Len(slots) |-> slots'[j]]
            /\ \A j \in 1 .. Len(slots) : slots'[j] = IF j = count THEN 0 ELSE slots[j]
        BY <1>1, <2>1
      <3>2. \A j \in 1 .. Len(slots) : slots'[j] \in Nat
        BY <3>1, ArrayTyped
      <3>3. slots' \in Seq(Nat) /\ Len(slots') = Len(slots)
        BY <1>1, <3>1, <3>2, SeqFrom
      <3> QED BY <1>1, <3>1, <3>3
    <2>5. \A j \in 1 .. count' : slots'[j] = given'[j]
      BY <1>1, <1>3, <2>1, <2>3, <2>4
    <2>6. \A j \in count' + 1 .. Len(slots') : slots'[j] = 0
      BY <1>1, <1>3, <2>1, <2>4
    <2>7. ArrayRight'
      <3>1. count' = Len(given') /\ count' <= Len(slots') /\ last' = -1
        BY <1>1, <1>3, <2>1, <2>3, <2>4
      <3> QED BY ONLY <2>3, <2>4, <2>5, <2>6, <3>1 DEF ArrayRight
    <2> QED BY <2>2, <2>7
  <1> QED BY <1>2, <1>3

-----------------------------------------------------------------------------
LEMMA TablesBegin ==
    ASSUME Tables!ContainersAssumption, Tables!Init
    PROVE  TablesInv
  <1>1. PICK reclaimed \in BOOLEAN : slots = Tables!NewBlock(4, reclaimed)
    BY DEF Tables!Init, Tables!First
  <1>2. slots = [i \in 1 .. 4 |-> Tables!Zero]
    BY <1>1, NewBlockIsZero
  <1>3. /\ kind \in Kind /\ kind \in {"collection", "object", "array", "values"}
        /\ count = 0 /\ last = -1 /\ given = <<>> /\ answer = <<>>
    BY DEF Tables!Init, Tables!ContainersAssumption
  <1>4. \A R : Tables!Zero \in R => slots \in Seq(R)
    BY <1>2
  <1>5. Len(slots) = 4 /\ DOMAIN slots = 1 .. 4 /\ slots # <<>>
    BY <1>2
  <1>6. \A R : given \in Seq(R) /\ Len(given) = 0 /\ DOMAIN given = {} /\ Len(given) = count
    BY <1>3
  <1>7. \A i \in 1 .. Len(slots) : slots[i] = Tables!Zero
    BY <1>2, <1>5
  <1>8. CASE kind = "collection"
    <2>1. Tables!Zero \in Row
      BY <1>8 DEF Tables!Zero, Row, Tables!IsArray
    <2>2. slots \in Seq(Row) /\ given \in Seq(GivenRow)
      BY <1>4, <1>6, <2>1
    <2>3. /\ \A i \in 1 .. count : slots[i] = given[i]
          /\ \A i \in count + 1 .. Len(slots) : slots[i] = Tables!Zero
          /\ \A i, j \in DOMAIN given : i = j
      BY <1>3, <1>5, <1>6, <1>7
    <2>4. count = Len(given) /\ count <= Len(slots)
      BY <1>3, <1>5, <1>6
    <2>5. CollectionRight
      BY <1>3, <1>5, <2>2, <2>3, <2>4 DEF CollectionRight, Row, GivenRow
    <2> QED BY <1>3, <1>8, <2>5 DEF TablesInv, Tables!IsArray
  <1>9. CASE kind = "object"
    <2>1. Tables!Zero \in [key : Name \cup {Tables!NoKey}, value : Nat] /\ Tables!Zero.key = Tables!NoKey
      BY <1>9 DEF Tables!Zero, Tables!IsArray
    <2>2. Tables!Occupied(slots) = {}
      BY <1>5, <1>7, <2>1 DEF Tables!Occupied
    <2>3. slots \in Table
      BY <1>4, <2>1 DEF Table
    <2>4. Searchable(slots) /\ Content(slots) = {}
      BY <1>5, <2>2, <2>3 DEF Searchable, Content
    <2>5. Cardinality(Tables!Occupied(slots)) = 0
      BY <2>2, FS_EmptySet
    <2>6. {given[i] : i \in DOMAIN given} = {}
      BY <1>6
    <2> QED BY <1>3, <1>5, <1>6, <1>9, <2>4, <2>5, <2>6 DEF TablesInv, ObjectRight, Tables!IsArray
  <1>10. CASE Tables!IsArray
    <2>1. Tables!Zero = 0
      BY <1>10 DEF Tables!Zero, Tables!IsArray
    <2>2. slots \in Seq(Nat)
      BY <1>4, <2>1
    <2> QED BY <1>3, <1>5, <1>6, <1>7, <1>10, <2>1, <2>2 DEF TablesInv, ArrayRight, Tables!IsArray
  <1> QED BY <1>3, <1>8, <1>9, <1>10 DEF Tables!IsArray

LEMMA TablesStep ==
    ASSUME Tables!ContainersAssumption, TablesInv, Tables!Next
    PROVE  TablesInv'
  <1>1. MaxIndex \in Nat
    BY DEF Tables!ContainersAssumption
  <1> DEFINE Answered == answer' = <<>> \/ \E x : answer' = <<x, x>>
  <1>2. ASSUME NEW k \in Key, NEW v \in Element, Tables!emitAMD64CollectionSet(k, v)
        PROVE  TablesInv'
    <2>1. kind = "collection" /\ kind' = kind /\ answer' = <<>>
      BY <1>2 DEF Tables!emitAMD64CollectionSet, Tables!IsArray
    <2>2. CollectionRight'
      BY <1>2, <2>1, CollectionSetStep DEF TablesInv, Tables!IsArray
    <2> QED BY <2>1, <2>2 DEF TablesInv, Tables!IsArray
  <1>3. ASSUME NEW k \in Key, Tables!emitAMD64CollectionDelete(k)
        PROVE  TablesInv'
    <2>1. kind = "collection" /\ kind' = kind
      BY <1>3 DEF Tables!emitAMD64CollectionDelete, Tables!IsArray
    <2>2. CollectionRight' /\ \E x : answer' = <<x, x>>
      BY <1>3, <2>1, CollectionDeleteStep DEF TablesInv, Tables!IsArray
    <2> QED BY <2>1, <2>2 DEF TablesInv, Tables!IsArray
  <1>4. CASE Tables!emitAMD64CollectionClear
    <2>1. kind = "collection" /\ kind' = kind /\ answer' = <<>>
      BY <1>4 DEF Tables!emitAMD64CollectionClear, Tables!IsArray
    <2>2. CollectionRight'
      BY <1>4, <2>1, CollectionClearStep DEF TablesInv, Tables!IsArray
    <2> QED BY <2>1, <2>2 DEF TablesInv, Tables!IsArray
  <1>5. ASSUME NEW n \in Name, NEW v \in Element, Tables!emitAMD64DynamicSet(n, v)
        PROVE  TablesInv'
    <2>1. kind = "object" /\ kind' = kind /\ answer' = <<>>
      BY <1>5 DEF Tables!emitAMD64DynamicSet, Tables!IsArray
    <2>2. ObjectRight'
      BY <1>5, <2>1, ObjectSetStep DEF TablesInv, Tables!IsArray
    <2> QED BY <2>1, <2>2 DEF TablesInv, Tables!IsArray
  <1>6. ASSUME NEW n \in Name, Tables!emitAMD64DynamicGet(n)
        PROVE  TablesInv'
    <2>1. kind = "object" /\ kind' = kind
      BY <1>6 DEF Tables!emitAMD64DynamicGet, Tables!IsArray
    <2>2. ObjectRight' /\ \E x : answer' = <<x, x>>
      BY <1>6, <2>1, ObjectGetStep DEF TablesInv, Tables!IsArray
    <2> QED BY <2>1, <2>2 DEF TablesInv, Tables!IsArray
  <1>7. ASSUME NEW v \in Element, NEW i \in -1 .. MaxIndex, Tables!emitAMD64ArraySet(i, v)
        PROVE  TablesInv'
    <2>1. Tables!IsArray /\ kind' = kind /\ answer' = <<>> /\ i \in Int
      BY <1>1, <1>7 DEF Tables!emitAMD64ArraySet, Tables!IsArray
    <2>2. ArrayRight'
      BY <1>7, <2>1, ArraySetStep DEF TablesInv, Tables!IsArray
    <2> QED BY <2>1, <2>2 DEF TablesInv, Tables!IsArray
  <1>8. ASSUME NEW v \in Element, Tables!emitAMD64ArrayPush(v)
        PROVE  TablesInv'
    <2>1. Tables!IsArray /\ kind' = kind /\ answer' = <<>>
      BY <1>8 DEF Tables!emitAMD64ArrayPush, Tables!IsArray
    <2>2. ArrayRight'
      BY <1>8, <2>1, ArrayPushStep DEF TablesInv, Tables!IsArray
    <2> QED BY <2>1, <2>2 DEF TablesInv, Tables!IsArray
  <1>9. CASE Tables!emitAMD64ArrayPop
    <2>1. Tables!IsArray /\ kind' = kind
      BY <1>9 DEF Tables!emitAMD64ArrayPop, Tables!IsArray
    <2>2. ArrayRight' /\ \E x : answer' = <<x, x>>
      BY <1>9, <2>1, ArrayPopStep DEF TablesInv, Tables!IsArray
    <2> QED BY <2>1, <2>2 DEF TablesInv, Tables!IsArray
  <1> QED BY <1>2, <1>3, <1>4, <1>5, <1>6, <1>7, <1>8, <1>9 DEF Tables!Next

LEMMA TablesStutter ==
    ASSUME TablesInv, UNCHANGED Tables!vars
    PROVE  TablesInv'
  BY DEF Tables!vars, TablesInv, CollectionRight, ObjectRight, ArrayRight, Tables!Zero, Tables!IsArray

LEMMA TablesAgree ==
    ASSUME Tables!ContainersAssumption, TablesInv
    PROVE  Tables!TypeOK /\ Tables!ContainersAgree
  <1>1. kind \in {"collection", "object", "array", "values"}
    BY DEF TablesInv, Tables!ContainersAssumption, Tables!IsArray
  <1>2. Len(answer) \in {0, 2} /\ (answer # <<>> => answer[1] = answer[2])
    <2>1. CASE answer = <<>>
      BY <2>1
    <2>2. ASSUME NEW x, answer = <<x, x>>
          PROVE  Len(answer) = 2 /\ answer[1] = answer[2]
      BY <2>2
    <2> QED BY <2>1, <2>2 DEF TablesInv, Tables!IsArray
  <1>3. CASE kind = "collection"
    <2>1. CollectionRight
      BY <1>3 DEF TablesInv, Tables!IsArray
    <2>2. count \in 0 .. Len(slots) /\ Len(slots) \in Nat \ {0} /\ last = -1 /\ count = Len(given)
      BY <2>1, CollectionTyped DEF CollectionRight
    <2>3. ASSUME NEW k \in Key
          PROVE  /\ Tables!CollectionValue(k) = Tables!GivenValue(k)
                 /\ Tables!emitAMD64CollectionHas(k) = (Tables!GivenAt(k) # {})
      <3> DEFINE at == Tables!emitAMD64CollectionFind(k)
      <3>1. \/ at = -1 /\ Tables!GivenAt(k) = {} /\ Tables!GivenValue(k) = Tables!Undefined
            \/ at \in 1 .. count /\ Tables!GivenAt(k) = {at} /\ Tables!GivenValue(k) = slots[at].value
        BY <2>1, CollectionFindIs
      <3>2. /\ Tables!CollectionValue(k) = IF at = -1 THEN Tables!Undefined ELSE slots[at].value
            /\ Tables!emitAMD64CollectionHas(k) = (at # -1)
        BY DEF Tables!CollectionValue, Tables!emitAMD64CollectionHas, Tables!IsArray
      <3> HIDE DEF at
      <3> QED BY <2>2, <3>1, <3>2
    <2>4. Tables!TypeOK
      BY <1>2, <2>2 DEF Tables!TypeOK, Tables!Capacity, TablesInv, Tables!IsArray
    <2>5. Tables!Agrees
      BY <1>2, <1>3, <2>1, <2>2, <2>3 DEF Tables!Agrees, CollectionRight, Tables!IsArray
    <2>6. Tables!NothingStale
      BY <1>3, <2>1 DEF Tables!NothingStale, CollectionRight, Tables!Capacity, Tables!IsArray
    <2> QED BY <2>4, <2>5, <2>6 DEF Tables!ContainersAgree
  <1>4. CASE kind = "object"
    <2>1. ObjectRight /\ slots \in Table
      BY <1>4 DEF TablesInv, ObjectRight, Searchable, Tables!IsArray
    <2>2. /\ Len(slots) \in Nat /\ DOMAIN slots = 1 .. Len(slots) /\ count = Len(given) /\ count \in Nat
          /\ Cardinality(Tables!Occupied(slots)) = count /\ Content(slots) = {given[i] : i \in DOMAIN given}
          /\ 4 * count <= 3 * Len(slots) /\ Len(slots) >= 4 /\ last \in -1 .. Len(slots) - 1
      BY <2>1, TableTyped DEF ObjectRight
    <2>3. count < Len(slots)
      BY <2>2
    <2>4. Tables!TypeOK
      BY <1>2, <2>2, <2>3 DEF Tables!TypeOK, Tables!Capacity, TablesInv, Tables!IsArray
    <2>5. Tables!Agrees
      BY <1>2, <1>4, <2>1, <2>2, EntriesAre DEF Tables!Agrees, Tables!IsArray
    <2>6. Tables!NothingStale
      <3>1. PICK i \in 1 .. Len(slots) : i \notin Tables!Occupied(slots)
        BY <2>1, <2>2, <2>3, HasFree
      <3> QED BY <1>4, <2>2, <3>1 DEF Tables!NothingStale, Tables!Occupied, Tables!Capacity, Tables!IsArray
    <2> QED BY <2>4, <2>5, <2>6 DEF Tables!ContainersAgree
  <1>5. CASE Tables!IsArray
    <2>1. ArrayRight
      BY <1>5 DEF TablesInv, Tables!IsArray
    <2>2. /\ count \in 0 .. Len(slots) /\ Len(slots) \in Nat \ {0} /\ last = -1 /\ count = Len(given)
          /\ \A i \in 1 .. count : slots[i] = given[i]
      BY <2>1, ArrayTyped DEF ArrayRight
    <2>3. \A i \in 0 .. MaxIndex :
             Tables!emitAMD64ArrayGet(i) = IF i < Len(given) THEN given[i + 1] ELSE Tables!Outside
      <3>1. MaxIndex \in Nat
        BY DEF Tables!ContainersAssumption
      <3> TAKE i \in 0 .. MaxIndex
      <3>2. i \in 0 .. count - 1 <=> i < Len(given)
        BY <2>2, <3>1
      <3>3. i < Len(given) => i + 1 \in 1 .. count
        BY <2>2, <3>1
      <3> QED BY <2>2, <3>2, <3>3 DEF Tables!emitAMD64ArrayGet, Tables!IsArray
    <2>4. Tables!TypeOK
      BY <1>2, <2>2 DEF Tables!TypeOK, Tables!Capacity, TablesInv, Tables!IsArray
    <2>5. Tables!Agrees
      BY <1>2, <1>5, <2>2, <2>3 DEF Tables!Agrees, Tables!IsArray
    <2>6. Tables!NothingStale
      BY <1>5, <2>1 DEF Tables!NothingStale, ArrayRight, Tables!Capacity, Tables!Zero, Tables!IsArray
    <2> QED BY <2>4, <2>5, <2>6 DEF Tables!ContainersAgree
  <1> QED BY <1>1, <1>3, <1>4, <1>5 DEF Tables!IsArray

(* A Map, Set, dynamic object or array answers as the calls before it call *)
(* for, whatever blocks it has grown into and wherever its last hit was;   *)
(* what the collector reads past its entries is zero, and a search of a    *)
(* table ends (collection_amd64.go, dynamic_object_amd64.go,               *)
(* array_runtime_amd64.go).                                                *)
THEOREM ContainersAnswerRight ==
    ASSUME Tables!ContainersAssumption
    PROVE  Tables!Spec => [](Tables!TypeOK /\ Tables!ContainersAgree)
  <1>1. Tables!Init => TablesInv
    BY TablesBegin
  <1>2. TablesInv /\ [Tables!Next]_Tables!vars => TablesInv'
    BY TablesStep, TablesStutter
  <1>3. TablesInv => Tables!TypeOK /\ Tables!ContainersAgree
    BY TablesAgree
  <1> QED BY <1>1, <1>2, <1>3, PTL DEF Tables!Spec

=============================================================================
