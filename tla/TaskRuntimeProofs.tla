------------------------- MODULE TaskRuntimeProofs -------------------------
(***************************************************************************)
(* Proofs about TaskRuntime: its inductive invariant, and from it the      *)
(* safety properties, for any number of tasks, groups, contexts and any    *)
(* delays.                                                                 *)
(***************************************************************************)
EXTENDS TaskRuntime, FiniteSetTheorems, WellFoundedInduction, TLAPS

-----------------------------------------------------------------------------
(* Sequences as the runtime's lists use them.                              *)

(* Appending adds one element and keeps the elements distinct. *)
LEMMA AppendElements ==
    ASSUME NEW S, NEW s \in Seq(S), NEW x \in S
    PROVE  /\ Append(s, x) \in Seq(S)
           /\ Elements(Append(s, x)) = Elements(s) \cup {x}
           /\ Distinct(s) /\ x \notin Elements(s) => Distinct(Append(s, x))
<1> DEFINE r == Append(s, x)
<1>1. /\ r \in Seq(S) /\ Len(r) = Len(s) + 1 /\ r[Len(s) + 1] = x
      /\ \A i \in 1..Len(s) : r[i] = s[i]
  OBVIOUS
<1>2. DOMAIN r = 1..Len(s) + 1 /\ DOMAIN s = 1..Len(s) /\ Len(s) \in Nat
  BY <1>1
<1>3. Elements(r) = Elements(s) \cup {x}
  BY <1>1, <1>2 DEF Elements
<1>4. ASSUME Distinct(s), x \notin Elements(s) PROVE Distinct(r)
  BY <1>1, <1>2, <1>4 DEF Elements, Distinct
<1> QED BY <1>1, <1>3, <1>4

(* Removing the head of a list of distinct elements removes just it. *)
LEMMA TailElements ==
    ASSUME NEW S, NEW s \in Seq(S), s # <<>>
    PROVE  /\ Head(s) \in S /\ Head(s) \in Elements(s) /\ Tail(s) \in Seq(S)
           /\ Elements(Tail(s)) \subseteq Elements(s)
           /\ Elements(s) = Elements(Tail(s)) \cup {Head(s)}
           /\ Distinct(s) => Distinct(Tail(s)) /\ Head(s) \notin Elements(Tail(s))
<1> DEFINE r == Tail(s)
<1>1. Len(s) \in Nat /\ Len(s) # 0 /\ DOMAIN s = 1..Len(s)
  OBVIOUS
<1>2. /\ r \in Seq(S) /\ Len(r) = Len(s) - 1
      /\ \A i \in 1..Len(s) - 1 : r[i] = s[i + 1]
      /\ Head(s) = s[1] /\ Head(s) \in S
  BY <1>1
<1>3. DOMAIN r = 1..Len(s) - 1
  BY <1>1, <1>2
<1>4. Elements(r) \subseteq Elements(s) /\ Head(s) \in Elements(s)
  BY <1>1, <1>2, <1>3 DEF Elements
<1>5. Elements(s) \subseteq Elements(r) \cup {Head(s)}
  <2> SUFFICES ASSUME NEW i \in 1..Len(s), i # 1 PROVE s[i] \in Elements(r)
    BY <1>1, <1>2 DEF Elements
  <2>1. i - 1 \in 1..Len(s) - 1 /\ s[i] = r[i - 1]
    BY <1>1, <1>2
  <2> QED BY <2>1, <1>3 DEF Elements
<1>6. ASSUME Distinct(s) PROVE Distinct(r) /\ Head(s) \notin Elements(r)
  BY <1>1, <1>2, <1>3, <1>6 DEF Elements, Distinct
<1> QED BY <1>2, <1>4, <1>5, <1>6

(* Inserting behind the first k elements adds one element. *)
LEMMA InsertElements ==
    ASSUME NEW S, NEW s \in Seq(S), NEW x \in S, NEW k \in 0..Len(s)
    PROVE  /\ InsertedAfter(s, k, x) \in Seq(S)
           /\ Elements(InsertedAfter(s, k, x)) = Elements(s) \cup {x}
           /\ Distinct(s) /\ x \notin Elements(s) => Distinct(InsertedAfter(s, k, x))
<1> DEFINE r == InsertedAfter(s, k, x)
<1>1. /\ Len(s) \in Nat /\ DOMAIN s = 1..Len(s) /\ DOMAIN r = 1..Len(s) + 1
      /\ \A i \in 1..Len(s) + 1 :
            r[i] = IF i <= k THEN s[i] ELSE IF i = k + 1 THEN x ELSE s[i - 1]
  BY DEF InsertedAfter
<1>2. /\ \A i \in 1..k : r[i] = s[i]
      /\ r[k + 1] = x
      /\ \A i \in k + 2..Len(s) + 1 : r[i] = s[i - 1]
  BY <1>1
<1>3. \A i \in 1..Len(s) + 1 : r[i] \in S
  BY <1>1
<1>4. r \in Seq(S)
  BY <1>1, <1>3 DEF InsertedAfter
<1>5. Elements(r) \subseteq Elements(s) \cup {x}
  BY <1>1 DEF Elements
<1>6. x \in Elements(r)
  BY <1>1, <1>2 DEF Elements
<1>7. ASSUME NEW i \in 1..Len(s) PROVE s[i] \in Elements(r)
  <2>1. CASE i <= k
    BY <2>1, <1>1, <1>2 DEF Elements
  <2>2. CASE i > k
    <3>1. i + 1 \in DOMAIN r /\ r[i + 1] = s[i]
      BY <2>2, <1>1, <1>2
    <3>2. \A j \in DOMAIN r : r[j] \in Elements(r)
      BY DEF Elements
    <3> QED BY <3>1, <3>2
  <2> QED BY <2>1, <2>2
<1>8. ASSUME Distinct(s), x \notin Elements(s) PROVE Distinct(r)
  BY <1>1, <1>8 DEF Elements, Distinct
<1> QED BY <1>1, <1>4, <1>5, <1>6, <1>7, <1>8 DEF Elements

-----------------------------------------------------------------------------
(* What the shared parts of the actions do.                                *)

(* The timer list after an insertion. *)
LEMMA InsertTimerElements ==
    ASSUME TypeOK, NEW t \in Task, NEW d \in Int, InsertTimer(t, d)
    PROVE  /\ timerQueue' \in Seq(Task)
           /\ Elements(timerQueue') = Elements(timerQueue) \cup {t}
           /\ Distinct(timerQueue) /\ t \notin Elements(timerQueue)
                 => Distinct(timerQueue')
<1>1. timerQueue \in Seq(Task)
  BY DEF TypeOK
<1>2. PICK k \in 0..Len(timerQueue) : timerQueue' = InsertedAfter(timerQueue, k, t)
  BY DEF InsertTimer
<1> QED BY <1>1, <1>2, InsertElements

(* A task that is entered becomes the top of the activation chain. *)
LEMMA EnterChain ==
    ASSUME TypeOK, ChainOK, NEW t \in Task, t \notin OnChain, Enter(t)
    PROVE  ChainOK' /\ OnChain' = OnChain \cup {t}
<1>1. /\ current' = t
      /\ parent' = [parent EXCEPT ![t] = current]
      /\ returnRsp' = [returnRsp EXCEPT ![t] = TRUE]
      /\ parent \in [Task -> Ctx] /\ returnRsp \in [Task -> BOOLEAN]
      /\ t # NoTask /\ current \in Ctx
  BY TaskAssumption DEF Enter, TypeOK
<1>2. OnChain' = OnChain \cup {t}
  BY <1>1 DEF OnChain
<1>3. /\ parent'[t] = current /\ current # t
      /\ \A u \in OnChain : parent'[u] = parent[u] /\ parent[u] # t
  BY <1>1, TaskAssumption DEF ChainOK, OnChain
<1>4. /\ current' # NoTask => current' \in OnChain'
      /\ current' = NoTask => OnChain' = {}
      /\ \A u \in OnChain' : parent'[u] = NoTask \/ parent'[u] \in OnChain'
      /\ \A u \in OnChain' : parent'[u] # current'
  BY <1>1, <1>2, <1>3 DEF ChainOK
<1>5. \A u, v \in OnChain' : parent'[u] = parent'[v] => u = v
  BY <1>1, <1>2, <1>3 DEF ChainOK
<1>6. ASSUME NEW u \in OnChain', u # current' PROVE \E v \in OnChain' : parent'[v] = u
  <2>1. CASE u = current
    BY <2>1, <1>2, <1>3
  <2>2. CASE u # current
    BY <2>2, <1>1, <1>2, <1>3, <1>6 DEF ChainOK
  <2> QED BY <2>1, <2>2
<1>7. ASSUME NEW S \in SUBSET OnChain', S # {} PROVE \E u \in S : parent'[u] \notin S
  <2>1. CASE S = {t}
    BY <2>1, <1>3
  <2>2. CASE S # {t}
    <3>1. S \ {t} \in SUBSET OnChain /\ S \ {t} # {}
      BY <2>2, <1>2, <1>7
    <3>2. PICK u \in S \ {t} : parent[u] \notin S \ {t}
      BY <3>1 DEF ChainOK
    <3> QED BY <3>1, <3>2, <1>3
  <2> QED BY <2>1, <2>2
<1> QED BY <1>2, <1>4, <1>5, <1>6, <1>7 DEF ChainOK

(* Leaving a task for its parent removes the top of the chain. *)
LEMMA LeaveChain ==
    ASSUME TypeOK, ChainOK, current # NoTask, NEW b, NEW r, RestoreCaller(b, r)
    PROVE  ChainOK' /\ OnChain' = OnChain \ {current} /\ current' = parent[current]
<1>1. /\ current' = parent[current]
      /\ parent' = [parent EXCEPT ![current] = NoTask]
      /\ returnRsp' = [returnRsp EXCEPT ![current] = FALSE]
      /\ parent \in [Task -> Ctx] /\ returnRsp \in [Task -> BOOLEAN]
      /\ current \in Task
  BY DEF RestoreCaller, LeaveTo, TypeOK, Ctx
<1>2. OnChain' = OnChain \ {current}
  BY <1>1 DEF OnChain
<1>3. \A u \in OnChain' : parent'[u] = parent[u]
  BY <1>1, <1>2 DEF OnChain
<1>4. current \in OnChain /\ \A u \in OnChain : parent[u] # current
  BY DEF ChainOK
<1>5. current' = NoTask => OnChain' = {}
  <2> SUFFICES ASSUME current' = NoTask, OnChain' # {} PROVE FALSE
    OBVIOUS
  <2>1. OnChain' \in SUBSET OnChain
    BY <1>2
  <2>2. PICK u \in OnChain' : parent[u] \notin OnChain'
    BY <2>1 DEF ChainOK
  <2>3. parent[u] = NoTask
    BY <2>2, <1>2, <1>4 DEF ChainOK
  <2>4. u = current
    BY <2>2, <2>3, <1>1, <1>2, <1>4 DEF ChainOK
  <2> QED BY <2>2, <2>4, <1>2
<1>6. current' # NoTask => current' \in OnChain'
  BY <1>1, <1>2, <1>4 DEF ChainOK
<1>7. /\ \A u \in OnChain' : parent'[u] = NoTask \/ parent'[u] \in OnChain'
      /\ \A u \in OnChain' : parent'[u] # current'
      /\ \A u, v \in OnChain' : parent'[u] = parent'[v] => u = v
  BY <1>1, <1>2, <1>3, <1>4 DEF ChainOK
<1>8. ASSUME NEW u \in OnChain', u # current' PROVE \E v \in OnChain' : parent'[v] = u
  <2>1. PICK v \in OnChain : parent[v] = u
    BY <1>2, <1>8 DEF ChainOK
  <2>2. v # current
    BY <2>1, <1>1, <1>8
  <2> QED BY <2>1, <2>2, <1>2, <1>3
<1>9. ASSUME NEW S \in SUBSET OnChain', S # {} PROVE \E u \in S : parent'[u] \notin S
  <2>1. S \in SUBSET OnChain
    BY <1>2
  <2>2. PICK u \in S : parent[u] \notin S
    BY <2>1, <1>9 DEF ChainOK
  <2> QED BY <2>2, <1>3
<1> QED BY <1>1, <1>2, <1>5, <1>6, <1>7, <1>8, <1>9 DEF ChainOK

(* The chain only depends on the frame words and the current task. *)
LEMMA SameChain ==
    ASSUME ChainOK, UNCHANGED frameVars
    PROVE  ChainOK' /\ OnChain' = OnChain
BY DEF ChainOK, OnChain, frameVars

(* Where an insertion by deadline puts the new timer: every live one in    *)
(* front of it is due no later, every one behind it was armed for later.   *)
(* The timer that stops the walk is live, since a zero stops no walk.      *)
LEMMA InsertPlace ==
    ASSUME TypeOK, TimersSorted, OnlyZeroInPlace, NEW t \in Task, NEW d \in Nat, InsertTimer(t, d)
    PROVE  \E k \in 0..Len(timerQueue) :
              /\ timerQueue' = InsertedAfter(timerQueue, k, t)
              /\ \A i \in 1..k : \/ ClearedInPlace(timerQueue[i])
                                 \/ armed[timerQueue[i]] <= d
              /\ \A i \in k + 1..Len(timerQueue) : d < armed[timerQueue[i]]
<1> DEFINE q == timerQueue
<1>1. /\ q \in Seq(Task) /\ Len(q) \in Nat /\ DOMAIN q = 1..Len(q)
      /\ wake \in [Task -> Nat] /\ armed \in [Task -> Nat]
  BY DEF TypeOK
<1>2. PICK k \in 0..Len(q) :
          /\ \A i \in 1..k : wake[q[i]] <= d
          /\ k < Len(q) => d < wake[q[k + 1]]
          /\ q' = InsertedAfter(q, k, t)
  BY DEF InsertTimer
<1>3. \A i \in 1..Len(q) : q[i] \in Task /\ wake[q[i]] \in Nat /\ armed[q[i]] \in Nat
  BY <1>1
<1>4. ASSUME NEW i \in 1..k PROVE ClearedInPlace(q[i]) \/ armed[q[i]] <= d
  BY <1>1, <1>2 DEF ClearedInPlace
<1>5. ASSUME NEW i \in k + 1..Len(q) PROVE d < armed[q[i]]
  <2>1. k + 1 \in 1..Len(q) /\ i \in 1..Len(q) /\ d < wake[q[k + 1]]
    BY <1>1, <1>2
  <2>2. ~ClearedInPlace(q[k + 1]) /\ d < armed[q[k + 1]]
    <3>1. wake[q[k + 1]] # 0
      BY <2>1, <1>3
    <3>2. ~ClearedInPlace(q[k + 1])
      BY <3>1, <2>1, <1>3 DEF OnlyZeroInPlace
    <3> QED BY <3>2, <2>1 DEF ClearedInPlace
  <2>3. armed[q[k + 1]] <= armed[q[i]]
    <3>1. CASE i = k + 1
      BY <3>1, <2>1, <1>3
    <3>2. CASE i # k + 1
      <4>1. k + 1 < i
        BY <3>2, <1>1
      <4> QED BY <4>1, <2>1, <2>2, <1>1 DEF TimersSorted
    <3> QED BY <3>1, <3>2
  <2>4. armed[q[k + 1]] \in Nat /\ armed[q[i]] \in Nat
    BY <2>1, <1>3
  <2> HIDE DEF q
  <2> QED BY <2>2, <2>3, <2>4
<1> QED BY <1>2, <1>4, <1>5

(* The list after such an insertion, position by position. *)
LEMMA InsertedAt ==
    ASSUME NEW q \in Seq(Task), NEW k \in 0..Len(q), NEW t,
           NEW r, r = InsertedAfter(q, k, t)
    PROVE  /\ DOMAIN r = 1..Len(q) + 1
           /\ \A i \in 1..k : r[i] = q[i]
           /\ r[k + 1] = t
           /\ \A i \in k + 2..Len(q) + 1 : r[i] = q[i - 1]
BY DEF InsertedAfter

(* Inserting by deadline keeps the live timers sorted. *)
LEMMA InsertTimerSorted ==
    ASSUME TypeOK, TimersSorted, OnlyZeroInPlace, NEW t \in Task, NEW d \in Nat,
           InsertTimer(t, d), t \notin Elements(timerQueue),
           wake' = [wake EXCEPT ![t] = d], armed' = [armed EXCEPT ![t] = d]
    PROVE  TimersSorted' /\ OnlyZeroInPlace'
<1> DEFINE q == timerQueue
<1>1. /\ q \in Seq(Task) /\ Len(q) \in Nat /\ DOMAIN q = 1..Len(q)
      /\ wake \in [Task -> Nat] /\ armed \in [Task -> Nat]
  BY DEF TypeOK
<1>2. PICK k \in 0..Len(q) :
          /\ q' = InsertedAfter(q, k, t)
          /\ \A i \in 1..k : ClearedInPlace(q[i]) \/ armed[q[i]] <= d
          /\ \A i \in k + 1..Len(q) : d < armed[q[i]]
  BY InsertPlace
<1>3. /\ DOMAIN q' = 1..Len(q) + 1
      /\ \A i \in 1..k : q'[i] = q[i]
      /\ q'[k + 1] = t
      /\ \A i \in k + 2..Len(q) + 1 : q'[i] = q[i - 1]
  <2>1. PICK r : r = InsertedAfter(q, k, t)
    OBVIOUS
  <2>2. /\ DOMAIN r = 1..Len(q) + 1
        /\ \A i \in 1..k : r[i] = q[i]
        /\ r[k + 1] = t
        /\ \A i \in k + 2..Len(q) + 1 : r[i] = q[i - 1]
    BY ONLY <1>1, <2>1, k \in 0..Len(q), t \in Task DEF InsertedAfter
  <2>3. q' = r
    BY <1>2, <2>1
  <2> HIDE DEF q
  <2> QED BY ONLY <2>2, <2>3
<1>4. /\ \A i \in 1..Len(q) : q[i] \in Task /\ q[i] # t
      /\ \A u \in Task : u # t => wake'[u] = wake[u] /\ armed'[u] = armed[u]
      /\ wake'[t] = d /\ armed'[t] = d
  <2>1. \A i \in 1..Len(q) : q[i] \in Task /\ q[i] # t
    BY <1>1 DEF Elements
  <2>2. /\ \A u \in Task : u # t => wake'[u] = wake[u] /\ armed'[u] = armed[u]
        /\ wake'[t] = d /\ armed'[t] = d
    BY <1>1
  <2> QED BY <2>1, <2>2
<1>5. \A i \in 1..Len(q) : /\ armed'[q[i]] = armed[q[i]] /\ armed[q[i]] \in Nat
                           /\ wake'[q[i]] # armed'[q[i]] <=> ClearedInPlace(q[i])
  BY <1>1, <1>4 DEF ClearedInPlace
<1>6. ASSUME NEW i \in 1..Len(q) + 1, NEW j \in 1..Len(q) + 1, i < j
      PROVE  wake'[q'[i]] # armed'[q'[i]] \/ armed'[q'[i]] <= armed'[q'[j]]
  <2> DEFINE old(n) == IF n <= k THEN n ELSE n - 1
  <2>1. CASE i # k + 1 /\ j # k + 1
    <3>1. /\ old(i) \in 1..Len(q) /\ old(j) \in 1..Len(q) /\ old(i) < old(j)
          /\ q'[i] = q[old(i)] /\ q'[j] = q[old(j)]
      <4>1. /\ old(i) \in 1..Len(q) /\ old(j) \in 1..Len(q) /\ old(i) < old(j)
        BY <2>1, <1>1, <1>6
      <4>2. ASSUME NEW n \in 1..Len(q) + 1, n # k + 1 PROVE q'[n] = q[old(n)]
        <5>1. CASE n \in 1..k
          BY <5>1, <1>1, <1>3
        <5>2. CASE n \in k + 2..Len(q) + 1
          BY <5>2, <1>1, <1>3
        <5> QED BY <5>1, <5>2, <4>2, <1>1
      <4> QED BY <4>1, <4>2, <2>1
    <3> HIDE DEF old
    <3>2. ClearedInPlace(q[old(i)]) \/ armed[q[old(i)]] <= armed[q[old(j)]]
      BY <3>1, <1>1 DEF TimersSorted
    <3>3. /\ armed'[q[old(i)]] = armed[q[old(i)]] /\ armed'[q[old(j)]] = armed[q[old(j)]]
          /\ wake'[q[old(i)]] # armed'[q[old(i)]] <=> ClearedInPlace(q[old(i)])
      BY <3>1, <1>5
    <3>4. CASE ClearedInPlace(q[old(i)])
      BY <3>1, <3>3, <3>4 DEF ClearedInPlace
    <3>5. CASE armed[q[old(i)]] <= armed[q[old(j)]]
      BY <3>1, <3>3, <3>5
    <3> QED BY <3>2, <3>4, <3>5
  <2>2. CASE j = k + 1
    <3>1. i \in 1..k /\ i \in 1..Len(q) /\ q'[i] = q[i] /\ q'[j] = t
      BY <2>2, <1>1, <1>3, <1>6
    <3>2. CASE ClearedInPlace(q[i])
      BY <3>1, <3>2, <1>5 DEF ClearedInPlace
    <3>3. CASE armed[q[i]] <= d
      BY <3>1, <3>3, <1>4, <1>5
    <3> QED BY <3>1, <3>2, <3>3, <1>2
  <2>3. CASE i = k + 1
    <3>1. j - 1 \in k + 1..Len(q) /\ j - 1 \in 1..Len(q) /\ q'[j] = q[j - 1] /\ q'[i] = t
      BY <2>3, <1>1, <1>3, <1>6
    <3>2. d < armed[q[j - 1]] /\ armed'[q[j - 1]] = armed[q[j - 1]] /\ armed[q[j - 1]] \in Nat
      BY <3>1, <1>2, <1>5
    <3> QED BY <3>1, <3>2, <1>4
  <2> QED BY <2>1, <2>2, <2>3
<1>7. TimersSorted'
  BY <1>3, <1>6 DEF TimersSorted, ClearedInPlace
<1>8. OnlyZeroInPlace'
  BY <1>4 DEF OnlyZeroInPlace, ClearedInPlace
<1> QED BY <1>7, <1>8

(* Removing the head keeps the rest of the list as it is. *)
LEMMA RemoveTimerSorted ==
    ASSUME TypeOK, TimersSorted, timerQueue # <<>>,
           timerQueue' = Tail(timerQueue), wake' = wake, armed' = armed
    PROVE  TimersSorted'
<1>1. /\ timerQueue \in Seq(Task) /\ Len(timerQueue) \in Nat
      /\ DOMAIN timerQueue = 1..Len(timerQueue)
      /\ DOMAIN timerQueue' = 1..Len(timerQueue) - 1
      /\ \A i \in 1..Len(timerQueue) - 1 : timerQueue'[i] = timerQueue[i + 1]
  BY DEF TypeOK
<1> SUFFICES ASSUME NEW i \in 1..Len(timerQueue) - 1, NEW j \in 1..Len(timerQueue) - 1, i < j
             PROVE  \/ wake'[timerQueue'[i]] # armed'[timerQueue'[i]]
                    \/ armed'[timerQueue'[i]] <= armed'[timerQueue'[j]]
  BY <1>1 DEF TimersSorted, ClearedInPlace
<1>2. i + 1 \in 1..Len(timerQueue) /\ j + 1 \in 1..Len(timerQueue) /\ i + 1 < j + 1
  BY <1>1
<1>3. \/ ClearedInPlace(timerQueue[i + 1])
      \/ armed[timerQueue[i + 1]] <= armed[timerQueue[j + 1]]
  BY <1>1, <1>2 DEF TimersSorted
<1> QED BY <1>1, <1>3 DEF ClearedInPlace

(* The order does not depend on anything but the list and its deadlines. *)
LEMMA SameTimers ==
    ASSUME UNCHANGED <<timerQueue, wake, armed>>, TimersSorted, OnlyZeroInPlace
    PROVE  TimersSorted' /\ OnlyZeroInPlace'
BY DEF TimersSorted, OnlyZeroInPlace, ClearedInPlace

(* A deadline set to zero in place keeps the live timers sorted: the       *)
(* cleared one is no longer compared with those behind it, and those in    *)
(* front of it with the end of its own sleep.                              *)
LEMMA ZeroInPlaceSorted ==
    ASSUME TypeOK, TimersSorted, OnlyZeroInPlace, NEW t \in Task,
           UNCHANGED <<timerQueue, armed>>, wake' = [wake EXCEPT ![t] = 0]
    PROVE  TimersSorted' /\ OnlyZeroInPlace'
<1>1. /\ wake \in [Task -> Nat] /\ armed \in [Task -> Nat]
      /\ wake'[t] = 0 /\ \A u \in Task \ {t} : wake'[u] = wake[u]
      /\ timerQueue \in Seq(Task)
  BY DEF TypeOK
<1>2. ASSUME NEW u \in Task, ClearedInPlace(u) PROVE wake'[u] # armed'[u] \/ armed[u] = 0
  <2>1. wake[u] = 0
    BY <1>2 DEF OnlyZeroInPlace
  <2> QED BY <2>1, <1>1, <1>2 DEF ClearedInPlace
<1>3. ASSUME NEW i \in DOMAIN timerQueue, NEW j \in DOMAIN timerQueue, i < j
      PROVE  wake'[timerQueue[i]] # armed'[timerQueue[i]] \/ armed[timerQueue[i]] <= armed[timerQueue[j]]
  <2>1. timerQueue[i] \in Task /\ timerQueue[j] \in Task
    BY <1>1
  <2>2. armed[timerQueue[j]] \in Nat
    BY <2>1, <1>1
  <2>3. CASE ClearedInPlace(timerQueue[i])
    <3>1. wake'[timerQueue[i]] # armed'[timerQueue[i]] \/ armed[timerQueue[i]] = 0
      BY <1>2, <2>1, <2>3
    <3> QED BY <3>1, <2>2
  <2>4. CASE armed[timerQueue[i]] <= armed[timerQueue[j]]
    BY <2>4
  <2> QED BY <1>3, <2>3, <2>4 DEF TimersSorted
<1>4. TimersSorted'
  BY <1>3 DEF TimersSorted, ClearedInPlace
<1>5. OnlyZeroInPlace'
  BY <1>1 DEF OnlyZeroInPlace, ClearedInPlace
<1> QED BY <1>4, <1>5

-----------------------------------------------------------------------------
(* The inductive invariant                                                 *)

(* The properties of IInv that are not about types. *)
Shape ==
    OneHome /\ ChainOK /\ FrameWords /\ TargetsExist /\ JoinersStayOnChain
            /\ TimersSorted /\ OnlyZeroInPlace

(* Steps that only change flags, the clock, or what a context waits for. *)
LEMMA QuietStep ==
    ASSUME IInv, UNCHANGED <<state, frameVars, queueVars, members>>,
           UNCHANGED <<wake, armed>> \/ (TimersSorted' /\ OnlyZeroInPlace'),
           \A c \in Ctx : \A t \in Elements(joining'[c]) : state[t] # "free",
           \A t \in Task : joining'[t] # <<>> => joining[t] # <<>> \/ t = current
    PROVE  Shape'
<1>1. ChainOK' /\ OnChain' = OnChain
  BY SameChain DEF IInv
<1>2. OneHome' /\ FrameWords' /\ TargetsExist'
  BY <1>1 DEF IInv, OneHome, FrameWords, TargetsExist, InQueue, queueVars, frameVars
<1>3. JoinersStayOnChain'
  BY <1>1, TaskAssumption DEF IInv, JoinersStayOnChain, ChainOK
<1>4. TimersSorted' /\ OnlyZeroInPlace'
  BY SameTimers DEF IInv, queueVars
<1> QED BY <1>1, <1>2, <1>3, <1>4 DEF Shape

(* Steps that create a task. *)
LEMMA CreateStep ==
    ASSUME IInv, NEW t \in Task, state[t] = "free", state' = [state EXCEPT ![t] = "new"],
           UNCHANGED <<frameVars, joining>>,
           OneHome', TimersSorted', OnlyZeroInPlace',
           \A h \in Group : Elements(members'[h]) \subseteq Elements(members[h]) \cup {t}
    PROVE  Shape'
<1>1. ChainOK' /\ OnChain' = OnChain
  BY SameChain DEF IInv
<1>2. FrameWords'
  BY DEF IInv, TypeOK, FrameWords, frameVars
<1>3. TargetsExist'
  BY DEF IInv, TypeOK, TargetsExist
<1>4. JoinersStayOnChain'
  BY <1>1 DEF IInv, JoinersStayOnChain
<1> QED BY <1>1, <1>2, <1>3, <1>4 DEF Shape

(* Steps in which the current task gives up control: to be parked (its     *)
(* state stays "running") or because it settles.                           *)
LEMMA LeaveStep ==
    ASSUME IInv, Running, current # NoTask, NEW s2 \in {"running", "fulfilled", "rejected"},
           RestoreCaller(s2 = "running", IF s2 = "running" THEN current ELSE NoRoot),
           state' = [state EXCEPT ![current] = s2],
           UNCHANGED <<joining, members>>,
           OneHome', TimersSorted', OnlyZeroInPlace'
    PROVE  Shape'
<1>1. /\ ChainOK' /\ OnChain' = OnChain \ {current} /\ current' = parent[current]
      /\ current \in OnChain /\ current \in Task
  BY LeaveChain DEF IInv, TypeOK, Ctx, ChainOK
<1>2. FrameWords'
  <2>1. rootHead' = current'
    BY <1>1 DEF RestoreCaller, LeaveTo, IInv, FrameWords, OnChain
  <2>2. ASSUME NEW t \in Task, t # current
        PROVE  /\ state'[t] = state[t] /\ parent'[t] = parent[t]
               /\ returnRsp'[t] = returnRsp[t] /\ returnRoot'[t] = returnRoot[t]
               /\ savedRsp'[t] = savedRsp[t] /\ savedRoot'[t] = savedRoot[t]
    BY <2>2 DEF RestoreCaller, LeaveTo, IInv, TypeOK
  <2>3. /\ state'[current] = s2 /\ returnRsp'[current] = FALSE
        /\ returnRoot'[current] = NoRoot /\ savedRsp'[current] = (s2 = "running")
        /\ savedRoot'[current] = IF s2 = "running" THEN current ELSE NoRoot
    BY <1>1 DEF RestoreCaller, LeaveTo, IInv, TypeOK
  <2>4. \A t \in Task : t # current =>
           /\ returnRsp'[t] => state'[t] = "running"
           /\ savedRsp'[t] <=> state'[t] = "running" /\ ~returnRsp'[t]
           /\ savedRoot'[t] = IF savedRsp'[t] THEN t ELSE NoRoot
           /\ returnRoot'[t] = IF returnRsp'[t] THEN parent'[t] ELSE NoRoot
    <3> SUFFICES ASSUME NEW t \in Task, t # current
                 PROVE  /\ returnRsp'[t] => state'[t] = "running"
                        /\ savedRsp'[t] <=> state'[t] = "running" /\ ~returnRsp'[t]
                        /\ savedRoot'[t] = IF savedRsp'[t] THEN t ELSE NoRoot
                        /\ returnRoot'[t] = IF returnRsp'[t] THEN parent'[t] ELSE NoRoot
      OBVIOUS
    <3>1. /\ returnRsp[t] => state[t] = "running"
          /\ savedRsp[t] <=> state[t] = "running" /\ ~returnRsp[t]
          /\ savedRoot[t] = IF savedRsp[t] THEN t ELSE NoRoot
          /\ returnRoot[t] = IF returnRsp[t] THEN parent[t] ELSE NoRoot
      BY DEF IInv, FrameWords
    <3>2. /\ state'[t] = state[t] /\ parent'[t] = parent[t]
          /\ returnRsp'[t] = returnRsp[t] /\ returnRoot'[t] = returnRoot[t]
          /\ savedRsp'[t] = savedRsp[t] /\ savedRoot'[t] = savedRoot[t]
      BY <2>2
    <3> QED BY ONLY <3>1, <3>2
  <2>5. /\ returnRsp'[current] => state'[current] = "running"
        /\ savedRsp'[current] <=> state'[current] = "running" /\ ~returnRsp'[current]
        /\ savedRoot'[current] = IF savedRsp'[current] THEN current ELSE NoRoot
        /\ returnRoot'[current] = IF returnRsp'[current] THEN parent'[current] ELSE NoRoot
    BY ONLY <2>3
  <2> QED BY ONLY <2>1, <2>4, <2>5 DEF FrameWords
<1>3. TargetsExist'
  BY <1>1 DEF IInv, TypeOK, TargetsExist
<1>4. JoinersStayOnChain'
  BY <1>1 DEF IInv, JoinersStayOnChain, Running
<1> QED BY <1>1, <1>2, <1>3, <1>4 DEF Shape

(* Every task has one home after a settlement. *)
LEMMA SettleHome ==
    ASSUME IInv, current # NoTask, NEW s2 \in {"fulfilled", "rejected"}, NEW b, NEW r,
           RestoreCaller(b, r), state' = [state EXCEPT ![current] = s2], UNCHANGED queueVars
    PROVE  OneHome'
<1>1. /\ OnChain' = OnChain \ {current} /\ current \in OnChain /\ current \in Task
      /\ InQueue' = InQueue
  BY LeaveChain DEF IInv, TypeOK, Ctx, ChainOK, InQueue, queueVars
<1>2. {t \in Task : state'[t] \in {"new", "running"}}
         = {t \in Task : state[t] \in {"new", "running"}} \ {current}
  BY <1>1 DEF IInv, TypeOK
<1> QED BY <1>1, <1>2 DEF IInv, OneHome, queueVars

(* Every task has one home after the current one has been parked in one of *)
(* the lists.                                                              *)
LEMMA ParkHome ==
    ASSUME IInv, current # NoTask, NEW b, NEW r, RestoreCaller(b, r), state' = state,
           InQueue' = InQueue \cup {current},
           Distinct(runQueue') /\ Distinct(microQueue') /\ Distinct(timerQueue'),
           Elements(runQueue') \cap Elements(microQueue') = {},
           Elements(runQueue') \cap Elements(timerQueue') = {},
           Elements(microQueue') \cap Elements(timerQueue') = {}
    PROVE  OneHome'
<1>1. OnChain' = OnChain \ {current} /\ current \in OnChain
  BY LeaveChain DEF IInv, ChainOK
<1> QED BY <1>1 DEF IInv, OneHome

(* Every task has one home after one of them left its list for the chain,  *)
(* or, a cancelled timer, was settled.                                     *)
LEMMA DispatchHome ==
    ASSUME IInv, NEW t \in InQueue, Dispatch(t),
           InQueue' = InQueue \ {t},
           Distinct(runQueue') /\ Distinct(microQueue') /\ Distinct(timerQueue'),
           Elements(runQueue') \cap Elements(microQueue') = {},
           Elements(runQueue') \cap Elements(timerQueue') = {},
           Elements(microQueue') \cap Elements(timerQueue') = {}
    PROVE  OneHome'
<1>1. t \in Task /\ t \notin OnChain /\ state[t] \in {"new", "running"}
  BY DEF IInv, OneHome
<1>2. CASE SkipClosure(t)
  <2>1. OnChain' = OnChain
    BY <1>2 DEF SkipClosure, OnChain, frameVars
  <2>2. {u \in Task : state'[u] \in {"new", "running"}}
           = {u \in Task : state[u] \in {"new", "running"}} \ {t}
    BY <1>1, <1>2 DEF SkipClosure, IInv, TypeOK
  <2> QED BY <2>1, <2>2, <1>1 DEF IInv, OneHome
<1>3. CASE Resume(t)
  <2>1. OnChain' = OnChain \cup {t}
    BY <1>1, <1>3, EnterChain DEF IInv, Resume
  <2>2. {u \in Task : state'[u] \in {"new", "running"}}
           = {u \in Task : state[u] \in {"new", "running"}}
    BY <1>1, <1>3 DEF Resume, Enter, IInv, TypeOK
  <2> QED BY <2>1, <2>2, <1>1 DEF IInv, OneHome
<1> QED BY <1>2, <1>3 DEF Dispatch

(* Steps that take a task out of its list and enter it. *)
LEMMA DispatchStep ==
    ASSUME IInv, NEW t \in InQueue, Dispatch(t), UNCHANGED members,
           OneHome', TimersSorted', OnlyZeroInPlace'
    PROVE  Shape'
<1>1. t \in Task /\ t \notin OnChain /\ state[t] \in {"new", "running"} /\ joining' = joining
  BY DEF IInv, OneHome, Dispatch
<1>2. CASE SkipClosure(t) /\ ~savedRsp[t]
  <2>1. ChainOK' /\ OnChain' = OnChain
    BY <1>2, SameChain DEF IInv, SkipClosure
  <2>2. /\ state' = [state EXCEPT ![t] = "fulfilled"]
        /\ savedRsp[t] = FALSE /\ returnRsp[t] = FALSE
    <3>1. state[t] = "new" \/ savedRsp[t]
      BY <1>1 DEF IInv, FrameWords, OnChain
    <3> QED BY <3>1, <1>1, <1>2 DEF SkipClosure, OnChain, IInv, TypeOK
  <2>3. FrameWords'
    BY <2>2, <1>1, <1>2 DEF SkipClosure, IInv, TypeOK, FrameWords, frameVars
  <2>4. TargetsExist'
    BY <2>2, <1>1 DEF IInv, TypeOK, TargetsExist
  <2>5. JoinersStayOnChain'
    BY <2>1, <1>1 DEF IInv, JoinersStayOnChain
  <2> QED BY <2>1, <2>3, <2>4, <2>5 DEF Shape
<1>3. CASE Resume(t)
  <2>1. ChainOK' /\ OnChain' = OnChain \cup {t}
    BY <1>1, <1>3, EnterChain DEF IInv, Resume
  <2>2. /\ current' = t /\ state'[t] = "running"
        /\ parent'[t] = current /\ returnRsp'[t] = TRUE /\ returnRoot'[t] = rootHead
        /\ savedRsp'[t] = FALSE /\ savedRoot'[t] = NoRoot
        /\ rootHead' = IF savedRsp[t] THEN savedRoot[t] ELSE t
    BY <1>1, <1>3 DEF Resume, Enter, IInv, TypeOK, FrameWords
  <2>3. ASSUME NEW u \in Task, u # t
        PROVE  /\ state'[u] = state[u] /\ parent'[u] = parent[u]
               /\ returnRsp'[u] = returnRsp[u] /\ returnRoot'[u] = returnRoot[u]
               /\ savedRsp'[u] = savedRsp[u] /\ savedRoot'[u] = savedRoot[u]
    BY <2>3, <1>1, <1>3 DEF Resume, Enter, IInv, TypeOK
  <2>4. FrameWords'
    <3>1. rootHead' = current'
      BY <2>2, <1>1 DEF IInv, FrameWords
    <3>2. returnRoot'[t] = parent'[t]
      BY <2>2 DEF IInv, FrameWords
    <3>3. ASSUME NEW u \in Task, u # t
          PROVE  /\ returnRsp'[u] => state'[u] = "running"
                 /\ savedRsp'[u] <=> state'[u] = "running" /\ ~returnRsp'[u]
                 /\ savedRoot'[u] = IF savedRsp'[u] THEN u ELSE NoRoot
                 /\ returnRoot'[u] = IF returnRsp'[u] THEN parent'[u] ELSE NoRoot
      BY <2>3, <3>3 DEF IInv, FrameWords
    <3> QED BY <2>2, <3>1, <3>2, <3>3 DEF FrameWords
  <2>5. TargetsExist'
    <3>1. \A u \in Task : state[u] # "free" => state'[u] # "free"
      BY <2>2, <2>3
    <3>2. /\ \A c \in Ctx : Elements(joining[c]) \subseteq Task
          /\ \A g \in Group : Elements(members[g]) \subseteq Task
      BY DEF IInv, TypeOK, Elements
    <3> QED BY <3>1, <3>2, <1>1 DEF IInv, TargetsExist
  <2>6. JoinersStayOnChain'
    BY <2>1, <1>1 DEF IInv, JoinersStayOnChain
  <2> QED BY <2>1, <2>4, <2>5, <2>6 DEF Shape
<1> QED BY <1>2, <1>3 DEF Dispatch

(* Every action keeps the variables in their types. *)
LEMMA TypeStep == IInv /\ [Next]_vars => TypeOK'
<1> SUFFICES ASSUME IInv, [Next]_vars PROVE TypeOK'
  OBVIOUS
<1> USE DEF TypeOK
<1>0. /\ TypeOK /\ rootHead = current
      /\ (current # NoTask => current \in Task /\ returnRoot[current] = parent[current])
      /\ NoTask \in Ctx /\ Task \subseteq Ctx /\ Inherited \in Context
  BY ContextAssumption DEF IInv, FrameWords, ChainOK, OnChain, Ctx, Inherited
<1>1. ASSUME NEW t \in Task, Spawn(t) PROVE TypeOK'
  <2>1. /\ t \in Task /\ runQueue' = Append(runQueue, t) /\ runQueue \in Seq(Task)
        /\ state' = [state EXCEPT ![t] = "new"] /\ timer' = [timer EXCEPT ![t] = FALSE]
        /\ context' = [context EXCEPT ![t] = Inherited]
    BY <1>0, <1>1 DEF Spawn, NewTask
  <2>2. runQueue' \in Seq(Task)
    BY ONLY <2>1
  <2>3. /\ state' \in [Task -> {"free", "new", "running", "fulfilled", "rejected"}]
        /\ timer' \in [Task -> BOOLEAN] /\ context' \in [Task -> Context]
    BY <1>0, <2>1
  <2>4. UNCHANGED <<cancelled, wake, armed, parent, returnRsp, savedRsp, returnRoot, savedRoot, current, rootHead,
                    microQueue, timerQueue, joining, members, main, now>>
    BY <1>1 DEF Spawn, frameVars
  <2> QED BY ONLY <1>0, <2>2, <2>3, <2>4 DEF TypeOK, Ctx
<1>2. ASSUME NEW t \in Task, MicrotaskSpawn(t) PROVE TypeOK'
  <2>1. microQueue' \in Seq(Task)
    BY <1>0, <1>2 DEF MicrotaskSpawn
  <2>2. /\ NewTask(t, FALSE)
        /\ UNCHANGED <<cancelled, wake, armed, frameVars, runQueue, timerQueue, joining, members, main, now>>
    BY <1>2 DEF MicrotaskSpawn
  <2> QED BY <2>1, <2>2, <1>0 DEF NewTask, frameVars
<1>3. ASSUME NEW t \in Task, NEW g \in Group, GroupSpawn(g, t) PROVE TypeOK'
  <2>1. members' \in [Group -> Seq(Task)]
    BY <1>0, <1>3 DEF GroupSpawn
  <2>2. /\ NewTask(t, FALSE) /\ runQueue' = Append(runQueue, t)
        /\ UNCHANGED <<cancelled, wake, armed, frameVars, microQueue, timerQueue, joining, main, now>>
    BY <1>3 DEF GroupSpawn
  <2> QED BY <2>1, <2>2, <1>0 DEF NewTask, frameVars
<1>4. ASSUME NEW t \in Task, NEW d \in Delay, SetTimeout(t, d) PROVE TypeOK'
  <2> DEFINE deadline == now + (IF d < 0 THEN 0 ELSE d)
  <2>1. deadline \in Nat
    BY <1>0, ClockAssumption
  <2>2. timerQueue' \in Seq(Task)
    BY <2>1, <1>0, <1>4, InsertTimerElements DEF SetTimeout
  <2> HIDE DEF deadline
  <2>3. wake' = [wake EXCEPT ![t] = deadline] /\ armed' = [armed EXCEPT ![t] = deadline]
    BY <1>4 DEF SetTimeout, deadline
  <2>4. wake' \in [Task -> Nat] /\ armed' \in [Task -> Nat]
    BY <2>1, <2>3, <1>0
  <2>5. /\ NewTask(t, TRUE)
        /\ UNCHANGED <<cancelled, frameVars, runQueue, microQueue, joining, members, main, now>>
    BY <1>4 DEF SetTimeout
  <2> QED BY ONLY <1>0, <2>2, <2>4, <2>5 DEF NewTask, frameVars, TypeOK, Ctx
<1>5. ASSUME NEW t \in Task, ClearTimeout(t) PROVE TypeOK'
  BY <1>0, <1>5 DEF ClearTimeout, frameVars, queueVars
<1>51. ASSUME NEW t \in Task, ClearInterval(t) PROVE TypeOK'
  <2>1. wake' \in [Task -> Nat]
    BY <1>0, <1>51 DEF ClearInterval
  <2> QED BY <2>1, <1>0, <1>51 DEF ClearInterval, frameVars, queueVars
<1>52. ASSUME NEW t \in Task, Collect(t) PROVE TypeOK'
  BY <1>0, <1>52, ContextAssumption DEF Collect, frameVars, queueVars
<1>6. ASSUME NEW t \in Task, Cancel(t) PROVE TypeOK'
  BY <1>0, <1>6 DEF Cancel, frameVars, queueVars
<1>7. ASSUME NEW g \in Group, GroupCancel(g) PROVE TypeOK'
  BY <1>0, <1>7 DEF GroupCancel, frameVars, queueVars
<1>8. ASSUME NEW x \in Context, SetContext(x) PROVE TypeOK'
  BY <1>0, <1>8 DEF SetContext, frameVars, queueVars
<1>9. ASSUME NEW t \in Task, Join(t) PROVE TypeOK'
  BY <1>0, <1>9 DEF Join, taskVars, frameVars, queueVars
<1>10. ASSUME NEW g \in Group, GroupJoin(g) PROVE TypeOK'
  BY <1>0, <1>10 DEF GroupJoin, taskVars, frameVars, queueVars
<1>11. CASE JoinNext
  <2>1. Tail(joining[current]) \in Seq(Task)
    BY <1>0, <1>11 DEF JoinNext
  <2> QED BY <2>1, <1>0, <1>11 DEF JoinNext, taskVars, frameVars, queueVars
<1>12. ASSUME NEW outcome \in {"fulfilled", "rejected"}, Settle(outcome) PROVE TypeOK'
  BY <1>0, <1>12 DEF Settle, RestoreCaller, LeaveTo, queueVars
<1>13. CASE Yield
  BY <1>0, <1>13 DEF Yield, Suspend, RestoreCaller, LeaveTo, taskVars
<1>14. ASSUME NEW d \in Delay, Sleep(d) PROVE TypeOK'
  <2>1. now + d \in Nat
    BY <1>0, <1>14, ClockAssumption DEF Sleep
  <2>2. timerQueue' \in Seq(Task)
    BY <2>1, <1>0, <1>14, InsertTimerElements DEF Sleep
  <2> QED BY <2>1, <2>2, <1>0, <1>14 DEF Sleep, Suspend, RestoreCaller, LeaveTo
<1>15. CASE RejectMain \/ YieldMain \/ EndMain
  BY <1>0, <1>15 DEF RejectMain, YieldMain, EndMain, taskVars, frameVars, queueVars
<1>16. ASSUME NEW d \in Delay, SleepMain(d) PROVE TypeOK'
  <2>1. now' \in Nat
    BY <1>0, <1>16, ClockAssumption DEF SleepMain
  <2> QED BY <2>1, <1>0, <1>16 DEF SleepMain, taskVars, frameVars, queueVars
<1>17. ASSUME NEW t \in Task, Dispatch(t)
       PROVE  /\ state' \in [Task -> {"free", "new", "running", "fulfilled", "rejected"}]
              /\ parent' \in [Task -> Ctx]
              /\ returnRsp' \in [Task -> BOOLEAN] /\ savedRsp' \in [Task -> BOOLEAN]
              /\ returnRoot' \in [Task -> Ctx \cup {NoRoot}]
              /\ savedRoot' \in [Task -> Ctx \cup {NoRoot}]
              /\ current' \in Ctx /\ rootHead' \in Ctx
              /\ main' \in {"running", "yielding", "draining", "exited"}
              /\ UNCHANGED <<timer, cancelled, context, wake, armed, joining, members>>
  <2>0. savedRsp[t] => savedRoot[t] \in Ctx
    BY <1>0 DEF IInv, FrameWords
  <2>1. CASE SkipClosure(t)
    BY <2>1, <1>0, <1>17 DEF Dispatch, SkipClosure, RunOneCalled, frameVars
  <2>2. CASE Resume(t)
    BY <2>0, <2>2, <1>0, <1>17 DEF Dispatch, Resume, Enter, RunOneCalled
  <2> QED BY <2>1, <2>2, <1>17 DEF Dispatch
<1>18. CASE RunMicrotask
  <2>1. Head(microQueue) \in Task /\ Tail(microQueue) \in Seq(Task)
    BY <1>0, <1>18, TailElements DEF RunMicrotask
  <2> QED BY <2>1, <1>0, <1>17, <1>18 DEF RunMicrotask
<1>19. CASE RunDueTimer \/ WaitForTimer
  <2>1. Head(timerQueue) \in Task /\ Tail(timerQueue) \in Seq(Task)
    BY <1>0, <1>19, TailElements DEF RunDueTimer, WaitForTimer, TimerDue
  <2>2. now' \in Nat
    BY <2>1, <1>0, <1>19 DEF RunDueTimer, WaitForTimer
  <2> QED BY <2>1, <2>2, <1>0, <1>17, <1>19 DEF RunDueTimer, WaitForTimer
<1>20. CASE RunRunnable
  <2>1. Head(runQueue) \in Task /\ Tail(runQueue) \in Seq(Task)
    BY <1>0, <1>20, TailElements DEF RunRunnable
  <2> QED BY <2>1, <1>0, <1>17, <1>20 DEF RunRunnable
<1>21. CASE NoWork
  BY <1>0, <1>21 DEF NoWork, taskVars, frameVars, queueVars
<1>22. CASE Tick
  BY <1>0, <1>22 DEF Tick, taskVars, frameVars, queueVars
<1>23. CASE UNCHANGED vars
  BY <1>0, <1>23 DEF vars, taskVars, frameVars, queueVars
<1> QED
  BY <1>1, <1>2, <1>3, <1>4, <1>5, <1>51, <1>52, <1>6, <1>7, <1>8, <1>9, <1>10, <1>11, <1>12, <1>13,
     <1>14, <1>15, <1>16, <1>18, <1>19, <1>20, <1>21, <1>22, <1>23
     DEF Next, RunOne, Complete, Reject

(* Appending a task that has no home to a list, or inserting it among the  *)
(* timers, keeps the lists disjoint.                                       *)
LEMMA NewHome ==
    ASSUME IInv, NEW t \in Task, state[t] = "free", state' = [state EXCEPT ![t] = "new"],
           UNCHANGED frameVars,
           \/ runQueue' = Append(runQueue, t) /\ UNCHANGED <<microQueue, timerQueue>>
           \/ microQueue' = Append(microQueue, t) /\ UNCHANGED <<runQueue, timerQueue>>
           \/ /\ Elements(timerQueue') = Elements(timerQueue) \cup {t}
              /\ Distinct(timerQueue')
              /\ UNCHANGED <<runQueue, microQueue>>
    PROVE  OneHome'
<1>1. t \notin InQueue /\ t \notin OnChain /\ OnChain' = OnChain
  BY DEF IInv, OneHome, OnChain, frameVars
<1>2. {u \in Task : state'[u] \in {"new", "running"}}
         = {u \in Task : state[u] \in {"new", "running"}} \cup {t}
  BY DEF IInv, TypeOK
<1>3. /\ runQueue \in Seq(Task) /\ microQueue \in Seq(Task)
  BY DEF IInv, TypeOK
<1>4. CASE runQueue' = Append(runQueue, t) /\ UNCHANGED <<microQueue, timerQueue>>
  <2>1. Elements(runQueue') = Elements(runQueue) \cup {t} /\ Distinct(runQueue')
    BY <1>1, <1>3, <1>4, AppendElements DEF IInv, OneHome, InQueue
  <2> QED BY <2>1, <1>1, <1>2, <1>4 DEF IInv, OneHome, InQueue
<1>5. CASE microQueue' = Append(microQueue, t) /\ UNCHANGED <<runQueue, timerQueue>>
  <2>1. Elements(microQueue') = Elements(microQueue) \cup {t} /\ Distinct(microQueue')
    BY <1>1, <1>3, <1>5, AppendElements DEF IInv, OneHome, InQueue
  <2> QED BY <2>1, <1>1, <1>2, <1>5 DEF IInv, OneHome, InQueue
<1>6. CASE /\ Elements(timerQueue') = Elements(timerQueue) \cup {t} /\ Distinct(timerQueue')
           /\ UNCHANGED <<runQueue, microQueue>>
  BY <1>1, <1>2, <1>6 DEF IInv, OneHome, InQueue
<1> QED BY <1>4, <1>5, <1>6

(* Every action preserves what IInv says beyond the types. *)
LEMMA ShapeStep == IInv /\ [Next]_vars => Shape'
<1> SUFFICES ASSUME IInv, [Next]_vars PROVE Shape'
  OBVIOUS
<1>0. /\ TypeOK /\ OneHome /\ ChainOK /\ TimersSorted /\ OnlyZeroInPlace /\ rootHead = current
      /\ runQueue \in Seq(Task) /\ microQueue \in Seq(Task) /\ timerQueue \in Seq(Task)
      /\ current # NoTask => current \in Task /\ state[current] = "running"
                             /\ current \in OnChain /\ current \notin InQueue
      /\ \A c \in Ctx : Elements(joining[c]) \subseteq Task
      /\ current \in Ctx
  <2>1. \A s \in Seq(Task) : Elements(s) \subseteq Task
    BY DEF Elements
  <2>2. \A c \in Ctx : Elements(joining[c]) \subseteq Task
    BY <2>1 DEF IInv, TypeOK
  <2>3. current # NoTask => current \in Task /\ current \in OnChain /\ current \notin InQueue
    BY DEF IInv, ChainOK, OnChain, OneHome
  <2> QED BY <2>2, <2>3 DEF IInv, TypeOK, FrameWords, OnChain
<1>1. ASSUME NEW t \in Task, Spawn(t) PROVE Shape'
  <2>1. OneHome'
    BY <1>1, NewHome DEF Spawn, NewTask
  <2>2. TimersSorted' /\ OnlyZeroInPlace'
    BY <1>0, <1>1, SameTimers DEF Spawn
  <2> QED BY <2>1, <2>2, <1>1, CreateStep DEF Spawn, NewTask
<1>2. ASSUME NEW t \in Task, MicrotaskSpawn(t) PROVE Shape'
  <2>1. OneHome'
    BY <1>2, NewHome DEF MicrotaskSpawn, NewTask
  <2>2. TimersSorted' /\ OnlyZeroInPlace'
    BY <1>0, <1>2, SameTimers DEF MicrotaskSpawn
  <2> QED BY <2>1, <2>2, <1>2, CreateStep DEF MicrotaskSpawn, NewTask
<1>3. ASSUME NEW t \in Task, NEW g \in Group, GroupSpawn(g, t) PROVE Shape'
  <2>1. OneHome'
    BY <1>3, NewHome DEF GroupSpawn, NewTask
  <2>2. TimersSorted' /\ OnlyZeroInPlace'
    BY <1>0, <1>3, SameTimers DEF GroupSpawn
  <2>3. ASSUME NEW h \in Group
        PROVE  Elements(members'[h]) \subseteq Elements(members[h]) \cup {t}
    <3>1. members[h] \in Seq(Task) /\ members \in [Group -> Seq(Task)]
      BY <1>0 DEF TypeOK
    <3>2. members'[h] = members[h] \/ members'[h] = <<t>> \o members[h]
      BY <3>1, <1>3 DEF GroupSpawn
    <3>3. Elements(<<t>> \o members[h]) \subseteq Elements(members[h]) \cup {t}
      BY <3>1 DEF Elements
    <3> QED BY <3>2, <3>3
  <2> QED BY <2>1, <2>2, <2>3, <1>3, CreateStep DEF GroupSpawn, NewTask
<1>4. ASSUME NEW t \in Task, NEW d \in Delay, SetTimeout(t, d) PROVE Shape'
  <2>0. now + (IF d < 0 THEN 0 ELSE d) \in Nat
    BY <1>0, ClockAssumption DEF TypeOK
  <2>1. PICK w \in Nat : /\ InsertTimer(t, w)
                      /\ wake' = [wake EXCEPT ![t] = w] /\ armed' = [armed EXCEPT ![t] = w]
    BY <2>0, <1>4 DEF SetTimeout
  <2>2. t \notin InQueue /\ state[t] = "free"
    BY <1>4 DEF SetTimeout, NewTask, IInv, OneHome
  <2>3. OneHome'
    <3>1. w \in Int
      OBVIOUS
    <3>2. Elements(timerQueue') = Elements(timerQueue) \cup {t} /\ Distinct(timerQueue')
      BY <2>1, <2>2, <3>1, <1>0, InsertTimerElements DEF OneHome, InQueue
    <3> QED BY <2>2, <3>2, <1>4, NewHome DEF SetTimeout, NewTask
  <2>4. TimersSorted' /\ OnlyZeroInPlace'
    BY <2>1, <2>2, <1>0, InsertTimerSorted DEF InQueue
  <2> QED BY <2>2, <2>3, <2>4, <1>4, CreateStep DEF SetTimeout, NewTask
<1>5. ASSUME NEW t \in Task, ClearTimeout(t) \/ Cancel(t) PROVE Shape'
  BY <1>5, QuietStep DEF ClearTimeout, Cancel, IInv, TargetsExist
<1>51. ASSUME NEW t \in Task, ClearInterval(t) PROVE Shape'
  <2>1. \/ UNCHANGED <<wake, armed>>
        \/ UNCHANGED <<timerQueue, armed>> /\ wake' = [wake EXCEPT ![t] = 0]
    BY <1>51 DEF ClearInterval, queueVars
  <2>2. UNCHANGED <<wake, armed>> \/ (TimersSorted' /\ OnlyZeroInPlace')
    BY <2>1, <1>0, ZeroInPlaceSorted
  <2> QED BY <2>2, <1>51, QuietStep DEF ClearInterval, IInv, TargetsExist
<1>52. ASSUME NEW t \in Task, Collect(t) PROVE Shape'
  <2>1. /\ state[t] \in {"fulfilled", "rejected"} /\ state' = [state EXCEPT ![t] = "free"]
        /\ UNCHANGED <<frameVars, queueVars, joining, members>>
    BY <1>52 DEF Collect, Settled
  <2>2. ChainOK' /\ OnChain' = OnChain
    BY <2>1, <1>0, SameChain
  <2>3. OneHome'
    <3>1. {u \in Task : state'[u] \in {"new", "running"}}
             = {u \in Task : state[u] \in {"new", "running"}}
      BY <2>1, <1>0 DEF TypeOK
    <3> QED BY <3>1, <2>1, <2>2, <1>0 DEF OneHome, InQueue, queueVars
  <2>4. FrameWords'
    BY <2>1, <1>0 DEF IInv, TypeOK, FrameWords, frameVars
  <2>5. TargetsExist'
    BY <2>1, <1>0, <1>52 DEF Collect, IInv, TypeOK, TargetsExist
  <2>6. JoinersStayOnChain'
    BY <2>1, <2>2 DEF IInv, JoinersStayOnChain
  <2>7. t \notin Elements(timerQueue)
    BY <2>1, <1>0 DEF OneHome, InQueue
  <2>8. TimersSorted' /\ OnlyZeroInPlace'
    <3>1. /\ wake' = [wake EXCEPT ![t] = 0] /\ armed' = [armed EXCEPT ![t] = 0]
          /\ timerQueue' = timerQueue /\ wake \in [Task -> Nat] /\ armed \in [Task -> Nat]
      BY <1>0, <1>52 DEF Collect, queueVars, TypeOK
    <3>2. \A i \in DOMAIN timerQueue : timerQueue[i] \in Task /\ timerQueue[i] # t
      BY <2>7, <1>0 DEF Elements
    <3>3. \A u \in Task : u # t => wake'[u] = wake[u] /\ armed'[u] = armed[u]
      BY <3>1
    <3>4. TimersSorted'
      BY <3>1, <3>2, <3>3, <1>0 DEF TimersSorted, ClearedInPlace
    <3>5. wake'[t] = armed'[t]
      BY <3>1
    <3>6. OnlyZeroInPlace'
      BY <3>3, <3>5, <1>0 DEF OnlyZeroInPlace, ClearedInPlace
    <3> QED BY <3>4, <3>6
  <2> QED BY <2>2, <2>3, <2>4, <2>5, <2>6, <2>8 DEF Shape
<1>6. ASSUME NEW g \in Group, GroupCancel(g) PROVE Shape'
  BY <1>6, QuietStep DEF GroupCancel, IInv, TargetsExist
<1>7. ASSUME NEW x \in Context, SetContext(x) PROVE Shape'
  BY <1>7, QuietStep DEF SetContext, IInv, TargetsExist
<1>8. ASSUME NEW t \in Task, Join(t) PROVE Shape'
  <2>1. joining' = [joining EXCEPT ![current] = <<t>>] /\ state[t] # "free"
    BY <1>8 DEF Join
  <2>2. ASSUME NEW c \in Ctx, NEW u \in Elements(joining'[c]) PROVE state[u] # "free"
    BY <2>1, <2>2, <1>0 DEF IInv, TypeOK, TargetsExist, Elements
  <2>3. \A u \in Task : joining'[u] # <<>> => joining[u] # <<>> \/ u = current
    BY <2>1, <1>0 DEF TypeOK, Ctx
  <2> QED BY <2>2, <2>3, <1>8, QuietStep DEF Join, taskVars
<1>9. ASSUME NEW g \in Group, GroupJoin(g) PROVE Shape'
  <2>1. joining' = [joining EXCEPT ![current] = members[g]]
    BY <1>9 DEF GroupJoin
  <2>2. ASSUME NEW c \in Ctx, NEW u \in Elements(joining'[c]) PROVE state[u] # "free"
    BY <2>1, <2>2, <1>0 DEF IInv, TypeOK, TargetsExist
  <2>3. \A u \in Task : joining'[u] # <<>> => joining[u] # <<>> \/ u = current
    BY <2>1, <1>0 DEF TypeOK, Ctx
  <2> QED BY <2>2, <2>3, <1>9, QuietStep DEF GroupJoin, taskVars
<1>10. CASE JoinNext
  <2>1. joining' = [joining EXCEPT ![current] = Tail(joining[current])] /\ joining[current] # <<>>
    BY <1>10 DEF JoinNext
  <2>2. Elements(Tail(joining[current])) \subseteq Elements(joining[current])
    BY <2>1, <1>0, TailElements DEF TypeOK
  <2>3. ASSUME NEW c \in Ctx, NEW u \in Elements(joining'[c]) PROVE state[u] # "free"
    BY <2>1, <2>2, <2>3, <1>0 DEF IInv, TypeOK, TargetsExist
  <2>4. \A u \in Task : joining'[u] # <<>> => joining[u] # <<>> \/ u = current
    BY <2>1, <1>0 DEF TypeOK, Ctx
  <2> QED BY <2>3, <2>4, <1>10, QuietStep DEF JoinNext, taskVars
<1>11. ASSUME NEW outcome \in {"fulfilled", "rejected"}, Settle(outcome) PROVE Shape'
  <2>1. OneHome'
    BY <1>11, SettleHome DEF Settle
  <2>2. TimersSorted' /\ OnlyZeroInPlace'
    BY <1>0, <1>11, SameTimers DEF Settle, queueVars
  <2> QED BY <2>1, <2>2, <1>11, LeaveStep DEF Settle
<1>12. CASE Yield
  <2>1. RestoreCaller(TRUE, current) /\ current # NoTask /\ state' = state
    BY <1>0, <1>12 DEF Yield, Suspend, taskVars
  <2>2. Elements(runQueue') = Elements(runQueue) \cup {current} /\ Distinct(runQueue')
    BY <2>1, <1>0, <1>12, AppendElements DEF Yield, OneHome, InQueue
  <2>3. OneHome'
    <3>1. UNCHANGED <<microQueue, timerQueue>> /\ InQueue' = InQueue \cup {current}
      BY <2>2, <1>12 DEF Yield, InQueue
    <3>2. /\ Elements(runQueue') \cap Elements(microQueue') = {}
          /\ Elements(runQueue') \cap Elements(timerQueue') = {}
      BY <2>1, <2>2, <3>1, <1>0 DEF OneHome, InQueue
    <3> QED BY <2>1, <2>2, <3>1, <3>2, <1>0, ParkHome DEF OneHome
  <2>4. TimersSorted' /\ OnlyZeroInPlace'
    BY <1>0, <1>12, SameTimers DEF Yield, taskVars
  <2>5. state' = [state EXCEPT ![current] = "running"]
    BY <2>1, <1>0 DEF TypeOK
  <2> QED BY <2>1, <2>3, <2>4, <2>5, <1>12, LeaveStep DEF Yield
<1>13. ASSUME NEW d \in Delay, Sleep(d) PROVE Shape'
  <2>1. RestoreCaller(TRUE, current) /\ current # NoTask /\ state' = state
    BY <1>0, <1>13 DEF Sleep, Suspend
  <2>2. PICK w \in Nat : /\ InsertTimer(current, w)
                      /\ wake' = [wake EXCEPT ![current] = w]
                      /\ armed' = [armed EXCEPT ![current] = w]
    <3>1. now + d \in Nat
      BY <1>0, <1>13, ClockAssumption DEF TypeOK, Sleep
    <3> QED BY <3>1, <1>13 DEF Sleep
  <2>3. Elements(timerQueue') = Elements(timerQueue) \cup {current} /\ Distinct(timerQueue')
    BY <2>1, <2>2, <1>0, InsertTimerElements DEF OneHome, InQueue
  <2>4. OneHome'
    <3>1. UNCHANGED <<runQueue, microQueue>> /\ InQueue' = InQueue \cup {current}
      BY <2>3, <1>13 DEF Sleep, InQueue
    <3>2. /\ Elements(runQueue') \cap Elements(timerQueue') = {}
          /\ Elements(microQueue') \cap Elements(timerQueue') = {}
      BY <2>1, <2>3, <3>1, <1>0 DEF OneHome, InQueue
    <3> QED BY <2>1, <2>3, <3>1, <3>2, <1>0, ParkHome DEF OneHome
  <2>5. TimersSorted' /\ OnlyZeroInPlace'
    BY <2>1, <2>2, <1>0, InsertTimerSorted DEF InQueue
  <2>6. state' = [state EXCEPT ![current] = "running"]
    BY <2>1, <1>0 DEF TypeOK
  <2> QED BY <2>1, <2>4, <2>5, <2>6, <1>13, LeaveStep DEF Sleep
<1>14. CASE RejectMain \/ YieldMain \/ EndMain
  BY <1>14, QuietStep DEF RejectMain, YieldMain, EndMain, taskVars, IInv, TargetsExist
<1>15. ASSUME NEW d \in Delay, SleepMain(d) PROVE Shape'
  BY <1>15, QuietStep DEF SleepMain, taskVars, IInv, TargetsExist
<1>16. CASE RunMicrotask
  <2> DEFINE t == Head(microQueue)
  <2>1. /\ t \in InQueue /\ Dispatch(t) /\ InQueue' = InQueue \ {t} /\ Distinct(microQueue')
        /\ Elements(microQueue') \subseteq Elements(microQueue)
    BY <1>0, <1>16, TailElements DEF RunMicrotask, OneHome, InQueue
  <2>2. OneHome'
    BY <2>1, <1>0, <1>16, DispatchHome DEF RunMicrotask, OneHome
  <2>3. TimersSorted' /\ OnlyZeroInPlace'
    BY <1>0, <1>16, SameTimers DEF RunMicrotask, Dispatch
  <2> QED BY <2>1, <2>2, <2>3, DispatchStep DEF Dispatch
<1>17. CASE RunDueTimer \/ WaitForTimer
  <2> DEFINE t == Head(timerQueue)
  <2>1. /\ timerQueue # <<>> /\ timerQueue' = Tail(timerQueue) /\ Dispatch(t)
        /\ UNCHANGED <<runQueue, microQueue>>
    BY <1>17 DEF RunDueTimer, WaitForTimer, TimerDue
  <2>2. /\ t \in InQueue /\ InQueue' = InQueue \ {t} /\ Distinct(timerQueue')
        /\ Elements(timerQueue') \subseteq Elements(timerQueue)
    BY <2>1, <1>0, TailElements DEF OneHome, InQueue
  <2>3. OneHome'
    BY <2>1, <2>2, <1>0, DispatchHome DEF OneHome
  <2>4. TimersSorted' /\ OnlyZeroInPlace'
    BY <2>1, <1>0, RemoveTimerSorted DEF Dispatch, OnlyZeroInPlace, ClearedInPlace
  <2> QED BY <2>1, <2>2, <2>3, <2>4, DispatchStep DEF Dispatch
<1>18. CASE RunRunnable
  <2> DEFINE t == Head(runQueue)
  <2>1. /\ t \in InQueue /\ Dispatch(t) /\ InQueue' = InQueue \ {t} /\ Distinct(runQueue')
        /\ Elements(runQueue') \subseteq Elements(runQueue)
    BY <1>0, <1>18, TailElements DEF RunRunnable, OneHome, InQueue
  <2>2. OneHome'
    BY <2>1, <1>0, <1>18, DispatchHome DEF RunRunnable, OneHome
  <2>3. TimersSorted' /\ OnlyZeroInPlace'
    BY <1>0, <1>18, SameTimers DEF RunRunnable, Dispatch
  <2> QED BY <2>1, <2>2, <2>3, DispatchStep DEF Dispatch
<1>19. CASE NoWork
  BY <1>19, QuietStep DEF NoWork, taskVars, IInv, TargetsExist
<1>20. CASE Tick
  BY <1>20, QuietStep DEF Tick, taskVars, IInv, TargetsExist
<1>21. CASE UNCHANGED vars
  BY <1>21, QuietStep DEF vars, taskVars, IInv, TargetsExist
<1> QED
  BY <1>1, <1>2, <1>3, <1>4, <1>5, <1>51, <1>52, <1>6, <1>7, <1>8, <1>9, <1>10, <1>11, <1>12, <1>13,
     <1>14, <1>15, <1>16, <1>17, <1>18, <1>19, <1>20, <1>21
     DEF Next, RunOne, Complete, Reject

LEMMA InitIInv == Init => IInv
<1> SUFFICES ASSUME Init PROVE IInv
  OBVIOUS
<1>1. TypeOK
  BY ContextAssumption DEF Init, TypeOK, Ctx
<1>2. OnChain = {} /\ InQueue = {}
  BY DEF Init, OnChain, InQueue, Elements
<1>3. OneHome
  BY <1>2 DEF Init, OneHome, Distinct, InQueue
<1>4. ChainOK
  BY <1>2 DEF Init, ChainOK
<1>5. FrameWords /\ TargetsExist /\ JoinersStayOnChain /\ TimersSorted /\ OnlyZeroInPlace
  BY DEF Init, FrameWords, TargetsExist, JoinersStayOnChain, TimersSorted, OnlyZeroInPlace,
         ClearedInPlace, Elements, Ctx
<1> QED BY <1>1, <1>3, <1>4, <1>5 DEF IInv

(* The inductive invariant holds in every reachable state. *)
THEOREM Invariance == Spec => []IInv
<1>1. IInv /\ [Next]_vars => IInv'
  BY TypeStep, ShapeStep DEF IInv, Shape
<1> QED BY <1>1, InitIInv, PTL DEF Spec

(* Every variable of the scheduler keeps its type. *)
THEOREM TypeCorrect == Spec => []TypeOK
<1>1. IInv => TypeOK
  BY DEF IInv
<1> QED BY <1>1, Invariance, PTL

(* The intrusive lists and the activation chain partition the live tasks:  *)
(* the shared field task.next never links a task into two lists.           *)
THEOREM EveryTaskHasOneHome == Spec => []OneHome
<1>1. IInv => OneHome
  BY DEF IInv
<1> QED BY <1>1, Invariance, PTL

(* Return contexts form one acyclic path from the current task to main. *)
THEOREM ActivationsAreOnePath == Spec => []ChainOK
<1>1. IInv => ChainOK
  BY DEF IInv
<1> QED BY <1>1, Invariance, PTL

(* The live timers stand in the list in the order of their deadlines, and  *)
(* a worker clearInterval has made due in place stands behind none that is *)
(* due after the end of its own sleep.                                     *)
THEOREM TimerListSorted == Spec => []TimersSorted
<1>1. IInv => TimersSorted
  BY DEF IInv
<1> QED BY <1>1, Invariance, PTL

(* The shadow-root words reach exactly the stacks that will run again.     *)
(* Each live stack is the current one, the caller of a task on the chain,  *)
(* or a suspended one in a list; main is beneath the whole chain.          *)
THEOREM CollectorScansEveryStack == Spec => []RootsScanned
<1>1. ASSUME IInv PROVE RootsScanned
  <2> DEFINE Started == {t \in Task : state[t] = "running"}
             Callers == {returnRoot[t] : t \in OnChain \cup InQueue}
             Saved == {savedRoot[t] : t \in OnChain \cup InQueue}
  <2>1. /\ rootHead = current /\ current \in Ctx
        /\ OnChain \subseteq Task /\ InQueue \subseteq Task
        /\ OnChain \cap InQueue = {} /\ NoRoot \notin Ctx
        /\ OnChain \cup InQueue = {t \in Task : state[t] \in {"new", "running"}}
    BY <1>1, TaskAssumption DEF IInv, TypeOK, FrameWords, OneHome, OnChain, Ctx
  <2>2. /\ \A t \in OnChain : returnRoot[t] = parent[t] /\ savedRoot[t] = NoRoot
        /\ \A t \in InQueue : returnRoot[t] = NoRoot
        /\ \A t \in InQueue : savedRoot[t] = IF state[t] = "running" THEN t ELSE NoRoot
        /\ \A t \in OnChain : state[t] = "running"
    BY <1>1, <2>1 DEF IInv, FrameWords, OnChain
  <2>3. ASSUME NEW r \in {rootHead} \cup Callers \cup Saved, r # NoRoot
        PROVE  r \in {NoTask} \cup Started
    <3>1. CASE r = rootHead
      BY <1>1, <2>1, <2>2, <3>1 DEF IInv, ChainOK
    <3>2. CASE r \in Callers
      <4>1. PICK t \in OnChain : r = parent[t]
        BY <2>2, <2>3, <3>2
      <4> QED BY <1>1, <4>1, <2>1, <2>2 DEF IInv, ChainOK
    <3>3. CASE r \in Saved
      BY <2>1, <2>2, <2>3, <3>3
    <3> QED BY <2>3, <3>1, <3>2, <3>3
  <2>4. NoTask \in {rootHead} \cup Callers
    <3>1. CASE OnChain = {}
      BY <1>1, <2>1, <3>1 DEF IInv, ChainOK
    <3>2. CASE OnChain # {}
      <4>1. PICK t \in OnChain : parent[t] \notin OnChain
        BY <1>1, <3>2 DEF IInv, ChainOK
      <4>2. parent[t] = NoTask
        BY <1>1, <4>1 DEF IInv, ChainOK
      <4> QED BY <4>2, <2>2
    <3> QED BY <3>1, <3>2
  <2>5. ASSUME NEW t \in Started PROVE t \in {rootHead} \cup Callers \cup Saved
    <3>1. CASE t \in OnChain
      <4>1. CASE t = current
        BY <4>1, <2>1
      <4>2. CASE t # current
        <5>1. PICK u \in OnChain : parent[u] = t
          BY <1>1, <3>1, <4>2 DEF IInv, ChainOK
        <5> QED BY <5>1, <2>2
      <4> QED BY <4>1, <4>2
    <3>2. CASE t \in InQueue
      BY <3>2, <2>2
    <3> QED BY <2>1, <3>1, <3>2
  <2>6. ({rootHead} \cup Callers \cup Saved) \ {NoRoot} = {NoTask} \cup Started
    <3>1. NoRoot \notin {NoTask} \cup Started
      BY TaskAssumption
    <3> HIDE DEF Started, Callers, Saved
    <3> QED BY <3>1, <2>3, <2>4, <2>5
  <2>7. /\ \A t \in Task : savedRoot[t] # NoRoot => savedRsp[t] /\ t \in InQueue
        /\ \A t \in Task : returnRoot[t] # NoRoot => t \in OnChain
    BY <1>1, <2>1 DEF IInv, FrameWords, OnChain
  <2> QED BY <2>6, <2>7 DEF RootsScanned
<1> QED BY <1>1, Invariance, PTL

(* A join that spins without work waits for a task beneath it on its own   *)
(* chain: no task is ever lost.                                            *)
THEOREM NoTaskIsLost == Spec => []StuckJoinIsNested
<1>1. ASSUME IInv, InRunOne, joining[current] # <<>>, InQueue = {}
      PROVE  Head(joining[current]) \in OnChain
  <2> DEFINE t == Head(joining[current])
  <2>1. joining[current] \in Seq(Task) /\ current \in Ctx
    BY <1>1 DEF IInv, TypeOK
  <2>2. t \in Task /\ t \in Elements(joining[current])
    BY <1>1, <2>1, TailElements
  <2>3. state[t] \notin {"free", "fulfilled", "rejected"}
    BY <1>1, <2>1, <2>2 DEF IInv, TargetsExist, InRunOne, Settled
  <2>4. state[t] \in {"new", "running"}
    BY <1>1, <2>2, <2>3 DEF IInv, TypeOK
  <2> QED BY <1>1, <2>2, <2>4 DEF IInv, OneHome
<1>2. IInv => StuckJoinIsNested
  BY <1>1 DEF StuckJoinIsNested
<1> QED BY <1>2, Invariance, PTL

-----------------------------------------------------------------------------
(* Action properties                                                       *)

(* Where a step can change task.State: at the creation of a task, at the   *)
(* settlement of the current one, and at a dispatch from a list.           *)
LEMMA StateChanges ==
    ASSUME IInv, [Next]_vars
    PROVE  \/ state' = state
           \/ \E t \in Task : state[t] = "free" /\ state' = [state EXCEPT ![t] = "new"]
           \/ \E t \in Task : Settled(t) /\ state' = [state EXCEPT ![t] = "free"]
           \/ /\ current \in OnChain
              /\ \E o \in {"fulfilled", "rejected"} : state' = [state EXCEPT ![current] = o]
           \/ \E t \in InQueue : Dispatch(t)
<1>1. ASSUME NEW t \in Task,
             \/ Spawn(t) \/ MicrotaskSpawn(t)
             \/ \E g \in Group : GroupSpawn(g, t)
             \/ \E d \in Delay : SetTimeout(t, d)
      PROVE  state[t] = "free" /\ state' = [state EXCEPT ![t] = "new"]
  BY <1>1 DEF Spawn, MicrotaskSpawn, GroupSpawn, SetTimeout, NewTask
<1>2. ASSUME NEW t \in Task, ClearTimeout(t) \/ ClearInterval(t) \/ Cancel(t) \/ Join(t)
      PROVE  state' = state
  BY <1>2 DEF ClearTimeout, ClearInterval, Cancel, Join, taskVars
<1>3. ASSUME \/ \E g \in Group : GroupCancel(g) \/ GroupJoin(g)
             \/ \E x \in Context : SetContext(x)
             \/ \E d \in Delay : Sleep(d) \/ SleepMain(d)
             \/ JoinNext \/ RejectMain \/ Yield \/ YieldMain \/ EndMain \/ NoWork \/ Tick
             \/ UNCHANGED vars
      PROVE  state' = state
  BY <1>3 DEF GroupCancel, GroupJoin, SetContext, Sleep, SleepMain, JoinNext, RejectMain,
              Yield, YieldMain, EndMain, NoWork, Tick, vars, taskVars
<1>4. ASSUME Complete \/ Reject
      PROVE  /\ current \in OnChain
             /\ \E o \in {"fulfilled", "rejected"} : state' = [state EXCEPT ![current] = o]
  BY <1>4 DEF Complete, Reject, Settle, IInv, ChainOK
<1>5. ASSUME RunMicrotask \/ RunDueTimer \/ RunRunnable \/ WaitForTimer
      PROVE  \E t \in InQueue : Dispatch(t)
  <2>1. runQueue \in Seq(Task) /\ microQueue \in Seq(Task) /\ timerQueue \in Seq(Task)
    BY DEF IInv, TypeOK
  <2>2. CASE RunMicrotask
    BY <2>1, <2>2, TailElements DEF RunMicrotask, InQueue
  <2>3. CASE RunDueTimer \/ WaitForTimer
    BY <2>1, <2>3, TailElements DEF RunDueTimer, WaitForTimer, TimerDue, InQueue
  <2>4. CASE RunRunnable
    BY <2>1, <2>4, TailElements DEF RunRunnable, InQueue
  <2> QED BY <1>5, <2>2, <2>3, <2>4
<1>6. ASSUME NEW t \in Task, Collect(t)
      PROVE  Settled(t) /\ state' = [state EXCEPT ![t] = "free"]
  BY <1>6 DEF Collect
<1> QED BY <1>1, <1>2, <1>3, <1>4, <1>5, <1>6 DEF Next, RunOne

(* A settled task stays as it is until it is collected. *)
THEOREM TasksSettleOnce == Spec => SettledForever
<1>1. ASSUME IInv, [Next]_vars, NEW t \in Task, Settled(t) PROVE state'[t] \in {state[t], "free"}
  <2>1. t \notin OnChain /\ t \notin InQueue /\ state[t] \in {"fulfilled", "rejected"}
    BY <1>1 DEF IInv, OneHome, Settled
  <2>2. ASSUME NEW u \in InQueue, Dispatch(u) PROVE state'[t] \in {state[t], "free"}
    BY <2>1, <2>2, <1>1 DEF Dispatch, SkipClosure, Resume, Enter, IInv, TypeOK
  <2> QED BY <2>1, <2>2, <1>1, StateChanges DEF IInv, TypeOK
<1>2. IInv /\ [Next]_vars => [\A t \in Task : Settled(t) => state'[t] \in {state[t], "free"}]_vars
  BY <1>1
<1> QED BY <1>2, Invariance, PTL DEF Spec, SettledForever

(* The callback of a timeout that was cleared in time never starts. *)
THEOREM ClearedTimersAreSilent == Spec => ClearedTimerNeverStarts
<1>1. ASSUME IInv, [Next]_vars, NEW t \in Task, timer[t], cancelled[t], state[t] = "new"
      PROVE  state'[t] # "running"
  <2>1. t \notin OnChain /\ ~savedRsp[t]
    BY <1>1 DEF IInv, FrameWords, OnChain
  <2>2. ASSUME NEW u \in InQueue, Dispatch(u) PROVE state'[t] # "running"
    <3>1. CASE u = t
      BY <3>1, <2>1, <2>2, <1>1 DEF Dispatch, SkipClosure, IInv, TypeOK
    <3>2. CASE u # t
      BY <3>2, <2>2, <1>1 DEF Dispatch, SkipClosure, Resume, Enter, IInv, TypeOK
    <3> QED BY <3>1, <3>2
  <2> QED BY <2>1, <2>2, <1>1, StateChanges DEF IInv, TypeOK
<1>2. IInv /\ [Next]_vars
         => [\A t \in Task : timer[t] /\ cancelled[t] /\ state[t] = "new"
                                => state'[t] # "running"]_vars
  BY <1>1
<1> QED BY <1>2, Invariance, PTL DEF Spec, ClearedTimerNeverStarts

(* No task leaves the timer list before the deadline it was armed with,    *)
(* unless clearInterval has made it due.                                   *)
THEOREM SleepersAreNotWokenEarly == Spec => NoEarlyWake
<1>1. ASSUME IInv, [Next]_vars, NEW t \in Elements(timerQueue) \ Elements(timerQueue')
      PROVE  armed[t] <= now' \/ ClearedInPlace(t)
  <2>1. /\ timerQueue \in Seq(Task) /\ now \in Nat /\ wake \in [Task -> Nat]
        /\ current # NoTask => current \in Task
        /\ TypeOK
    BY <1>1 DEF IInv, TypeOK, Ctx
  <2>2. ASSUME timerQueue' = timerQueue PROVE FALSE
    BY <1>1, <2>2
  <2>3. ASSUME NEW u \in Task, NEW w \in Int, InsertTimer(u, w) PROVE FALSE
    BY <1>1, <2>1, <2>3, InsertTimerElements
  <2>4. ASSUME NEW u \in Task, NEW d \in Delay, SetTimeout(u, d) PROVE FALSE
    <3>1. now + (IF d < 0 THEN 0 ELSE d) \in Int
      BY <2>1, ClockAssumption
    <3> QED BY <3>1, <2>3, <2>4 DEF SetTimeout
  <2>5. ASSUME NEW d \in Delay, Sleep(d) PROVE FALSE
    <3>1. now + d \in Int
      BY <2>1, ClockAssumption
    <3> QED BY <3>1, <2>1, <2>3, <2>5 DEF Sleep
  <2>6. CASE RunDueTimer \/ WaitForTimer
    <3>1. timerQueue # <<>> /\ timerQueue' = Tail(timerQueue) /\ wake[Head(timerQueue)] <= now'
      <4>1. timerQueue # <<>> /\ Head(timerQueue) \in Task
        BY <2>1, <2>6, TailElements DEF RunDueTimer, WaitForTimer, TimerDue
      <4> QED BY <4>1, <2>1, <2>6 DEF RunDueTimer, WaitForTimer, TimerDue
    <3>2. t = Head(timerQueue)
      BY <1>1, <2>1, <3>1, TailElements
    <3> QED BY <3>1, <3>2 DEF ClearedInPlace
  <2> QED
    BY <1>1, <2>2, <2>4, <2>5, <2>6
       DEF Next, RunOne, Spawn, MicrotaskSpawn, GroupSpawn, ClearTimeout, ClearInterval, Cancel, Join,
           Collect,
           GroupCancel, GroupJoin, SetContext, SleepMain, JoinNext, Complete, Reject, Settle,
           RejectMain, Yield, YieldMain, EndMain, RunMicrotask, RunRunnable, NoWork, Tick,
           vars, queueVars
<1>2. IInv /\ [Next]_vars
         => [\A t \in Elements(timerQueue) \ Elements(timerQueue') :
                armed[t] <= now' \/ ClearedInPlace(t)]_vars
  BY <1>1
<1> QED BY <1>2, Invariance, PTL DEF Spec, NoEarlyWake

(* Timers with equal deadlines fire in the order they were armed. *)
THEOREM LaterArmedFireLater == Spec => ArmedLastFiresLast
<1>1. ASSUME IInv, NEW t \in Task, NEW d \in Nat, InsertTimer(t, d), t \notin Elements(timerQueue),
             armed' = [armed EXCEPT ![t] = d],
             NEW i \in DOMAIN timerQueue', NEW j \in DOMAIN timerQueue', timerQueue'[j] = t, j < i
      PROVE  armed'[t] < armed'[timerQueue'[i]]
  <2> DEFINE q == timerQueue
  <2>1. /\ q \in Seq(Task) /\ armed \in [Task -> Nat] /\ Len(q) \in Nat /\ DOMAIN q = 1..Len(q)
        /\ TypeOK /\ TimersSorted /\ OnlyZeroInPlace
    BY <1>1 DEF IInv, TypeOK
  <2>2. PICK k \in 0..Len(q) :
            /\ q' = InsertedAfter(q, k, t)
            /\ \A n \in k + 1..Len(q) : d < armed[q[n]]
    BY <1>1, <2>1, InsertPlace
  <2>3. /\ DOMAIN q' = 1..Len(q) + 1
        /\ \A n \in 1..k : q'[n] = q[n]
        /\ \A n \in k + 2..Len(q) + 1 : q'[n] = q[n - 1]
    BY <2>1, <2>2 DEF InsertedAfter
  <2>4. \A n \in 1..Len(q) : q[n] \in Task /\ q[n] # t /\ armed'[q[n]] = armed[q[n]]
    BY <1>1, <2>1 DEF Elements
  <2>5. j \notin 1..k
    BY <1>1, <2>1, <2>3, <2>4
  <2>6. i \in k + 2..Len(q) + 1 /\ i - 1 \in k + 1..Len(q) /\ i - 1 \in 1..Len(q)
    BY <1>1, <2>1, <2>3, <2>5
  <2>7. armed'[q'[i]] = armed[q[i - 1]] /\ armed'[t] = d
    BY <1>1, <2>1, <2>3, <2>4, <2>6
  <2> QED BY <2>2, <2>6, <2>7
<1>2. ASSUME IInv, [Next]_vars, NEW t \in Elements(timerQueue') \ Elements(timerQueue),
             NEW i \in DOMAIN timerQueue', NEW j \in DOMAIN timerQueue', timerQueue'[j] = t, j < i
      PROVE  armed'[t] < armed'[timerQueue'[i]]
  <2>1. /\ timerQueue \in Seq(Task) /\ now \in Nat /\ TypeOK
        /\ current # NoTask => current \in Task
    BY <1>2 DEF IInv, TypeOK, Ctx
  <2>2. ASSUME timerQueue' = timerQueue PROVE FALSE
    BY <1>2, <2>2
  <2>3. ASSUME timerQueue # <<>>, timerQueue' = Tail(timerQueue) PROVE FALSE
    BY <1>2, <2>1, <2>3, TailElements
  <2>4. ASSUME NEW u \in Task, NEW d \in Int, InsertTimer(u, d) PROVE u = t
    BY <1>2, <2>1, <2>4, InsertTimerElements
  <2>5. ASSUME NEW u \in Task, NEW d \in Delay, SetTimeout(u, d)
        PROVE  armed'[t] < armed'[timerQueue'[i]]
    <3> DEFINE deadline == now + (IF d < 0 THEN 0 ELSE d)
    <3>1. deadline \in Nat
      BY <2>1, ClockAssumption
    <3> HIDE DEF deadline
    <3>2. InsertTimer(u, deadline) /\ armed' = [armed EXCEPT ![u] = deadline]
      BY <2>5 DEF SetTimeout, deadline
    <3>3. u = t
      BY <2>4, <3>1, <3>2
    <3> QED BY <1>1, <1>2, <3>1, <3>2, <3>3
  <2>6. ASSUME NEW d \in Delay, Sleep(d)
        PROVE  armed'[t] < armed'[timerQueue'[i]]
    <3>1. now + d \in Nat /\ current \in Task
      BY <2>1, <2>6, ClockAssumption DEF Sleep
    <3>2. InsertTimer(current, now + d) /\ armed' = [armed EXCEPT ![current] = now + d]
      BY <2>6 DEF Sleep
    <3>3. current = t
      BY <2>4, <3>1, <3>2
    <3> QED BY <1>1, <1>2, <3>1, <3>2, <3>3
  <2>7. CASE RunDueTimer \/ WaitForTimer
    BY <2>3, <2>7 DEF RunDueTimer, WaitForTimer, TimerDue
  <2> QED
    BY <1>2, <2>2, <2>5, <2>6, <2>7
       DEF Next, RunOne, Spawn, MicrotaskSpawn, GroupSpawn, ClearTimeout, ClearInterval, Cancel, Join,
           Collect,
           GroupCancel, GroupJoin, SetContext, SleepMain, JoinNext, Complete, Reject, Settle,
           RejectMain, Yield, YieldMain, EndMain, RunMicrotask, RunRunnable, NoWork, Tick,
           vars, queueVars
<1>3. IInv /\ [Next]_vars
         => [\A t \in Elements(timerQueue') \ Elements(timerQueue) :
                \A i, j \in DOMAIN timerQueue' :
                    timerQueue'[j] = t /\ j < i => armed'[t] < armed'[timerQueue'[i]]]_vars
  BY <1>2
<1> QED BY <1>3, Invariance, PTL DEF Spec, ArmedLastFiresLast

-----------------------------------------------------------------------------
(* The refinement of CooperativeTasks                                      *)

(* The least element of a set of numbers. *)
LEMMA NatMin ==
    ASSUME NEW T, T \subseteq Nat, T # {}
    PROVE  \E x \in T : \A y \in T : x <= y
<1> DEFINE R == {p \in Nat \X Nat : p[1] < p[2]}
<1>1. IsWellFoundedOn(R, Nat)
  BY NatLessThanWellFounded DEF OpToRel
<1>2. PICK x \in T : \A y \in T : ~(<<y, x>> \in R)
  <2> HIDE DEF R
  <2> QED BY <1>1, WFMin
<1>3. ASSUME NEW y \in T PROVE x <= y
  <2>1. x \in Nat /\ y \in Nat /\ ~(<<y, x>> \in R)
    BY <1>2
  <2>2. <<y, x>> \in R <=> y < x
    BY <2>1
  <2> HIDE DEF R
  <2> QED BY <2>1, <2>2
<1> QED BY <1>3

(* The sequences of the tasks in C in which each was resumed by the one    *)
(* before it, the first by the main program, and top is the last.          *)
Paths(C, up, top) ==
    {s \in [1..Cardinality(C) -> C] :
        /\ \A i \in DOMAIN s : up[s[i]] = IF i = 1 THEN NoTask ELSE s[i - 1]
        /\ C # {} => s[Cardinality(C)] = top}

LEMMA PathFacts ==
    ASSUME NEW C, IsFiniteSet(C), NEW up, NEW top, NEW s \in Paths(C, up, top)
    PROVE  /\ Cardinality(C) \in Nat /\ (C = {} <=> Cardinality(C) = 0)
           /\ s \in Seq(C) /\ Len(s) = Cardinality(C) /\ DOMAIN s = 1..Cardinality(C)
           /\ \A i \in 1..Cardinality(C) :
                 s[i] \in C /\ up[s[i]] = IF i = 1 THEN NoTask ELSE s[i - 1]
           /\ C # {} => s[Cardinality(C)] = top
<1>1. Cardinality(C) \in Nat /\ (C = {} <=> Cardinality(C) = 0)
  BY FS_CardinalityType, FS_EmptySet
<1>2. s \in [1..Cardinality(C) -> C]
  BY DEF Paths
<1>3. s \in Seq(C) /\ Len(s) = Cardinality(C)
  BY <1>1, <1>2
<1> QED BY <1>1, <1>2, <1>3 DEF Paths

(* There is one such sequence at most: compared from its end, where it is  *)
(* differs from another nowhere first.                                     *)
LEMMA OnePath ==
    ASSUME NEW C, IsFiniteSet(C), NEW up, NEW top, NEW s \in Paths(C, up, top),
           NEW r \in Paths(C, up, top)
    PROVE  s = r
<1> DEFINE n == Cardinality(C)
           T == {k \in 0..n - 1 : s[n - k] # r[n - k]}
<1>1. /\ n \in Nat /\ (C = {} <=> n = 0)
      /\ \A i \in 1..n : up[s[i]] = IF i = 1 THEN NoTask ELSE s[i - 1]
      /\ \A i \in 1..n : up[r[i]] = IF i = 1 THEN NoTask ELSE r[i - 1]
      /\ C # {} => s[n] = top /\ r[n] = top
  BY PathFacts
<1>2. s \in [1..n -> C] /\ r \in [1..n -> C]
  BY DEF Paths
<1> HIDE DEF n
<1>3. T = {}
  <2> SUFFICES ASSUME T # {} PROVE FALSE
    OBVIOUS
  <2>1. PICK k \in T : \A j \in T : k <= j
    <3>1. T \subseteq Nat
      BY <1>1
    <3> HIDE DEF T
    <3> QED BY <3>1, NatMin
  <2>2. k \in 0..n - 1 /\ s[n - k] # r[n - k]
    OBVIOUS
  <2>3. k # 0
    <3>1. SUFFICES ASSUME k = 0 PROVE FALSE
      OBVIOUS
    <3>2. n - k = n /\ n # 0
      BY <1>1, <2>2, <3>1
    <3> QED BY <1>1, <2>2, <3>2
  <2>4. k - 1 \in 0..n - 1 /\ ~(k <= k - 1) /\ n - (k - 1) = (n - k) + 1
    BY <1>1, <2>2, <2>3
  <2>5. s[(n - k) + 1] = r[(n - k) + 1]
    BY <2>1, <2>4
  <2>6. (n - k) + 1 \in 1..n /\ (n - k) + 1 # 1 /\ ((n - k) + 1) - 1 = n - k
    BY <1>1, <2>2, <2>3
  <2>7. s[n - k] = up[s[(n - k) + 1]] /\ r[n - k] = up[r[(n - k) + 1]]
    BY <1>1, <2>6
  <2> QED BY <2>2, <2>5, <2>7
<1>4. ASSUME NEW i \in 1..n PROVE s[i] = r[i]
  <2>1. n - i \in 0..n - 1 /\ n - (n - i) = i
    BY <1>1
  <2>2. n - i \notin T
    BY <1>3
  <2>3. s[n - (n - i)] = r[n - (n - i)]
    BY <2>1, <2>2
  <2> QED BY <2>1, <2>3
<1> HIDE DEF T
<1>5. [i \in 1..n |-> s[i]] = [i \in 1..n |-> r[i]]
  BY <1>4, Zenon
<1>6. s = [i \in 1..n |-> s[i]] /\ r = [i \in 1..n |-> r[i]]
  BY <1>2, Zenon
<1> QED BY <1>5, <1>6, Zenon

LEMMA PathExtends ==
    ASSUME NEW C, IsFiniteSet(C), NEW up, NEW top, NEW s \in Paths(C, up, top),
           NEW t, t \notin C, NEW up2, up2[t] = top, \A u \in C : up2[u] = up[u],
           C = {} => top = NoTask
    PROVE  IsFiniteSet(C \cup {t}) /\ Append(s, t) \in Paths(C \cup {t}, up2, t)
<1> DEFINE n == Cardinality(C)
           D == C \cup {t}
           r == Append(s, t)
<1>1. /\ n \in Nat /\ (C = {} <=> n = 0) /\ s \in Seq(C) /\ Len(s) = n
      /\ \A i \in 1..n : s[i] \in C /\ up[s[i]] = IF i = 1 THEN NoTask ELSE s[i - 1]
      /\ C # {} => s[n] = top
  BY PathFacts
<1>2. IsFiniteSet(D) /\ Cardinality(D) = n + 1
  BY FS_AddElement
<1> HIDE DEF n
<1>3. s \in Seq(D) /\ t \in D
  BY <1>1
<1>4. /\ r \in Seq(D) /\ Len(r) = n + 1 /\ DOMAIN r = 1..n + 1
      /\ r[n + 1] = t /\ \A i \in 1..n : r[i] = s[i]
  BY <1>1, <1>3
<1> HIDE DEF r
<1>5. r \in [1..n + 1 -> D]
  BY <1>4
<1>6. ASSUME NEW i \in 1..n + 1
      PROVE  up2[r[i]] = IF i = 1 THEN NoTask ELSE r[i - 1]
  <2>1. CASE i \in 1..n
    <3>1. r[i] = s[i] /\ up2[s[i]] = up[s[i]] /\ up[s[i]] = IF i = 1 THEN NoTask ELSE s[i - 1]
      BY <1>1, <1>4, <2>1
    <3>2. i # 1 => i - 1 \in 1..n
      BY <1>1, <2>1
    <3> QED BY <1>4, <3>1, <3>2
  <2>2. CASE i = n + 1
    <3>1. up2[r[i]] = top
      BY <1>4, <2>2
    <3>2. CASE n = 0
      BY <1>1, <2>2, <3>1, <3>2
    <3>3. CASE n # 0
      <4>1. n \in 1..n /\ i - 1 = n /\ i # 1
        BY <1>1, <2>2, <3>3
      <4>2. r[n] = top
        BY <1>1, <1>4, <3>3, <4>1
      <4> QED BY <3>1, <4>1, <4>2
    <3> QED BY <3>2, <3>3
  <2> QED BY <1>1, <2>1, <2>2
<1>7. D # {} => r[Cardinality(D)] = t
  BY <1>2, <1>4
<1>8. r \in Paths(D, up2, t)
  <2> HIDE DEF D
  <2> QED BY <1>2, <1>4, <1>5, <1>6, <1>7 DEF Paths
<1> QED BY <1>2, <1>8 DEF r

LEMMA PathShrinks ==
    ASSUME NEW C, IsFiniteSet(C), NEW up, NEW top \in C, NEW s \in Paths(C, up, top),
           \A u \in C : up[u] # top,
           NEW up2, \A u \in C \ {top} : up2[u] = up[u]
    PROVE  /\ s # <<>> /\ s[Len(s)] = top /\ IsFiniteSet(C \ {top})
           /\ SubSeq(s, 1, Len(s) - 1) \in Paths(C \ {top}, up2, up[top])
<1> DEFINE n == Cardinality(C)
           D == C \ {top}
           r == SubSeq(s, 1, n - 1)
<1>1. /\ n \in Nat /\ n # 0 /\ s \in Seq(C) /\ Len(s) = n
      /\ \A i \in 1..n : s[i] \in C /\ up[s[i]] = IF i = 1 THEN NoTask ELSE s[i - 1]
      /\ s[n] = top
  BY PathFacts
<1>2. IsFiniteSet(D) /\ Cardinality(D) = n - 1
  BY FS_RemoveElement
<1> HIDE DEF n
<1>3. /\ r \in Seq(C) /\ Len(r) = n - 1 /\ DOMAIN r = 1..n - 1
      /\ \A i \in 1..n - 1 : r[i] = s[i]
  BY <1>1
<1> HIDE DEF r
<1>4. ASSUME NEW i \in 1..n - 1 PROVE s[i] \in D
  <2>1. i \in 1..n /\ i + 1 \in 1..n /\ i + 1 # 1 /\ (i + 1) - 1 = i
    BY <1>1
  <2>2. up[s[i + 1]] = s[i] /\ s[i + 1] \in C /\ s[i] \in C
    BY <1>1, <2>1
  <2> QED BY <2>2
<1>5. r \in [1..n - 1 -> D]
  BY <1>3, <1>4
<1>6. ASSUME NEW i \in 1..n - 1
      PROVE  up2[r[i]] = IF i = 1 THEN NoTask ELSE r[i - 1]
  <2>1. i \in 1..n /\ (i # 1 => i - 1 \in 1..n - 1)
    BY <1>1
  <2>2. r[i] = s[i] /\ up2[s[i]] = up[s[i]]
    BY <1>3, <1>4
  <2> QED BY <1>1, <1>3, <2>1, <2>2
<1>7. D # {} => r[Cardinality(D)] = up[top]
  <2>1. SUFFICES ASSUME D # {} PROVE r[n - 1] = up[top]
    BY <1>2
  <2>2. n - 1 # 0
    BY <1>2, <2>1, FS_EmptySet
  <2>3. n - 1 \in 1..n - 1 /\ n \in 1..n /\ n # 1
    BY <1>1, <2>2
  <2> QED BY <1>1, <1>3, <2>3
<1>8. r \in Paths(D, up2, up[top])
  <2> HIDE DEF D
  <2> QED BY <1>2, <1>3, <1>5, <1>6, <1>7 DEF Paths
<1>9. s # <<>>
  BY <1>1
<1> QED BY <1>1, <1>2, <1>8, <1>9 DEF r


(* The activation stack is such a sequence, and the only one. *)
StackInv == IsFiniteSet(OnChain) /\ ActivationStacks # {}

LEMMA StackIsPath ==
    ASSUME StackInv
    PROVE  ActivationStack \in Paths(OnChain, parent, current)
<1>1. ActivationStacks = Paths(OnChain, parent, current)
  BY DEF ActivationStacks, Paths
<1>2. ActivationStack \in ActivationStacks
  BY DEF StackInv, ActivationStack
<1> QED BY <1>1, <1>2

(* What the stack is after a step, if there is a path then. *)
LEMMA NextStack ==
    ASSUME IsFiniteSet(OnChain'), NEW s \in Paths(OnChain', parent', current')
    PROVE  StackInv' /\ ActivationStack' = s
<1>1. ActivationStacks' = Paths(OnChain', parent', current')
  BY DEF ActivationStacks, Paths
<1>2. StackInv'
  BY <1>1 DEF StackInv
<1>3. ActivationStack' \in ActivationStacks'
  BY <1>1 DEF ActivationStack
<1> QED BY <1>1, <1>2, <1>3, OnePath

(* A task that is entered goes on top of the stack. *)
LEMMA EnterStack ==
    ASSUME TypeOK, ChainOK, StackInv, NEW t \in Task, t \notin OnChain, Enter(t)
    PROVE  StackInv' /\ ActivationStack' = Append(ActivationStack, t)
<1>1. OnChain' = OnChain \cup {t}
  BY EnterChain
<1>2. /\ current' = t /\ parent'[t] = current
      /\ \A u \in OnChain : parent'[u] = parent[u]
      /\ OnChain = {} => current = NoTask
  BY DEF Enter, TypeOK, ChainOK, OnChain
<1>3. ActivationStack \in Paths(OnChain, parent, current) /\ IsFiniteSet(OnChain)
  BY StackIsPath DEF StackInv
<1>4. /\ IsFiniteSet(OnChain \cup {t})
      /\ Append(ActivationStack, t) \in Paths(OnChain \cup {t}, parent', t)
  BY <1>2, <1>3, PathExtends
<1> QED BY <1>1, <1>2, <1>4, NextStack

(* A task that gives up control was on top of the stack and leaves it. *)
LEMMA LeaveStack ==
    ASSUME TypeOK, ChainOK, StackInv, current # NoTask, current' = parent[current],
           parent' = [parent EXCEPT ![current] = NoTask],
           returnRsp' = [returnRsp EXCEPT ![current] = FALSE]
    PROVE  /\ StackInv' /\ OnChain' = OnChain \ {current}
           /\ ActivationStack # <<>> /\ ActivationStack[Len(ActivationStack)] = current
           /\ ActivationStack' = SubSeq(ActivationStack, 1, Len(ActivationStack) - 1)
<1>1. OnChain' = OnChain \ {current}
  BY DEF TypeOK, OnChain
<1>2. /\ current \in OnChain
      /\ \A u \in OnChain : parent[u] # current
      /\ \A u \in OnChain \ {current} : parent'[u] = parent[u]
  BY DEF TypeOK, ChainOK, OnChain
<1>3. ActivationStack \in Paths(OnChain, parent, current) /\ IsFiniteSet(OnChain)
  BY StackIsPath DEF StackInv
<1>4. PICK C, top, up, up2 : C = OnChain /\ top = current /\ up = parent /\ up2 = parent'
  OBVIOUS
<1>5. /\ IsFiniteSet(C) /\ top \in C /\ ActivationStack \in Paths(C, up, top)
      /\ \A u \in C : up[u] # top
      /\ \A u \in C \ {top} : up2[u] = up[u]
  BY <1>2, <1>3, <1>4
<1>6. PICK s : s = ActivationStack
  OBVIOUS
<1>7. /\ s # <<>> /\ s[Len(s)] = top /\ IsFiniteSet(C \ {top})
      /\ SubSeq(s, 1, Len(s) - 1) \in Paths(C \ {top}, up2, up[top])
  <2>1. s \in Paths(C, up, top) /\ top \in C /\ IsFiniteSet(C)
    BY <1>5, <1>6
  <2>2. (\A u \in C : up[u] # top) /\ (\A u \in C \ {top} : up2[u] = up[u])
    BY <1>5
  <2> QED BY <2>1, <2>2, PathShrinks
<1>8. /\ ActivationStack # <<>> /\ ActivationStack[Len(ActivationStack)] = current
      /\ IsFiniteSet(OnChain')
      /\ SubSeq(ActivationStack, 1, Len(ActivationStack) - 1)
            \in Paths(OnChain', parent', current')
  BY <1>1, <1>4, <1>6, <1>7
<1> QED BY <1>1, <1>8, NextStack

(* What a step can do to the chain and to task.State. *)
LEMMA ChainMoves ==
    ASSUME IInv, [Next]_vars
    PROVE  \/ UNCHANGED <<state, frameVars>>
           \/ \E t \in Task :
                 /\ state[t] = "free" /\ state' = [state EXCEPT ![t] = "new"]
                 /\ UNCHANGED frameVars
           \/ \E t \in Task :
                 /\ Settled(t) /\ state' = [state EXCEPT ![t] = "free"]
                 /\ UNCHANGED frameVars
           \/ current # NoTask /\ state' = state /\ Suspend
           \/ Complete \/ Reject
           \/ \E t \in InQueue : Dispatch(t)
<1>1. ASSUME NEW t \in Task,
             \/ Spawn(t) \/ MicrotaskSpawn(t)
             \/ \E g \in Group : GroupSpawn(g, t)
             \/ \E d \in Delay : SetTimeout(t, d)
      PROVE  /\ state[t] = "free" /\ state' = [state EXCEPT ![t] = "new"]
             /\ UNCHANGED frameVars
  BY <1>1 DEF Spawn, MicrotaskSpawn, GroupSpawn, SetTimeout, NewTask
<1>2. ASSUME NEW t \in Task, ClearTimeout(t) \/ ClearInterval(t) \/ Cancel(t) \/ Join(t)
      PROVE  UNCHANGED <<state, frameVars>>
  BY <1>2 DEF ClearTimeout, ClearInterval, Cancel, Join, taskVars
<1>3. ASSUME \/ \E g \in Group : GroupCancel(g) \/ GroupJoin(g)
             \/ \E x \in Context : SetContext(x)
             \/ \E d \in Delay : SleepMain(d)
             \/ JoinNext \/ RejectMain \/ YieldMain \/ EndMain \/ NoWork \/ Tick
             \/ UNCHANGED vars
      PROVE  UNCHANGED <<state, frameVars>>
  BY <1>3 DEF GroupCancel, GroupJoin, SetContext, SleepMain, JoinNext, RejectMain,
              YieldMain, EndMain, NoWork, Tick, vars, taskVars
<1>4. ASSUME Yield \/ \E d \in Delay : Sleep(d)
      PROVE  current # NoTask /\ state' = state /\ Suspend
  BY <1>4 DEF Yield, Sleep, taskVars
<1>5. ASSUME RunMicrotask \/ RunDueTimer \/ RunRunnable \/ WaitForTimer
      PROVE  \E t \in InQueue : Dispatch(t)
  <2>1. runQueue \in Seq(Task) /\ microQueue \in Seq(Task) /\ timerQueue \in Seq(Task)
    BY DEF IInv, TypeOK
  <2>2. CASE RunMicrotask
    BY <2>1, <2>2, TailElements DEF RunMicrotask, InQueue
  <2>3. CASE RunDueTimer \/ WaitForTimer
    BY <2>1, <2>3, TailElements DEF RunDueTimer, WaitForTimer, TimerDue, InQueue
  <2>4. CASE RunRunnable
    BY <2>1, <2>4, TailElements DEF RunRunnable, InQueue
  <2> QED BY <1>5, <2>2, <2>3, <2>4
<1>6. ASSUME NEW t \in Task, Collect(t)
      PROVE  Settled(t) /\ state' = [state EXCEPT ![t] = "free"] /\ UNCHANGED frameVars
  BY <1>6 DEF Collect
<1> QED BY <1>1, <1>2, <1>3, <1>4, <1>5, <1>6 DEF Next, RunOne

(* The abstract phases after a step that moves one task. *)
LEMMA PhaseMoves ==
    ASSUME NEW t \in Task, NEW x, Phase'[t] = x,
           \A u \in Task \ {t} : state'[u] = state[u] /\ (u \in OnChain' <=> u \in OnChain)
    PROVE  Phase' = [Phase EXCEPT ![t] = x]
<1>1. \A u \in Task \ {t} : Phase'[u] = Phase[u]
  BY DEF Phase, Settled
<1>2. Phase' = [u \in Task |-> Phase'[u]] /\ Phase = [u \in Task |-> Phase[u]]
  BY DEF Phase
<1> QED BY <1>1, <1>2

(* The scheduler starts as an abstract one that has no tasks. *)
LEMMA StackStarts == Init => StackInv /\ Abstract!Init
<1> SUFFICES ASSUME Init PROVE StackInv /\ Abstract!Init
  OBVIOUS
<1>1. OnChain = {}
  BY DEF Init, OnChain
<1>2. IsFiniteSet(OnChain) /\ Cardinality(OnChain) = 0
  BY <1>1, FS_EmptySet
<1>3. <<>> \in ActivationStacks
  BY <1>1, <1>2 DEF ActivationStacks
<1>4. StackInv
  BY <1>2, <1>3 DEF StackInv
<1>5. ActivationStack = <<>>
  BY <1>3, <1>4, StackIsPath, OnePath, <1>2 DEF ActivationStacks, Paths
<1>6. Phase = [t \in Task |-> "absent"]
  BY <1>1 DEF Init, Phase, Settled
<1> QED BY <1>4, <1>5, <1>6 DEF Abstract!Init

(* Every step is one of the abstract scheduler, or hidden from it. *)
LEMMA StackMoves ==
    ASSUME IInv, StackInv, [Next]_vars
    PROVE  StackInv' /\ [Abstract!Next]_<<Phase, ActivationStack>>
<1>1. /\ TypeOK /\ ChainOK /\ OneHome
      /\ state \in [Task -> {"free", "new", "running", "fulfilled", "rejected"}]
      /\ current \in Ctx
      /\ OnChain \subseteq Task /\ OnChain \cap InQueue = {}
      /\ OnChain \cup InQueue = {t \in Task : state[t] \in {"new", "running"}}
      /\ current # NoTask => current \in OnChain
  BY DEF IInv, TypeOK, OneHome, ChainOK, OnChain
<1>2. ASSUME UNCHANGED frameVars
      PROVE  StackInv' /\ ActivationStack' = ActivationStack /\ OnChain' = OnChain
  BY <1>2 DEF frameVars, StackInv, OnChain, ActivationStack, ActivationStacks
<1>3. CASE UNCHANGED <<state, frameVars>>
  <2>1. Phase' = Phase
    BY <1>2, <1>3 DEF Phase, Settled
  <2> QED BY <1>2, <1>3, <2>1
<1>4. ASSUME NEW t \in Task, state[t] = "free", state' = [state EXCEPT ![t] = "new"],
             UNCHANGED frameVars
      PROVE  StackInv' /\ Abstract!Next
  <2>1. t \notin OnChain
    BY <1>1, <1>4
  <2>2. Phase[t] = "absent" /\ Phase'[t] = "ready"
    BY <1>1, <1>2, <1>4, <2>1 DEF Phase, Settled
  <2>3. Phase' = [Phase EXCEPT ![t] = "ready"]
    BY <1>1, <1>2, <1>4, <2>2, PhaseMoves
  <2>4. Abstract!Create(t)
    BY <1>2, <1>4, <2>2, <2>3 DEF Abstract!Create
  <2> QED BY <1>2, <1>4, <2>4 DEF Abstract!Next
<1>41. ASSUME NEW t \in Task, Settled(t), state' = [state EXCEPT ![t] = "free"],
             UNCHANGED frameVars
      PROVE  StackInv' /\ Abstract!Next
  <2>1. t \notin OnChain /\ state[t] \in {"fulfilled", "rejected"}
    BY <1>1, <1>41 DEF Settled
  <2>2. Phase[t] = "settled" /\ Phase'[t] = "absent"
    BY <1>1, <1>2, <1>41, <2>1 DEF Phase, Settled
  <2>3. Phase' = [Phase EXCEPT ![t] = "absent"]
    BY <1>1, <1>2, <1>41, <2>2, PhaseMoves
  <2>4. Abstract!Forget(t)
    BY <1>2, <1>41, <2>2, <2>3 DEF Abstract!Forget
  <2> QED BY <1>2, <1>41, <2>4 DEF Abstract!Next
<1>5. ASSUME current # NoTask, Suspend \/ Complete \/ Reject
      PROVE  /\ StackInv' /\ OnChain' = OnChain \ {current}
             /\ ActivationStack # <<>> /\ Abstract!Top = current
             /\ ActivationStack' = Abstract!Pop
  BY <1>1, <1>5, LeaveStack
     DEF Suspend, Complete, Reject, Settle, RestoreCaller, LeaveTo, Abstract!Top, Abstract!Pop
<1>6. CASE current # NoTask /\ state' = state /\ Suspend
  <2>1. current \in Task /\ current \in OnChain /\ current \notin OnChain'
    BY <1>1, <1>5, <1>6
  <2>2. Phase'[current] = "ready"
    BY <1>1, <1>6, <2>1 DEF Phase, Settled
  <2>3. Phase' = [Phase EXCEPT ![current] = "ready"]
    BY <1>5, <1>6, <2>1, <2>2, PhaseMoves
  <2>4. Abstract!Park
    BY <1>5, <1>6, <2>3 DEF Abstract!Park
  <2> QED BY <1>5, <1>6, <2>4 DEF Abstract!Next
<1>7. CASE Complete \/ Reject
  <2>1. PICK o \in {"fulfilled", "rejected"} :
            current # NoTask /\ state' = [state EXCEPT ![current] = o]
    BY <1>7 DEF Complete, Reject, Settle
  <2>2. current \in Task /\ current \in OnChain
    BY <1>1, <2>1
  <2>3. Phase'[current] = "settled"
    BY <1>1, <1>5, <1>7, <2>1, <2>2 DEF Phase, Settled
  <2>4. Phase' = [Phase EXCEPT ![current] = "settled"]
    BY <1>1, <1>5, <1>7, <2>1, <2>2, <2>3, PhaseMoves
  <2>5. Abstract!Settle
    BY <1>5, <1>7, <2>1, <2>4 DEF Abstract!Settle
  <2> QED BY <1>5, <1>7, <2>1, <2>5 DEF Abstract!Next
<1>8. ASSUME NEW t \in InQueue, Dispatch(t)
      PROVE  StackInv' /\ Abstract!Next
  <2>1. t \in Task /\ t \notin OnChain /\ state[t] \in {"new", "running"}
    BY <1>1
  <2>2. Phase[t] = "ready"
    BY <2>1 DEF Phase, Settled
  <2>3. CASE SkipClosure(t)
    <3>1. state' = [state EXCEPT ![t] = "fulfilled"] /\ UNCHANGED frameVars
      BY <2>3 DEF SkipClosure
    <3>2. Phase'[t] = "settled"
      BY <1>1, <1>2, <2>1, <3>1 DEF Phase, Settled
    <3>3. Phase' = [Phase EXCEPT ![t] = "settled"]
      BY <1>1, <1>2, <2>1, <3>1, <3>2, PhaseMoves
    <3>4. Abstract!Drop(t)
      BY <1>2, <2>2, <3>1, <3>3 DEF Abstract!Drop
    <3> QED BY <1>2, <2>1, <3>1, <3>4 DEF Abstract!Next
  <2>4. CASE Resume(t)
    <3>1. Enter(t) /\ OnChain' = OnChain \cup {t}
      BY <1>1, <2>1, <2>4, EnterChain DEF Resume
    <3>2. StackInv' /\ ActivationStack' = Append(ActivationStack, t)
      BY <1>1, <2>1, <3>1, EnterStack
    <3>3. state'[t] \in {"new", "running"} /\ \A u \in Task \ {t} : state'[u] = state[u]
      BY <1>1, <2>1, <3>1 DEF Enter
    <3>4. Phase'[t] = "active"
      BY <2>1, <3>1, <3>3 DEF Phase, Settled
    <3>5. Phase' = [Phase EXCEPT ![t] = "active"]
      BY <2>1, <3>1, <3>3, <3>4, PhaseMoves
    <3>6. Abstract!Enter(t)
      BY <2>2, <3>2, <3>5 DEF Abstract!Enter
    <3> QED BY <2>1, <3>2, <3>6 DEF Abstract!Next
  <2> QED BY <1>8, <2>3, <2>4 DEF Dispatch
<1> QED BY <1>3, <1>4, <1>41, <1>6, <1>7, <1>8, ChainMoves

(* Entering and leaving tasks is a stack discipline and each task settles  *)
(* at most once: the scheduler implements CooperativeTasks.                *)
THEOREM TasksAreAStack == Spec => StackDiscipline
<1>1. Init => StackInv /\ Abstract!Init
  BY StackStarts
<1>2. IInv /\ StackInv /\ [Next]_vars => StackInv' /\ [Abstract!Next]_<<Phase, ActivationStack>>
  BY StackMoves
<1> QED BY <1>1, <1>2, Invariance, PTL DEF Spec, StackDiscipline, Abstract!Spec

=============================================================================
