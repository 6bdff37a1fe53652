-------------------------- MODULE FunctionCodeProofs --------------------------
(***************************************************************************)
(* Linear scan never lets overlapping intervals share a location, for any  *)
(* intervals, any number of them and any number of registers; and code     *)
(* that is lowered on top of it reads its operands, for every well-formed  *)
(* function.                                                               *)
(***************************************************************************)
EXTENDS FunctionCode, FiniteSetTheorems, WellFoundedInduction, TLAPS

-----------------------------------------------------------------------------
(* The loop of Allocate, over arbitrary intervals.                          *)

(* When v is taken, a value whose register is given back is over before     *)
(* every interval that is still to come (the expiry test of Allocate).      *)
LEMMA ExpiredIsOver ==
    ASSUME TypeOK, NEW v \in Values, Reaches(v),
           NEW u \in Values, Before(u, v), NEW w \in pending
    PROVE  Before(u, w)
  <1>1. start[u] \in Nat /\ end[u] \in Nat /\ start[v] \in Nat
        /\ start[w] \in Nat /\ start[v] <= start[w]
    BY DEF TypeOK, Reaches
  <1> QED BY <1>1 DEF Before

(* The registers that are not free after the expiry are those of the values *)
(* that are kept.                                                           *)
LEMMA FreeAfterExpiry ==
    ASSUME IInv, NEW v \in Values, Reaches(v)
    PROVE  FreeAt(v) = Regs \ {assignment[u].at : u \in Kept(v)}
  <1>1. Kept(v) \subseteq active /\ active \subseteq Values
    BY DEF Kept, IInv, TypeOK
  <1>2. \A u \in active : assignment[u].at \in Regs
    BY <1>1 DEF IInv, RegistersAccounted, SlotsAccounted
  <1>3. \A u, w \in active : u # w => assignment[u].at # assignment[w].at
    BY DEF IInv, RegistersAccounted
  <1>4. freeRegs = Regs \ {assignment[u].at : u \in active}
    BY DEF IInv, RegistersAccounted
  <1> QED BY <1>1, <1>2, <1>3, <1>4 DEF FreeAt, FreedBy

(* Every register holder that is not kept is over before v and before all   *)
(* that is still to come.                                                   *)
LEMMA OthersAreOver ==
    ASSUME IInv, NEW v \in Values, Reaches(v),
           NEW u \in Values \ Kept(v), Placed(u), assignment[u].isReg,
           NEW w \in pending
    PROVE  Before(u, w)
  <1>1. CASE u \in active
    <2>1. Before(u, v)
      BY <1>1 DEF Kept
    <2> QED BY <2>1, ExpiredIsOver DEF IInv
  <1>2. CASE u \notin active
    BY <1>2 DEF IInv, RegistersAccounted
  <1> QED BY <1>1, <1>2

(* A value that the loop has not reached holds nothing and is not active.   *)
LEMMA NextIsNew ==
    ASSUME IInv, NEW v \in Values, Reaches(v)
    PROVE  /\ v \in pending
           /\ v \notin active
           /\ Kept(v) \subseteq active
           /\ active \subseteq Values
           /\ \A u \in active : Placed(u) /\ u # v
  BY DEF IInv, TypeOK, RegistersAccounted, Reaches, Placed, Kept

(* Every iteration keeps the types of the allocator's state.                *)
LEMMA ScanTypeCorrect ==
    ASSUME IInv, Scan
    PROVE  TypeOK'
  <1> SUFFICES ASSUME NEW v \in Values,
                      TakeFree(v) \/ (\E u \in Values : Evict(v, u)) \/ Spill(v)
               PROVE  TypeOK'
    BY DEF Scan
  <1>1. CASE TakeFree(v)
    <2>1. PICK r \in FreeAt(v) :
            /\ assignment' = [assignment EXCEPT ![v] = InReg(r)]
            /\ freeRegs' = FreeAt(v) \ {r}
      BY <1>1 DEF TakeFree
    <2>2. FreeAt(v) \subseteq Regs
      BY <1>1, FreeAfterExpiry DEF TakeFree
    <2>3. InReg(r) \in Location
      BY <2>2 DEF InReg, Location, Regs
    <2> QED BY <1>1, <2>1, <2>2, <2>3 DEF TakeFree, IInv, TypeOK, Kept
  <1>2. ASSUME NEW u \in Values, Evict(v, u)
        PROVE  TypeOK'
    <2>1. InStack(stackSlots) \in Location
      BY DEF InStack, Location, IInv, TypeOK
    <2>2. InReg(assignment[u].at) \in Location
      BY DEF InReg, Location, IInv, TypeOK
    <2> QED BY <1>2, <2>1, <2>2 DEF Evict, IInv, TypeOK, Kept
  <1>3. CASE Spill(v)
    <2>1. InStack(stackSlots) \in Location
      BY DEF InStack, Location, IInv, TypeOK
    <2> QED BY <1>3, <2>1 DEF Spill, IInv, TypeOK, Kept
  <1> QED BY <1>1, <1>2, <1>3

(* A free register is given to v.                                           *)
LEMMA TakeFreeKeeps ==
    ASSUME IInv, NEW v \in Values, TakeFree(v), TypeOK'
    PROVE  IInv'
  <1>0. Reaches(v)
    BY DEF TakeFree
  <1> DEFINE K == Kept(v)
  <1>1. PICK r \in FreeAt(v) :
          /\ assignment' = [assignment EXCEPT ![v] = InReg(r)]
          /\ freeRegs' = FreeAt(v) \ {r}
    BY DEF TakeFree
  <1>2. /\ active' = K \cup {v}
        /\ pending' = pending \ {v}
        /\ UNCHANGED <<start, end, stackSlots>>
    BY DEF TakeFree
  <1>3. r \in Regs /\ FreeAt(v) = Regs \ {assignment[u].at : u \in K}
    BY <1>0, FreeAfterExpiry
  <1>4. \A u \in K : u \in active /\ u \in Values /\ u # v /\ Placed(u) /\ assignment[u].isReg
    BY <1>0, NextIsNew DEF IInv, RegistersAccounted
  <1>5. /\ \A u \in Values \ {v} : assignment'[u] = assignment[u]
        /\ assignment'[v].isReg /\ assignment'[v].at = r
    BY <1>1 DEF IInv, TypeOK, InReg
  <1>6. \A u \in Values : Placed(u)' <=> Placed(u) \/ u = v
    BY <1>2 DEF Placed
  <1>7. RegistersAccounted'
    <2>1. \A u \in active' : Placed(u)' /\ assignment'[u].isReg
      BY <1>2, <1>4, <1>5, <1>6
    <2>2. \A u, w \in active' : u # w => assignment'[u].at # assignment'[w].at
      BY <1>2, <1>3, <1>4, <1>5 DEF IInv, RegistersAccounted
    <2>3. freeRegs' = Regs \ {assignment'[u].at : u \in active'}
      BY <1>1, <1>2, <1>3, <1>4, <1>5
    <2>4. ASSUME NEW u \in Values \ active', Placed(u)', assignment'[u].isReg, NEW w \in pending'
          PROVE  Before(u, w)'
      <3>1. u \in Values \ K /\ u # v /\ Placed(u) /\ assignment[u].isReg /\ w \in pending
        BY <1>2, <1>5, <1>6, <2>4
      <3>2. Before(u, w)
        BY <1>0, <3>1, OthersAreOver
      <3> QED BY <1>2, <3>2 DEF Before
    <2> QED BY <2>1, <2>2, <2>3, <2>4 DEF RegistersAccounted
  <1>8. SlotsAccounted'
    BY <1>2, <1>3, <1>5, <1>6 DEF IInv, SlotsAccounted
  <1>9. NoSharedLocation'
    <2>1. ASSUME NEW u \in Values, u # v, Placed(u), assignment[u] = assignment'[v]
          PROVE  Before(u, v)
      <3>1. assignment[u].isReg /\ u \notin K
        BY <1>3, <1>5, <2>1
      <3> QED BY <1>0, <2>1, <3>1, OthersAreOver DEF Reaches
    <2>2. \A u, w \in Values : Before(u, w)' <=> Before(u, w)
      BY <1>2 DEF Before
    <2>3. \A u, w \in Values : Overlap(u, w)' <=> Overlap(u, w)
      BY <2>2 DEF Overlap
    <2>4. SUFFICES ASSUME NEW u \in Values, NEW w \in Values,
                          Placed(u)', Placed(w)', Overlap(u, w)
                   PROVE  assignment'[u] # assignment'[w]
      BY <2>3 DEF NoSharedLocation
    <2>5. CASE u # v /\ w # v
      BY <1>5, <1>6, <2>4, <2>5 DEF IInv, NoSharedLocation
    <2>6. CASE u = v \/ w = v
      BY <1>5, <1>6, <2>1, <2>4, <2>6 DEF Overlap
    <2> QED BY <2>5, <2>6
  <1> QED BY <1>7, <1>8, <1>9 DEF IInv

(* v takes the register of u, the kept value that ends last.                *)
LEMMA EvictKeeps ==
    ASSUME IInv, NEW v \in Values, NEW u \in Values, Evict(v, u), TypeOK'
    PROVE  IInv'
  <1>0. Reaches(v)
    BY DEF Evict
  <1> DEFINE K == Kept(v)
  <1>1. /\ assignment' = [assignment EXCEPT ![u] = InStack(stackSlots),
                                            ![v] = InReg(assignment[u].at)]
        /\ FreeAt(v) = {}
        /\ freeRegs' = {}
        /\ active' = (K \ {u}) \cup {v}
        /\ pending' = pending \ {v}
        /\ stackSlots' = stackSlots + 1
        /\ UNCHANGED <<start, end>>
    BY DEF Evict
  <1>2. u \in K
    BY DEF Evict, EndsLast
  <1>3. Regs \subseteq {assignment[w].at : w \in K}
    BY <1>0, <1>1, FreeAfterExpiry
  <1>4. \A w \in K : w \in active /\ w \in Values /\ w # v /\ Placed(w) /\ assignment[w].isReg
    BY <1>0, NextIsNew DEF IInv, RegistersAccounted
  <1>5. \A w, x \in K : w # x => assignment[w].at # assignment[x].at
    BY <1>4 DEF IInv, RegistersAccounted
  <1>6. /\ \A w \in Values \ {u, v} : assignment'[w] = assignment[w]
        /\ assignment'[u] = InStack(stackSlots)
        /\ assignment'[v] = InReg(assignment[u].at)
    BY <1>1, <1>2, <1>4 DEF IInv, TypeOK
  <1>7. /\ ~assignment'[u].isReg /\ assignment'[u].at = stackSlots
        /\ assignment'[v].isReg /\ assignment'[v].at = assignment[u].at
    BY <1>6 DEF InStack, InReg
  <1>8. \A w \in Values : Placed(w)' <=> Placed(w) \/ w = v
    BY <1>1 DEF Placed
  <1>9. stackSlots \in Nat /\ Placed(u) /\ u # v
    BY <1>2, <1>4 DEF IInv, TypeOK
  <1>10. RegistersAccounted'
    <2>1. \A w \in active' : Placed(w)' /\ assignment'[w].isReg
      BY <1>1, <1>4, <1>6, <1>7, <1>8
    <2>2. \A w, x \in active' : w # x => assignment'[w].at # assignment'[x].at
      <3>1. \A w \in K \ {u} : assignment'[w] = assignment[w] /\ assignment'[w].at # assignment'[v].at
        BY <1>2, <1>4, <1>5, <1>6, <1>7
      <3>2. SUFFICES ASSUME NEW w \in active', NEW x \in active', w # x
                     PROVE  assignment'[w].at # assignment'[x].at
        OBVIOUS
      <3>3. CASE w = v \/ x = v
        BY <1>1, <3>1, <3>2, <3>3
      <3>4. CASE w # v /\ x # v
        <4>1. w \in K \ {u} /\ x \in K \ {u}
          BY <1>1, <3>4
        <4>2. assignment[w].at # assignment[x].at
          BY <1>5, <3>2, <4>1
        <4> QED BY <3>1, <4>1, <4>2
      <3> QED BY <3>3, <3>4
    <2>3. freeRegs' = Regs \ {assignment'[w].at : w \in active'}
      <3>1. SUFFICES ASSUME NEW r \in Regs
                     PROVE  \E w \in active' : assignment'[w].at = r
        BY <1>1
      <3>2. PICK w \in K : assignment[w].at = r
        BY <1>3
      <3>3. CASE w = u
        BY <1>1, <1>7, <3>2, <3>3
      <3>4. CASE w # u
        BY <1>1, <1>4, <1>6, <3>2, <3>4
      <3> QED BY <3>3, <3>4
    <2>4. ASSUME NEW w \in Values \ active', Placed(w)', assignment'[w].isReg, NEW x \in pending'
          PROVE  Before(w, x)'
      <3>1. w \in Values \ K /\ Placed(w) /\ assignment[w].isReg /\ x \in pending
        BY <1>1, <1>6, <1>7, <1>8, <2>4
      <3>2. Before(w, x)
        BY <1>0, <3>1, OthersAreOver
      <3> QED BY <1>1, <3>2 DEF Before
    <2> QED BY <2>1, <2>2, <2>3, <2>4 DEF RegistersAccounted
  <1>11. SlotsAccounted'
    <2>1. \A w \in Values : Placed(w)' /\ assignment'[w].isReg => assignment'[w].at \in Regs
      BY <1>4, <1>2, <1>6, <1>7, <1>8 DEF IInv, SlotsAccounted
    <2>2. \A w \in Values : Placed(w)' /\ ~assignment'[w].isReg =>
            assignment'[w].at \in 0 .. stackSlots' - 1
      <3>0. stackSlots' - 1 = stackSlots
        BY <1>1, <1>9
      <3>1. SUFFICES ASSUME NEW w \in Values, Placed(w)', ~assignment'[w].isReg
                     PROVE  assignment'[w].at \in 0 .. stackSlots
        BY <3>0
      <3>2. CASE w = u
        BY <1>7, <1>9, <3>2
      <3>3. CASE w # u
        <4>1. w # v /\ Placed(w) /\ assignment'[w] = assignment[w] /\ ~assignment[w].isReg
          BY <1>6, <1>7, <1>8, <3>1, <3>3
        <4>2. assignment[w].at \in 0 .. stackSlots - 1
          BY <4>1 DEF IInv, SlotsAccounted
        <4> QED BY <1>9, <4>1, <4>2
      <3> QED BY <3>2, <3>3
    <2>3. \A w \in Values \ {u} : Placed(w)' /\ ~assignment'[w].isReg =>
            w # v /\ Placed(w) /\ assignment'[w] = assignment[w] /\ assignment[w].at \in 0 .. stackSlots - 1
      BY <1>6, <1>7, <1>8 DEF IInv, SlotsAccounted
    <2>4. \A w, x \in Values :
            w # x /\ Placed(w)' /\ Placed(x)' /\ ~assignment'[w].isReg /\ ~assignment'[x].isReg
                => assignment'[w].at # assignment'[x].at
      BY <1>7, <1>9, <2>3 DEF IInv, SlotsAccounted
    <2> QED BY <2>1, <2>2, <2>4 DEF SlotsAccounted
  <1>12. NoSharedLocation'
    <2>1. ASSUME NEW w \in Values, w \notin {u, v}, Placed(w), assignment[w] = assignment'[v]
          PROVE  Before(w, v)
      <3>1. w \notin K
        BY <1>2, <1>5, <1>7, <2>1
      <3>2. assignment[w].isReg
        BY <1>7, <2>1
      <3> QED BY <1>0, <2>1, <3>1, <3>2, OthersAreOver DEF Reaches
    <2>2. \A w, x \in Values : Overlap(w, x)' <=> Overlap(w, x)
      BY <1>1 DEF Overlap, Before
    <2>3. SUFFICES ASSUME NEW w \in Values, NEW x \in Values,
                          Placed(w)', Placed(x)', Overlap(w, x)
                   PROVE  assignment'[w] # assignment'[x]
      BY <2>2 DEF NoSharedLocation
    <2>4. CASE w \notin {u, v} /\ x \notin {u, v}
      BY <1>6, <1>8, <2>3, <2>4 DEF IInv, NoSharedLocation
    <2>5. \A y \in Values \ {u} : Placed(y)' => assignment'[y] # assignment'[u]
      <3>1. SUFFICES ASSUME NEW y \in Values \ {u}, Placed(y)', ~assignment'[y].isReg
                     PROVE  assignment'[y].at # assignment'[u].at
        BY <1>7
      <3>2. y # v /\ Placed(y) /\ assignment'[y] = assignment[y] /\ ~assignment[y].isReg
        BY <1>6, <1>7, <1>8, <3>1
      <3>3. assignment[y].at \in 0 .. stackSlots - 1
        BY <3>2 DEF IInv, SlotsAccounted
      <3> QED BY <1>7, <1>9, <3>2, <3>3
    <2>6. CASE w = u \/ x = u
      BY <2>3, <2>5, <2>6 DEF Overlap
    <2>7. CASE (w = v /\ x \notin {u, v}) \/ (x = v /\ w \notin {u, v})
      BY <1>6, <1>8, <2>1, <2>3, <2>7 DEF Overlap
    <2>8. w # x
      BY <2>3 DEF Overlap
    <2> QED BY <2>4, <2>6, <2>7, <2>8
  <1> QED BY <1>10, <1>11, <1>12 DEF IInv

(* v goes to a spill slot of its own.                                       *)
LEMMA SpillKeeps ==
    ASSUME IInv, NEW v \in Values, Spill(v), TypeOK'
    PROVE  IInv'
  <1>0. Reaches(v)
    BY DEF Spill
  <1> DEFINE K == Kept(v)
  <1>1. /\ assignment' = [assignment EXCEPT ![v] = InStack(stackSlots)]
        /\ FreeAt(v) = {}
        /\ freeRegs' = {}
        /\ active' = K
        /\ pending' = pending \ {v}
        /\ stackSlots' = stackSlots + 1
        /\ UNCHANGED <<start, end>>
    BY DEF Spill
  <1>2. Regs \subseteq {assignment[w].at : w \in K}
    BY <1>0, <1>1, FreeAfterExpiry
  <1>3. \A w \in K : w \in active /\ w \in Values /\ w # v /\ Placed(w) /\ assignment[w].isReg
    BY <1>0, NextIsNew DEF IInv, RegistersAccounted
  <1>4. /\ \A w \in Values \ {v} : assignment'[w] = assignment[w]
        /\ ~assignment'[v].isReg /\ assignment'[v].at = stackSlots
    BY <1>1 DEF IInv, TypeOK, InStack
  <1>5. \A w \in Values : Placed(w)' <=> Placed(w) \/ w = v
    BY <1>1 DEF Placed
  <1>6. stackSlots \in Nat
    BY DEF IInv, TypeOK
  <1>7. RegistersAccounted'
    <2>1. \A w \in active' : Placed(w)' /\ assignment'[w].isReg
      BY <1>1, <1>3, <1>4, <1>5
    <2>2. \A w, x \in active' : w # x => assignment'[w].at # assignment'[x].at
      BY <1>1, <1>3, <1>4 DEF IInv, RegistersAccounted
    <2>3. freeRegs' = Regs \ {assignment'[w].at : w \in active'}
      BY <1>1, <1>2, <1>3, <1>4
    <2>4. ASSUME NEW w \in Values \ active', Placed(w)', assignment'[w].isReg, NEW x \in pending'
          PROVE  Before(w, x)'
      <3>1. w \in Values \ K /\ Placed(w) /\ assignment[w].isReg /\ x \in pending
        BY <1>1, <1>4, <1>5, <2>4
      <3>2. Before(w, x)
        BY <1>0, <3>1, OthersAreOver
      <3> QED BY <1>1, <3>2 DEF Before
    <2> QED BY <2>1, <2>2, <2>3, <2>4 DEF RegistersAccounted
  <1>8. SlotsAccounted'
    BY <1>1, <1>4, <1>5, <1>6 DEF IInv, SlotsAccounted
  <1>9. NoSharedLocation'
    <2>1. \A w \in Values \ {v} : Placed(w) => assignment'[w] # assignment'[v]
      <3>1. SUFFICES ASSUME NEW w \in Values \ {v}, Placed(w), ~assignment[w].isReg
                     PROVE  assignment[w].at # stackSlots
        BY <1>4
      <3>2. assignment[w].at \in 0 .. stackSlots - 1
        BY <3>1 DEF IInv, SlotsAccounted
      <3> QED BY <1>6, <3>2
    <2>2. \A w, x \in Values : Overlap(w, x)' <=> Overlap(w, x)
      BY <1>1 DEF Overlap, Before
    <2> QED BY <1>4, <1>5, <2>1, <2>2 DEF IInv, NoSharedLocation, Overlap
  <1> QED BY <1>7, <1>8, <1>9 DEF IInv

(* Every iteration of the loop of Allocate keeps the accounts in order.     *)
LEMMA ScanKeepsAccounts ==
    ASSUME IInv, Scan
    PROVE  IInv'
  <1>1. TypeOK'
    BY ScanTypeCorrect
  <1> QED BY <1>1, TakeFreeKeeps, EvictKeeps, SpillKeeps DEF Scan

LEMMA ScanBegins == Init => IInv
  <1> SUFFICES ASSUME Init PROVE IInv
    OBVIOUS
  <1>1. TypeOK
    BY RegsAssumption DEF Init, ScanInit, TypeOK, NoLocation, Location
  <1> QED BY <1>1 DEF Init, ScanInit, IInv, RegistersAccounted, SlotsAccounted, NoSharedLocation, Placed

LEMMA ScanStutters ==
    ASSUME IInv, UNCHANGED scanVars
    PROVE  IInv'
  BY DEF IInv, TypeOK, RegistersAccounted, SlotsAccounted, NoSharedLocation, Placed,
         Overlap, Before, scanVars

LEMMA ScanInvariant == ScanSpec => []IInv
  <1>1. IInv /\ [Scan]_scanVars => IInv'
    BY ScanKeepsAccounts, ScanStutters
  <1> QED BY <1>1, ScanBegins, PTL DEF ScanSpec

(* No two values whose intervals overlap share a register or a spill slot:  *)
(* the loop of Allocate, for any intervals and any number of registers.     *)
THEOREM OverlapNeverShares == ScanSpec => []NoSharedLocation
  <1>1. IInv => NoSharedLocation
    BY DEF IInv
  <1> QED BY <1>1, ScanInvariant, PTL

(* The free registers are those no active value holds, and whoever gave one *)
(* back is over before all that is still to come, after every iteration of  *)
(* the loop of Allocate.                                                    *)
THEOREM RegistersStayAccounted == ScanSpec => []RegistersAccounted
  <1>1. IInv => RegistersAccounted
    BY DEF IInv
  <1> QED BY <1>1, ScanInvariant, PTL

-----------------------------------------------------------------------------
(* Numbers.                                                                 *)

(* Every set of numbers has a least one.                                    *)
LEMMA NatMin ==
    ASSUME NEW S \in SUBSET Nat, S # {}
    PROVE  \E x \in S : \A y \in S : x <= y
  <1> DEFINE R == {p \in Nat \X Nat : p[1] < p[2]}
  <1>1. IsWellFoundedOn(R, Nat)
    BY NatLessThanWellFounded DEF OpToRel
  <1>2. S \subseteq Nat
    OBVIOUS
  <1> HIDE DEF R
  <1>3. \E x \in S : \A y \in S : ~(<<y, x>> \in R)
    BY ONLY <1>1, <1>2, S # {}, WFMin, Zenon
  <1>4. PICK x \in S : \A y \in S : ~(<<y, x>> \in R)
    BY <1>3
  <1>5. ASSUME NEW y \in S
        PROVE  x <= y
    <2>1. x \in Nat /\ y \in Nat
      BY <1>2
    <2>2. <<y, x>> \in Nat \X Nat /\ <<y, x>>[1] = y /\ <<y, x>>[2] = x
      BY <2>1
    <2>3. ~(y < x)
      BY <1>4, <2>2 DEF R
    <2> QED BY <2>1, <2>3
  <1> QED BY <1>5

(* The least and the greatest number of a set, as Min and Max choose them.  *)
LEMMA MinIsLeast ==
    ASSUME NEW S \in SUBSET Nat, S # {}
    PROVE  Min(S) \in S /\ \A y \in S : Min(S) <= y
  BY NatMin DEF Min

LEMMA MaxIsGreatest ==
    ASSUME NEW S \in SUBSET Nat, S # {}, NEW n \in Nat, \A y \in S : y <= n
    PROVE  Max(S) \in S /\ \A y \in S : y <= Max(S)
  <1> DEFINE T == {m \in Nat : \A y \in S : y <= m}
  <1>1. PICK m \in T : \A k \in T : m <= k
    <2>1. T \in SUBSET Nat /\ T # {}
      OBVIOUS
    <2> QED BY <2>1, NatMin
  <1>2. m \in S
    <2>1. SUFFICES ASSUME m \notin S PROVE FALSE
      OBVIOUS
    <2>2. PICK z \in S : TRUE
      OBVIOUS
    <2>3. \A y \in S : y \in Nat /\ y <= m /\ y # m
      BY <1>1, <2>1
    <2>4. m \in Nat /\ m # 0
      BY <1>1, <2>2, <2>3
    <2>5. m - 1 \in T
      BY <2>3, <2>4
    <2> QED BY <1>1, <2>4, <2>5
  <1>3. \A y \in S : y <= m
    BY <1>1
  <1> QED BY <1>2, <1>3 DEF Max

(* The numbers of a function on 1 .. n have a bound.                        *)
LEMMA Bounded ==
    ASSUME NEW n \in Nat, NEW f \in [1 .. n -> Nat]
    PROVE  \E m \in Nat : \A i \in 1 .. n : f[i] <= m
  <1> DEFINE Bad == {k \in 0 .. n : ~\E m \in Nat : \A i \in 1 .. k : f[i] <= m}
  <1>1. SUFFICES ASSUME Bad # {} PROVE FALSE
    <2>1. n \in 0 .. n
      OBVIOUS
    <2> QED BY <2>1
  <1>2. PICK k \in Bad : \A j \in Bad : k <= j
    <2>1. Bad \in SUBSET Nat
      OBVIOUS
    <2> HIDE DEF Bad
    <2> QED BY <1>1, <2>1, NatMin
  <1>3. k \in 0 .. n /\ ~\E m \in Nat : \A i \in 1 .. k : f[i] <= m
    BY <1>2
  <1>4. k # 0
    <2>1. \A i \in 1 .. 0 : f[i] <= 0
      OBVIOUS
    <2> QED BY <1>3, <2>1
  <1>5. k - 1 \in 0 .. n /\ k - 1 \notin Bad
    <2>1. k - 1 \in 0 .. n /\ ~(k <= k - 1)
      BY <1>3, <1>4
    <2> HIDE DEF Bad
    <2> QED BY <1>2, <2>1
  <1>6. PICK m \in Nat : \A i \in 1 .. k - 1 : f[i] <= m
    BY <1>5
  <1> HIDE DEF Bad
  <1>7. f[k] \in Nat
    BY <1>3, <1>4
  <1>8. m + f[k] \in Nat
    BY <1>7
  <1>9. ASSUME NEW i \in 1 .. k
        PROVE  f[i] <= m + f[k]
    <2>1. f[i] \in Nat /\ k \in Nat /\ i \in Nat
      BY <1>3
    <2>2. CASE i = k
      BY <1>7, <2>2
    <2>3. CASE i # k
      <3>1. f[i] <= m
        BY <1>6, <2>1, <2>3
      <3> QED BY <1>7, <2>1, <3>1
    <2> QED BY <2>2, <2>3
  <1> QED BY <1>3, <1>8, <1>9

-----------------------------------------------------------------------------
(* The numbers of phis and of instructions of a block.                      *)
PhiLen(f, b) == Len(f.phis[b])
CodeLen(f, b) == Len(f.code[b])

LEMMA BlocksAreNumbered ==
    ASSUME NEW f, Shaped(f)
    PROVE  /\ Len(f.succ) \in Nat \ {0}
           /\ Blocks(f) = 1 .. Len(f.succ)
           /\ 1 \in Blocks(f)
           /\ \A b \in Blocks(f) : f.succ[b] \subseteq Blocks(f)
  BY DEF Shaped, Blocks

LEMMA BlockParts ==
    ASSUME NEW f, Shaped(f), NEW b \in Blocks(f)
    PROVE  /\ PhiLen(f, b) \in Nat /\ DOMAIN f.phis[b] = 1 .. PhiLen(f, b)
           /\ CodeLen(f, b) \in Nat /\ DOMAIN f.code[b] = 1 .. CodeLen(f, b)
           /\ \A i \in DOMAIN f.phis[b] : f.phis[b][i].res \in Values
           /\ \A i \in DOMAIN f.code[b] :
                f.code[b][i].res \in Values \cup {NoValue} /\ f.code[b][i].uses \subseteq Values
           /\ f.test[b] \subseteq Values
           /\ 1 \notin f.succ[b]
           /\ \A s \in f.succ[b] : EdgeUses(f, b, s) \subseteq Values
  BY DEF Shaped, PhiLen, CodeLen

(* The positions before a block are finitely many, so it starts at one.     *)
LEMMA StartsAreNumbers ==
    ASSUME NEW f, Shaped(f), NEW b \in Blocks(f)
    PROVE  BlockStart(f, b) \in Nat \ {0}
  <1> DEFINE Row(c) == {c} \X (1 .. BlockLen(f, c))
             Rows == {Row(c) : c \in 1 .. b - 1}
             row == [c \in 1 .. b - 1 |-> Row(c)]
  <1>1. b \in Nat /\ 1 .. b - 1 \subseteq Blocks(f)
    BY BlocksAreNumbered
  <1>2. ASSUME NEW c \in 1 .. b - 1
        PROVE  IsFiniteSet(Row(c))
    <2>0. c \in Blocks(f)
      BY <1>1
    <2>1. BlockLen(f, c) \in Nat
      <3>1. PhiLen(f, c) \in Nat /\ CodeLen(f, c) \in Nat
        BY <2>0, BlockParts
      <3>2. BlockLen(f, c) = PhiLen(f, c) + CodeLen(f, c) + 1
        BY DEF BlockLen, PhiLen, CodeLen
      <3> QED BY <3>1, <3>2
    <2>2. IsFiniteSet(1 .. BlockLen(f, c))
      BY <2>1, FS_Interval
    <2>3. IsFiniteSet({c})
      BY FS_Singleton
    <2> QED BY <2>2, <2>3, FS_Product
  <1>3. IsFiniteSet(Rows)
    <2>1. row \in Surjection(1 .. b - 1, Rows)
      <3>1. row \in [1 .. b - 1 -> Rows] /\ \A r \in Rows : \E c \in 1 .. b - 1 : row[c] = r
        OBVIOUS
      <3> QED BY <3>1 DEF Surjection
    <2>2. IsFiniteSet(1 .. b - 1)
      BY <1>1, FS_Interval
    <2> HIDE DEF row, Rows
    <2> QED BY <2>1, <2>2, FS_Surjection, Zenon
  <1>4. \A T \in Rows : IsFiniteSet(T)
    BY <1>2
  <1>5. Emitted(f, b) = UNION Rows
    BY DEF Emitted
  <1> HIDE DEF Rows
  <1>6. Cardinality(Emitted(f, b)) \in Nat
    BY <1>3, <1>4, <1>5, FS_UNION, FS_CardinalityType
  <1> QED BY <1>6 DEF BlockStart

(* Where the parts of a block are: its phis, its code, its terminator.      *)
LEMMA Positions ==
    ASSUME NEW f, Shaped(f), NEW b \in Blocks(f)
    PROVE  /\ BlockStart(f, b) \in Nat \ {0} /\ BlockEnd(f, b) \in Nat
           /\ \A i \in 1 .. PhiLen(f, b) :
                PhiAt(f, b, i) \in Nat /\ BlockStart(f, b) <= PhiAt(f, b, i)
           /\ \A i \in 1 .. CodeLen(f, b) + 1 :
                CodeAt(f, b, i) = BlockStart(f, b) + PhiLen(f, b) + i - 1
           /\ BlockEnd(f, b) = BlockStart(f, b) + PhiLen(f, b) + CodeLen(f, b)
  <1> DEFINE s == BlockStart(f, b) p == PhiLen(f, b) c == CodeLen(f, b)
  <1>1. s \in Nat \ {0} /\ p \in Nat /\ c \in Nat
    BY StartsAreNumbers, BlockParts
  <1>2. /\ BlockEnd(f, b) = s + (p + c + 1) - 1
        /\ \A i : PhiAt(f, b, i) = s + i - 1
        /\ \A i : CodeAt(f, b, i) = s + (p + i) - 1
    BY DEF BlockEnd, BlockLen, PhiLen, CodeLen, PhiAt, CodeAt
  <1> HIDE DEF s, p, c
  <1>3. /\ s + (p + c + 1) - 1 = s + p + c
        /\ \A i \in Nat : s + (p + i) - 1 = s + p + i - 1
        /\ \A i \in 1 .. p : s + i - 1 \in Nat /\ s <= s + i - 1
    BY <1>1
  <1>4. \A i \in 1 .. c + 1 : i \in Nat
    BY <1>1
  <1> QED BY <1>1, <1>2, <1>3, <1>4 DEF s, p, c

-----------------------------------------------------------------------------
(* The one definition of v: instruction, phi or parameter i of block b.     *)
IsDefinition(f, v, b, kind, i) ==
    /\ b \in Blocks(f)
    /\ kind \in {"param", "phi", "code"}
    /\ v \in Range(f.params) <=> kind = "param"
    /\ kind = "param" => b = 1
    /\ \A c \in Blocks(f) :
          /\ \A j \in DOMAIN f.phis[c] : f.phis[c][j].res = v <=> kind = "phi" /\ c = b /\ j = i
          /\ \A j \in DOMAIN f.code[c] : f.code[c][j].res = v <=> kind = "code" /\ c = b /\ j = i
    /\ kind = "phi" => i \in DOMAIN f.phis[b]
    /\ kind = "code" => i \in DOMAIN f.code[b]

LEMMA OneDefinition ==
    ASSUME NEW f, Shaped(f), NEW v \in Values, DefinedOnce(f, v)
    PROVE  \E b, kind, i : IsDefinition(f, v, b, kind, i)
  <1>1. PICK d \in Sites(f, v) : Sites(f, v) = {d}
    BY DEF DefinedOnce
  <1> DEFINE IsParam(b, k, i) == b = 1 /\ k = "param" /\ i \in DOMAIN f.params /\ f.params[i] = v
             IsPhi(b, k, i) == b \in Blocks(f) /\ k = "phi" /\ i \in DOMAIN f.phis[b] /\ f.phis[b][i].res = v
             IsCode(b, k, i) == b \in Blocks(f) /\ k = "code" /\ i \in DOMAIN f.code[b] /\ f.code[b][i].res = v
  <1>2. \A b, k, i : IsParam(b, k, i) \/ IsPhi(b, k, i) \/ IsCode(b, k, i) => <<b, k, i>> \in Sites(f, v)
    BY DEF Sites
  <1>3. PICK b, k, i : d = <<b, k, i>> /\ (IsParam(b, k, i) \/ IsPhi(b, k, i) \/ IsCode(b, k, i))
    <2>1. \/ \E i \in DOMAIN f.params : d = <<1, "param", i>> /\ f.params[i] = v
          \/ \E b \in Blocks(f) :
                \/ \E i \in DOMAIN f.phis[b] : d = <<b, "phi", i>> /\ f.phis[b][i].res = v
                \/ \E i \in DOMAIN f.code[b] : d = <<b, "code", i>> /\ f.code[b][i].res = v
      BY <1>1 DEF Sites
    <2> QED BY <2>1
  <1>4. \A c, k2, j : IsParam(c, k2, j) \/ IsPhi(c, k2, j) \/ IsCode(c, k2, j) => c = b /\ k2 = k /\ j = i
    <2> SUFFICES ASSUME NEW c, NEW k2, NEW j, IsParam(c, k2, j) \/ IsPhi(c, k2, j) \/ IsCode(c, k2, j)
                 PROVE  c = b /\ k2 = k /\ j = i
      BY Zenon
    <2> HIDE DEF IsParam, IsPhi, IsCode
    <2>1. <<c, k2, j>> \in Sites(f, v)
      BY <1>2
    <2>2. <<c, k2, j>> = <<b, k, i>>
      BY <1>1, <1>3, <2>1
    <2> QED BY <2>2
  <1>5. v \in Range(f.params) <=> \E j : IsParam(1, "param", j)
    BY DEF Range
  <1>6. 1 \in Blocks(f)
    BY BlocksAreNumbered
  <1>7. IsDefinition(f, v, b, k, i)
    <2>1. b \in Blocks(f) /\ k \in {"param", "phi", "code"} /\ (k = "param" => b = 1)
      BY <1>3, <1>6
    <2>2. v \in Range(f.params) <=> k = "param"
      BY <1>3, <1>4, <1>5
    <2>3. ASSUME NEW c \in Blocks(f), NEW j \in DOMAIN f.phis[c]
          PROVE  f.phis[c][j].res = v <=> k = "phi" /\ c = b /\ j = i
      <3>1. f.phis[c][j].res = v => IsPhi(c, "phi", j)
        BY <2>3
      <3>2. k = "phi" => f.phis[b][i].res = v
        BY <1>3
      <3> QED BY <1>4, <3>1, <3>2
    <2>4. ASSUME NEW c \in Blocks(f), NEW j \in DOMAIN f.code[c]
          PROVE  f.code[c][j].res = v <=> k = "code" /\ c = b /\ j = i
      <3>1. f.code[c][j].res = v => IsCode(c, "code", j)
        BY <2>4
      <3>2. k = "code" => f.code[b][i].res = v
        BY <1>3
      <3> QED BY <1>4, <3>1, <3>2
    <2>5. (k = "phi" => i \in DOMAIN f.phis[b]) /\ (k = "code" => i \in DOMAIN f.code[b])
      BY <1>3
    <2> QED BY <2>1, <2>2, <2>3, <2>4, <2>5 DEF IsDefinition
  <1> QED BY <1>7

-----------------------------------------------------------------------------
(* Where the interval of v can begin, and where it can end.                 *)
Begins(f, live, v, b, n) ==
    \/ v \in Params(f, b) /\ n = 0
    \/ v \in PhiResults(f, b) \cup live[b] /\ n = BlockStart(f, b)
    \/ \E i \in DOMAIN f.code[b] : f.code[b][i].res = v /\ n = CodeAt(f, b, i)

Lasts(f, live, out, v, b, n) ==
    \/ \E i \in DOMAIN f.phis[b] : f.phis[b][i].res = v /\ n = PhiAt(f, b, i)
    \/ \E i \in DOMAIN f.code[b] :
          v \in f.code[b][i].uses \cup {f.code[b][i].res} /\ n = CodeAt(f, b, i)
    \/ v \in f.test[b] \cup live[b] \cup out[b] /\ n = BlockEnd(f, b)

LEMMA BeginsAreNumbers ==
    ASSUME NEW f, Shaped(f), NEW live, NEW v, NEW b \in Blocks(f), NEW n, Begins(f, live, v, b, n)
    PROVE  n \in Nat
  <1>1. BlockStart(f, b) \in Nat
    BY Positions
  <1>2. ASSUME NEW i \in DOMAIN f.code[b]
        PROVE  CodeAt(f, b, i) \in Nat
    <2> DEFINE s == BlockStart(f, b) p == PhiLen(f, b) c == CodeLen(f, b)
    <2>1. s \in Nat /\ p \in Nat /\ c \in Nat /\ i \in 1 .. c
      BY <1>1, BlockParts
    <2>2. i \in 1 .. c + 1
      BY <2>1
    <2>3. CodeAt(f, b, i) = s + p + i - 1
      BY <2>2, Positions
    <2> HIDE DEF s, p, c
    <2>4. s + p + i - 1 \in Nat
      BY <2>1
    <2> QED BY <2>3, <2>4
  <1> QED BY <1>1, <1>2 DEF Begins

(* The start of an interval is the first place where it can begin.          *)
LEMMA StartIsFirst ==
    ASSUME NEW f, Shaped(f), NEW live, NEW v \in Values, DefinedOnce(f, v)
    PROVE  /\ IntervalStart(f, live, v) \in Nat
           /\ \E b \in Blocks(f) : Begins(f, live, v, b, IntervalStart(f, live, v))
           /\ \A b \in Blocks(f) : \A n : Begins(f, live, v, b, n) => IntervalStart(f, live, v) <= n
  <1> DEFINE At(b) ==      (IF v \in Params(f, b) THEN {0} ELSE {})
                      \cup (IF v \in PhiResults(f, b) \cup live[b] THEN {BlockStart(f, b)} ELSE {})
                      \cup {CodeAt(f, b, i) : i \in {j \in DOMAIN f.code[b] : f.code[b][j].res = v}}
             T == UNION {At(b) : b \in Blocks(f)}
  <1>1. IntervalStart(f, live, v) = Min(T)
    BY DEF IntervalStart
  <1>2. ASSUME NEW b, NEW n
        PROVE  n \in At(b) <=> Begins(f, live, v, b, n)
    BY DEF Begins
  <1> HIDE DEF At
  <1>3. \A n : n \in T <=> \E b \in Blocks(f) : Begins(f, live, v, b, n)
    BY <1>2
  <1> HIDE DEF T
  <1>4. T \in SUBSET Nat
    BY <1>3, BeginsAreNumbers
  <1>5. \E b \in Blocks(f) : \E n : Begins(f, live, v, b, n)
    <2>1. PICK b, kind, i : IsDefinition(f, v, b, kind, i)
      BY OneDefinition
    <2>2. CASE kind = "param"
      BY <2>1, <2>2, BlocksAreNumbered DEF IsDefinition, Begins, Params
    <2>3. CASE kind = "phi"
      <3>1. v \in PhiResults(f, b)
        BY <2>1, <2>3 DEF IsDefinition, PhiResults, Range
      <3> QED BY <2>1, <3>1 DEF IsDefinition, Begins
    <2>4. CASE kind = "code"
      BY <2>1, <2>4 DEF IsDefinition, Begins
    <2> QED BY <2>1, <2>2, <2>3, <2>4 DEF IsDefinition
  <1>6. T # {}
    BY <1>3, <1>5
  <1>7. Min(T) \in T /\ \A n \in T : Min(T) <= n
    BY <1>4, <1>6, MinIsLeast
  <1> QED BY <1>1, <1>3, <1>4, <1>7

LEMMA LastsAreInBlocks ==
    ASSUME NEW f, Shaped(f), NEW live, NEW out, NEW v, NEW b \in Blocks(f), NEW n,
           Lasts(f, live, out, v, b, n)
    PROVE  n \in Nat /\ n <= BlockEnd(f, b)
  <1> DEFINE s == BlockStart(f, b) p == PhiLen(f, b) c == CodeLen(f, b)
  <1>1. s \in Nat /\ p \in Nat /\ c \in Nat /\ BlockEnd(f, b) = s + p + c
    BY BlockParts, Positions
  <1>2. ASSUME NEW i \in DOMAIN f.phis[b]
        PROVE  PhiAt(f, b, i) \in Nat /\ PhiAt(f, b, i) <= BlockEnd(f, b)
    <2>1. i \in 1 .. p
      BY BlockParts
    <2>2. PhiAt(f, b, i) = s + i - 1
      BY DEF PhiAt
    <2> HIDE DEF s, p, c
    <2> QED BY <1>1, <2>1, <2>2
  <1>3. ASSUME NEW i \in DOMAIN f.code[b]
        PROVE  CodeAt(f, b, i) \in Nat /\ CodeAt(f, b, i) <= BlockEnd(f, b)
    <2>1. i \in 1 .. c
      BY BlockParts
    <2>2. i \in 1 .. c + 1
      BY <1>1, <2>1
    <2>3. CodeAt(f, b, i) = s + p + i - 1
      BY <2>2, Positions
    <2> HIDE DEF s, p, c
    <2> QED BY <1>1, <2>1, <2>3
  <1>4. BlockEnd(f, b) \in Nat /\ BlockEnd(f, b) <= BlockEnd(f, b)
    BY Positions
  <1> QED BY <1>2, <1>3, <1>4 DEF Lasts

(* The end of an interval is the last place where it can end.               *)
LEMMA EndIsLast ==
    ASSUME NEW f, Shaped(f), NEW live, NEW out, NEW v
    PROVE  /\ IntervalEnd(f, live, out, v) \in Nat
           /\ \A b \in Blocks(f) : \A n : Lasts(f, live, out, v, b, n) => n <= IntervalEnd(f, live, out, v)
  <1> DEFINE At(b) ==
                 {PhiAt(f, b, i) : i \in {j \in DOMAIN f.phis[b] : f.phis[b][j].res = v}}
                 \cup {CodeAt(f, b, i) : i \in {j \in DOMAIN f.code[b] :
                                                 v \in f.code[b][j].uses \cup {f.code[b][j].res}}}
                 \cup (IF v \in f.test[b] \cup live[b] \cup out[b] THEN {BlockEnd(f, b)} ELSE {})
             T == {0} \cup UNION {At(b) : b \in Blocks(f)}
             ends == [b \in 1 .. Len(f.succ) |-> BlockEnd(f, b)]
  <1>1. IntervalEnd(f, live, out, v) = Max(T)
    BY DEF IntervalEnd
  <1>2. ASSUME NEW b, NEW n
        PROVE  n \in At(b) <=> Lasts(f, live, out, v, b, n)
    BY DEF Lasts
  <1> HIDE DEF At
  <1>3. \A n : n \in T <=> n = 0 \/ \E b \in Blocks(f) : Lasts(f, live, out, v, b, n)
    BY <1>2
  <1> HIDE DEF T
  <1>4. T \in SUBSET Nat /\ T # {}
    BY <1>3, LastsAreInBlocks
  <1>5. Len(f.succ) \in Nat /\ ends \in [1 .. Len(f.succ) -> Nat]
    BY BlocksAreNumbered, Positions
  <1>6. PICK m \in Nat : \A b \in 1 .. Len(f.succ) : ends[b] <= m
    <2> HIDE DEF ends
    <2> QED BY <1>5, Bounded
  <1>7. ASSUME NEW n \in T
        PROVE  n <= m
    <2>1. CASE n = 0
      BY <1>6, <2>1
    <2>2. ASSUME NEW b \in Blocks(f), Lasts(f, live, out, v, b, n)
          PROVE  n <= m
      <3>1. n \in Nat /\ n <= BlockEnd(f, b) /\ BlockEnd(f, b) \in Nat
        BY <2>2, LastsAreInBlocks, Positions
      <3>2. BlockEnd(f, b) <= m
        BY <1>6, BlocksAreNumbered
      <3> QED BY <1>6, <3>1, <3>2
    <2> QED BY <1>3, <2>1, <2>2
  <1>8. Max(T) \in T /\ \A n \in T : n <= Max(T)
    BY <1>4, <1>6, <1>7, MaxIsGreatest
  <1> QED BY <1>1, <1>3, <1>4, <1>8

-----------------------------------------------------------------------------
(* What the liveness loop has reached when a pass changes nothing.          *)
Solved(f, live, out) ==
    /\ \A b \in Blocks(f) : out[b] = LiveOutOf(f, live, b)
    /\ \A b \in Blocks(f) : live[b] = Exposed(f, b) \cup (out[b] \ Defs(f, b))
    /\ live[1] = {}

LEMMA DefinedInOneBlock ==
    ASSUME NEW f, Shaped(f), NEW v \in Values, NEW b, NEW kind, NEW i, IsDefinition(f, v, b, kind, i)
    PROVE  \A c \in Blocks(f) : v \in Defs(f, c) => c = b
  <1> SUFFICES ASSUME NEW c \in Blocks(f), v \in Defs(f, c), c # b
               PROVE  FALSE
    OBVIOUS
  <1>1. CASE v \in Params(f, c)
    BY <1>1 DEF Params, IsDefinition
  <1>2. CASE v \in PhiResults(f, c)
    BY <1>2 DEF PhiResults, Range, IsDefinition
  <1>3. CASE v \in Results(f, c, Len(f.code[c]))
    <2>1. PICK j \in 1 .. CodeLen(f, c) : f.code[c][j].res = v
      BY <1>3 DEF Results, CodeLen
    <2> QED BY <2>1, BlockParts DEF IsDefinition
  <1> QED BY <1>1, <1>2, <1>3 DEF Defs

(* A value that is live at the start of some block is live at the end of    *)
(* the block that defines it: the way there from the first block leads over *)
(* its definition.                                                          *)
LEMMA LiveInIsLiveOut ==
    ASSUME NEW f, Shaped(f), Reached(f), NEW live, NEW out, Solved(f, live, out),
           NEW v, NEW b, \A c \in Blocks(f) : v \in Defs(f, c) => c = b,
           NEW c \in Blocks(f), v \in live[c]
    PROVE  v \in out[b]
  <1> DEFINE S == {d \in Blocks(f) : v \notin live[d]}
  <1>1. S \in SUBSET Blocks(f) /\ S # Blocks(f)
    OBVIOUS
  <1>2. 1 \in S
    BY BlocksAreNumbered DEF Solved
  <1>3. PICK d \in S : ~(f.succ[d] \subseteq S)
    BY <1>1, <1>2 DEF Reached
  <1>4. PICK s \in f.succ[d] : v \in live[s]
    BY <1>3, BlocksAreNumbered
  <1>5. d \in Blocks(f) /\ v \notin live[d]
    BY <1>3
  <1>6. v \in out[d]
    BY <1>4, <1>5 DEF Solved, LiveOutOf
  <1>7. v \in Defs(f, d)
    BY <1>5, <1>6 DEF Solved
  <1> QED BY <1>5, <1>6, <1>7

-----------------------------------------------------------------------------
(* The values that block b still needs before its instruction i.            *)
KeepsFrom(f, b, i, j, v) == \A k \in i .. j - 1 : f.code[b][k].res # v

Needs(f, out, b, i, v) ==
    \/ \E j \in i .. CodeLen(f, b) : v \in f.code[b][j].uses /\ KeepsFrom(f, b, i, j, v)
    \/ v \in f.test[b] \cup out[b] /\ KeepsFrom(f, b, i, CodeLen(f, b) + 1, v)

(* An instruction needs what it uses and defines what it does not leave.    *)
LEMMA InstructionNeeds ==
    ASSUME NEW f, Shaped(f), NEW out, NEW b \in Blocks(f), NEW i \in 1 .. CodeLen(f, b)
    PROVE  /\ \A v \in f.code[b][i].uses : Needs(f, out, b, i, v)
           /\ \A v : Needs(f, out, b, i + 1, v) => Needs(f, out, b, i, v) \/ f.code[b][i].res = v
  <1>1. CodeLen(f, b) \in Nat /\ i \in Nat
    BY BlockParts
  <1>2. ASSUME NEW v \in f.code[b][i].uses
        PROVE  Needs(f, out, b, i, v)
    <2>1. i \in i .. CodeLen(f, b) /\ i .. i - 1 = {}
      BY <1>1
    <2> QED BY <2>1, <1>2 DEF Needs, KeepsFrom
  <1>3. ASSUME NEW v, Needs(f, out, b, i + 1, v), f.code[b][i].res # v
        PROVE  Needs(f, out, b, i, v)
    <2>1. ASSUME NEW j \in i + 1 .. CodeLen(f, b) + 1, KeepsFrom(f, b, i + 1, j, v)
          PROVE  KeepsFrom(f, b, i, j, v)
      <3>1. \A k \in i .. j - 1 : k = i \/ k \in i + 1 .. j - 1
        BY <1>1
      <3> QED BY <1>3, <2>1, <3>1 DEF KeepsFrom
    <2>2. /\ i + 1 .. CodeLen(f, b) \subseteq i + 1 .. CodeLen(f, b) + 1
          /\ i + 1 .. CodeLen(f, b) \subseteq i .. CodeLen(f, b)
          /\ CodeLen(f, b) + 1 \in i + 1 .. CodeLen(f, b) + 1
      BY <1>1
    <2> QED BY <1>3, <2>1, <2>2 DEF Needs
  <1> QED BY <1>2, <1>3

(* Behind the last instruction a block needs what its terminator uses and   *)
(* what is live at its end.                                                 *)
LEMMA TerminatorNeeds ==
    ASSUME NEW f, Shaped(f), NEW out, NEW b \in Blocks(f), NEW v
    PROVE  Needs(f, out, b, CodeLen(f, b) + 1, v) <=> v \in f.test[b] \cup out[b]
  <1>1. CodeLen(f, b) \in Nat
    BY BlockParts
  <1>2. CodeLen(f, b) + 1 .. CodeLen(f, b) = {} /\ CodeLen(f, b) + 1 .. (CodeLen(f, b) + 1) - 1 = {}
    BY <1>1
  <1>3. KeepsFrom(f, b, CodeLen(f, b) + 1, CodeLen(f, b) + 1, v)
    BY <1>2, Zenon DEF KeepsFrom
  <1>4. ~\E j \in CodeLen(f, b) + 1 .. CodeLen(f, b) :
            v \in f.code[b][j].uses /\ KeepsFrom(f, b, CodeLen(f, b) + 1, j, v)
    BY <1>2
  <1> QED BY <1>3, <1>4, Zenon DEF Needs

(* What a block needs it has from its start, or from an instruction behind  *)
(* the cursor.                                                              *)
LEMMA NeededIsKnown ==
    ASSUME NEW f, Shaped(f), NEW live, NEW out, Solved(f, live, out), NEW b \in Blocks(f),
           NEW i \in 1 .. CodeLen(f, b) + 1, NEW v \in Values, NoValue \notin Values,
           Needs(f, out, b, i, v)
    PROVE  \/ v \in live[b] \cup Params(f, b) \cup PhiResults(f, b)
           \/ \E k \in 1 .. i - 1 : f.code[b][k].res = v
  <1> DEFINE n == CodeLen(f, b)
             K == Params(f, b) \cup PhiResults(f, b)
  <1>1. SUFFICES ASSUME v \notin K, \A k \in 1 .. i - 1 : f.code[b][k].res # v
                 PROVE  v \in live[b]
    OBVIOUS
  <1>2. n \in Nat /\ i \in Nat /\ n = Len(f.code[b])
    BY BlockParts DEF CodeLen
  <1>3. ASSUME NEW j \in i .. n + 1, KeepsFrom(f, b, i, j, v)
        PROVE  v \notin K \cup Results(f, b, j - 1)
    <2> HIDE DEF n
    <2>1. \A k \in 1 .. j - 1 : k \in 1 .. i - 1 \/ k \in i .. j - 1
      BY <1>2
    <2>2. \A k \in 1 .. j - 1 : f.code[b][k].res # v
      BY <1>1, <1>3, <2>1 DEF KeepsFrom
    <2> QED BY <1>1, <2>2 DEF Results
  <1>4. Exposed(f, b) = (f.test[b] \ (K \cup Results(f, b, n)))
                        \cup UNION {f.code[b][j].uses \ (K \cup Results(f, b, j - 1)) : j \in DOMAIN f.code[b]}
    BY <1>2 DEF Exposed
  <1>5. Defs(f, b) = K \cup Results(f, b, n)
    BY <1>2 DEF Defs
  <1>6. live[b] = Exposed(f, b) \cup (out[b] \ Defs(f, b))
    BY DEF Solved
  <1>7. CASE \E j \in i .. n : v \in f.code[b][j].uses /\ KeepsFrom(f, b, i, j, v)
    <2>1. PICK j \in i .. n : v \in f.code[b][j].uses /\ KeepsFrom(f, b, i, j, v)
      BY <1>7
    <2>2. j \in i .. n + 1 /\ j \in 1 .. n
      BY <1>2
    <2>3. j \in DOMAIN f.code[b]
      BY <2>2, BlockParts
    <2>4. v \in f.code[b][j].uses \ (K \cup Results(f, b, j - 1))
      BY <1>3, <2>1, <2>2
    <2> HIDE DEF n, K
    <2> QED BY <1>4, <1>6, <2>3, <2>4
  <1>8. CASE v \in f.test[b] \cup out[b] /\ KeepsFrom(f, b, i, n + 1, v)
    <2>1. n + 1 \in i .. n + 1 /\ (n + 1) - 1 = n
      BY <1>2
    <2>2. v \notin K \cup Results(f, b, (n + 1) - 1)
      BY <1>3, <1>8, <2>1, Zenon
    <2>3. v \notin K \cup Results(f, b, n)
      BY <2>1, <2>2, Zenon
    <2>4. v \in f.test[b] \ (K \cup Results(f, b, n)) \/ v \in out[b] \ Defs(f, b)
      BY <1>5, <1>8, <2>3
    <2> HIDE DEF n, K
    <2> QED BY <1>4, <1>6, <2>4
  <1> QED BY <1>7, <1>8 DEF Needs

-----------------------------------------------------------------------------
(* The hypotheses on a function whose liveness is solved.                   *)
Ready(f, live, out) ==
    /\ Shaped(f) /\ Reached(f) /\ Solved(f, live, out)
    /\ \A v \in Values : DefinedOnce(f, v)

LEMMA CodeIsOrdered ==
    ASSUME NEW f, Shaped(f), NEW b \in Blocks(f),
           NEW i \in 1 .. CodeLen(f, b) + 1, NEW j \in 1 .. CodeLen(f, b) + 1
    PROVE  /\ CodeAt(f, b, i) \in Nat
           /\ i <= j => CodeAt(f, b, i) <= CodeAt(f, b, j)
           /\ i < j => CodeAt(f, b, i) < CodeAt(f, b, j)
           /\ BlockStart(f, b) <= CodeAt(f, b, i)
           /\ BlockStart(f, b) + PhiLen(f, b) <= CodeAt(f, b, i)
           /\ CodeAt(f, b, i) <= BlockEnd(f, b)
           /\ i <= CodeLen(f, b) => CodeAt(f, b, i) < BlockEnd(f, b)
  <1> DEFINE s == BlockStart(f, b) p == PhiLen(f, b) c == CodeLen(f, b)
  <1>1. s \in Nat /\ p \in Nat /\ c \in Nat /\ BlockEnd(f, b) = s + p + c
    BY BlockParts, Positions
  <1>2. CodeAt(f, b, i) = s + p + i - 1 /\ CodeAt(f, b, j) = s + p + j - 1
    BY Positions
  <1>3. i \in 1 .. c + 1 /\ j \in 1 .. c + 1
    OBVIOUS
  <1> HIDE DEF s, p, c
  <1>4. i \in Nat /\ j \in Nat /\ i >= 1 /\ i <= c + 1
    BY <1>1, <1>3
  <1> SUFFICES /\ s + p + i - 1 \in Nat
               /\ i <= j => s + p + i - 1 <= s + p + j - 1
               /\ i < j => s + p + i - 1 < s + p + j - 1
               /\ s <= s + p + i - 1
               /\ s + p <= s + p + i - 1
               /\ s + p + i - 1 <= s + p + c
               /\ i <= c => s + p + i - 1 < s + p + c
    BY <1>1, <1>2 DEF s, p, c
  <1> QED BY <1>1, <1>4

(* The interval of a value that is needed has begun and lasts.              *)
LEMMA NeededIsSpanned ==
    ASSUME NEW f, NEW live, NEW out, Ready(f, live, out), NoValue \notin Values,
           NEW b \in Blocks(f), NEW i \in 1 .. CodeLen(f, b) + 1, NEW v \in Values,
           Needs(f, out, b, i, v)
    PROVE  /\ IntervalStart(f, live, v) <= CodeAt(f, b, i)
           /\ i = 1 => IntervalStart(f, live, v) <= BlockStart(f, b)
           /\ CodeAt(f, b, i) <= IntervalEnd(f, live, out, v)
  <1> DEFINE c == CodeLen(f, b)
             st == IntervalStart(f, live, v)
             en == IntervalEnd(f, live, out, v)
  <1>1. Shaped(f) /\ Solved(f, live, out) /\ DefinedOnce(f, v)
    BY DEF Ready
  <1>2. c \in Nat /\ i \in Nat /\ DOMAIN f.code[b] = 1 .. c
    BY <1>1, BlockParts
  <1>3. st \in Nat /\ en \in Nat /\ BlockStart(f, b) \in Nat
    BY <1>1, StartIsFirst, EndIsLast, Positions
  <1>4. \A n : Begins(f, live, v, b, n) => st <= n
    BY <1>1, StartIsFirst
  <1>5. \A n : Lasts(f, live, out, v, b, n) => n <= en
    BY <1>1, EndIsLast
  <1>6. \A j \in 1 .. c + 1 : CodeAt(f, b, j) \in Nat /\ BlockStart(f, b) <= CodeAt(f, b, j)
    BY <1>1, CodeIsOrdered
  <1>7. st <= BlockStart(f, b) \/ \E k \in 1 .. i - 1 : st <= CodeAt(f, b, k)
    <2>1. CASE v \in live[b] \cup PhiResults(f, b)
      BY <1>4, <2>1 DEF Begins
    <2>2. CASE v \in Params(f, b)
      <3>1. st <= 0
        BY <1>4, <2>2 DEF Begins
      <3> HIDE DEF st
      <3> QED BY <1>3, <3>1
    <2>3. CASE \E k \in 1 .. i - 1 : f.code[b][k].res = v
      <3>1. PICK k \in 1 .. i - 1 : f.code[b][k].res = v
        BY <2>3
      <3>2. k \in DOMAIN f.code[b]
        BY <1>2
      <3>3. Begins(f, live, v, b, CodeAt(f, b, k))
        BY <3>1, <3>2 DEF Begins
      <3> QED BY <1>4, <3>3
    <2> QED BY <1>1, <2>1, <2>2, <2>3, NeededIsKnown
  <1>8. ASSUME NEW k \in 1 .. i - 1, st <= CodeAt(f, b, k)
        PROVE  st <= CodeAt(f, b, i)
    <2>1. k \in 1 .. c + 1 /\ k <= i
      BY <1>2
    <2>2. CodeAt(f, b, k) <= CodeAt(f, b, i)
      BY <1>1, <2>1, CodeIsOrdered
    <2> HIDE DEF st
    <2> QED BY <1>3, <1>6, <1>8, <2>1, <2>2
  <1>9. CodeAt(f, b, i) <= en
    <2>1. CASE \E j \in i .. c : v \in f.code[b][j].uses
      <3>1. PICK j \in i .. c : v \in f.code[b][j].uses
        BY <2>1
      <3>2. j \in 1 .. c + 1 /\ j \in DOMAIN f.code[b] /\ i <= j
        BY <1>2
      <3>3. CodeAt(f, b, j) <= en
        BY <1>5, <3>1, <3>2 DEF Lasts
      <3>4. CodeAt(f, b, i) <= CodeAt(f, b, j)
        BY <1>1, <3>2, CodeIsOrdered
      <3> HIDE DEF en
      <3> QED BY <1>3, <1>6, <3>2, <3>3, <3>4
    <2>2. CASE v \in f.test[b] \cup out[b]
      <3>1. BlockEnd(f, b) <= en
        BY <1>5, <2>2 DEF Lasts
      <3>2. CodeAt(f, b, i) <= BlockEnd(f, b) /\ BlockEnd(f, b) \in Nat
        BY <1>1, CodeIsOrdered, Positions
      <3> HIDE DEF en
      <3> QED BY <1>3, <1>6, <3>1, <3>2
    <2> QED BY <2>1, <2>2 DEF Needs
  <1>10. st <= CodeAt(f, b, i)
    <2> HIDE DEF st
    <2> QED BY <1>3, <1>6, <1>7, <1>8
  <1>11. i = 1 => st <= BlockStart(f, b)
    BY <1>7
  <1> QED BY <1>9, <1>10, <1>11

(* A result whose interval begins before its definition is live at the end  *)
(* of the block, so its interval lasts to that end.                         *)
LEMMA EarlyLastsLong ==
    ASSUME NEW f, NEW live, NEW out, Ready(f, live, out), NEW r \in Values,
           NEW b, NEW kind \in {"phi", "code"}, NEW i, IsDefinition(f, r, b, kind, i)
    PROVE  \/ BlockEnd(f, b) <= IntervalEnd(f, live, out, r)
           \/ kind = "phi" /\ IntervalStart(f, live, r) = BlockStart(f, b)
           \/ kind = "code" /\ IntervalStart(f, live, r) = CodeAt(f, b, i)
  <1> DEFINE st == IntervalStart(f, live, r)
  <1>1. Shaped(f) /\ Reached(f) /\ Solved(f, live, out) /\ DefinedOnce(f, r) /\ b \in Blocks(f)
    BY DEF Ready, IsDefinition
  <1>2. PICK c \in Blocks(f) : Begins(f, live, r, c, st)
    BY <1>1, StartIsFirst
  <1>3. CASE r \in live[c]
    <2>1. r \in out[b]
      BY <1>1, <1>3, DefinedInOneBlock, LiveInIsLiveOut
    <2>2. Lasts(f, live, out, r, b, BlockEnd(f, b))
      BY <2>1 DEF Lasts
    <2> QED BY <1>1, <2>2, EndIsLast
  <1>4. CASE r \in Params(f, c)
    BY <1>4 DEF Params, IsDefinition
  <1>5. CASE r \in PhiResults(f, c) /\ st = BlockStart(f, c)
    <2>1. kind = "phi" /\ c = b
      BY <1>5 DEF PhiResults, Range, IsDefinition
    <2> QED BY <1>5, <2>1
  <1>6. CASE \E j \in DOMAIN f.code[c] : f.code[c][j].res = r /\ st = CodeAt(f, c, j)
    <2>1. PICK j \in DOMAIN f.code[c] : f.code[c][j].res = r /\ st = CodeAt(f, c, j)
      BY <1>6
    <2>2. kind = "code" /\ c = b /\ j = i
      BY <2>1 DEF IsDefinition
    <2> QED BY <2>1, <2>2
  <1> QED BY <1>2, <1>3, <1>4, <1>5, <1>6 DEF Begins

Precedes(f, live, out, u, v) ==
    \/ IntervalEnd(f, live, out, u) < IntervalStart(f, live, v)
    \/ /\ IntervalEnd(f, live, out, u) = IntervalStart(f, live, v)
       /\ IntervalStart(f, live, u) < IntervalStart(f, live, v)

Meet(f, live, out, u, v) == ~Precedes(f, live, out, u, v) /\ ~Precedes(f, live, out, v, u)

(* Two intervals meet when the one of r covers position p, where it begins  *)
(* unless it lasts longer, and the other begins by p and lasts longer.      *)
LEMMA MeetAt ==
    ASSUME NEW f, NEW live, NEW out, NEW r, NEW v, NEW p \in Nat,
           NEW sr \in Nat, NEW er \in Nat, NEW sv \in Nat, NEW ev \in Nat,
           sr = IntervalStart(f, live, r), er = IntervalEnd(f, live, out, r),
           sv = IntervalStart(f, live, v), ev = IntervalEnd(f, live, out, v),
           sr <= p, p <= er, sr = p \/ p < er, sv <= p, p < ev
    PROVE  Meet(f, live, out, r, v)
  BY DEF Meet, Precedes

(* While an instruction's result is stored, every other value that is still *)
(* needed is in its interval.                                               *)
LEMMA ResultMeetsNeeded ==
    ASSUME NEW f, NEW live, NEW out, Ready(f, live, out), NoValue \notin Values,
           NEW b \in Blocks(f), NEW i \in 1 .. CodeLen(f, b), NEW v \in Values,
           f.code[b][i].res \in Values, f.code[b][i].res # v,
           Needs(f, out, b, i + 1, v)
    PROVE  Meet(f, live, out, f.code[b][i].res, v)
  <1> DEFINE r == f.code[b][i].res
             p == CodeAt(f, b, i)
             sr == IntervalStart(f, live, r)
             er == IntervalEnd(f, live, out, r)
             sv == IntervalStart(f, live, v)
             ev == IntervalEnd(f, live, out, v)
  <1>1. Shaped(f) /\ DefinedOnce(f, r) /\ DefinedOnce(f, v)
    BY DEF Ready
  <1>2. CodeLen(f, b) \in Nat /\ i \in Nat /\ i \in DOMAIN f.code[b]
    BY <1>1, BlockParts
  <1>3. i \in 1 .. CodeLen(f, b) + 1 /\ i + 1 \in 1 .. CodeLen(f, b) + 1 /\ i < i + 1 /\ i <= CodeLen(f, b)
    BY <1>2
  <1>4. /\ p \in Nat /\ CodeAt(f, b, i + 1) \in Nat
        /\ p < CodeAt(f, b, i + 1) /\ p < BlockEnd(f, b)
    BY <1>1, <1>3, CodeIsOrdered
  <1>5. sr \in Nat /\ er \in Nat /\ sv \in Nat /\ ev \in Nat /\ BlockEnd(f, b) \in Nat
    BY <1>1, StartIsFirst, EndIsLast, Positions
  <1>6. sr <= p
    <2>1. Begins(f, live, r, b, p)
      BY <1>2 DEF Begins
    <2> QED BY <1>1, <2>1, StartIsFirst
  <1>7. p <= er
    <2>1. Lasts(f, live, out, r, b, p)
      BY <1>2 DEF Lasts
    <2> QED BY <1>1, <2>1, EndIsLast
  <1>8. sr = p \/ p < er
    <2>1. PICK c, kind, j : IsDefinition(f, r, c, kind, j)
      BY <1>1, OneDefinition
    <2>2. kind = "code" /\ c = b /\ j = i
      BY <1>2, <2>1 DEF IsDefinition
    <2>3. BlockEnd(f, b) <= er \/ sr = p
      BY <2>1, <2>2, EarlyLastsLong
    <2> HIDE DEF er, p, sr
    <2> QED BY <1>4, <1>5, <2>3
  <1>9. Needs(f, out, b, i, v)
    BY <1>1, InstructionNeeds
  <1>10. sv <= p
    BY <1>3, <1>9, NeededIsSpanned
  <1>11. p < ev
    <2>1. CodeAt(f, b, i + 1) <= ev
      BY <1>3, NeededIsSpanned
    <2> HIDE DEF p, ev
    <2> QED BY <1>4, <1>5, <2>1
  <1> HIDE DEF r, p, sr, er, sv, ev
  <1>12. Meet(f, live, out, r, v)
    BY <1>4, <1>5, <1>6, <1>7, <1>8, <1>10, <1>11, MeetAt DEF sr, er, sv, ev
  <1> QED BY <1>12 DEF r

(* While the phis of a block are stored, so is every value it needs.        *)
LEMMA PhiMeetsNeeded ==
    ASSUME NEW f, NEW live, NEW out, Ready(f, live, out), NoValue \notin Values,
           NEW b \in Blocks(f), NEW i \in DOMAIN f.phis[b], NEW v \in Values,
           f.phis[b][i].res # v, Needs(f, out, b, 1, v)
    PROVE  Meet(f, live, out, f.phis[b][i].res, v)
  <1> DEFINE r == f.phis[b][i].res
             p == BlockStart(f, b)
             sr == IntervalStart(f, live, r)
             er == IntervalEnd(f, live, out, r)
             sv == IntervalStart(f, live, v)
             ev == IntervalEnd(f, live, out, v)
  <1>1. Shaped(f) /\ r \in Values
    BY BlockParts DEF Ready
  <1>2. DefinedOnce(f, r) /\ DefinedOnce(f, v)
    BY <1>1 DEF Ready
  <1>3. /\ CodeLen(f, b) \in Nat /\ PhiLen(f, b) \in Nat /\ i \in 1 .. PhiLen(f, b)
        /\ p \in Nat /\ BlockEnd(f, b) = p + PhiLen(f, b) + CodeLen(f, b)
    BY <1>1, BlockParts, Positions
  <1>4. PhiLen(f, b) # 0 /\ 1 \in 1 .. CodeLen(f, b) + 1
    BY <1>3
  <1>5. /\ CodeAt(f, b, 1) \in Nat /\ p + PhiLen(f, b) <= CodeAt(f, b, 1)
    BY <1>1, <1>4, CodeIsOrdered
  <1>6. sr \in Nat /\ er \in Nat /\ sv \in Nat /\ ev \in Nat /\ BlockEnd(f, b) \in Nat
    BY <1>1, <1>2, StartIsFirst, EndIsLast, Positions
  <1>7. sr <= p
    <2>1. Begins(f, live, r, b, p)
      BY DEF Begins, PhiResults, Range
    <2> QED BY <1>1, <1>2, <2>1, StartIsFirst
  <1>8. p <= er
    <2>1. Lasts(f, live, out, r, b, PhiAt(f, b, i))
      BY DEF Lasts
    <2>2. PhiAt(f, b, i) <= er /\ PhiAt(f, b, i) \in Nat /\ p <= PhiAt(f, b, i)
      BY <1>1, <1>3, <2>1, EndIsLast, Positions
    <2> HIDE DEF er, p
    <2> QED BY <1>3, <1>6, <2>2
  <1>9. sr = p \/ p < er
    <2>1. PICK c, kind, j : IsDefinition(f, r, c, kind, j)
      BY <1>1, <1>2, OneDefinition
    <2>2. kind = "phi" /\ c = b /\ j = i
      BY <2>1 DEF IsDefinition
    <2>3. BlockEnd(f, b) <= er \/ sr = p
      BY <1>1, <2>1, <2>2, EarlyLastsLong
    <2> HIDE DEF er, p, sr
    <2> QED BY <1>3, <1>4, <1>6, <2>3
  <1>10. sv <= p
    BY <1>4, NeededIsSpanned
  <1>11. p < ev
    <2>1. CodeAt(f, b, 1) <= ev
      BY <1>4, NeededIsSpanned
    <2> HIDE DEF p, ev
    <2> QED BY <1>3, <1>4, <1>5, <1>6, <2>1
  <1> HIDE DEF r, p, sr, er, sv, ev
  <1>12. Meet(f, live, out, r, v)
    BY <1>3, <1>6, <1>7, <1>8, <1>9, <1>10, <1>11, MeetAt DEF sr, er, sv, ev
  <1> QED BY <1>12 DEF r

(* The entry needs nothing but the parameters, and while they are stored    *)
(* everyone of those is in its interval.                                    *)
LEMMA EntryNeedsParams ==
    ASSUME NEW f, NEW live, NEW out, Ready(f, live, out), NoValue \notin Values,
           NEW v \in Values, Needs(f, out, 1, 1, v)
    PROVE  v \in Range(f.params)
  <1>1. Shaped(f) /\ Solved(f, live, out) /\ 1 \in Blocks(f)
    BY BlocksAreNumbered DEF Ready
  <1>2. CodeLen(f, 1) \in Nat
    BY <1>1, BlockParts
  <1>3. 1 \in 1 .. CodeLen(f, 1) + 1
    BY <1>2
  <1>4. v \in live[1] \cup Params(f, 1) \cup PhiResults(f, 1) \/ \E k \in 1 .. 1 - 1 : f.code[1][k].res = v
    BY <1>1, <1>3, NeededIsKnown
  <1>5. live[1] = {} /\ PhiResults(f, 1) = {}
    BY <1>1 DEF Solved, Shaped, PhiResults, Range
  <1> QED BY <1>4, <1>5 DEF Params

LEMMA ParamMeetsNeeded ==
    ASSUME NEW f, NEW live, NEW out, Ready(f, live, out), NoValue \notin Values,
           NEW r \in Range(f.params), NEW v \in Values, r # v, Needs(f, out, 1, 1, v)
    PROVE  Meet(f, live, out, r, v)
  <1> DEFINE sr == IntervalStart(f, live, r)
             er == IntervalEnd(f, live, out, r)
             sv == IntervalStart(f, live, v)
             ev == IntervalEnd(f, live, out, v)
  <1>1. Shaped(f) /\ Solved(f, live, out) /\ 1 \in Blocks(f) /\ r \in Values
    BY BlocksAreNumbered DEF Ready, Shaped, Range
  <1>2. DefinedOnce(f, r) /\ DefinedOnce(f, v)
    BY <1>1 DEF Ready
  <1>3. CodeLen(f, 1) \in Nat
    BY <1>1, BlockParts
  <1>4. 1 \in 1 .. CodeLen(f, 1) + 1
    BY <1>3
  <1>5. BlockStart(f, 1) \in Nat \ {0} /\ CodeAt(f, 1, 1) \in Nat /\ BlockStart(f, 1) <= CodeAt(f, 1, 1)
    BY <1>1, <1>4, CodeIsOrdered, Positions
  <1>6. sr \in Nat /\ er \in Nat /\ sv \in Nat /\ ev \in Nat
    BY <1>1, <1>2, StartIsFirst, EndIsLast
  <1>7. v \in Range(f.params)
    BY EntryNeedsParams
  <1>8. ASSUME NEW w \in Range(f.params), w \in Values, DefinedOnce(f, w)
        PROVE  IntervalStart(f, live, w) <= 0
    <2>1. Begins(f, live, w, 1, 0)
      BY <1>8 DEF Begins, Params
    <2> QED BY <1>1, <1>8, <2>1, StartIsFirst
  <1>9. sr <= 0 /\ sv <= 0
    BY <1>1, <1>2, <1>7, <1>8
  <1>10. CodeAt(f, 1, 1) <= ev
    BY <1>1, <1>4, NeededIsSpanned
  <1> HIDE DEF sr, er, sv, ev
  <1>11. sr = 0 /\ 0 <= er /\ 0 < ev
    BY <1>5, <1>6, <1>9, <1>10
  <1>12. Meet(f, live, out, r, v)
    BY <1>6, <1>9, <1>11, MeetAt DEF sr, er, sv, ev
  <1> QED BY <1>12

-----------------------------------------------------------------------------
(* The invariant of the whole module.  Liveness: the sets of the blocks the *)
(* pass has visited without a change are right.                             *)
SolvedAt(f, live, out, b) ==
    /\ out[b] = LiveOutOf(f, live, b)
    /\ live[b] = Exposed(f, b) \cup (out[b] \ Defs(f, b))

OnlyWhereAvailable(f, live) ==
    \A v \in Values, A \in SUBSET Blocks(f) :
        AvailableIn(f, v, A) => \A b \in Blocks(f) : v \in live[b] => b \in A

LivenessInv ==
    /\ fn \in Functions
    /\ liveIn \in [Blocks(fn) -> SUBSET Values]
    /\ liveOut \in [Blocks(fn) -> SUBSET Values]
    /\ at \in 0 .. Len(fn.succ)
    /\ changed \in BOOLEAN
    /\ ~changed => \A b \in Blocks(fn) : b > at => SolvedAt(fn, liveIn, liveOut, b)
    /\ OnlyWhereAvailable(fn, liveIn)

(* The intervals are those of the solution, and before them nothing is      *)
(* placed.                                                                  *)
IntervalsInv ==
    /\ analysed \in BOOLEAN
    /\ analysed =>
        /\ at = 0 /\ ~changed
        /\ start = [v \in Values |-> IntervalStart(fn, liveIn, v)]
        /\ end = [v \in Values |-> IntervalEnd(fn, liveIn, liveOut, v)]
    /\ ~analysed => ScanInit

(* There are no more spill slots than values that are placed.               *)
SlotsInv == stackSlots + Cardinality(pending) <= Cardinality(Values)

RootsInv ==
    /\ rootSlot \in [Values -> Slots \cup {NoSlot}]
    /\ \A v \in Values : Coloured(v) => analysed /\ pending = {}
    /\ \A u, v \in Values :
        Coloured(u) /\ Coloured(v) /\ Interfere(fn, liveOut, u, v) => rootSlot[u] # rootSlot[v]

(* What a block still needs is in its location and in its root slot.        *)
Held(v) == holds[assignment[v]] = v /\ roots[rootSlot[v]] = v /\ v \notin dangling

FrameInv ==
    /\ DOMAIN holds = Locations
    /\ DOMAIN roots = Slots
    /\ block # 0 =>
        /\ block \in Blocks(fn)
        /\ index \in 1 .. CodeLen(fn, block) + 1
        /\ Lowered
        /\ \A v \in Values : Needs(fn, liveOut, block, index, v) => Held(v)

CodeInv == LivenessInv /\ IntervalsInv /\ IInv /\ SlotsInv /\ RootsInv /\ FrameInv /\ OperandsGood

-----------------------------------------------------------------------------
(* The liveness loop.                                                       *)
LEMMA FunctionsAreWellFormed ==
    ASSUME NEW f \in Functions
    PROVE  WellFormed(f) /\ Shaped(f) /\ Reached(f)
  BY FunctionsAssumption DEF WellFormed

LEMMA LivenessTypes ==
    ASSUME NEW f, Shaped(f), NEW live \in [Blocks(f) -> SUBSET Values], NEW b \in Blocks(f)
    PROVE  /\ LiveOutOf(f, live, b) \subseteq Values
           /\ Exposed(f, b) \subseteq Values
  <1>1. \A s \in f.succ[b] : live[s] \cup EdgeUses(f, b, s) \subseteq Values
    BY BlocksAreNumbered, BlockParts
  <1>2. LiveOutOf(f, live, b) \subseteq Values
    BY <1>1 DEF LiveOutOf
  <1>3. f.test[b] \subseteq Values /\ \A i \in DOMAIN f.code[b] : f.code[b][i].uses \subseteq Values
    BY BlockParts
  <1>4. Exposed(f, b) \subseteq Values
    BY <1>3 DEF Exposed
  <1> QED BY <1>2, <1>4

LEMMA VisitStaysAvailable ==
    ASSUME NEW f, Shaped(f), NEW live \in [Blocks(f) -> SUBSET Values], OnlyWhereAvailable(f, live),
           NEW b \in Blocks(f), NEW next,
           next = [live EXCEPT ![b] = Exposed(f, b) \cup (LiveOutOf(f, live, b) \ Defs(f, b))]
    PROVE  OnlyWhereAvailable(f, next)
  <1> SUFFICES ASSUME NEW v \in Values, NEW A \in SUBSET Blocks(f), AvailableIn(f, v, A),
                      NEW c \in Blocks(f), v \in next[c]
               PROVE  c \in A
    BY DEF OnlyWhereAvailable
  <1>1. \A d \in Blocks(f) : v \in live[d] => d \in A
    BY DEF OnlyWhereAvailable
  <1>2. CASE c # b
    BY <1>1, <1>2
  <1>3. CASE c = b
    <2>1. v \in Exposed(f, b) \/ (v \in LiveOutOf(f, live, b) /\ v \notin Defs(f, b))
      BY <1>3
    <2>2. CASE v \in Exposed(f, b)
      BY <1>3, <2>2 DEF AvailableIn
    <2>3. CASE v \in LiveOutOf(f, live, b) /\ v \notin Defs(f, b)
      <3>1. PICK s \in f.succ[b] : v \in live[s] \cup EdgeUses(f, b, s)
        BY <2>3 DEF LiveOutOf
      <3>2. s \in Blocks(f)
        BY BlocksAreNumbered
      <3>3. s \in A \/ v \in EdgeUses(f, b, s)
        BY <1>1, <3>1, <3>2
      <3> QED BY <1>3, <2>3, <3>3 DEF AvailableIn
    <2> QED BY <2>1, <2>2, <2>3
  <1> QED BY <1>2, <1>3

(* Where every block is solved, nothing is live at the entry.               *)
LEMMA SolvedIsReady ==
    ASSUME NEW f, WellFormed(f), NEW live \in [Blocks(f) -> SUBSET Values], NEW out,
           OnlyWhereAvailable(f, live), \A b \in Blocks(f) : SolvedAt(f, live, out, b)
    PROVE  Ready(f, live, out)
  <1>1. Shaped(f) /\ Reached(f) /\ \A v \in Values : DefinedOnce(f, v)
    BY DEF WellFormed
  <1>2. ASSUME NEW v \in live[1]
        PROVE  FALSE
    <2>1. 1 \in Blocks(f) /\ v \in Values
      BY <1>1, BlocksAreNumbered
    <2>2. PICK A \in SUBSET Blocks(f) : AvailableIn(f, v, A)
      BY <2>1 DEF WellFormed
    <2>3. 1 \in A
      BY <1>2, <2>1, <2>2 DEF OnlyWhereAvailable
    <2> QED BY <2>2, <2>3 DEF AvailableIn
  <1>3. Solved(f, live, out)
    BY <1>2 DEF Solved, SolvedAt
  <1> QED BY <1>1, <1>3 DEF Ready

LEMMA VisitBlockKeepsLiveness ==
    ASSUME LivenessInv, VisitBlock
    PROVE  LivenessInv'
  <1> DEFINE now == LiveOutOf(fn, liveIn, at)
             in == Exposed(fn, at) \cup (now \ Defs(fn, at))
  <1>1. /\ at > 0 /\ at' = at - 1 /\ fn' = fn
        /\ liveOut' = [liveOut EXCEPT ![at] = now]
        /\ liveIn' = [liveIn EXCEPT ![at] = in]
        /\ changed' = (changed \/ liveOut[at] # now \/ liveIn[at] # in)
    BY DEF VisitBlock
  <1>2. /\ fn \in Functions /\ at \in 0 .. Len(fn.succ) /\ changed \in BOOLEAN
        /\ liveIn \in [Blocks(fn) -> SUBSET Values] /\ liveOut \in [Blocks(fn) -> SUBSET Values]
        /\ OnlyWhereAvailable(fn, liveIn)
    BY DEF LivenessInv
  <1>3. Shaped(fn) /\ Len(fn.succ) \in Nat /\ Blocks(fn) = 1 .. Len(fn.succ)
    BY <1>2, FunctionsAreWellFormed, BlocksAreNumbered
  <1>4. at \in Blocks(fn) /\ at - 1 \in 0 .. Len(fn.succ)
    BY <1>1, <1>2, <1>3
  <1> HIDE DEF now, in
  <1>5. /\ liveIn' \in [Blocks(fn) -> SUBSET Values]
        /\ liveOut' \in [Blocks(fn) -> SUBSET Values]
        /\ OnlyWhereAvailable(fn, liveIn')
        /\ liveOut[at] = now /\ liveIn[at] = in =>
             liveIn' = liveIn /\ liveOut' = liveOut /\ SolvedAt(fn, liveIn, liveOut, at)
    <2>1. now = LiveOutOf(fn, liveIn, at) /\ in = Exposed(fn, at) \cup (now \ Defs(fn, at))
      BY DEF now, in
    <2>2. now \subseteq Values /\ in \subseteq Values
      BY <1>2, <1>3, <1>4, <2>1, LivenessTypes
    <2>3. liveIn' = [liveIn EXCEPT ![at] = Exposed(fn, at) \cup (LiveOutOf(fn, liveIn, at) \ Defs(fn, at))]
      BY <1>1, <2>1
    <2>4. OnlyWhereAvailable(fn, liveIn')
      BY <1>2, <1>3, <1>4, <2>3, VisitStaysAvailable
    <2>5. liveOut[at] = now /\ liveIn[at] = in =>
             liveIn' = liveIn /\ liveOut' = liveOut /\ SolvedAt(fn, liveIn, liveOut, at)
      BY <1>1, <1>2, <2>1 DEF SolvedAt
    <2> QED BY <1>1, <1>2, <2>2, <2>4, <2>5
  <1>6. ASSUME ~changed', NEW b \in Blocks(fn), b > at - 1
        PROVE  SolvedAt(fn, liveIn', liveOut', b)
    <2>1. ~changed /\ liveOut[at] = now /\ liveIn[at] = in
      BY <1>1, <1>2, <1>6
    <2>2. liveIn' = liveIn /\ liveOut' = liveOut /\ SolvedAt(fn, liveIn, liveOut, at)
      BY <1>5, <2>1
    <2>3. b = at \/ b > at
      BY <1>2, <1>3, <1>6
    <2>4. b > at => SolvedAt(fn, liveIn, liveOut, b)
      BY <2>1 DEF LivenessInv
    <2> QED BY <2>2, <2>3, <2>4
  <1>7. changed' \in BOOLEAN
    BY <1>1, <1>2
  <1> QED BY <1>1, <1>2, <1>4, <1>5, <1>6, <1>7 DEF LivenessInv

LEMMA LivenessStutters ==
    ASSUME LivenessInv, fn' = fn, liveIn' = liveIn, liveOut' = liveOut, at' = at, changed' = changed
    PROVE  LivenessInv'
  BY DEF LivenessInv

LEMMA PassAgainKeepsLiveness ==
    ASSUME LivenessInv, PassAgain
    PROVE  LivenessInv'
  <1>1. /\ at' = Len(fn.succ) /\ changed' = FALSE
        /\ fn' = fn /\ liveIn' = liveIn /\ liveOut' = liveOut
    BY DEF PassAgain
  <1>2. fn \in Functions
    BY DEF LivenessInv
  <1>3. Len(fn.succ) \in Nat /\ Blocks(fn) = 1 .. Len(fn.succ)
    BY <1>2, FunctionsAreWellFormed, BlocksAreNumbered
  <1>4. \A b \in Blocks(fn) : ~(b > Len(fn.succ)) /\ Len(fn.succ) \in 0 .. Len(fn.succ)
    BY <1>3
  <1>5. Len(fn.succ) \in 0 .. Len(fn.succ)
    BY <1>3
  <1> QED BY <1>1, <1>4, <1>5 DEF LivenessInv

(* The liveness loop is over when a pass has changed nothing.               *)
LEMMA QuietPassIsReady ==
    ASSUME LivenessInv, at = 0, ~changed
    PROVE  Ready(fn, liveIn, liveOut)
  <1>1. /\ fn \in Functions /\ liveIn \in [Blocks(fn) -> SUBSET Values]
        /\ OnlyWhereAvailable(fn, liveIn)
    BY DEF LivenessInv
  <1>2. WellFormed(fn) /\ Shaped(fn)
    BY <1>1, FunctionsAreWellFormed
  <1>3. \A b \in Blocks(fn) : b > 0
    BY <1>2, BlocksAreNumbered
  <1>4. \A b \in Blocks(fn) : SolvedAt(fn, liveIn, liveOut, b)
    BY <1>3 DEF LivenessInv
  <1> QED BY <1>1, <1>2, <1>4, SolvedIsReady

(* The intervals have ends, and nothing is placed before they are known.    *)
LEMMA FindIntervalsKeepsAccounts ==
    ASSUME LivenessInv, IntervalsInv, IInv, FindIntervals
    PROVE  IntervalsInv' /\ IInv'
  <1>1. /\ at = 0 /\ ~changed /\ ~analysed
        /\ analysed' = TRUE /\ at' = at /\ changed' = changed
        /\ fn' = fn /\ liveIn' = liveIn /\ liveOut' = liveOut
        /\ start' = [v \in Values |-> IntervalStart(fn, liveIn, v)]
        /\ end' = [v \in Values |-> IntervalEnd(fn, liveIn, liveOut, v)]
        /\ pending' = pending /\ active' = active /\ freeRegs' = freeRegs
        /\ assignment' = assignment /\ stackSlots' = stackSlots
    BY DEF FindIntervals, liveVars
  <1>2. Ready(fn, liveIn, liveOut)
    BY <1>1, QuietPassIsReady
  <1>3. \A v \in Values : IntervalStart(fn, liveIn, v) \in Nat /\ IntervalEnd(fn, liveIn, liveOut, v) \in Nat
    BY <1>2, StartIsFirst, EndIsLast DEF Ready
  <1>4. start' \in [Values -> Nat] /\ end' \in [Values -> Nat]
    BY <1>1, <1>3
  <1>5. TypeOK'
    BY <1>1, <1>4 DEF IInv, TypeOK
  <1>6. pending = Values /\ active = {} /\ freeRegs = Regs
    BY <1>1 DEF IntervalsInv, ScanInit
  <1>7. RegistersAccounted' /\ SlotsAccounted' /\ NoSharedLocation'
    BY <1>1, <1>6 DEF RegistersAccounted, SlotsAccounted, NoSharedLocation, Placed
  <1>8. IInv'
    BY <1>5, <1>7 DEF IInv
  <1>9. IntervalsInv'
    BY <1>1 DEF IntervalsInv
  <1> QED BY <1>8, <1>9

LEMMA IntervalsStutter ==
    ASSUME IntervalsInv, fn' = fn, liveIn' = liveIn, liveOut' = liveOut, at' = at, changed' = changed,
           analysed' = analysed, UNCHANGED scanVars
    PROVE  IntervalsInv'
  BY DEF IntervalsInv, ScanInit, scanVars

LEMMA LivenessLoopKeepsIntervals ==
    ASSUME LivenessInv, IntervalsInv, VisitBlock \/ PassAgain
    PROVE  IntervalsInv'
  <1>1. at > 0 \/ changed
    BY DEF VisitBlock, PassAgain
  <1>2. at \in Nat /\ ~analysed
    BY <1>1 DEF LivenessInv, IntervalsInv
  <1>3. analysed' = analysed /\ UNCHANGED scanVars
    BY DEF VisitBlock, PassAgain
  <1> QED BY <1>2, <1>3 DEF IntervalsInv, ScanInit, scanVars

LEMMA ScanKeepsIntervals ==
    ASSUME IntervalsInv, Compile
    PROVE  IntervalsInv'
  <1>1. analysed /\ Scan /\ analysed' = analysed /\ fn' = fn
        /\ liveIn' = liveIn /\ liveOut' = liveOut /\ at' = at /\ changed' = changed
    BY DEF Compile, codeVars, liveVars
  <1>2. start' = start /\ end' = end
    BY <1>1 DEF Scan, TakeFree, Evict, Spill
  <1> QED BY <1>1, <1>2 DEF IntervalsInv

(* Every spill slot belongs to a value that is placed.                      *)
LEMMA ScanKeepsSlots ==
    ASSUME IInv, SlotsInv, Scan
    PROVE  SlotsInv'
  <1>1. PICK v \in Values : TakeFree(v) \/ (\E u \in Values : Evict(v, u)) \/ Spill(v)
    BY DEF Scan
  <1>2. /\ v \in pending /\ pending' = pending \ {v}
        /\ stackSlots' = stackSlots \/ stackSlots' = stackSlots + 1
    BY <1>1 DEF TakeFree, Evict, Spill, Reaches
  <1>3. IsFiniteSet(Values) /\ pending \subseteq Values /\ stackSlots \in Nat
    BY FunctionsAssumption DEF IInv, TypeOK
  <1>4. IsFiniteSet(pending)
    BY <1>3, FS_Subset
  <1>5. Cardinality(pending \ {v}) = Cardinality(pending) - 1
    BY <1>2, <1>4, FS_RemoveElement
  <1>6. Cardinality(pending) \in Nat /\ Cardinality(Values) \in Nat
    BY <1>3, <1>4, FS_CardinalityType
  <1>7. Cardinality(pending') = Cardinality(pending) - 1
    BY <1>2, <1>5
  <1> QED BY <1>2, <1>3, <1>6, <1>7 DEF SlotsInv

(* A value that is placed is in a register or in a spill slot of the frame. *)
LEMMA PlacedAreLocated ==
    ASSUME IInv, SlotsInv, NEW v \in Values, Placed(v)
    PROVE  assignment[v] \in Locations
  <1>1. assignment[v] \in Location /\ stackSlots \in Nat /\ pending \subseteq Values
    BY DEF IInv, TypeOK
  <1>2. IsFiniteSet(pending) /\ IsFiniteSet(Values)
    BY <1>1, FunctionsAssumption, FS_Subset
  <1>3. Cardinality(pending) \in Nat /\ Cardinality(Values) \in Nat
    BY <1>2, FS_CardinalityType
  <1>4. stackSlots <= Cardinality(Values)
    BY <1>1, <1>3 DEF SlotsInv
  <1>5. CASE assignment[v].isReg
    <2>1. assignment[v].at \in Regs
      BY <1>5 DEF IInv, SlotsAccounted
    <2>2. assignment[v] = InReg(assignment[v].at)
      BY <1>1, <1>5 DEF InReg, Location
    <2> QED BY <2>1, <2>2 DEF Locations
  <1>6. CASE ~assignment[v].isReg
    <2>1. assignment[v].at \in 0 .. stackSlots - 1
      BY <1>6 DEF IInv, SlotsAccounted
    <2>2. assignment[v].at \in Slots
      BY <1>1, <1>3, <1>4, <2>1 DEF Slots
    <2>3. assignment[v] = InStack(assignment[v].at)
      BY <1>1, <1>6 DEF InStack, Location
    <2> QED BY <2>2, <2>3 DEF Locations
  <1> QED BY <1>5, <1>6

-----------------------------------------------------------------------------
(* The slots of the root frame.  The others leave a slot free for v.        *)
LEMMA SlotIsFree ==
    ASSUME NEW slot, NEW v \in Values, NEW W \in SUBSET (Values \ {v}), NEW used,
           used = {slot[u] : u \in W}
    PROVE  LET s == Min((0 .. Cardinality(Values)) \ used) IN s \in Slots /\ s \notin used
  <1> DEFINE n == Cardinality(Values)
             T == (0 .. n) \ used
             onto == [u \in W |-> slot[u]]
  <1>1. IsFiniteSet(Values) /\ n \in Nat
    BY FunctionsAssumption, FS_CardinalityType
  <1>2. IsFiniteSet(Values \ {v}) /\ Cardinality(Values \ {v}) = n - 1
    BY <1>1, FS_RemoveElement
  <1>3. IsFiniteSet(W) /\ Cardinality(W) <= n - 1
    BY <1>2, FS_Subset
  <1>4. onto \in Surjection(W, used)
    <2>1. onto \in [W -> used] /\ \A t \in used : \E u \in W : onto[u] = t
      OBVIOUS
    <2> QED BY <2>1 DEF Surjection
  <1>5. IsFiniteSet(used) /\ Cardinality(used) <= Cardinality(W)
    <2> HIDE DEF onto
    <2> QED BY <1>3, <1>4, FS_Surjection, Zenon
  <1>6. Cardinality(used) \in Nat /\ Cardinality(W) \in Nat
    BY <1>3, <1>5, FS_CardinalityType
  <1>7. IsFiniteSet(0 .. n - 1) /\ Cardinality(0 .. n - 1) = n
    <2>1. n - 1 \in Int /\ 0 \in Int
      BY <1>1
    <2>2. /\ IsFiniteSet(0 .. n - 1)
          /\ Cardinality(0 .. n - 1) = IF 0 > n - 1 THEN 0 ELSE (n - 1) - 0 + 1
      BY <2>1, FS_Interval, Zenon
    <2> QED BY <1>1, <2>2
  <1>8. PICK s \in 0 .. n - 1 : s \notin used
    <2>1. SUFFICES ASSUME 0 .. n - 1 \subseteq used PROVE FALSE
      OBVIOUS
    <2>2. Cardinality(0 .. n - 1) <= Cardinality(used)
      BY <1>5, <2>1, FS_Subset
    <2> HIDE DEF n
    <2> QED BY <1>1, <1>3, <1>5, <1>6, <1>7, <2>2
  <1>9. T \in SUBSET Nat /\ s \in T
    BY <1>1, <1>8
  <1>10. Min(T) \in T /\ Min(T) <= s
    <2> HIDE DEF T
    <2> QED BY <1>9, MinIsLeast
  <1>11. Min(T) \in Slots
    <2>1. Min(T) \in 0 .. n
      BY <1>10
    <2> HIDE DEF T, n
    <2>2. Min(T) \in 0 .. n - 1
      BY <1>1, <1>8, <1>10, <2>1
    <2> QED BY <2>2 DEF Slots, n
  <1> QED BY <1>10, <1>11

LEMMA InterferenceIsMutual ==
    ASSUME NEW f, NEW out, NEW u, NEW v, Interfere(f, out, u, v)
    PROVE  Interfere(f, out, v, u)
  BY DEF Interfere

LEMMA ColourRootKeepsRoots ==
    ASSUME RootsInv, NEW v \in Values, ColourRoot(v)
    PROVE  RootsInv'
  <1> DEFINE used == {rootSlot[u] : u \in {w \in Values : Interfere(fn, liveOut, w, v)}}
             s == Min((0 .. Cardinality(Values)) \ used)
  <1>1. /\ analysed /\ pending = {}
        /\ rootSlot' = [rootSlot EXCEPT ![v] = s]
        /\ analysed' = analysed /\ pending' = pending /\ fn' = fn /\ liveOut' = liveOut
    BY DEF ColourRoot, liveVars, scanVars
  <1>2. {w \in Values : Interfere(fn, liveOut, w, v)} \in SUBSET (Values \ {v})
    BY DEF Interfere
  <1>3. s \in Slots /\ s \notin used
    BY <1>2, SlotIsFree
  <1>4. rootSlot \in [Values -> Slots \cup {NoSlot}]
    BY DEF RootsInv
  <1>5. \A u \in Values : Interfere(fn, liveOut, u, v) => rootSlot[u] # s
    BY <1>3
  <1> HIDE DEF s, used
  <1>6. rootSlot'[v] = s /\ \A u \in Values \ {v} : rootSlot'[u] = rootSlot[u]
    BY <1>1, <1>4
  <1>7. ASSUME NEW u \in Values, NEW w \in Values, Coloured(u)', Coloured(w)',
               Interfere(fn, liveOut, u, w)
        PROVE  rootSlot'[u] # rootSlot'[w]
    <2>1. u # w
      BY <1>7 DEF Interfere
    <2>2. CASE u = v
      <3>1. Interfere(fn, liveOut, w, v)
        BY <1>7, <2>2, InterferenceIsMutual
      <3> QED BY <1>5, <1>6, <2>1, <2>2, <3>1
    <2>3. CASE w = v
      BY <1>5, <1>6, <1>7, <2>1, <2>3
    <2>4. CASE u # v /\ w # v
      <3>1. Coloured(u) /\ Coloured(w)
        BY <1>6, <1>7, <2>4 DEF Coloured
      <3> QED BY <1>6, <1>7, <2>4, <3>1 DEF RootsInv
    <2> QED BY <2>2, <2>3, <2>4
  <1>8. rootSlot' \in [Values -> Slots \cup {NoSlot}]
    BY <1>1, <1>3, <1>4
  <1> QED BY <1>1, <1>7, <1>8 DEF RootsInv

LEMMA RootsStutter ==
    ASSUME RootsInv, rootSlot' = rootSlot, analysed' = analysed, pending' = pending,
           fn' = fn, liveOut' = liveOut
    PROVE  RootsInv'
  BY DEF RootsInv, Coloured

(* Before the colouring nothing is coloured.                                *)
LEMMA UncolouredKeepsRoots ==
    ASSUME RootsInv, rootSlot' = rootSlot, ~analysed \/ pending # {}
    PROVE  RootsInv'
  <1>1. \A v \in Values : ~Coloured(v)
    BY DEF RootsInv
  <1>2. \A v \in Values : ~Coloured(v)'
    BY <1>1 DEF Coloured
  <1> QED BY <1>2 DEF RootsInv

-----------------------------------------------------------------------------
(* Storing the words of new values leaves v in its place when no other new  *)
(* value goes there, and v was there or is new itself.                      *)
LEMMA StoredHolds ==
    ASSUME NEW words, NEW place, NEW new, NEW n \in Nat, DOMAIN new = 1 .. n, NEW v,
           place[v] \in DOMAIN words,
           \A i \in 1 .. n : new[i] # v => place[new[i]] # place[v],
           (\A i \in 1 .. n : new[i] # v) => words[place[v]] = v
    PROVE  Stored(words, place, new)[place[v]] = v
  <1> DEFINE l == place[v]
             here == {i \in DOMAIN new : place[new[i]] = l}
  <1>1. Stored(words, place, new)[l] = IF here = {} THEN words[l] ELSE new[Max(here)]
    BY DEF Stored
  <1>2. \A i \in here : i \in 1 .. n /\ new[i] = v
    OBVIOUS
  <1>3. CASE here = {}
    <2>1. \A i \in 1 .. n : new[i] # v
      BY <1>3
    <2> QED BY <1>1, <1>3, <2>1
  <1>4. CASE here # {}
    <2>1. here \in SUBSET Nat /\ \A i \in here : i <= n
      BY <1>2
    <2> HIDE DEF here
    <2>2. Max(here) \in here
      BY <1>4, <2>1, MaxIsGreatest
    <2> QED BY <1>1, <1>2, <1>4, <2>2
  <1> QED BY <1>3, <1>4

LEMMA StoredDomain ==
    ASSUME NEW words, NEW place, NEW new
    PROVE  DOMAIN Stored(words, place, new) = DOMAIN words
  BY DEF Stored

(* What a block needs meets there whatever the block defines.               *)
LEMMA NeededMeetsDefined ==
    ASSUME NEW f, Shaped(f), NEW out, NEW b \in Blocks(f), NEW i \in 1 .. CodeLen(f, b) + 1,
           NEW v, Needs(f, out, b, i, v), NEW r \in Defs(f, b), r # v
    PROVE  Interfere(f, out, r, v)
  <1>1. DOMAIN f.code[b] = 1 .. CodeLen(f, b) /\ CodeLen(f, b) \in Nat /\ i \in Nat
    BY BlockParts
  <1>2. v \in MeetIn(f, out, b)
    <2>1. CASE \E j \in i .. CodeLen(f, b) : v \in f.code[b][j].uses
      <3>1. PICK j \in i .. CodeLen(f, b) : v \in f.code[b][j].uses
        BY <2>1
      <3>2. j \in DOMAIN f.code[b]
        BY <1>1
      <3>3. f.code[b][j] \in Range(f.code[b])
        BY <3>2 DEF Range
      <3>4. v \in UNION {k.uses : k \in Range(f.code[b])}
        BY <3>1, <3>3
      <3> QED BY <3>4 DEF MeetIn
    <2>2. CASE v \in f.test[b] \cup out[b]
      BY <2>2 DEF MeetIn
    <2> QED BY <2>1, <2>2 DEF Needs
  <1>3. r \in MeetIn(f, out, b)
    BY DEF MeetIn
  <1> QED BY <1>2, <1>3 DEF Interfere

-----------------------------------------------------------------------------
(* The state in which the code runs.                                        *)
Running == LivenessInv /\ IntervalsInv /\ IInv /\ SlotsInv /\ RootsInv /\ FrameInv /\ Lowered

LEMMA RunningIsReady ==
    ASSUME Running
    PROVE  /\ Ready(fn, liveIn, liveOut) /\ Shaped(fn) /\ NoValue \notin Values
           /\ \A v \in Values : assignment[v] \in Locations /\ rootSlot[v] \in Slots
           /\ DOMAIN holds = Locations /\ DOMAIN roots = Slots
  <1>1. Ready(fn, liveIn, liveOut)
    BY QuietPassIsReady DEF Running, Lowered, IntervalsInv
  <1>2. Shaped(fn)
    BY <1>1 DEF Ready
  <1>3. \A v \in Values : assignment[v] \in Locations
    <2>1. \A v \in Values : Placed(v)
      BY DEF Running, Lowered, Placed
    <2> QED BY <2>1, PlacedAreLocated DEF Running
  <1>4. \A v \in Values : rootSlot[v] \in Slots
    BY DEF Running, Lowered, Coloured, RootsInv
  <1> QED BY <1>1, <1>2, <1>3, <1>4, FunctionsAssumption DEF Running, FrameInv

(* Values that meet live apart.                                             *)
LEMMA MeetingLiveApart ==
    ASSUME Running, NEW u \in Values, NEW v \in Values, u # v, Meet(fn, liveIn, liveOut, u, v)
    PROVE  assignment[u] # assignment[v]
  <1>1. /\ start = [w \in Values |-> IntervalStart(fn, liveIn, w)]
        /\ end = [w \in Values |-> IntervalEnd(fn, liveIn, liveOut, w)]
    BY DEF Running, Lowered, IntervalsInv
  <1>2. /\ start[u] = IntervalStart(fn, liveIn, u) /\ end[u] = IntervalEnd(fn, liveIn, liveOut, u)
        /\ start[v] = IntervalStart(fn, liveIn, v) /\ end[v] = IntervalEnd(fn, liveIn, liveOut, v)
    BY <1>1
  <1>3. Overlap(u, v)
    BY <1>2 DEF Overlap, Before, Meet, Precedes
  <1>4. Placed(u) /\ Placed(v)
    BY DEF Running, Lowered, Placed
  <1> QED BY <1>3, <1>4 DEF Running, IInv, NoSharedLocation

LEMMA InterferingRootApart ==
    ASSUME Running, NEW u \in Values, NEW v \in Values, Interfere(fn, liveOut, u, v)
    PROVE  rootSlot[u] # rootSlot[v]
  BY DEF Running, Lowered, RootsInv

LEMMA CodeStands ==
    ASSUME UNCHANGED <<scanVars, codeVars>>
    PROVE  /\ fn' = fn /\ liveIn' = liveIn /\ liveOut' = liveOut /\ at' = at /\ changed' = changed
           /\ analysed' = analysed /\ rootSlot' = rootSlot
           /\ assignment' = assignment /\ pending' = pending /\ stackSlots' = stackSlots
  BY DEF scanVars, codeVars, liveVars

(* A value is held after a store of new values when each of those meets it  *)
(* and it is one of them or was held before.                                *)
LEMMA StoreHolds ==
    ASSUME Running, NEW new, NEW n \in Nat, DOMAIN new = 1 .. n, NEW rootsNow, DOMAIN rootsNow = Slots,
           Store(new, rootsNow), NEW v \in Values,
           \A i \in 1 .. n : new[i] # v =>
                /\ new[i] \in Values
                /\ Meet(fn, liveIn, liveOut, new[i], v)
                /\ Interfere(fn, liveOut, new[i], v),
           (\A i \in 1 .. n : new[i] # v) => holds[assignment[v]] = v /\ rootsNow[rootSlot[v]] = v
    PROVE  holds'[assignment[v]] = v /\ roots'[rootSlot[v]] = v
  <1>1. assignment[v] \in DOMAIN holds /\ rootSlot[v] \in DOMAIN rootsNow
    BY RunningIsReady
  <1>2. \A i \in 1 .. n : new[i] # v => assignment[new[i]] # assignment[v] /\ rootSlot[new[i]] # rootSlot[v]
    BY MeetingLiveApart, InterferingRootApart
  <1>3. holds' = Stored(holds, assignment, new) /\ roots' = Stored(rootsNow, rootSlot, new)
    BY DEF Store
  <1>4. Stored(holds, assignment, new)[assignment[v]] = v
    BY <1>1, <1>2, StoredHolds
  <1>5. Stored(rootsNow, rootSlot, new)[rootSlot[v]] = v
    BY <1>1, <1>2, StoredHolds
  <1> QED BY <1>3, <1>4, <1>5

(* The frame after a step: its cursor is in a block, and the values that    *)
(* are needed from there are held.                                          *)
LEMMA FrameAfterStore ==
    ASSUME Running, UNCHANGED <<scanVars, codeVars>>,
           NEW new, NEW rootsNow, DOMAIN rootsNow = Slots, Store(new, rootsNow),
           NEW b \in Blocks(fn), NEW i \in 1 .. CodeLen(fn, b) + 1, block' = b, index' = i,
           \A v \in Values : Needs(fn, liveOut, b, i, v) =>
                holds'[assignment[v]] = v /\ roots'[rootSlot[v]] = v /\ v \notin dangling'
    PROVE  FrameInv'
  <1>1. /\ fn' = fn /\ liveOut' = liveOut /\ analysed' = analysed /\ rootSlot' = rootSlot
        /\ assignment' = assignment /\ pending' = pending
    BY CodeStands
  <1>2. holds' = Stored(holds, assignment, new) /\ roots' = Stored(rootsNow, rootSlot, new)
    BY DEF Store
  <1>3. DOMAIN holds' = Locations /\ DOMAIN roots' = Slots
    BY <1>2, StoredDomain, RunningIsReady
  <1>4. Lowered'
    BY <1>1 DEF Running, Lowered, Coloured
  <1> QED BY <1>1, <1>3, <1>4 DEF FrameInv, Held

LEMMA EnterKeepsFrame ==
    ASSUME Running, Enter
    PROVE  FrameInv' /\ OperandsGood'
  <1>1. /\ block' = 1 /\ index' = 1 /\ dangling' = {} /\ reads' = {}
        /\ Store(fn.params, EmptyRoots) /\ UNCHANGED <<scanVars, codeVars>>
    BY DEF Enter
  <1>2. Ready(fn, liveIn, liveOut) /\ Shaped(fn) /\ NoValue \notin Values
    BY RunningIsReady
  <1>3. 1 \in Blocks(fn) /\ 1 \in 1 .. CodeLen(fn, 1) + 1
    <2>1. 1 \in Blocks(fn) /\ CodeLen(fn, 1) \in Nat
      BY <1>2, BlocksAreNumbered, BlockParts
    <2> QED BY <2>1
  <1>4. fn.params \in Seq(Values) /\ Len(fn.params) \in Nat /\ DOMAIN fn.params = 1 .. Len(fn.params)
    BY <1>2 DEF Shaped
  <1>5. DOMAIN EmptyRoots = Slots
    BY DEF EmptyRoots
  <1>6. ASSUME NEW v \in Values, Needs(fn, liveOut, 1, 1, v)
        PROVE  holds'[assignment[v]] = v /\ roots'[rootSlot[v]] = v
    <2>1. PICK k \in 1 .. Len(fn.params) : fn.params[k] = v
      BY <1>2, <1>4, <1>6, EntryNeedsParams DEF Range
    <2>2. ASSUME NEW i \in 1 .. Len(fn.params), fn.params[i] # v
          PROVE  /\ fn.params[i] \in Values
                 /\ Meet(fn, liveIn, liveOut, fn.params[i], v)
                 /\ Interfere(fn, liveOut, fn.params[i], v)
      <3>1. fn.params[i] \in Range(fn.params) /\ fn.params[i] \in Values
        BY <1>4 DEF Range
      <3>2. fn.params[i] \in Defs(fn, 1)
        BY <3>1 DEF Defs, Params
      <3>3. Meet(fn, liveIn, liveOut, fn.params[i], v)
        BY <1>2, <1>6, <2>2, <3>1, ParamMeetsNeeded
      <3>4. Interfere(fn, liveOut, fn.params[i], v)
        BY <1>2, <1>3, <1>6, <2>2, <3>2, NeededMeetsDefined
      <3> QED BY <3>1, <3>3, <3>4
    <2> QED BY <1>1, <1>4, <1>5, <2>1, <2>2, StoreHolds
  <1>7. FrameInv'
    BY <1>1, <1>3, <1>5, <1>6, FrameAfterStore
  <1>8. OperandsGood'
    BY <1>1 DEF OperandsGood, OperandsIntact, OperandsAlive
  <1> QED BY <1>7, <1>8

(* The block in control, and what it needs.                                 *)
LEMMA InControl ==
    ASSUME Running, block # 0
    PROVE  /\ block \in Blocks(fn)
           /\ index \in 1 .. CodeLen(fn, block) + 1
           /\ CodeLen(fn, block) \in Nat
           /\ DOMAIN fn.code[block] = 1 .. CodeLen(fn, block)
           /\ \A v \in Values : Needs(fn, liveOut, block, index, v) =>
                holds[assignment[v]] = v /\ roots[rootSlot[v]] = v /\ v \notin dangling
  <1>1. block \in Blocks(fn) /\ Shaped(fn)
    BY RunningIsReady DEF Running, FrameInv
  <1>2. CodeLen(fn, block) \in Nat /\ DOMAIN fn.code[block] = 1 .. CodeLen(fn, block)
    BY <1>1, BlockParts
  <1> QED BY <1>1, <1>2 DEF Running, FrameInv, Held

LEMMA ExecuteKeepsFrame ==
    ASSUME Running, Execute
    PROVE  FrameInv' /\ OperandsGood'
  <1> DEFINE ins == fn.code[block][index]
             new == IF ins.res = NoValue THEN <<>> ELSE <<ins.res>>
  <1>1. /\ block # 0 /\ index \in DOMAIN fn.code[block]
        /\ index' = index + 1 /\ block' = block /\ UNCHANGED <<scanVars, codeVars>>
    BY DEF Execute
  <1>2. PICK gone \in {dangling, dangling \cup (Values \ Rooted)} :
            /\ reads' = {Read(u, IF ins.late THEN gone ELSE dangling) : u \in ins.uses}
            /\ Store(new, roots)
            /\ dangling' = gone \ {ins.res}
    BY DEF Execute
  <1>3. Ready(fn, liveIn, liveOut) /\ Shaped(fn) /\ NoValue \notin Values /\ DOMAIN roots = Slots
    BY RunningIsReady
  <1>4. /\ block \in Blocks(fn) /\ CodeLen(fn, block) \in Nat
        /\ index \in 1 .. CodeLen(fn, block)
        /\ \A v \in Values : Needs(fn, liveOut, block, index, v) =>
                holds[assignment[v]] = v /\ roots[rootSlot[v]] = v /\ v \notin dangling
    BY <1>1, InControl
  <1>5. index + 1 \in 1 .. CodeLen(fn, block) + 1
    BY <1>4
  <1>6. ins.res \in Values \cup {NoValue} /\ ins.uses \subseteq Values
    BY <1>1, <1>3, <1>4, BlockParts
  <1>7. \A v \in ins.uses : Needs(fn, liveOut, block, index, v)
    BY <1>3, <1>4, InstructionNeeds
  <1>8. \A v \in Values : Needs(fn, liveOut, block, index, v) => v \notin gone
    BY <1>4 DEF Rooted
  <1>9. ASSUME NEW r \in reads'
        PROVE  r.found = r.value /\ r.alive
    <2>1. PICK u \in ins.uses : r = Read(u, IF ins.late THEN gone ELSE dangling)
      BY <1>2, <1>9
    <2>2. u \in Values /\ holds[assignment[u]] = u /\ u \notin dangling /\ u \notin gone
      BY <1>4, <1>6, <1>7, <1>8, <2>1
    <2> QED BY <2>1, <2>2 DEF Read
  <1>10. \E n \in Nat : /\ DOMAIN new = 1 .. n
                        /\ \A k \in 1 .. n : new[k] = ins.res /\ ins.res \in Values
                        /\ ins.res \in Values => n = 1
    <2>1. CASE ins.res = NoValue
      <3>1. DOMAIN new = 1 .. 0 /\ 1 .. 0 = {}
        BY <2>1
      <3> QED BY <1>3, <2>1, <3>1
    <2>2. CASE ins.res # NoValue
      <3>1. DOMAIN new = 1 .. 1 /\ new[1] = ins.res
        BY <2>2
      <3> QED BY <1>6, <2>2, <3>1
    <2> QED BY <2>1, <2>2
  <1>11. PICK n \in Nat : /\ DOMAIN new = 1 .. n
                          /\ \A k \in 1 .. n : new[k] = ins.res /\ ins.res \in Values
                          /\ ins.res \in Values => n = 1
    BY <1>10
  <1> HIDE DEF new
  <1>12. ASSUME NEW v \in Values, Needs(fn, liveOut, block, index + 1, v)
         PROVE  holds'[assignment[v]] = v /\ roots'[rootSlot[v]] = v /\ v \notin dangling'
    <2>1. Needs(fn, liveOut, block, index, v) \/ ins.res = v
      BY <1>3, <1>4, <1>12, InstructionNeeds
    <2>2. ASSUME NEW k \in 1 .. n, new[k] # v
          PROVE  /\ new[k] \in Values
                 /\ Meet(fn, liveIn, liveOut, new[k], v)
                 /\ Interfere(fn, liveOut, new[k], v)
      <3>1. new[k] = ins.res /\ ins.res \in Values /\ ins.res # v
        BY <1>11, <2>2
      <3>2. Meet(fn, liveIn, liveOut, ins.res, v)
        BY <1>3, <1>4, <1>12, <3>1, ResultMeetsNeeded
      <3>3. ins.res \in Defs(fn, block)
        <4>1. ins.res \in Results(fn, block, CodeLen(fn, block))
          BY <1>3, <1>4, <3>1 DEF Results
        <4> QED BY <4>1 DEF Defs, CodeLen
      <3>4. Interfere(fn, liveOut, ins.res, v)
        BY <1>3, <1>4, <1>5, <1>12, <3>1, <3>3, NeededMeetsDefined
      <3> QED BY <3>1, <3>2, <3>4
    <2>3. (\A k \in 1 .. n : new[k] # v) => holds[assignment[v]] = v /\ roots[rootSlot[v]] = v
      <3>1. SUFFICES ASSUME \A k \in 1 .. n : new[k] # v
                     PROVE  holds[assignment[v]] = v /\ roots[rootSlot[v]] = v
        OBVIOUS
      <3>2. ins.res # v
        <4>1. SUFFICES ASSUME ins.res = v PROVE FALSE
          OBVIOUS
        <4>2. n = 1 /\ 1 \in 1 .. n
          BY <1>11, <4>1
        <4> QED BY <1>11, <3>1, <4>1, <4>2
      <3> QED BY <1>4, <2>1, <3>2
    <2>4. holds'[assignment[v]] = v /\ roots'[rootSlot[v]] = v
      BY <1>2, <1>3, <1>11, <2>2, <2>3, StoreHolds
    <2>5. v \notin dangling'
      BY <1>2, <1>8, <2>1
    <2> QED BY <2>4, <2>5
  <1>13. FrameInv'
    <2>1. block' = block /\ index' = index + 1
      BY <1>1
    <2> QED BY <1>1, <1>2, <1>3, <1>4, <1>5, <1>12, <2>1, FrameAfterStore
  <1>14. OperandsGood'
    BY <1>9 DEF OperandsGood, OperandsIntact, OperandsAlive
  <1> QED BY <1>13, <1>14

(* The phis of a block in the order their results are popped.               *)
LEMMA PhisReversed ==
    ASSUME NEW f, Shaped(f), NEW t \in Blocks(f), NEW new,
           new = Reverse([i \in DOMAIN f.phis[t] |-> f.phis[t][i].res])
    PROVE  /\ DOMAIN new = 1 .. PhiLen(f, t)
           /\ \A k \in 1 .. PhiLen(f, t) : \E i \in DOMAIN f.phis[t] : new[k] = f.phis[t][i].res
           /\ \A v \in PhiResults(f, t) : \E k \in 1 .. PhiLen(f, t) : new[k] = v
  <1> DEFINE s == [i \in DOMAIN f.phis[t] |-> f.phis[t][i].res]
             p == PhiLen(f, t)
  <1>1. p \in Nat /\ DOMAIN f.phis[t] = 1 .. p /\ \A i \in 1 .. p : f.phis[t][i].res \in Values
    BY BlockParts
  <1>2. s \in [1 .. p -> Values] /\ DOMAIN s = 1 .. p /\ \A i \in 1 .. p : s[i] = f.phis[t][i].res
    BY <1>1
  <1> HIDE DEF p, s
  <1>3. s \in Seq(Values) /\ Len(s) = p
    BY <1>1, <1>2
  <1>4. new = [k \in 1 .. p |-> s[(p - k) + 1]]
    BY <1>3 DEF Reverse, s
  <1>5. DOMAIN new = 1 .. p
    BY <1>4
  <1>6. ASSUME NEW k \in 1 .. p
        PROVE  (p - k) + 1 \in 1 .. p /\ new[k] = s[(p - k) + 1] /\ k = (p - ((p - k) + 1)) + 1
    BY <1>1, <1>4
  <1>7. ASSUME NEW k \in 1 .. p
        PROVE  \E i \in DOMAIN f.phis[t] : new[k] = f.phis[t][i].res
    <2>1. PICK i \in 1 .. p : i = (p - k) + 1
      BY <1>6
    <2>2. new[k] = s[i]
      BY <1>6, <2>1
    <2>3. i \in DOMAIN f.phis[t] /\ s[i] = f.phis[t][i].res
      BY <1>1, <1>2
    <2> QED BY <2>2, <2>3
  <1>8. ASSUME NEW v \in PhiResults(f, t)
        PROVE  \E k \in 1 .. p : new[k] = v
    <2>1. PICK i \in 1 .. p : f.phis[t][i].res = v
      BY <1>1 DEF PhiResults, Range
    <2>2. PICK k \in 1 .. p : k = (p - i) + 1
      BY <1>6
    <2>3. new[k] = s[(p - k) + 1] /\ (p - k) + 1 = i
      BY <1>1, <1>6, <2>2
    <2> QED BY <1>2, <2>1, <2>3
  <1> QED BY <1>5, <1>7, <1>8 DEF p

(* What the target of an edge needs is live at the end of its source, or is *)
(* one of the target's phis.                                                *)
LEMMA TargetNeeds ==
    ASSUME NEW f, NEW live, NEW out, Ready(f, live, out), NoValue \notin Values,
           NEW b \in Blocks(f), NEW t \in f.succ[b], NEW v \in Values, Needs(f, out, t, 1, v)
    PROVE  v \in out[b] \/ v \in PhiResults(f, t)
  <1>1. Shaped(f) /\ Solved(f, live, out)
    BY DEF Ready
  <1>2. t \in Blocks(f) /\ t # 1
    BY <1>1, BlocksAreNumbered, BlockParts
  <1>3. CodeLen(f, t) \in Nat
    BY <1>1, <1>2, BlockParts
  <1>4. 1 \in 1 .. CodeLen(f, t) + 1
    BY <1>3
  <1>5. v \in live[t] \cup Params(f, t) \cup PhiResults(f, t) \/ \E k \in 1 .. 1 - 1 : f.code[t][k].res = v
    BY <1>1, <1>2, <1>4, NeededIsKnown
  <1>6. v \in live[t] => v \in out[b]
    BY <1>1 DEF Solved, LiveOutOf
  <1> QED BY <1>2, <1>5, <1>6 DEF Params

LEMMA EdgeUsesAreLive ==
    ASSUME NEW f, NEW live, NEW out, Ready(f, live, out),
           NEW b \in Blocks(f), NEW t \in f.succ[b]
    PROVE  EdgeUses(f, b, t) \subseteq out[b]
  BY DEF Ready, Solved, LiveOutOf

LEMMA TakeEdgeKeepsFrame ==
    ASSUME Running, NEW t, TakeEdge(t)
    PROVE  FrameInv' /\ OperandsGood'
  <1> DEFINE new == Reverse([i \in DOMAIN fn.phis[t] |-> fn.phis[t][i].res])
             end0 == CodeLen(fn, block) + 1
  <1>1. /\ block # 0 /\ index = end0 /\ t \in fn.succ[block]
        /\ reads' = {Read(u, dangling) : u \in fn.test[block] \cup EdgeUses(fn, block, t)}
        /\ Store(new, ClearedRoots)
        /\ dangling' = dangling \ PhiResults(fn, t)
        /\ block' = t /\ index' = 1 /\ UNCHANGED <<scanVars, codeVars>>
    BY DEF TakeEdge, Terminating, CodeLen
  <1>2. Ready(fn, liveIn, liveOut) /\ Shaped(fn) /\ NoValue \notin Values /\ DOMAIN roots = Slots
    BY RunningIsReady
  <1>3. /\ block \in Blocks(fn)
        /\ \A v \in Values : Needs(fn, liveOut, block, end0, v) =>
                holds[assignment[v]] = v /\ roots[rootSlot[v]] = v /\ v \notin dangling
    BY <1>1, InControl
  <1>4. \A v \in Values : v \in fn.test[block] \cup liveOut[block] =>
                holds[assignment[v]] = v /\ roots[rootSlot[v]] = v /\ v \notin dangling
    BY <1>2, <1>3, TerminatorNeeds
  <1>5. t \in Blocks(fn) /\ EdgeUses(fn, block, t) \subseteq liveOut[block]
        /\ fn.test[block] \subseteq Values /\ EdgeUses(fn, block, t) \subseteq Values
    BY <1>1, <1>2, <1>3, EdgeUsesAreLive, BlocksAreNumbered, BlockParts
  <1>6. ASSUME NEW r \in reads'
        PROVE  r.found = r.value /\ r.alive
    <2>1. PICK u \in fn.test[block] \cup EdgeUses(fn, block, t) : r = Read(u, dangling)
      BY <1>1, <1>6
    <2>2. holds[assignment[u]] = u /\ u \notin dangling
      BY <1>4, <1>5, <2>1
    <2> QED BY <2>1, <2>2 DEF Read
  <1>7. /\ DOMAIN new = 1 .. PhiLen(fn, t)
        /\ \A k \in 1 .. PhiLen(fn, t) : \E i \in DOMAIN fn.phis[t] : new[k] = fn.phis[t][i].res
        /\ \A v \in PhiResults(fn, t) : \E k \in 1 .. PhiLen(fn, t) : new[k] = v
    BY <1>2, <1>5, PhisReversed
  <1>8. PhiLen(fn, t) \in Nat /\ CodeLen(fn, t) \in Nat
    BY <1>2, <1>5, BlockParts
  <1>9. 1 \in 1 .. CodeLen(fn, t) + 1 /\ DOMAIN ClearedRoots = Slots
    BY <1>2, <1>8 DEF ClearedRoots
  <1>10. \A v \in Values : v \in liveOut[block] => ClearedRoots[rootSlot[v]] = v
    <2>1. SUFFICES ASSUME NEW v \in Values, v \in liveOut[block]
                   PROVE  ClearedRoots[rootSlot[v]] = v
      OBVIOUS
    <2>2. rootSlot[v] \in DOMAIN roots /\ rootSlot[v] \in KeptSlots(block)
      BY <2>1, RunningIsReady DEF KeptSlots
    <2>3. ClearedRoots[rootSlot[v]] = roots[rootSlot[v]]
      BY <2>2 DEF ClearedRoots
    <2> QED BY <1>4, <2>1, <2>3
  <1> HIDE DEF new, end0
  <1>11. ASSUME NEW v \in Values, Needs(fn, liveOut, t, 1, v)
         PROVE  holds'[assignment[v]] = v /\ roots'[rootSlot[v]] = v /\ v \notin dangling'
    <2>1. v \in liveOut[block] \/ v \in PhiResults(fn, t)
      BY <1>1, <1>2, <1>3, <1>11, TargetNeeds
    <2>2. ASSUME NEW k \in 1 .. PhiLen(fn, t), new[k] # v
          PROVE  /\ new[k] \in Values
                 /\ Meet(fn, liveIn, liveOut, new[k], v)
                 /\ Interfere(fn, liveOut, new[k], v)
      <3>1. PICK i \in DOMAIN fn.phis[t] : new[k] = fn.phis[t][i].res
        BY <1>7
      <3>2. new[k] \in Values
        BY <1>2, <1>5, <3>1, BlockParts
      <3>3. Meet(fn, liveIn, liveOut, new[k], v)
        BY <1>2, <1>5, <1>11, <2>2, <3>1, PhiMeetsNeeded
      <3>4. new[k] \in Defs(fn, t)
        BY <3>1 DEF Defs, PhiResults, Range
      <3>5. Interfere(fn, liveOut, new[k], v)
        BY <1>2, <1>5, <1>9, <1>11, <2>2, <3>4, NeededMeetsDefined
      <3> QED BY <3>2, <3>3, <3>5
    <2>3. (\A k \in 1 .. PhiLen(fn, t) : new[k] # v) => holds[assignment[v]] = v /\ ClearedRoots[rootSlot[v]] = v
      BY <1>4, <1>7, <1>10, <2>1
    <2>4. holds'[assignment[v]] = v /\ roots'[rootSlot[v]] = v
      BY <1>1, <1>7, <1>8, <1>9, <2>2, <2>3, StoreHolds
    <2>5. v \notin dangling'
      BY <1>1, <1>4, <2>1
    <2> QED BY <2>4, <2>5
  <1>12. FrameInv'
    BY <1>1, <1>5, <1>9, <1>11, FrameAfterStore
  <1>13. OperandsGood'
    BY <1>6 DEF OperandsGood, OperandsIntact, OperandsAlive
  <1> QED BY <1>12, <1>13

LEMMA ReturnKeepsFrame ==
    ASSUME Running, Return
    PROVE  FrameInv' /\ OperandsGood'
  <1>1. /\ block # 0 /\ index = CodeLen(fn, block) + 1
        /\ reads' = {Read(u, dangling) : u \in fn.test[block]}
        /\ block' = 0 /\ holds' = EmptyFrame /\ roots' = EmptyRoots
    BY DEF Return, Terminating, CodeLen
  <1>2. Shaped(fn)
    BY RunningIsReady
  <1>3. /\ block \in Blocks(fn)
        /\ \A v \in Values : Needs(fn, liveOut, block, CodeLen(fn, block) + 1, v) =>
                holds[assignment[v]] = v /\ roots[rootSlot[v]] = v /\ v \notin dangling
    BY <1>1, InControl
  <1>4. fn.test[block] \subseteq Values
    BY <1>2, <1>3, BlockParts
  <1>5. ASSUME NEW r \in reads'
        PROVE  r.found = r.value /\ r.alive
    <2>1. PICK u \in fn.test[block] : r = Read(u, dangling)
      BY <1>1, <1>5
    <2>2. holds[assignment[u]] = u /\ u \notin dangling
      BY <1>2, <1>3, <1>4, <2>1, TerminatorNeeds
    <2> QED BY <2>1, <2>2 DEF Read
  <1>6. OperandsGood'
    BY <1>5 DEF OperandsGood, OperandsIntact, OperandsAlive
  <1>7. FrameInv'
    BY <1>1 DEF FrameInv, EmptyFrame, EmptyRoots, Locations
  <1> QED BY <1>6, <1>7

-----------------------------------------------------------------------------
(* While the function is being compiled its frame does not exist.           *)
LEMMA OutOfControlKeepsFrame ==
    ASSUME FrameInv, OperandsGood, block = 0, UNCHANGED frameVars
    PROVE  FrameInv' /\ OperandsGood'
  BY DEF FrameInv, OperandsGood, OperandsIntact, OperandsAlive, frameVars

LEMMA AccountsStutter ==
    ASSUME IInv, SlotsInv, UNCHANGED scanVars
    PROVE  IInv' /\ SlotsInv'
  <1>1. IInv'
    BY ScanStutters
  <1> QED BY <1>1 DEF SlotsInv, scanVars

LEMMA FunctionBegins == FunctionInit => CodeInv
  <1> SUFFICES ASSUME FunctionInit PROVE CodeInv
    OBVIOUS
  <1>1. fn \in Functions /\ Shaped(fn)
    BY FunctionsAreWellFormed DEF FunctionInit
  <1>2. Len(fn.succ) \in Nat /\ Blocks(fn) = 1 .. Len(fn.succ)
    BY <1>1, BlocksAreNumbered
  <1>3. LivenessInv
    <2>1. /\ at = Len(fn.succ) /\ changed = FALSE
          /\ liveIn = [b \in Blocks(fn) |-> {}] /\ liveOut = [b \in Blocks(fn) |-> {}]
      BY DEF FunctionInit
    <2>2. \A b \in Blocks(fn) : ~(b > at)
      BY <1>2, <2>1
    <2>3. OnlyWhereAvailable(fn, liveIn)
      BY <2>1 DEF OnlyWhereAvailable
    <2>4. liveIn \in [Blocks(fn) -> SUBSET Values] /\ liveOut \in [Blocks(fn) -> SUBSET Values]
      BY <2>1
    <2>5. Len(fn.succ) \in 0 .. Len(fn.succ)
      BY <1>2
    <2>6. at \in 0 .. Len(fn.succ) /\ changed \in BOOLEAN
      <3>1. at = Len(fn.succ) /\ changed = FALSE
        BY DEF FunctionInit
      <3> QED BY <2>5, <3>1
    <2> QED BY <1>1, <2>2, <2>3, <2>4, <2>6 DEF LivenessInv
  <1>4. IntervalsInv
    BY DEF FunctionInit, IntervalsInv
  <1>5. IInv
    <2>1. Init
      BY DEF FunctionInit, Init
    <2> QED BY <2>1, ScanBegins
  <1>6. SlotsInv
    <2>1. pending = Values /\ stackSlots = 0
      BY DEF FunctionInit, ScanInit
    <2>2. Cardinality(Values) \in Nat
      BY FunctionsAssumption, FS_CardinalityType
    <2> QED BY <2>1, <2>2 DEF SlotsInv
  <1>7. RootsInv
    BY DEF FunctionInit, RootsInv, Coloured
  <1>8. FrameInv
    BY DEF FunctionInit, FrameInv, EmptyFrame, EmptyRoots
  <1>9. OperandsGood
    BY DEF FunctionInit, OperandsGood, OperandsIntact, OperandsAlive
  <1> QED BY <1>3, <1>4, <1>5, <1>6, <1>7, <1>8, <1>9 DEF CodeInv

LEMMA FunctionKeepsInvariant ==
    ASSUME CodeInv, [Next]_vars
    PROVE  CodeInv'
  <1>0. /\ LivenessInv /\ IntervalsInv /\ IInv /\ SlotsInv /\ RootsInv /\ FrameInv /\ OperandsGood
    BY DEF CodeInv
  <1>1. block # 0 => Running
    BY <1>0 DEF FrameInv, Running
  <1>2. CASE VisitBlock \/ PassAgain
    <2>1. at > 0 \/ changed
      BY <1>2 DEF VisitBlock, PassAgain
    <2>2. at \in Nat /\ ~analysed
      BY <1>0, <2>1 DEF LivenessInv, IntervalsInv
    <2>3. block = 0
      BY <1>1, <2>2 DEF Running, Lowered
    <2>4. UNCHANGED scanVars /\ UNCHANGED frameVars /\ rootSlot' = rootSlot
      BY <1>2 DEF VisitBlock, PassAgain
    <2>5. FrameInv' /\ OperandsGood'
      BY <1>0, <2>3, <2>4, OutOfControlKeepsFrame
    <2>6. RootsInv'
      BY <1>0, <2>2, <2>4, UncolouredKeepsRoots
    <2>7. LivenessInv' /\ IntervalsInv'
      BY <1>0, <1>2, VisitBlockKeepsLiveness, PassAgainKeepsLiveness, LivenessLoopKeepsIntervals
    <2> QED BY <1>0, <2>4, <2>5, <2>6, <2>7, AccountsStutter DEF CodeInv
  <1>3. CASE FindIntervals
    <2>1. /\ ~analysed /\ UNCHANGED frameVars /\ rootSlot' = rootSlot
          /\ fn' = fn /\ liveIn' = liveIn /\ liveOut' = liveOut /\ at' = at /\ changed' = changed
          /\ pending' = pending /\ stackSlots' = stackSlots
      BY <1>3 DEF FindIntervals, liveVars
    <2>2. block = 0
      BY <1>1, <2>1 DEF Running, Lowered
    <2>3. FrameInv' /\ OperandsGood'
      BY <1>0, <2>1, <2>2, OutOfControlKeepsFrame
    <2>4. RootsInv'
      BY <1>0, <2>1, UncolouredKeepsRoots
    <2>5. LivenessInv'
      BY <1>0, <2>1, LivenessStutters
    <2>6. IntervalsInv' /\ IInv'
      BY <1>0, <1>3, FindIntervalsKeepsAccounts
    <2>7. SlotsInv'
      BY <1>0, <2>1 DEF SlotsInv
    <2> QED BY <2>3, <2>4, <2>5, <2>6, <2>7 DEF CodeInv
  <1>4. CASE Compile
    <2>1. /\ Scan /\ UNCHANGED frameVars /\ rootSlot' = rootSlot
          /\ fn' = fn /\ liveIn' = liveIn /\ liveOut' = liveOut /\ at' = at /\ changed' = changed
      BY <1>4 DEF Compile, codeVars, liveVars
    <2>2. pending # {}
      BY <2>1 DEF Scan, TakeFree, Evict, Spill, Reaches
    <2>3. block = 0
      BY <1>1, <2>2 DEF Running, Lowered
    <2>4. FrameInv' /\ OperandsGood'
      BY <1>0, <2>1, <2>3, OutOfControlKeepsFrame
    <2>5. RootsInv'
      BY <1>0, <2>1, <2>2, UncolouredKeepsRoots
    <2>6. LivenessInv' /\ IntervalsInv'
      BY <1>0, <1>4, <2>1, LivenessStutters, ScanKeepsIntervals
    <2>7. IInv' /\ SlotsInv'
      BY <1>0, <2>1, ScanKeepsAccounts, ScanKeepsSlots
    <2> QED BY <2>4, <2>5, <2>6, <2>7 DEF CodeInv
  <1>5. ASSUME NEW v \in Values, ColourRoot(v)
        PROVE  CodeInv'
    <2>1. /\ UNCHANGED scanVars /\ UNCHANGED frameVars /\ analysed' = analysed
          /\ fn' = fn /\ liveIn' = liveIn /\ liveOut' = liveOut /\ at' = at /\ changed' = changed
      BY <1>5 DEF ColourRoot, liveVars
    <2>2. block = 0
      BY <1>1, <1>5 DEF Running, Lowered, ColourRoot
    <2>3. FrameInv' /\ OperandsGood'
      BY <1>0, <2>1, <2>2, OutOfControlKeepsFrame
    <2>4. LivenessInv' /\ IntervalsInv'
      BY <1>0, <2>1, LivenessStutters, IntervalsStutter
    <2>5. RootsInv'
      BY <1>0, <1>5, ColourRootKeepsRoots
    <2> QED BY <1>0, <2>1, <2>3, <2>4, <2>5, AccountsStutter DEF CodeInv
  <1>6. ASSUME UNCHANGED <<scanVars, codeVars>>, FrameInv', OperandsGood'
        PROVE  CodeInv'
    <2>1. /\ fn' = fn /\ liveIn' = liveIn /\ liveOut' = liveOut /\ at' = at /\ changed' = changed
          /\ analysed' = analysed /\ rootSlot' = rootSlot /\ pending' = pending
      BY <1>6, CodeStands
    <2>2. UNCHANGED scanVars
      BY <1>6
    <2>3. LivenessInv' /\ IntervalsInv' /\ RootsInv' /\ IInv' /\ SlotsInv'
      BY <1>0, <2>1, <2>2, LivenessStutters, IntervalsStutter, RootsStutter, AccountsStutter
    <2> QED BY <1>6, <2>3 DEF CodeInv
  <1>7. CASE Enter
    <2>1. Running /\ UNCHANGED <<scanVars, codeVars>>
      BY <1>0, <1>7 DEF Enter, Running
    <2> QED BY <1>6, <1>7, <2>1, EnterKeepsFrame
  <1>8. CASE Execute
    <2>1. Running /\ UNCHANGED <<scanVars, codeVars>>
      BY <1>1, <1>8 DEF Execute
    <2> QED BY <1>6, <1>8, <2>1, ExecuteKeepsFrame
  <1>9. ASSUME NEW b \in Blocks(fn), TakeEdge(b)
        PROVE  CodeInv'
    <2>1. Running /\ UNCHANGED <<scanVars, codeVars>>
      BY <1>1, <1>9 DEF TakeEdge, Terminating
    <2> QED BY <1>6, <1>9, <2>1, TakeEdgeKeepsFrame
  <1>10. CASE Return
    <2>1. Running /\ UNCHANGED <<scanVars, codeVars>>
      BY <1>1, <1>10 DEF Return, Terminating
    <2> QED BY <1>6, <1>10, <2>1, ReturnKeepsFrame
  <1>11. CASE UNCHANGED vars
    <2>1. UNCHANGED <<scanVars, codeVars>> /\ UNCHANGED frameVars
      BY <1>11 DEF vars
    <2>2. fn' = fn /\ liveOut' = liveOut /\ analysed' = analysed /\ rootSlot' = rootSlot
          /\ assignment' = assignment /\ pending' = pending
      BY <2>1, CodeStands
    <2>3. FrameInv' /\ OperandsGood'
      BY <1>0, <2>1, <2>2 DEF FrameInv, Held, Lowered, Coloured, OperandsGood, OperandsIntact,
                              OperandsAlive, frameVars
    <2> QED BY <1>6, <2>1, <2>3
  <1> QED BY <1>2, <1>3, <1>4, <1>5, <1>7, <1>8, <1>9, <1>10, <1>11 DEF Next

(* The invariant holds in every state of the compilation and of the calls.  *)
LEMMA FunctionInvariant == FunctionSpec => []CodeInv
  <1>1. CodeInv /\ [Next]_vars => CodeInv'
    BY FunctionKeepsInvariant
  <1> QED BY <1>1, FunctionBegins, PTL DEF FunctionSpec

(* An instruction, a terminator and a phi copy read their operands and      *)
(* nothing else, and no collection has taken the object of one: the whole   *)
(* of lowering one function, from the liveness of computeIntervals over     *)
(* Allocate and the root frame to the code that runs on them, for every     *)
(* well-formed function, any order of its blocks and any number of          *)
(* registers.                                                               *)
THEOREM OperandsStayGood == FunctionSpec => []OperandsGood
  <1>1. CodeInv => OperandsGood
    BY DEF CodeInv
  <1> QED BY <1>1, FunctionInvariant, PTL

(* The same for the allocation itself: of the intervals that                *)
(* computeIntervals finds, no two that overlap share a location, and the    *)
(* registers stay accounted for.                                            *)
THEOREM FunctionsAllocateWell == FunctionSpec => [](NoSharedLocation /\ RegistersAccounted)
  <1>1. CodeInv => NoSharedLocation /\ RegistersAccounted
    BY DEF CodeInv, IInv
  <1> QED BY <1>1, FunctionInvariant, PTL
=============================================================================
