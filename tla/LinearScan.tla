----------------------------- MODULE LinearScan -----------------------------
(***************************************************************************)
(* The allocation loop of internal/backend/regalloc: one pass over the     *)
(* live intervals of a function in the order of their starts, which gives  *)
(* each value a machine register or a spill slot.  How the intervals are   *)
(* found is the business of FunctionCode; here they are arbitrary.         *)
(***************************************************************************)
EXTENDS Integers, FiniteSets

CONSTANTS
    Values,     \* the values (virtual registers) of the function
    NumRegs     \* the number of machine registers given to the allocator

ASSUME RegsAssumption == NumRegs \in Nat

VARIABLES
    start,      \* start[v], end[v]: the interval of value v
    end,
    pending,    \* intervals the loop has not reached
    active,     \* values that hold a register at the cursor
    freeRegs,   \* registers that no active value holds
    assignment, \* where each value lives
    stackSlots  \* spill slots handed out so far

scanVars == <<start, end, pending, active, freeRegs, assignment, stackSlots>>

Regs == 0 .. NumRegs - 1

InReg(r) == [isReg |-> TRUE, at |-> r]
InStack(s) == [isReg |-> FALSE, at |-> s]
NoLocation == [isReg |-> FALSE, at |-> -1]
Location == [isReg : BOOLEAN, at : Int]

(* u is over when v starts.  The result of an instruction may take the      *)
(* register of an operand that ends there, but two intervals that start     *)
(* together are alive together, however short.                              *)
Before(u, v) ==
    \/ end[u] < start[v]
    \/ end[u] = start[v] /\ start[u] < start[v]

TypeOK ==
    /\ start \in [Values -> Nat]
    /\ end \in [Values -> Nat]
    /\ pending \in SUBSET Values
    /\ active \in SUBSET Values
    /\ freeRegs \in SUBSET Regs
    /\ assignment \in [Values -> Location]
    /\ stackSlots \in Nat

ScanInit ==
    /\ pending = Values
    /\ active = {}
    /\ freeRegs = Regs
    /\ assignment = [v \in Values |-> NoLocation]
    /\ stackSlots = 0

Init ==
    /\ start \in [Values -> Nat]
    /\ end \in [Values -> Nat]
    /\ ScanInit

(* The sort is not stable and its input comes out of a map, so intervals    *)
(* with one start come in any order.                                        *)
Reaches(v) == v \in pending /\ \A u \in pending : start[v] <= start[u]

(* Mutant: the expiry test does not compare the starts.                     *)
KeptPastTie(v) == {u \in active : end[u] > start[v]}

Kept(v) == {u \in active : ~Before(u, v)}

(* Mutant: the register of an expired value is not given back.              *)
FreedByNone(v) == {}

FreedBy(v) == {assignment[u].at : u \in active \ Kept(v)}

FreeAt(v) == freeRegs \cup FreedBy(v)

(* The active list is sorted by end, its last element ends last.  Among     *)
(* equal ends any one may stand last here.                                  *)
EndsLast(u, v) == u \in Kept(v) /\ \A w \in Kept(v) : end[w] <= end[u]

TakeFree(v) ==
    /\ Reaches(v)
    /\ \E r \in FreeAt(v) :
        /\ \A q \in FreeAt(v) : r <= q
        /\ assignment' = [assignment EXCEPT ![v] = InReg(r)]
        /\ freeRegs' = FreeAt(v) \ {r}
    /\ active' = Kept(v) \cup {v}
    /\ pending' = pending \ {v}
    /\ UNCHANGED <<start, end, stackSlots>>

(* The interval that ends last is moved to the stack for all of its life.   *)
Evict(v, u) ==
    /\ Reaches(v)
    /\ FreeAt(v) = {}
    /\ EndsLast(u, v)
    /\ end[u] > end[v]
    /\ assignment' = [assignment EXCEPT ![u] = InStack(stackSlots),
                                        ![v] = InReg(assignment[u].at)]
    /\ active' = (Kept(v) \ {u}) \cup {v}
    /\ freeRegs' = {}
    /\ pending' = pending \ {v}
    /\ stackSlots' = stackSlots + 1
    /\ UNCHANGED <<start, end>>

Spill(v) ==
    /\ Reaches(v)
    /\ FreeAt(v) = {}
    /\ \A u \in Kept(v) : end[u] <= end[v]
    /\ assignment' = [assignment EXCEPT ![v] = InStack(stackSlots)]
    /\ active' = Kept(v)
    /\ freeRegs' = {}
    /\ pending' = pending \ {v}
    /\ stackSlots' = stackSlots + 1
    /\ UNCHANGED <<start, end>>

Scan ==
    \E v \in Values :
        \/ TakeFree(v)
        \/ \E u \in Values : Evict(v, u)
        \/ Spill(v)

ScanSpec == Init /\ [][Scan]_scanVars

-----------------------------------------------------------------------------
Overlap(u, v) == u # v /\ ~Before(u, v) /\ ~Before(v, u)

Placed(v) == v \notin pending

(* No two values whose intervals overlap live in one register or one spill  *)
(* slot (Allocate): a location is given away only when its holder's last    *)
(* use is behind the cursor, also after evictions moved a holder away.      *)
NoSharedLocation ==
    \A u, v \in Values :
        Placed(u) /\ Placed(v) /\ Overlap(u, v) => assignment[u] # assignment[v]

(* What each iteration relies on: the active values hold the registers that *)
(* are not free, one each, and a register that was given back belonged to a *)
(* value that is over before anything still to come.                        *)
RegistersAccounted ==
    /\ \A u \in active : Placed(u) /\ assignment[u].isReg
    /\ \A u, v \in active : u # v => assignment[u].at # assignment[v].at
    /\ freeRegs = Regs \ {assignment[u].at : u \in active}
    /\ \A u \in Values \ active :
        Placed(u) /\ assignment[u].isReg => \A v \in pending : Before(u, v)

SlotsAccounted ==
    /\ \A u \in Values :
        Placed(u) =>
            /\ assignment[u].isReg => assignment[u].at \in Regs
            /\ ~assignment[u].isReg => assignment[u].at \in 0 .. stackSlots - 1
    /\ \A u, v \in Values :
        u # v /\ Placed(u) /\ Placed(v) /\ ~assignment[u].isReg /\ ~assignment[v].isReg
            => assignment[u].at # assignment[v].at

IInv == TypeOK /\ RegistersAccounted /\ SlotsAccounted /\ NoSharedLocation
=============================================================================
