---------------------------- MODULE FunctionCode ----------------------------
(***************************************************************************)
(* One compiled function: the live intervals of its values, their          *)
(* locations by linear scan, the slots of its garbage-collection root      *)
(* frame, and the machine code that runs on them.  While it runs, every    *)
(* call may collect.                                                       *)
(*                                                                         *)
(* A function is a record: params, its parameters in order; and for each   *)
(* block, in the order of emission, phis (a sequence of a result and an    *)
(* operand per predecessor), code (a sequence of a result, the values      *)
(* used, and whether they are read before or after the call in it), test   *)
(* (the values its terminator uses) and succ (its successors).  All values *)
(* are references, so that both analyses are about the same values.        *)
(***************************************************************************)
EXTENDS LinearScan, SequencesExt

CONSTANTS
    NoValue,    \* a constant operand, or no result
    Functions   \* the functions that are compiled

VARIABLES
    fn,         \* the function
    liveIn,     \* per block, the values live at its start
    liveOut,    \* per block, the values live at its end
    at,         \* the block the liveness loop visits next; 0 after a pass
    changed,    \* whether the pass has changed a set
    analysed,   \* whether the intervals are computed
    rootSlot,   \* the root slot of each value
    block,      \* the block in control; 0 outside the function
    index,      \* the next instruction of the block
    holds,      \* the value whose word is in each location
    roots,      \* the value whose word is in each root slot
    dangling,   \* values whose object a collection has freed
    reads       \* what the last step read: the value meant, the value found

liveVars == <<liveIn, liveOut, at, changed>>
codeVars == <<fn, liveVars, analysed, rootSlot>>
frameVars == <<block, index, holds, roots, dangling, reads>>
vars == <<scanVars, codeVars, frameVars>>

-----------------------------------------------------------------------------
(* The positions that computeIntervals counts.                              *)
Blocks(f) == DOMAIN f.succ

BlockLen(f, b) == Len(f.phis[b]) + Len(f.code[b]) + 1

Emitted(f, b) == UNION {{c} \X (1 .. BlockLen(f, c)) : c \in 1 .. b - 1}

BlockStart(f, b) == 1 + Cardinality(Emitted(f, b))

BlockEnd(f, b) == BlockStart(f, b) + BlockLen(f, b) - 1

PhiAt(f, b, i) == BlockStart(f, b) + i - 1

CodeAt(f, b, i) == PhiAt(f, b, Len(f.phis[b]) + i)

PhiResults(f, b) == {p.res : p \in Range(f.phis[b])}

Results(f, b, n) == {f.code[b][i].res : i \in 1 .. n} \ {NoValue}

Params(f, b) == IF b = 1 THEN Range(f.params) ELSE {}

Defs(f, b) == Params(f, b) \cup PhiResults(f, b) \cup Results(f, b, Len(f.code[b]))

(* Values a block uses before it defines them; the operands of its phis are *)
(* used on the edges into it.                                               *)
Exposed(f, b) ==
    LET Known(n) == Params(f, b) \cup PhiResults(f, b) \cup Results(f, b, n)
    IN  (f.test[b] \ Known(Len(f.code[b])))
        \cup UNION {f.code[b][i].uses \ Known(i - 1) : i \in DOMAIN f.code[b]}

EdgeUses(f, b, s) == {p.from[b] : p \in Range(f.phis[s])} \ {NoValue}

LiveOutOf(f, live, b) == UNION {live[s] \cup EdgeUses(f, b, s) : s \in f.succ[b]}

(* Mutant: a value live in a block that is emitted before its definition.   *)
StartAtDefinition(f, live, v) ==
    Min(UNION {     (IF v \in Params(f, b) THEN {0} ELSE {})
               \cup (IF v \in PhiResults(f, b) THEN {BlockStart(f, b)} ELSE {})
               \cup {CodeAt(f, b, i) : i \in {j \in DOMAIN f.code[b] : f.code[b][j].res = v}}
               : b \in Blocks(f)})

(* An interval reaches from the definition to the last use, and over every  *)
(* block through which the value is live, whatever the order of emission.   *)
IntervalStart(f, live, v) ==
    Min(UNION {     (IF v \in Params(f, b) THEN {0} ELSE {})
               \cup (IF v \in PhiResults(f, b) \cup live[b] THEN {BlockStart(f, b)} ELSE {})
               \cup {CodeAt(f, b, i) : i \in {j \in DOMAIN f.code[b] : f.code[b][j].res = v}}
               : b \in Blocks(f)})

IntervalEnd(f, live, out, v) ==
    Max({0} \cup UNION {
            {PhiAt(f, b, i) : i \in {j \in DOMAIN f.phis[b] : f.phis[b][j].res = v}}
            \cup {CodeAt(f, b, i) : i \in {j \in DOMAIN f.code[b] :
                                            v \in f.code[b][j].uses \cup {f.code[b][j].res}}}
            \cup (IF v \in f.test[b] \cup live[b] \cup out[b]
                  THEN {BlockEnd(f, b)} ELSE {})
            : b \in Blocks(f)})

-----------------------------------------------------------------------------
(* The root frame.  Whatever meets in a block gets slots of its own.        *)
MeetIn(f, out, b) ==
    Defs(f, b) \cup f.test[b] \cup out[b] \cup UNION {i.uses : i \in Range(f.code[b])}

Interfere(f, out, u, v) ==
    u # v /\ \E b \in Blocks(f) : {u, v} \subseteq MeetIn(f, out, b)

NoSlot == -1
Slots == 0 .. Cardinality(Values) - 1
Coloured(v) == rootSlot[v] # NoSlot

(* What clearDeadRoots spares at the end of a block.                        *)
KeptSlots(b) == {rootSlot[v] : v \in liveOut[b] \cup fn.test[b]}

Locations == {InReg(r) : r \in Regs} \cup {InStack(s) : s \in Slots}

EmptyFrame == [l \in Locations |-> NoValue]
EmptyRoots == [s \in Slots |-> NoValue]

-----------------------------------------------------------------------------
(* What a function is before it is lowered: every value has one definition, *)
(* which every use can only be reached through, and every block is reached  *)
(* from the first, to which none goes back.                                 *)
Shaped(f) ==
    /\ f.succ \in Seq(SUBSET Blocks(f)) /\ f.succ # <<>>
    /\ f.params \in Seq(Values)
    /\ \A b \in Blocks(f) :
          /\ \A i \in DOMAIN f.phis[b] : f.phis[b][i].res \in Values
          /\ \A i \in DOMAIN f.code[b] :
                f.code[b][i].res \in Values \cup {NoValue} /\ f.code[b][i].uses \subseteq Values
          /\ {Len(f.phis[b]), Len(f.code[b])} \subseteq Nat
          /\ DOMAIN f.phis[b] = 1 .. Len(f.phis[b]) /\ DOMAIN f.code[b] = 1 .. Len(f.code[b])
          /\ f.test[b] \subseteq Values
          /\ 1 \notin f.succ[b]
          /\ \A s \in f.succ[b] : EdgeUses(f, b, s) \subseteq Values
    /\ f.phis[1] = <<>>

Sites(f, v) ==
    {<<1, "param", i>> : i \in {j \in DOMAIN f.params : f.params[j] = v}}
    \cup UNION {{<<b, "phi", i>> : i \in {j \in DOMAIN f.phis[b] : f.phis[b][j].res = v}}
                \cup {<<b, "code", i>> : i \in {j \in DOMAIN f.code[b] : f.code[b][j].res = v}}
                : b \in Blocks(f)}

DefinedOnce(f, v) == \E d \in Sites(f, v) : Sites(f, v) = {d}

(* A holds the blocks v is available in from their start on.                *)
AvailableIn(f, v, A) ==
    /\ 1 \notin A
    /\ \A b \in Blocks(f) :
          /\ v \in Exposed(f, b) => b \in A
          /\ \A s \in f.succ[b] : s \in A \/ v \in EdgeUses(f, b, s) => b \in A \/ v \in Defs(f, b)

Reached(f) ==
    \A S \in SUBSET Blocks(f) :
        1 \in S /\ (\A b \in S : f.succ[b] \subseteq S) => S = Blocks(f)

WellFormed(f) ==
    /\ Shaped(f)
    /\ Reached(f)
    /\ \A v \in Values : DefinedOnce(f, v) /\ \E A \in SUBSET Blocks(f) : AvailableIn(f, v, A)

ASSUME FunctionsAssumption ==
    /\ Values \subseteq Nat /\ IsFiniteSet(Values)
    /\ NoValue \notin Values
    /\ \A f \in Functions : WellFormed(f)

FunctionInit ==
    /\ fn \in Functions
    /\ start = [v \in Values |-> 0]
    /\ end = [v \in Values |-> 0]
    /\ ScanInit
    /\ liveIn = [b \in Blocks(fn) |-> {}]
    /\ liveOut = [b \in Blocks(fn) |-> {}]
    /\ at = Len(fn.succ)
    /\ changed = FALSE
    /\ analysed = FALSE
    /\ rootSlot = [v \in Values |-> NoSlot]
    /\ block = 0
    /\ index = 0
    /\ holds = EmptyFrame
    /\ roots = EmptyRoots
    /\ dangling = {}
    /\ reads = {}

-----------------------------------------------------------------------------
(* The liveness loop: passes over the blocks, the last one first, until one *)
(* changes nothing.                                                         *)
VisitBlock ==
    /\ at > 0
    /\ LET out == LiveOutOf(fn, liveIn, at)
           in == Exposed(fn, at) \cup (out \ Defs(fn, at))
       IN  /\ liveOut' = [liveOut EXCEPT ![at] = out]
           /\ liveIn' = [liveIn EXCEPT ![at] = in]
           /\ changed' = (changed \/ liveOut[at] # out \/ liveIn[at] # in)
    /\ at' = at - 1
    /\ UNCHANGED <<scanVars, fn, analysed, rootSlot, frameVars>>

PassAgain ==
    /\ at = 0 /\ changed
    /\ at' = Len(fn.succ)
    /\ changed' = FALSE
    /\ UNCHANGED <<scanVars, fn, liveIn, liveOut, analysed, rootSlot, frameVars>>

FindIntervals ==
    /\ at = 0 /\ ~changed /\ ~analysed
    /\ analysed' = TRUE
    /\ start' = [v \in Values |-> IntervalStart(fn, liveIn, v)]
    /\ end' = [v \in Values |-> IntervalEnd(fn, liveIn, liveOut, v)]
    /\ UNCHANGED <<pending, active, freeRegs, assignment, stackSlots, fn, liveVars, rootSlot, frameVars>>

Compile == analysed /\ Scan /\ UNCHANGED <<codeVars, frameVars>>

(* Slots in the order of the values' numbers, each the lowest one that no   *)
(* interfering value has.                                                   *)
ColourRoot(v) ==
    /\ analysed /\ pending = {}
    /\ ~Coloured(v) /\ \A u \in Values : u < v => Coloured(u)
    /\ LET used == {rootSlot[u] : u \in {w \in Values : Interfere(fn, liveOut, w, v)}}
       IN  rootSlot' = [rootSlot EXCEPT ![v] = Min((0 .. Cardinality(Values)) \ used)]
    /\ UNCHANGED <<scanVars, fn, liveVars, analysed, frameVars>>

Lowered == analysed /\ pending = {} /\ \A v \in Values : Coloured(v)

-----------------------------------------------------------------------------
(* The words of new values go to their locations and root slots, one after  *)
(* the other: of two values with one location the last in order stays.      *)
Stored(words, place, new) ==
    [l \in DOMAIN words |->
        LET here == {i \in DOMAIN new : place[new[i]] = l}
        IN  IF here = {} THEN words[l] ELSE new[Max(here)]]

Store(new, rootsNow) ==
    /\ holds' = Stored(holds, assignment, new)
    /\ roots' = Stored(rootsNow, rootSlot, new)

Rooted == {v \in Values : roots[rootSlot[v]] = v}

Read(u, gone) == [value |-> u, found |-> holds[assignment[u]], alive |-> u \notin gone]

(* The prologue: an empty root frame is linked, the parameters are stored.  *)
Enter ==
    /\ Lowered
    /\ block = 0
    /\ block' = 1
    /\ index' = 1
    /\ Store(fn.params, EmptyRoots)
    /\ dangling' = {}
    /\ reads' = {}
    /\ UNCHANGED <<scanVars, codeVars>>

(* An instruction reads its operands, calls, and stores its result last.    *)
(* MakeClosure alone reads its captures after its call.                     *)
Execute ==
    /\ block # 0
    /\ index \in DOMAIN fn.code[block]
    /\ LET i == fn.code[block][index]
       IN  \E gone \in {dangling, dangling \cup (Values \ Rooted)} :
            /\ reads' = {Read(u, IF i.late THEN gone ELSE dangling) : u \in i.uses}
            /\ Store(IF i.res = NoValue THEN <<>> ELSE <<i.res>>, roots)
            /\ dangling' = gone \ {i.res}
    /\ index' = index + 1
    /\ UNCHANGED <<scanVars, codeVars, block>>

Terminating == block # 0 /\ index = Len(fn.code[block]) + 1

ClearedRoots ==
    [s \in DOMAIN roots |-> IF s \in KeptSlots(block) THEN roots[s] ELSE NoValue]

(* The copies for the phis of the target: all sources are pushed before any *)
(* destination is popped, the last phi first.                               *)
TakeEdge(target) ==
    /\ Terminating
    /\ target \in fn.succ[block]
    /\ reads' = {Read(u, dangling) : u \in fn.test[block] \cup EdgeUses(fn, block, target)}
    /\ Store(Reverse([i \in DOMAIN fn.phis[target] |-> fn.phis[target][i].res]), ClearedRoots)
    /\ dangling' = dangling \ PhiResults(fn, target)
    /\ block' = target
    /\ index' = 1
    /\ UNCHANGED <<scanVars, codeVars>>

(* The frame is gone; the function may be called again.                     *)
Return ==
    /\ Terminating
    /\ fn.succ[block] = {}
    /\ reads' = {Read(u, dangling) : u \in fn.test[block]}
    /\ block' = 0
    /\ index' = 0
    /\ holds' = EmptyFrame
    /\ roots' = EmptyRoots
    /\ dangling' = {}
    /\ UNCHANGED <<scanVars, codeVars>>

Next ==
    \/ VisitBlock
    \/ PassAgain
    \/ FindIntervals
    \/ Compile
    \/ \E v \in Values : ColourRoot(v)
    \/ Enter
    \/ Execute
    \/ \E b \in Blocks(fn) : TakeEdge(b)
    \/ Return

FunctionSpec == FunctionInit /\ [][Next]_vars

-----------------------------------------------------------------------------
(* An operand is read from where its value is: between a definition and a   *)
(* use nothing else was put into the value's register or spill slot, on any *)
(* path through the blocks (amd64_functions.go, over computeIntervals and   *)
(* Allocate).                                                               *)
OperandsIntact == \A r \in reads : r.found = r.value

(* An operand's object has survived every collection since its definition:  *)
(* while a value was still needed it was in its slot of the root frame,     *)
(* which no other live value took and no block end cleared (gc_roots).      *)
OperandsAlive == \A r \in reads : r.alive

(* What an instruction reads is its operand, and an object that is one is  *)
(* still there.                                                            *)
OperandsGood == OperandsIntact /\ OperandsAlive
=============================================================================
