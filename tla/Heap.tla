-------------------------------- MODULE Heap --------------------------------
(***************************************************************************)
(* The heap of the AMD64 runtime: the bump and size-class allocator of     *)
(* allocator_amd64.go and the mark-sweep collector of gc_runtime_amd64.go. *)
(* Memory is counted in units of 16 bytes; a block is named by the address *)
(* of its header.  The program is any choice of calls between two          *)
(* allocations; a collection runs inside an allocation and is modelled     *)
(* step by step, because its work lists and its sweep are the algorithm.   *)
(***************************************************************************)
EXTENDS Integers, Sequences, FiniteSets

CONSTANTS
    Space,       \* units of address space the system grants
    ChunkUnits,  \* units of blocks in an ordinary chunk
    Covered,     \* bits of a chunk's allocation-start bitmap
    MinSplit,    \* the least remainder worth splitting off
    Limit,       \* the sizes that bound the classes, ascending
    Request,     \* total sizes the program asks for, header included
    Slot,        \* words of the root frames and other roots
    Number,      \* doubles whose bits look like these addresses
    Threshold    \* newly marked objects before a chunk is dense

ASSUME HeapAssumption ==
    /\ Space \in Nat /\ ChunkUnits \in Nat \ {0} /\ Covered \in Nat
    /\ ChunkUnits <= Covered /\ ChunkUnits <= Space
    /\ MinSplit \in Nat \ {0}
    /\ Limit \in Seq(Nat)
    /\ Request \subseteq Nat \ {0}
    /\ Threshold \in Nat

Addr == 1..Space
Nil == 0
HeaderUnits == 2
Class == 1..Len(Limit) + 1

ASSUME NumberAssumption == Number \subseteq Addr

(* A word of a payload is a reference or a number the marker mistakes for one. *)
Word == {"ref", "num"} \X Addr

VARIABLES
    chunk,       \* the mapped chunks, oldest first: blocks from base up to used
    size, flag,  \* the header words; size is 0 where no block begins
    type,        \* "atomic" layouts hold no references
    payload,     \* the words of a block the collector looks at
    start,       \* the allocation-start bits, as addresses
    free,        \* per class, its list
    root,        \* the root words
    phase,       \* "run", or inside an allocation "mark", "sweep", "partition", "retry", or "dead"
    want,        \* the allocation that had to collect
    todo,        \* the words that remain of the object being traced
    stack,       \* the mark stack
    dense,       \* per chunk, its own list and count of newly marked objects
    denseStack, queued,
    sweep        \* chunk and address the sweep has reached, and its open free block

blocks == <<chunk, size, flag, start, free>>
object == <<type, payload>>
marking == <<todo, stack, dense, denseStack, queued>>
vars == <<blocks, object, root, phase, want, marking, sweep>>

-----------------------------------------------------------------------------
Header == {a \in Addr : size[a] # 0}
Block(a) == a..a + size[a] - 1
Allocated == {a \in Header : flag[a] # 2}

Chunks == 1..Len(chunk)
ChunkOf(a) == {c \in Chunks : chunk[c].base <= a /\ a < chunk[c].used}

(* Only the first Covered units of a chunk have a bit. *)
InBitmap(a) == \E c \in Chunks : /\ chunk[c].base <= a /\ a < chunk[c].end
                                  /\ a - chunk[c].base < Covered
WithBit(a) == {a} \cap {x \in Addr : InBitmap(x)}

ClassOf(n) == CHOOSE c \in Class :
    /\ c <= Len(Limit) => n <= Limit[c]
    /\ \A d \in 1..c - 1 : n > Limit[d]

NoRequest == [units |-> 0, slot |-> Nil, type |-> "atomic"]
Idle == [chunk |-> 0, at |-> 0, prev |-> Nil, list |-> <<>>]

TypeOK ==
    /\ chunk \in Seq([base : Addr, used : Nat, end : Nat])
    /\ size \in [Addr -> 0..Space]
    /\ flag \in [Addr -> 0..2]
    /\ type \in [Addr -> {"atomic", "traced"}]
    /\ payload \in [Addr -> SUBSET Word]
    /\ start \subseteq Addr
    /\ free \in [Class -> Seq(Addr)]
    /\ root \in [Slot -> Addr \cup {Nil}]
    /\ phase \in {"run", "mark", "sweep", "partition", "retry", "dead"}
    /\ want \in [units : Request \cup {0}, slot : Slot \cup {Nil}, type : {"atomic", "traced"}]
    /\ todo \subseteq Addr
    /\ stack \in Seq(Addr)
    /\ dense \in [Chunks -> [list : Seq(Addr), count : Nat]]
    /\ denseStack \in Seq(Chunks)
    /\ queued \subseteq Chunks
    /\ sweep \in [chunk : Nat, at : Nat, prev : Addr \cup {Nil}, list : Seq(Addr)]

Init ==
    /\ chunk = <<[base |-> 1, used |-> 1, end |-> 1 + ChunkUnits]>>
    /\ size = [a \in Addr |-> 0]
    /\ flag = [a \in Addr |-> 0]
    /\ type = [a \in Addr |-> "atomic"]
    /\ payload = [a \in Addr |-> {}]
    /\ start = {}
    /\ free = [c \in Class |-> <<>>]
    /\ root = [s \in Slot |-> Nil]
    /\ phase = "run"
    /\ want = NoRequest
    /\ todo = {} /\ stack = <<>>
    /\ dense = [c \in {1} |-> [list |-> <<>>, count |-> 0]]
    /\ denseStack = <<>> /\ queued = {}
    /\ sweep = Idle

-----------------------------------------------------------------------------
(* The allocator                                                           *)

LastChunk == chunk[Len(chunk)]
BumpFits(n) == LastChunk.used + n <= LastChunk.end

(* The block becomes an object of the program. *)
Deliver(a, s, t) ==
    /\ root' = [root EXCEPT ![s] = a]
    /\ type' = [type EXCEPT ![a] = t]

Bump(n, s, t) ==
    LET a == LastChunk.used IN
    /\ phase = "run"
    /\ BumpFits(n)
    /\ chunk' = [chunk EXCEPT ![Len(chunk)].used = a + n]
    /\ size' = [size EXCEPT ![a] = n]
    /\ flag' = [flag EXCEPT ![a] = 0]
    /\ start' = start \cup WithBit(a)
    /\ Deliver(a, s, t)
    /\ UNCHANGED <<payload, free, phase, want, marking, sweep>>

(* Where the first block of class c that has n units is, if any. *)
FirstFit(c, n) ==
    {i \in DOMAIN free[c] : /\ size[free[c][i]] >= n
                            /\ \A j \in 1..i - 1 : size[free[c][j]] < n}

(* Classes too small for n are skipped; the list without a bound comes last. *)
Candidate(n) ==
    {c \in Class : FirstFit(c, n) # {} /\ (c <= Len(Limit) => n <= Limit[c])}

FreeFits(n) == Candidate(n) # {}

(* What a reused block shows the collector.                                 *)
Scrubbed(x) == {}

WithoutIndex(list, i) == SubSeq(list, 1, i - 1) \o SubSeq(list, i + 1, Len(list))

(* The first fitting block of the first suitable list is unlinked; a tail   *)
(* worth keeping becomes a free block of its own; what is taken is scrubbed. *)
FreeTake(n, s, t) ==
    LET c == CHOOSE x \in Candidate(n) : \A y \in Candidate(n) : x <= y
        i == CHOOSE x \in FirstFit(c, n) : TRUE
        a == free[c][i]
        rest == size[a] - n
        b == a + n
        unlinked == [free EXCEPT ![c] = WithoutIndex(free[c], i)]
        taken == IF rest >= MinSplit THEN n ELSE size[a]
        Inside(x) == a <= x /\ x < a + taken
    IN
    /\ FreeFits(n)
    /\ IF rest >= MinSplit
       THEN /\ size' = [size EXCEPT ![a] = n, ![b] = rest]
            /\ flag' = [x \in Addr |-> IF x = b THEN 2 ELSE IF Inside(x) THEN 0 ELSE flag[x]]
            /\ start' = start \cup WithBit(b)
            /\ free' = [unlinked EXCEPT ![ClassOf(rest)] = <<b>> \o @]
       ELSE /\ flag' = [x \in Addr |-> IF Inside(x) THEN 0 ELSE flag[x]]
            /\ free' = unlinked
            /\ UNCHANGED <<size, start>>
    /\ payload' = [x \in Addr |-> IF Inside(x) THEN Scrubbed(x) ELSE payload[x]]
    /\ Deliver(a, s, t)
    /\ UNCHANGED chunk

Reuse(n, s, t) ==
    /\ phase = "run"
    /\ ~BumpFits(n)
    /\ FreeTake(n, s, t)
    /\ UNCHANGED <<phase, want, marking, sweep>>

RootWords == {root[x] : x \in Slot} \ {Nil}

(* The work lists are reset and every root word is offered to the marker. *)
StartCollection(n, s, t) ==
    /\ phase = "run"
    /\ ~BumpFits(n) /\ ~FreeFits(n)
    /\ want' = [units |-> n, slot |-> s, type |-> t]
    /\ phase' = "mark"
    /\ todo' = RootWords
    /\ stack' = <<>>
    /\ dense' = [c \in Chunks |-> [list |-> <<>>, count |-> 0]]
    /\ denseStack' = <<>> /\ queued' = {}
    /\ UNCHANGED <<blocks, object, root, sweep>>

RetryFree ==
    /\ phase = "retry"
    /\ FreeTake(want.units, want.slot, want.type)
    /\ phase' = "run"
    /\ want' = NoRequest
    /\ UNCHANGED <<marking, sweep>>

ChunkSizeFor(n) == IF n < ChunkUnits THEN ChunkUnits ELSE n
Mappable(n) == LastChunk.end + ChunkSizeFor(n) - 1 <= Space

(* What is left of the old chunk is never used. *)
MapChunk ==
    LET a == LastChunk.end
        n == want.units
    IN
    /\ phase = "retry"
    /\ ~FreeFits(n)
    /\ Mappable(n)
    /\ chunk' = Append(chunk, [base |-> a, used |-> a + n, end |-> a + ChunkSizeFor(n)])
    /\ dense' = [c \in 1..Len(chunk) + 1 |-> IF c \in Chunks THEN dense[c] ELSE [list |-> <<>>, count |-> 0]]
    /\ size' = [size EXCEPT ![a] = n]
    /\ flag' = [flag EXCEPT ![a] = 0]
    /\ start' = start \cup {a}
    /\ Deliver(a, want.slot, want.type)
    /\ phase' = "run"
    /\ want' = NoRequest
    /\ UNCHANGED <<payload, free, todo, stack, denseStack, queued, sweep>>

(* The system grants no more memory: its error code is used as an address. *)
OutOfMemory ==
    /\ phase = "retry"
    /\ ~FreeFits(want.units) /\ ~Mappable(want.units)
    /\ phase' = "dead"
    /\ UNCHANGED <<blocks, object, root, want, marking, sweep>>

-----------------------------------------------------------------------------
(* Marking                                                                 *)

StartBitIgnored(a) == {TRUE}

(* The bit tested for a.  Beyond the bitmap it is a bit of the payload of   *)
(* the chunk's first blocks: scrubbed, or data of the program.              *)
StartBit(a) == IF InBitmap(a) THEN {a \in start} ELSE BOOLEAN

(* Not in the used part of a chunk, no header, marked already, or free.     *)
Reject(a) ==
    /\ phase = "mark" /\ a \in todo
    /\ ChunkOf(a) = {} \/ FALSE \in StartBit(a) \/ flag[a] # 0
    /\ todo' = todo \ {a}
    /\ UNCHANGED <<blocks, object, root, phase, want, stack, dense, denseStack, queued, sweep>>

AcceptAgain(a) ==
    /\ phase = "mark" /\ a \in todo
    /\ ChunkOf(a) # {} /\ TRUE \in StartBit(a) /\ flag[a] # 2
    /\ todo' = todo \ {a}
    /\ flag' = [flag EXCEPT ![a] = 1]
    /\ UNCHANGED <<chunk, size, start, free, object, root, phase, want, sweep>>

Accept(a) ==
    /\ phase = "mark" /\ a \in todo
    /\ ChunkOf(a) # {} /\ TRUE \in StartBit(a) /\ flag[a] = 0
    /\ todo' = todo \ {a}
    /\ flag' = [flag EXCEPT ![a] = 1]
    /\ UNCHANGED <<chunk, size, start, free, object, root, phase, want, sweep>>

MarkAtomic(a) ==
    /\ Accept(a)
    /\ type[a] = "atomic"
    /\ UNCHANGED <<stack, dense, denseStack, queued>>

IsDense(a) == \E c \in ChunkOf(a) : dense[c].count >= Threshold

MarkSparse(a) ==
    /\ Accept(a)
    /\ type[a] = "traced"
    /\ ~IsDense(a)
    /\ stack' = <<a>> \o stack
    /\ dense' = [c \in Chunks |-> IF c \in ChunkOf(a) THEN [dense[c] EXCEPT !.count = @ + 1] ELSE dense[c]]
    /\ UNCHANGED <<denseStack, queued>>

Enqueue(c) ==
    /\ denseStack' = IF c \in queued THEN denseStack ELSE <<c>> \o denseStack
    /\ queued' = queued \cup {c}

(* A dense chunk keeps its work in its own list and is queued once.         *)
MarkDense(a) ==
    /\ Accept(a)
    /\ type[a] = "traced"
    /\ \E c \in ChunkOf(a) :
        /\ dense[c].count >= Threshold
        /\ dense' = [dense EXCEPT ![c].list = <<a>> \o @]
        /\ Enqueue(c)
    /\ UNCHANGED stack

(* The words of a traced layout that the marker is called with.             *)
Children(a) == {w[2] : w \in payload[a]}

TraceNext ==
    /\ phase = "mark" /\ todo = {} /\ stack # <<>>
    /\ todo' = Children(Head(stack))
    /\ stack' = Tail(stack)
    /\ UNCHANGED <<blocks, object, root, phase, want, dense, denseStack, queued, sweep>>

DenseTurn == phase = "mark" /\ todo = {} /\ stack = <<>> /\ denseStack # <<>>

TraceDense ==
    LET c == Head(denseStack) IN
    /\ DenseTurn
    /\ dense[c].list # <<>>
    /\ todo' = Children(Head(dense[c].list))
    /\ dense' = [dense EXCEPT ![c].list = Tail(@)]
    /\ UNCHANGED <<blocks, object, root, phase, want, stack, denseStack, queued, sweep>>

(* An exhausted chunk leaves the stack and may be queued again.             *)
RetireChunk ==
    LET c == Head(denseStack) IN
    /\ DenseTurn
    /\ dense[c].list = <<>>
    /\ denseStack' = Tail(denseStack)
    /\ queued' = queued \ {c}
    /\ UNCHANGED <<blocks, object, root, phase, want, todo, stack, dense, sweep>>

StartSweep ==
    /\ phase = "mark" /\ todo = {} /\ stack = <<>> /\ denseStack = <<>>
    /\ phase' = "sweep"
    /\ sweep' = [chunk |-> Len(chunk), at |-> LastChunk.base, prev |-> Nil, list |-> <<>>]
    /\ UNCHANGED <<blocks, object, root, want, marking>>

-----------------------------------------------------------------------------
(* Sweeping                                                                *)

NeverBehindFree == FALSE

(* The block before the one the sweep has reached is free and ends here.     *)
BehindFree == sweep.prev \in Header /\ sweep.prev + size[sweep.prev] = sweep.at

SweepTurn == phase = "sweep" /\ sweep.chunk # 0 /\ sweep.at < chunk[sweep.chunk].used

StillMarked(a) == flag
Unmarked(a) == [flag EXCEPT ![a] = 0]

SweepLive ==
    /\ SweepTurn
    /\ flag[sweep.at] = 1
    /\ flag' = Unmarked(sweep.at)
    /\ sweep' = [sweep EXCEPT !.at = @ + size[sweep.at], !.prev = Nil]
    /\ UNCHANGED <<chunk, size, start, free, object, root, phase, want, marking>>

SweepFree ==
    LET a == sweep.at IN
    /\ SweepTurn
    /\ flag[a] # 1
    /\ ~BehindFree
    /\ flag' = [flag EXCEPT ![a] = 2]
    /\ sweep' = [sweep EXCEPT !.at = a + size[a], !.prev = a, !.list = <<a>> \o @]
    /\ UNCHANGED <<chunk, size, start, free, object, root, phase, want, marking>>

Absorbed(prev, a) == [size EXCEPT ![prev] = @ + size[a], ![a] = 0]
BitKept(a) == start
BitCleared(a) == start \ WithBit(a)

(* A block behind a free block is absorbed; its bit goes with its header.   *)
Coalesce ==
    LET a == sweep.at IN
    /\ SweepTurn
    /\ flag[a] # 1
    /\ BehindFree
    /\ flag' = [flag EXCEPT ![a] = 2]
    /\ size' = Absorbed(sweep.prev, a)
    /\ start' = BitCleared(a)
    /\ sweep' = [sweep EXCEPT !.at = a + size[a]]
    /\ UNCHANGED <<chunk, free, object, root, phase, want, marking>>

NextChunk ==
    /\ phase = "sweep" /\ sweep.chunk # 0
    /\ sweep.at >= chunk[sweep.chunk].used
    /\ sweep' = [sweep EXCEPT !.chunk = @ - 1, !.prev = Nil,
                              !.at = IF sweep.chunk = 1 THEN 0 ELSE chunk[sweep.chunk - 1].base]
    /\ UNCHANGED <<blocks, object, root, phase, want, marking>>

(* The heads of the lists are reset, and each block of the sweep's list is  *)
(* prepended to its class.                                                  *)
StartPartition ==
    /\ phase = "sweep" /\ sweep.chunk = 0
    /\ free' = [c \in Class |-> <<>>]
    /\ phase' = "partition"
    /\ UNCHANGED <<chunk, size, flag, start, object, root, want, marking, sweep>>

Partition ==
    LET a == Head(sweep.list) IN
    /\ phase = "partition" /\ sweep.list # <<>>
    /\ free' = [free EXCEPT ![ClassOf(size[a])] = <<a>> \o @]
    /\ sweep' = [sweep EXCEPT !.list = Tail(@)]
    /\ UNCHANGED <<chunk, size, flag, start, object, root, phase, want, marking>>

EndCollection ==
    /\ phase = "partition" /\ sweep.list = <<>>
    /\ phase' = "retry"
    /\ sweep' = Idle
    /\ UNCHANGED <<blocks, object, root, want, marking>>

-----------------------------------------------------------------------------
(* The program between allocations                                         *)

Reference(a) == <<"ref", a>>

Drop(s) ==
    /\ phase = "run" /\ root[s] # Nil
    /\ root' = [root EXCEPT ![s] = Nil]
    /\ UNCHANGED <<blocks, object, phase, want, marking, sweep>>

Store(s, w) ==
    /\ phase = "run" /\ root[s] # Nil
    /\ type[root[s]] = "traced" /\ size[root[s]] > HeaderUnits
    /\ \/ w \in {Reference(root[x]) : x \in {y \in Slot : root[y] # Nil}}
       \/ w \in {<<"num", a>> : a \in Number}
    /\ payload' = [payload EXCEPT ![root[s]] = {w}]
    /\ UNCHANGED <<blocks, type, root, phase, want, marking, sweep>>

Load(s, x) ==
    /\ phase = "run" /\ root[s] # Nil
    /\ \E a \in Addr : /\ Reference(a) \in payload[root[s]]
                       /\ root' = [root EXCEPT ![x] = a]
    /\ UNCHANGED <<blocks, object, phase, want, marking, sweep>>

Allocate ==
    \E n \in Request, s \in Slot, t \in {"atomic", "traced"} :
        Bump(n, s, t) \/ Reuse(n, s, t) \/ StartCollection(n, s, t)

Mark == \E a \in Addr : Reject(a) \/ MarkAtomic(a) \/ MarkSparse(a) \/ MarkDense(a)

Collector ==
    \/ Mark \/ TraceNext \/ TraceDense \/ RetireChunk
    \/ StartSweep \/ SweepLive \/ SweepFree \/ Coalesce \/ NextChunk
    \/ StartPartition \/ Partition \/ EndCollection
    \/ RetryFree \/ MapChunk \/ OutOfMemory

Program ==
    \/ \E s \in Slot : Drop(s)
    \/ \E s \in Slot, w \in Word : Store(s, w)
    \/ \E s, x \in Slot : Load(s, x)

Next == Allocate \/ Collector \/ Program

Spec == Init /\ [][Next]_vars
FairSpec == Spec /\ WF_vars(Collector)

-----------------------------------------------------------------------------
(* Properties                                                              *)

(* In every used part the blocks follow one another without gap or overlap. *)
Tiled ==
    /\ \A c \in Chunks :
        /\ chunk[c].base <= chunk[c].used /\ chunk[c].used <= chunk[c].end
        /\ chunk[c].used # chunk[c].base => chunk[c].base \in Header
    /\ \A a \in Header : \E c \in ChunkOf(a) :
        /\ a + size[a] <= chunk[c].used
        /\ a + size[a] # chunk[c].used => a + size[a] \in Header
        /\ \A x \in Block(a) \ {a} : x \notin Header

(* Within the bitmap the start bits are exactly the headers.                *)
BitsAreHeaders == {a \in start : InBitmap(a)} = {a \in Header : InBitmap(a)}

(* Outside a sweep and the partition that ends it, the lists hold every     *)
(* free block once, in its class.                                           *)
FreeListsExact ==
    phase \notin {"sweep", "partition"} =>
        /\ \A c \in Class : \A i \in DOMAIN free[c] :
            /\ free[c][i] \in Header /\ flag[free[c][i]] = 2
            /\ ClassOf(size[free[c][i]]) = c
            /\ \A j \in 1..i - 1 : free[c][j] # free[c][i]
        /\ \A a \in Header : flag[a] = 2 => \E c \in Class : \E i \in DOMAIN free[c] : free[c][i] = a

(* Blocks, bits and lists describe the same heap: the walk of the sweep,    *)
(* the marker's test of a pointer and the free lists rely on each other.    *)
HeapConsistent == TypeOK /\ Tiled /\ BitsAreHeaders /\ FreeListsExact

(* The blocks the program can still reach: the least set that holds the     *)
(* targets of the roots and is closed under the references in payloads.     *)
Targets(a) == {w[2] : w \in {v \in payload[a] : v[1] = "ref"}}
Closed(S) ==
    /\ \A s \in Slot : root[s] \in Header => root[s] \in S
    /\ \A a \in S : Targets(a) \cap Header \subseteq S
Live == {a \in Header : \A S \in SUBSET Header : Closed(S) => a \in S}

(* No object the program can reach is ever free, and no reference of such   *)
(* an object, or of a root, leads anywhere but to an allocated block.       *)
ReachableSurvives ==
    /\ \A s \in Slot : root[s] # Nil => root[s] \in Allocated
    /\ \A a \in Live : a \in Allocated /\ Targets(a) \subseteq Allocated

(* The marker only writes headers, whatever words it is shown.              *)
OnlyHeadersMarked == \A a \in Addr : flag[a] = 1 => a \in Header

(* While marking, an object whose words have not been offered is in exactly *)
(* one work list, and a chunk with work of its own is queued.               *)
InLists(a) == \E i \in DOMAIN stack : stack[i] = a
InDense(a) == \E c \in Chunks : \E i \in DOMAIN dense[c].list : dense[c].list[i] = a
Gray == {a \in Header : InLists(a) \/ InDense(a)}

WorkIsQueued ==
    phase = "mark" =>
        /\ \A a \in Addr : ~(InLists(a) /\ InDense(a))
        /\ \A c \in Chunks : dense[c].list # <<>> => \E i \in DOMAIN denseStack : denseStack[i] = c
        /\ queued = {denseStack[i] : i \in DOMAIN denseStack}

(* The words of a marked object are marked, refused or still to be offered, *)
(* unless the object itself is in a work list.                              *)
NothingOverlooked ==
    phase = "mark" =>
        /\ \A s \in Slot : root[s] # Nil => root[s] \in todo \/ flag[root[s]] = 1
        /\ \A a \in Header \ Gray :
            flag[a] = 1 /\ type[a] = "traced" =>
                \A b \in Children(a) \cap Allocated : b \in todo \/ flag[b] = 1

(* Marking shows the marker every word it should see, and the marker writes *)
(* nothing but headers.                                                     *)
MarkingComplete == OnlyHeadersMarked /\ WorkIsQueued /\ NothingOverlooked

(* A collection leaves no two free blocks side by side in a chunk, and what *)
(* is not free is what a chain of words from the roots leads to.            *)
ShownTo(S) ==
    /\ \A s \in Slot : root[s] \in Allocated => root[s] \in S
    /\ \A a \in S : type[a] = "traced" => Children(a) \cap Allocated \subseteq S
Shown == {a \in Allocated : \A S \in SUBSET Allocated : ShownTo(S) => a \in S}
Collected ==
    phase = "retry" =>
        /\ \A c \in Chunks : \A a \in Header :
            c \in ChunkOf(a) /\ flag[a] = 2 /\ a + size[a] < chunk[c].used => flag[a + size[a]] # 2
        /\ Allocated = Shown

(* A collection ends: the allocation that needed it returns or memory is    *)
(* exhausted.                                                               *)
CollectionEnds == phase \in {"mark", "sweep", "partition", "retry"} ~> phase \in {"run", "dead"}

-----------------------------------------------------------------------------
(* The program sees the heap of AbstractHeap, whatever step a collection    *)
(* inside an allocation has reached.                                        *)
Abstract == INSTANCE AbstractHeap WITH
    object <- [a \in Allocated |-> [units |-> size[a], words |-> payload[a]]]

HeapOfObjects == Abstract!Spec
=============================================================================
