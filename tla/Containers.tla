----------------------------- MODULE Containers -----------------------------
(***************************************************************************)
(* The growable containers of the runtime: a Map or Set (a table searched  *)
(* in insertion order), a dynamic object (an open-addressed hash table     *)
(* that remembers its last slot) and an array. Each keeps its entries in a *)
(* block of the allocator; a bigger block is either fresh, and then zero,  *)
(* or reclaimed, and then full of what it held before.                     *)
(*                                                                         *)
(* A behaviour uses one container, chosen at the start. "given" is what    *)
(* the calls say it holds: the entries of a table in the order they were   *)
(* first set, or the elements of an array.                                 *)
(***************************************************************************)
EXTENDS Integers, Sequences, FiniteSets, SequencesExt

CONSTANTS
    Kind,           \* of the containers used: "collection", "object", "array", "values"
    Key,            \* the keys of collections, as their bits
    Same,           \* those that are one key though their bits differ: disjoint sets
    Name,           \* the keys of dynamic objects
    HashOf,         \* their hashes
    Element,        \* what is stored: numbers other than 0
    MaxIndex        \* the highest index of an array

Stale     == "stale"            \* what a reclaimed block holds
NoKey     == "no key"
Undefined == -1

ContainersAssumption ==
    /\ Kind \subseteq {"collection", "object", "array", "values"}
    /\ Same \subseteq SUBSET Key /\ \A s, t \in Same : s = t \/ s \cap t = {}
    /\ NoKey \notin Name /\ Key \cap (Name \cup {NoKey}) = {}
    /\ HashOf \in [Name -> Nat]
    /\ Element \subseteq Nat \ {0} /\ MaxIndex \in Nat

VARIABLES kind, count, slots, last, given, answer

vars == <<kind, count, slots, last, given, answer>>

First     == 4                  \* the capacity a container starts with

\* An array of numbers or references, or of values of any type.
IsArray == kind \in {"array", "values"}

Zero == IF IsArray THEN 0 ELSE [key |-> NoKey, value |-> 0]
Entry(k, v) == [key |-> k, value |-> v]

Capacity == Len(slots)

\* A new block of n slots, as the allocator hands it out.
Block(n, reclaimed, zero, stale) == [i \in 1..n |-> IF reclaimed THEN stale ELSE zero]

\* Slots from "low" on cleared: done only for a block that was reclaimed.
Cleared(block, low, reclaimed, zero) ==
    [i \in DOMAIN block |-> IF reclaimed /\ i > low THEN zero ELSE block[i]]

StaleSlot == IF IsArray THEN 99 ELSE Entry(Stale, 99)

NewBlock(n, reclaimed) == Cleared(Block(n, reclaimed, Zero, StaleSlot), 0, reclaimed, Zero)

Init ==
    /\ kind \in Kind
    /\ count = 0 /\ last = -1 /\ given = <<>> /\ answer = <<>>
    /\ \E reclaimed \in BOOLEAN : slots = NewBlock(First, reclaimed)

-----------------------------------------------------------------------------
(* What the calls say. *)

\* Keys that a Map takes for one.
IsSame(k, l) == k = l \/ \E s \in Same : {k, l} \subseteq s

GivenAt(k) == { i \in DOMAIN given : IsSame(given[i].key, k) }

GivenValue(k) == IF GivenAt(k) = {} THEN Undefined ELSE given[CHOOSE i \in GivenAt(k) : TRUE].value

GivenSet(k, v) ==
    given' = IF GivenAt(k) = {} THEN Append(given, Entry(k, v))
             ELSE [i \in DOMAIN given |-> IF i \in GivenAt(k) THEN Entry(given[i].key, v) ELSE given[i]]

-----------------------------------------------------------------------------
(* A Map or Set. *)

\* Identical bits, the two zeros, or two strings of one text.
emitAMD64JSKeyEq(k, l) == k = l \/ \E s \in Same : k \in s /\ l \in s

\* The lowest index of the key, or -1.
emitAMD64CollectionFind(k) ==
    LET hits == { i \in 1..count : emitAMD64JSKeyEq(slots[i].key, k) }
    IN  IF hits = {} THEN -1 ELSE CHOOSE i \in hits : \A j \in hits : i <= j

\* Twice the capacity, the used entries copied to the front.
CollectionGrown(reclaimed) ==
    LET new == NewBlock(2 * Capacity, reclaimed)
    IN  [i \in DOMAIN new |-> IF i <= count THEN slots[i] ELSE new[i]]

emitAMD64CollectionSet(k, v) ==
    LET at == emitAMD64CollectionFind(k)
    IN  /\ kind = "collection"
        /\ GivenSet(k, v)
        /\ IF at # -1
           THEN slots' = [slots EXCEPT ![at].value = v] /\ UNCHANGED count
           ELSE /\ count' = count + 1
                /\ IF count < Capacity
                   THEN slots' = [slots EXCEPT ![count + 1] = Entry(k, v)]
                   ELSE \E reclaimed \in BOOLEAN :
                            slots' = [CollectionGrown(reclaimed) EXCEPT ![count + 1] = Entry(k, v)]
        /\ answer' = <<>> /\ UNCHANGED <<kind, last>>

CollectionValue(k) ==
    LET at == emitAMD64CollectionFind(k) IN IF at = -1 THEN Undefined ELSE slots[at].value

emitAMD64CollectionHas(k) == emitAMD64CollectionFind(k) # -1

\* The later entries move one to the left, and the last slot is cleared.
Shifted(at) ==
    [i \in DOMAIN slots |-> IF i \in at..(count - 1) THEN slots[i + 1]
                            ELSE IF i = count THEN Zero ELSE slots[i]]

emitAMD64CollectionDelete(k) ==
    LET at == emitAMD64CollectionFind(k)
    IN  /\ kind = "collection"
        /\ given' = IF GivenAt(k) = {} THEN given ELSE RemoveAt(given, CHOOSE i \in GivenAt(k) : TRUE)
        /\ answer' = <<at # -1, GivenAt(k) # {}>>
        /\ IF at = -1 THEN UNCHANGED <<slots, count>>
           ELSE slots' = Shifted(at) /\ count' = count - 1
        /\ UNCHANGED <<kind, last>>

emitAMD64CollectionClear ==
    /\ kind = "collection"
    /\ slots' = [i \in DOMAIN slots |-> Zero] /\ count' = 0
    /\ given' = <<>> /\ answer' = <<>>
    /\ UNCHANGED <<kind, last>>

-----------------------------------------------------------------------------
(* A dynamic object. Slots are numbered from 0 here, as the hashes are.    *)

Slot(s, i) == s[i + 1]
Home(n, size) == HashOf[n] % size

\* The slots a search looks at: from the home of the name, around, until one is empty.
Probe(s, n) ==
    LET size == Len(s)
        Nth(j) == (Home(n, size) + j) % size
        Ends(j) == Slot(s, Nth(j)).key \in {NoKey, n}
        stops == { j \in 0..(size - 1) : Ends(j) }
    IN  IF stops = {} THEN [found |-> FALSE, at |-> -1]
        ELSE LET j == CHOOSE j \in stops : \A l \in stops : j <= l
             IN  [found |-> Slot(s, Nth(j)).key = n, at |-> Nth(j)]

\* Mutant of Cached: a hit on the hash alone is taken for the name.
CachedByHash(n) ==
    /\ last \in 0..(Capacity - 1)
    /\ Slot(slots, last).key # NoKey
    /\ HashOf[Slot(slots, last).key] = HashOf[n]

\* The slot of the last hit is tried first: its hash and its key must be those of the name.
Cached(n) ==
    /\ last \in 0..(Capacity - 1)
    /\ Slot(slots, last).key # NoKey
    /\ HashOf[Slot(slots, last).key] = HashOf[n]
    /\ Slot(slots, last).key = n

Put(s, i, n, v) == [s EXCEPT ![i + 1] = Entry(n, v)]

\* An entry in the first empty slot from its home.
Place(s, e) ==
    LET size == Len(s)
        free == { j \in 0..(size - 1) : Slot(s, (Home(e.key, size) + j) % size).key = NoKey }
        j == CHOOSE j \in free : \A l \in free : j <= l
    IN  Put(s, (Home(e.key, size) + j) % size, e.key, e.value)

Occupied(s) == { i \in DOMAIN s : s[i].key # NoKey }

\* Every entry of the old table in a table twice as large, in the order of the old slots.
Rehashed(reclaimed) ==
    LET table[i \in 0..Capacity] ==
            IF i = 0 THEN NewBlock(2 * Capacity, reclaimed)
            ELSE IF i \in Occupied(slots) THEN Place(table[i - 1], slots[i]) ELSE table[i - 1]
    IN  table[Capacity]

\* The value, and the slot it was found in remembered.
emitAMD64DynamicGet(n) ==
    LET p == Probe(slots, n)
    IN  /\ kind = "object"
        /\ IF Cached(n) THEN answer' = <<Slot(slots, last).value, GivenValue(n)>> /\ UNCHANGED last
           ELSE IF p.found THEN answer' = <<Slot(slots, p.at).value, GivenValue(n)>> /\ last' = p.at
           ELSE answer' = <<Undefined, GivenValue(n)>> /\ UNCHANGED last
        /\ UNCHANGED <<kind, count, slots, given>>

\* An entry more would be over three quarters of the table.
MustGrow == (count + 1) * 4 > Capacity * 3

\* A name that is there gets the value in its slot; a new one goes into the empty slot the
\* search ended at, or, when the table is too full, into a table of twice the size.
emitAMD64DynamicSet(n, v) ==
    LET p == Probe(slots, n)
        Insert(s) == LET q == Probe(s, n)
                     IN  slots' = Put(s, q.at, n, v) /\ last' = q.at /\ count' = count + 1
    IN  /\ kind = "object"
        /\ GivenSet(n, v)
        /\ IF Cached(n) THEN slots' = Put(slots, last, n, v) /\ UNCHANGED <<last, count>>
           ELSE IF p.found THEN slots' = Put(slots, p.at, n, v) /\ last' = p.at /\ UNCHANGED count
           ELSE IF p.at # -1 /\ ~MustGrow THEN Insert(slots)
           ELSE \E reclaimed \in BOOLEAN : Insert(Rehashed(reclaimed))
        /\ answer' = <<>> /\ UNCHANGED kind

\* The entry an enumeration gives at a position: the occupied slots, counted.
emitAMD64DynamicEntryAt(i) ==
    LET here == { p \in Occupied(slots) : Cardinality({ q \in Occupied(slots) : q < p }) = i }
    IN  IF i \in 0..(count - 1) /\ here # {} THEN slots[CHOOSE p \in here : TRUE]
        ELSE Entry(NoKey, Undefined)

-----------------------------------------------------------------------------
(* An array. An element never given that lies below one that was is a zero *)
(* in every array, though past the end of one of any values is undefined.  *)

\* What there is past the end, by the kind of the elements.
Outside == IF kind = "values" THEN Undefined ELSE 0

\* The smallest doubling of a capacity that holds the index.
Doubled(c, i) ==
    LET size[k \in 0..(i + 1)] == IF k = 0 THEN c ELSE 2 * size[k - 1]
        k == CHOOSE k \in 0..(i + 1) : i < size[k] /\ \A l \in 0..(k - 1) : size[l] <= i
    IN  size[k]

\* A larger block: the elements copied, then the rest cleared.
ArrayGrown(size, reclaimed) ==
    LET raw == Block(size, reclaimed, Zero, StaleSlot)
        copied == [i \in DOMAIN raw |-> IF i <= count THEN slots[i] ELSE raw[i]]
    IN  Cleared(copied, count, reclaimed, Zero)

Stored(i, v) ==
    IF i < Capacity THEN slots' = [slots EXCEPT ![i + 1] = v]
    ELSE \E reclaimed \in BOOLEAN :
             slots' = [ArrayGrown(Doubled(Capacity, i), reclaimed) EXCEPT ![i + 1] = v]

emitAMD64ArraySet(i, v) ==
    /\ IsArray
    /\ IF i < 0 THEN UNCHANGED <<slots, count, given>>
       ELSE /\ Stored(i, v)
            /\ count' = IF i < count THEN count ELSE i + 1
            /\ given' = [j \in 1..(IF i < Len(given) THEN Len(given) ELSE i + 1) |->
                            IF j = i + 1 THEN v ELSE IF j <= Len(given) THEN given[j] ELSE 0]
    /\ answer' = <<>> /\ UNCHANGED <<kind, last>>

emitAMD64ArrayPush(v) ==
    /\ IsArray /\ count <= MaxIndex
    /\ Stored(count, v) /\ count' = count + 1
    /\ given' = Append(given, v) /\ answer' = <<>>
    /\ UNCHANGED <<kind, last>>

\* An empty array gives what lies past its end.
emitAMD64ArrayPop ==
    /\ IsArray
    /\ IF count = 0 THEN answer' = <<Outside, Outside>> /\ UNCHANGED <<slots, count, given>>
       ELSE /\ answer' = <<slots[count], Last(given)>>
            /\ slots' = [slots EXCEPT ![count] = 0]
            /\ count' = count - 1
            /\ given' = Front(given)
    /\ UNCHANGED <<kind, last>>

emitAMD64ArrayGet(i) == IF i \in 0..(count - 1) THEN slots[i + 1] ELSE Outside

-----------------------------------------------------------------------------

Next ==
    \/ \E k \in Key : \/ \E v \in Element : emitAMD64CollectionSet(k, v)
                      \/ emitAMD64CollectionDelete(k)
    \/ emitAMD64CollectionClear
    \/ \E n \in Name : \/ \E v \in Element : emitAMD64DynamicSet(n, v)
                       \/ emitAMD64DynamicGet(n)
    \/ \E v \in Element : \/ \E i \in -1..MaxIndex : emitAMD64ArraySet(i, v)
                          \/ emitAMD64ArrayPush(v)
    \/ emitAMD64ArrayPop

Spec == Init /\ [][Next]_vars

-----------------------------------------------------------------------------

TypeOK ==
    /\ kind \in Kind
    /\ count \in 0..Capacity /\ last \in -1..(Capacity - 1)
    /\ Len(answer) \in {0, 2}

\* Every question a program can ask has the answer the calls before it call for.
Agrees ==
    /\ count = Len(given)
    /\ answer # <<>> => answer[1] = answer[2]
    /\ kind = "collection" => \A k \in Key : /\ CollectionValue(k) = GivenValue(k)
                                             /\ emitAMD64CollectionHas(k) = (GivenAt(k) # {})
    /\ kind = "collection" => \A i \in 1..count : slots[i] = given[i]
    /\ kind = "object" => { emitAMD64DynamicEntryAt(i) : i \in 0..(count - 1) } = { given[i] : i \in DOMAIN given }
    /\ IsArray => \A i \in 0..MaxIndex :
                      emitAMD64ArrayGet(i) = (IF i < Len(given) THEN given[i + 1] ELSE Outside)

\* What the collector reads beyond the entries is zero, and a search of a table ends.
NothingStale ==
    /\ kind = "collection" \/ IsArray => \A i \in (count + 1)..Capacity : slots[i] = Zero
    /\ kind = "object" => \E i \in 1..Capacity : slots[i].key = NoKey

(* A container answers as the calls before it call for, whichever blocks   *)
(* it has grown into: nothing a reclaimed block held shows, a deletion     *)
(* keeps the order, the remembered slot of a dynamic object never answers  *)
(* for another name or an older table, and a search always ends.           *)
ContainersAgree == Agrees /\ NothingStale

=============================================================================
