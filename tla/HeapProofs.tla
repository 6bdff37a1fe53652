----------------------------- MODULE HeapProofs -----------------------------
(***************************************************************************)
(* For any sizes of the address space, of chunks, of classes and of        *)
(* requests, the blocks, the start bits and the free lists describe one    *)
(* heap, whatever the marker is shown.                                     *)
(***************************************************************************)
EXTENDS Heap, SequenceTheorems, WellFoundedInduction, TLAPS

-----------------------------------------------------------------------------
(* Sequences and numbers                                                   *)

Elems(q) == {q[i] : i \in DOMAIN q}
Distinct(q) == \A i, j \in DOMAIN q : q[i] = q[j] => i = j

(* The least element of a set of numbers. *)
LEMMA NatMin ==
    ASSUME NEW T, T \subseteq Nat, T # {}
    PROVE  \E x \in T : \A y \in T : x <= y
  <1> DEFINE R == {ss \in Nat \X Nat : ss[1] < ss[2]}
  <1>1. IsWellFoundedOn(R, Nat)
    BY NatLessThanWellFounded DEF OpToRel
  <1>2. PICK x \in T : \A y \in T : ~(<<y, x>> \in R)
    <2> HIDE DEF R
    <2> QED BY <1>1, WFMin
  <1>3. ASSUME NEW y \in T PROVE x <= y
    <2>1. x \in Nat /\ y \in Nat
      OBVIOUS
    <2>2. <<y, x>> \in R <=> y < x
      BY <2>1
    <2> QED BY <1>2, <2>1, <2>2
  <1> QED BY <1>3

LEMMA ConsFacts ==
    ASSUME NEW S, NEW q \in Seq(S), NEW e \in S
    PROVE  /\ <<e>> \o q \in Seq(S)
           /\ Elems(<<e>> \o q) = {e} \cup Elems(q)
           /\ Distinct(q) /\ e \notin Elems(q) => Distinct(<<e>> \o q)
  <1> DEFINE p == <<e>> \o q
  <1>1. /\ p \in Seq(S) /\ Len(q) \in Nat /\ Len(p) = Len(q) + 1
        /\ p[1] = e /\ \A i \in 1 .. Len(q) : p[i + 1] = q[i]
    OBVIOUS
  <1> HIDE DEF p
  <1>2. DOMAIN p = 1 .. Len(q) + 1 /\ DOMAIN q = 1 .. Len(q)
    BY <1>1
  <1>3. \A i \in DOMAIN p : i = 1 \/ (i - 1 \in DOMAIN q /\ p[i] = q[i - 1])
    BY <1>1, <1>2
  <1>4. \A i \in DOMAIN q : i + 1 \in DOMAIN p /\ p[i + 1] = q[i]
    BY <1>1, <1>2
  <1>5. 1 \in DOMAIN p
    BY <1>1, <1>2
  <1>6. Elems(p) = {e} \cup Elems(q)
    <2>1. ASSUME NEW x \in Elems(p) PROVE x \in {e} \cup Elems(q)
      BY <1>1, <1>3, <2>1 DEF Elems
    <2>2. ASSUME NEW x \in {e} \cup Elems(q) PROVE x \in Elems(p)
      BY <1>1, <1>4, <1>5, <2>2 DEF Elems
    <2> QED BY <2>1, <2>2
  <1>7. ASSUME Distinct(q), e \notin Elems(q) PROVE Distinct(p)
    <2> SUFFICES ASSUME NEW i \in DOMAIN p, NEW j \in DOMAIN p, p[i] = p[j] PROVE i = j
      BY DEF Distinct
    <2>1. i \in Int /\ j \in Int
      BY <1>2
    <2>2. \A k \in DOMAIN q : q[k] # e
      BY <1>7 DEF Elems
    <2>3. CASE i = 1
      BY <1>1, <1>3, <2>2, <2>3
    <2>4. CASE j = 1
      BY <1>1, <1>3, <2>2, <2>4
    <2>5. CASE i # 1 /\ j # 1
      <3>1. i - 1 \in DOMAIN q /\ j - 1 \in DOMAIN q /\ q[i - 1] = q[j - 1]
        BY <1>3, <2>5
      <3>2. i - 1 = j - 1
        BY <1>7, <3>1 DEF Distinct
      <3> QED BY <2>1, <3>2
    <2> QED BY <2>3, <2>4, <2>5
  <1> QED BY <1>1, <1>6, <1>7 DEF p

LEMMA TailFacts ==
    ASSUME NEW S, NEW q \in Seq(S), q # <<>>
    PROVE  /\ Head(q) \in S /\ Tail(q) \in Seq(S)
           /\ Head(q) \in Elems(q)
           /\ Elems(q) = {Head(q)} \cup Elems(Tail(q))
           /\ Distinct(q) => Distinct(Tail(q)) /\ Head(q) \notin Elems(Tail(q))
  <1> DEFINE p == Tail(q)
  <1>1. /\ Len(q) \in Nat \ {0} /\ p \in Seq(S) /\ Len(p) = Len(q) - 1
        /\ Head(q) = q[1] /\ Head(q) \in S
        /\ \A i \in 1 .. Len(p) : p[i] = q[i + 1]
    OBVIOUS
  <1> HIDE DEF p
  <1>2. DOMAIN p = 1 .. Len(q) - 1 /\ DOMAIN q = 1 .. Len(q)
    BY <1>1
  <1>3. \A i \in DOMAIN q : i = 1 \/ (i - 1 \in DOMAIN p /\ q[i] = p[i - 1])
    BY <1>1, <1>2
  <1>4. \A i \in DOMAIN p : i + 1 \in DOMAIN q /\ i + 1 # 1 /\ p[i] = q[i + 1]
    BY <1>1, <1>2
  <1>5. 1 \in DOMAIN q
    BY <1>1, <1>2
  <1>6. Elems(q) = {Head(q)} \cup Elems(p)
    <2>1. ASSUME NEW x \in Elems(q) PROVE x \in {Head(q)} \cup Elems(p)
      BY <1>1, <1>3, <2>1 DEF Elems
    <2>2. ASSUME NEW x \in {Head(q)} \cup Elems(p) PROVE x \in Elems(q)
      BY <1>1, <1>4, <1>5, <2>2 DEF Elems
    <2> QED BY <2>1, <2>2
  <1>7. ASSUME Distinct(q) PROVE Distinct(p) /\ Head(q) \notin Elems(p)
    <2>1. Head(q) \notin Elems(p)
      BY <1>1, <1>4, <1>5, <1>7 DEF Distinct, Elems
    <2>2. ASSUME NEW i \in DOMAIN p, NEW j \in DOMAIN p, p[i] = p[j] PROVE i = j
      <3>1. i + 1 = j + 1
        BY <1>4, <1>7, <2>2 DEF Distinct
      <3>2. i \in Int /\ j \in Int
        BY <1>2
      <3> QED BY <3>1, <3>2
    <2> QED BY <2>1, <2>2 DEF Distinct
  <1> QED BY <1>1, <1>6, <1>7 DEF p

LEMMA WithoutFacts ==
    ASSUME NEW S, NEW q \in Seq(S), NEW i \in DOMAIN q
    PROVE  /\ WithoutIndex(q, i) \in Seq(S)
           /\ Distinct(q) => /\ Elems(WithoutIndex(q, i)) = Elems(q) \ {q[i]}
                             /\ Distinct(WithoutIndex(q, i))
  <1> DEFINE p == WithoutIndex(q, i)
             l == SubSeq(q, 1, i - 1)
             r == SubSeq(q, i + 1, Len(q))
  <1>1. Len(q) \in Nat /\ DOMAIN q = 1 .. Len(q) /\ i \in 1 .. Len(q)
    OBVIOUS
  <1>2. /\ l \in Seq(S) /\ Len(l) = i - 1
        /\ \A j \in 1 .. i - 1 : l[j] = q[j]
    BY <1>1
  <1>3. /\ r \in Seq(S) /\ Len(r) = Len(q) - i
        /\ \A j \in 1 .. Len(q) - i : r[j] = q[i + j]
    BY <1>1
  <1>4. p = l \o r
    BY DEF WithoutIndex
  <1> HIDE DEF p, l, r
  <1>5. /\ p \in Seq(S) /\ Len(p) = Len(q) - 1
        /\ \A j \in 1 .. i - 1 : p[j] = l[j]
        /\ \A j \in 1 .. Len(q) - i : p[i - 1 + j] = r[j]
    <2>1. /\ l \o r \in Seq(S) /\ Len(l \o r) = Len(l) + Len(r)
          /\ \A j \in 1 .. Len(l) + Len(r) : (l \o r)[j] = IF j <= Len(l) THEN l[j] ELSE r[j - Len(l)]
      BY <1>2, <1>3, ConcatProperties
    <2>2. ASSUME NEW j \in 1 .. i - 1 PROVE p[j] = l[j]
      BY <1>1, <1>2, <1>3, <1>4, <2>1
    <2>3. ASSUME NEW j \in 1 .. Len(q) - i PROVE p[i - 1 + j] = r[j]
      <3>1. i - 1 + j \in 1 .. Len(l) + Len(r) /\ ~(i - 1 + j <= Len(l)) /\ (i - 1 + j) - Len(l) = j
        BY <1>1, <1>2, <1>3
      <3> QED BY <1>4, <2>1, <3>1
    <2>4. p \in Seq(S)
      BY ONLY <1>4, <2>1
    <2>5. Len(p) = Len(l) + Len(r)
      BY ONLY <1>4, <2>1
    <2>6. Len(p) = Len(q) - 1
      BY ONLY <1>1, <1>2, <1>3, <2>5
    <2> QED BY ONLY <2>2, <2>3, <2>4, <2>6
  <1>6. DOMAIN p = 1 .. Len(q) - 1
    BY <1>1, <1>5
  <1>7. \A j \in DOMAIN p : j < i => j \in DOMAIN q /\ p[j] = q[j]
    BY <1>1, <1>2, <1>5, <1>6
  <1>8. ASSUME NEW j \in DOMAIN p, ~(j < i) PROVE j + 1 \in DOMAIN q /\ p[j] = q[j + 1]
    <2>1. j - (i - 1) \in 1 .. Len(q) - i /\ i - 1 + (j - (i - 1)) = j /\ i + (j - (i - 1)) = j + 1
      BY <1>1, <1>6, <1>8
    <2>2. j + 1 \in DOMAIN q
      BY <1>1, <1>6, <1>8
    <2> QED BY <1>3, <1>5, <2>1, <2>2
  <1>9. ASSUME NEW j \in DOMAIN q, j # i
        PROVE  \E k \in DOMAIN p : p[k] = q[j]
    <2>1. CASE j < i
      <3>1. j \in DOMAIN p
        BY <1>1, <1>6, <2>1
      <3> QED BY <1>7, <2>1, <3>1
    <2>2. CASE ~(j < i)
      <3>1. j - 1 \in DOMAIN p /\ ~(j - 1 < i) /\ (j - 1) + 1 = j
        BY <1>1, <1>6, <1>9, <2>2
      <3> QED BY <1>8, <3>1
    <2> QED BY <2>1, <2>2
  <1>10. ASSUME NEW j \in DOMAIN p
         PROVE  \E k \in DOMAIN q : k # i /\ p[j] = q[k]
    <2>1. j \in Int /\ i \in Int
      BY <1>1, <1>6
    <2> QED BY <1>7, <1>8, <2>1
  <1>11. ASSUME Distinct(q) PROVE Elems(p) = Elems(q) \ {q[i]} /\ Distinct(p)
    <2>1. Elems(p) \subseteq Elems(q) \ {q[i]}
      BY <1>10, <1>11 DEF Elems, Distinct
    <2>2. Elems(q) \ {q[i]} \subseteq Elems(p)
      BY <1>9 DEF Elems
    <2>3. ASSUME NEW j \in DOMAIN p, NEW k \in DOMAIN p, p[j] = p[k] PROVE j = k
      <3>1. j \in Int /\ k \in Int /\ i \in Int
        BY <1>1, <1>6
      <3>2. CASE j < i /\ k < i
        BY <1>7, <1>11, <2>3, <3>2 DEF Distinct
      <3>3. CASE ~(j < i) /\ ~(k < i)
        <4>1. j + 1 = k + 1
          BY <1>8, <1>11, <2>3, <3>3 DEF Distinct
        <4> QED BY <3>1, <4>1
      <3>4. CASE j < i /\ ~(k < i)
        <4>1. j = k + 1
          BY <1>7, <1>8, <1>11, <2>3, <3>4 DEF Distinct
        <4> QED BY <3>1, <3>4, <4>1
      <3>5. CASE ~(j < i) /\ k < i
        <4>1. k = j + 1
          BY <1>7, <1>8, <1>11, <2>3, <3>5 DEF Distinct
        <4> QED BY <3>1, <3>5, <4>1
      <3> QED BY <3>2, <3>3, <3>4, <3>5
    <2> QED BY <2>1, <2>2, <2>3 DEF Distinct
  <1> QED BY <1>5, <1>11 DEF p

(* Every number of units has its class. *)
LEMMA ClassOfIsClass ==
    ASSUME NEW n \in Nat
    PROVE  ClassOf(n) \in Class
  <1> DEFINE T == {c \in Class : c <= Len(Limit) => n <= Limit[c]}
  <1>1. Len(Limit) \in Nat /\ \A c \in 1 .. Len(Limit) : Limit[c] \in Nat
    BY HeapAssumption
  <1>2. Len(Limit) + 1 \in T /\ T \subseteq Nat
    BY <1>1 DEF Class
  <1>3. PICK c \in T : \A d \in T : c <= d
    <2> HIDE DEF T
    <2> QED BY <1>2, NatMin
  <1>4. \A d \in 1 .. c - 1 : n > Limit[d]
    BY <1>1, <1>3 DEF Class
  <1>5. c \in Class /\ (c <= Len(Limit) => n <= Limit[c])
    BY <1>3
  <1> HIDE DEF T
  <1> QED BY <1>4, <1>5 DEF ClassOf

-----------------------------------------------------------------------------
(* The invariant                                                           *)

(* The chunks are disjoint and lie in the address space in the order in     *)
(* which they were mapped.                                                  *)
ChunksInOrder ==
    /\ chunk # <<>>
    /\ \A c \in Chunks : /\ chunk[c].base <= chunk[c].used /\ chunk[c].used <= chunk[c].end
                         /\ chunk[c].base < chunk[c].end /\ chunk[c].end <= Space + 1
    /\ \A c, d \in Chunks : c < d => chunk[c].end <= chunk[d].base

BitsExact == start = {a \in Header : InBitmap(a)}

Laid == ChunksInOrder /\ Tiled /\ BitsExact

Free == {a \in Header : flag[a] = 2}
OfClass(c) == {a \in Free : ClassOf(size[a]) = c}

(* While the sweep's list is partitioned, what is left of it is missing.    *)
ListsExact ==
    phase # "sweep" =>
        \A c \in Class : /\ Distinct(free[c])
                         /\ Elems(free[c]) = OfClass(c) \ Elems(sweep.list)

(* The sweep goes through the chunks from the last to the first.            *)
Swept(a) ==
    \/ sweep.chunk = 0
    \/ chunk[sweep.chunk].end <= a
    \/ chunk[sweep.chunk].base <= a /\ a < sweep.at

AtBoundary ==
    /\ sweep.chunk \in Chunks
    /\ chunk[sweep.chunk].base <= sweep.at /\ sweep.at <= chunk[sweep.chunk].used
    /\ sweep.at # chunk[sweep.chunk].used => sweep.at \in Header
    /\ sweep.prev # Nil => /\ sweep.prev \in Free
                           /\ chunk[sweep.chunk].base <= sweep.prev
                           /\ sweep.prev + size[sweep.prev] = sweep.at

SweepInPlace ==
    /\ phase \notin {"sweep", "partition"} => sweep = Idle
    /\ phase = "partition" => sweep.chunk = 0 /\ Elems(sweep.list) \subseteq Free
    /\ phase = "sweep" => Elems(sweep.list) = {a \in Free : Swept(a)}
    /\ phase = "sweep" /\ sweep.chunk # 0 => AtBoundary
    /\ Distinct(sweep.list)

WantKept == phase # "run" => want.units \in Request /\ want.slot \in Slot

BlocksInv == TypeOK /\ Laid /\ ListsExact /\ SweepInPlace /\ WantKept

-----------------------------------------------------------------------------
(* Places                                                                  *)

LEMMA Numbers ==
    ASSUME TypeOK, ChunksInOrder
    PROVE  /\ Len(chunk) \in Nat \ {0} /\ Len(chunk) \in Chunks
           /\ \A c \in Chunks : /\ chunk[c].base \in Nat \ {0} /\ chunk[c].used \in Nat
                                /\ chunk[c].end \in Nat /\ c \in Nat
           /\ \A a \in Addr : a \in Nat \ {0} /\ size[a] \in Nat /\ flag[a] \in 0..2
  <1>1. chunk \in Seq([base : Addr, used : Nat, end : Nat]) /\ chunk # <<>>
    BY DEF TypeOK, ChunksInOrder
  <1>2. /\ Len(chunk) \in Nat \ {0}
        /\ \A c \in 1..Len(chunk) : chunk[c] \in [base : Addr, used : Nat, end : Nat]
    <2> DEFINE S == [base : Addr, used : Nat, end : Nat]
    <2>1. chunk \in Seq(S) /\ chunk # <<>>
      BY <1>1
    <2> HIDE DEF S
    <2>2. Len(chunk) \in Nat \ {0} /\ \A c \in 1..Len(chunk) : chunk[c] \in S
      BY <2>1
    <2> QED BY <2>2 DEF S
  <1>3. \A a \in Addr : a \in Nat \ {0}
    BY HeapAssumption DEF Addr
  <1>4. \A a \in Addr : size[a] \in Nat /\ flag[a] \in 0..2
    BY HeapAssumption DEF TypeOK
  <1> QED BY <1>2, <1>3, <1>4 DEF Chunks

LEMMA OneChunk ==
    ASSUME TypeOK, ChunksInOrder, NEW a \in Int,
           NEW c \in Chunks, NEW d \in Chunks,
           chunk[c].base <= a, a < chunk[c].end, chunk[d].base <= a, a < chunk[d].end
    PROVE  c = d
  <1>1. c < d => chunk[c].end <= chunk[d].base
    BY DEF ChunksInOrder
  <1>2. d < c => chunk[d].end <= chunk[c].base
    BY DEF ChunksInOrder
  <1> QED BY <1>1, <1>2, Numbers

(* Where a block lies.                                                      *)
LEMMA InChunk ==
    ASSUME TypeOK, ChunksInOrder, Tiled, NEW a \in Header
    PROVE  \E c \in Chunks :
             /\ ChunkOf(a) = {c}
             /\ chunk[c].base <= a /\ a < chunk[c].used /\ a < chunk[c].end
             /\ a + size[a] <= chunk[c].used /\ a + size[a] <= Space + 1
             /\ a + size[a] # chunk[c].used => a + size[a] \in Header
  <1>1. PICK c \in ChunkOf(a) :
            /\ a + size[a] <= chunk[c].used
            /\ a + size[a] # chunk[c].used => a + size[a] \in Header
    BY DEF Tiled
  <1>2. a \in Nat /\ size[a] \in Nat
    BY Numbers DEF Header
  <1>3. c \in Chunks /\ chunk[c].base <= a /\ a < chunk[c].used
    BY <1>1 DEF ChunkOf
  <1>4. /\ chunk[c].used <= chunk[c].end /\ chunk[c].end <= Space + 1
        /\ chunk[c].used \in Nat /\ chunk[c].end \in Nat /\ Space \in Nat
    BY <1>3, Numbers, HeapAssumption DEF ChunksInOrder
  <1>5. ASSUME NEW d \in ChunkOf(a) PROVE d = c
    <2>1. d \in Chunks /\ chunk[d].base <= a /\ a < chunk[d].used
      BY <1>5 DEF ChunkOf
    <2>2. chunk[d].used <= chunk[d].end /\ chunk[d].used \in Nat /\ chunk[d].end \in Nat
      BY <2>1, Numbers DEF ChunksInOrder
    <2> QED BY <1>2, <1>3, <1>4, <2>1, <2>2, OneChunk
  <1>6. ChunkOf(a) = {c}
    BY <1>1, <1>5
  <1> QED BY <1>1, <1>2, <1>3, <1>4, <1>6

(* Blocks do not overlap.                                                   *)
LEMMA Apart ==
    ASSUME TypeOK, ChunksInOrder, Tiled, NEW a \in Header, NEW b \in Header, a < b
    PROVE  a + size[a] <= b
  <1>1. /\ a \in Nat /\ size[a] \in Nat /\ b \in Nat /\ size[b] \in Nat
    BY Numbers DEF Header
  <1>2. \A x \in Block(a) \ {a} : x \notin Header
    BY DEF Tiled
  <1>3. b \notin Block(a)
    BY <1>1, <1>2
  <1> QED BY <1>1, <1>3 DEF Block

(* A block lies before what follows its chunk's blocks.                     *)
LEMMA Before ==
    ASSUME TypeOK, ChunksInOrder, Tiled, NEW a \in Header, NEW c \in Chunks,
           a < chunk[c].end
    PROVE  a + size[a] <= chunk[c].used
  <1>1. PICK d \in Chunks : /\ chunk[d].base <= a /\ a < chunk[d].end /\ a + size[a] <= chunk[d].used
    BY InChunk
  <1>2. c < d => chunk[c].end <= chunk[d].base
    BY DEF ChunksInOrder
  <1>3. d < c => chunk[d].end <= chunk[c].base
    BY DEF ChunksInOrder
  <1>4. /\ chunk[c].base <= chunk[c].used /\ chunk[d].used <= chunk[d].end
    BY DEF ChunksInOrder
  <1>5. /\ a \in Nat /\ size[a] \in Nat
    BY Numbers DEF Header
  <1> QED BY <1>1, <1>2, <1>3, <1>4, <1>5, Numbers, SMTT(30)

(* Every block lies before the end of the last chunk's blocks.              *)
LEMMA BeforeLast ==
    ASSUME TypeOK, ChunksInOrder, Tiled, NEW a \in Header
    PROVE  a + size[a] <= LastChunk.used
  <1>1. PICK d \in Chunks : a < chunk[d].end
    BY InChunk
  <1> DEFINE m == Len(chunk)
  <1>2. m \in Chunks /\ m \in Nat /\ d \in Nat /\ d <= m
    BY Numbers DEF Chunks
  <1>3. d < m => chunk[d].end <= chunk[m].base
    BY <1>2 DEF ChunksInOrder
  <1>4. chunk[m].base <= chunk[m].used /\ chunk[m].used <= chunk[m].end
    BY <1>2 DEF ChunksInOrder
  <1>5. a \in Nat
    BY Numbers DEF Header
  <1>6. a < chunk[m].end
    BY <1>1, <1>2, <1>3, <1>4, <1>5, Numbers
  <1> HIDE DEF m
  <1>7. a + size[a] <= chunk[m].used
    BY <1>2, <1>6, Before
  <1> QED BY <1>7 DEF LastChunk, m

-----------------------------------------------------------------------------
(* What the operations do to the blocks                                    *)

(* A block a of n units, behind all others, in chunk k: the last one, or    *)
(* one that is new.                                                         *)
LEMMA BlockAdded ==
    ASSUME TypeOK, Laid, ChunksInOrder', NEW a \in Addr, NEW n \in Nat \ {0},
           NEW k \in Chunks', Chunks \subseteq Chunks',
           \A c \in Chunks' : chunk'[c].base \in Nat /\ chunk'[c].used \in Nat,
           \A c \in Chunks' : c # k => c \in Chunks /\ chunk'[c] = chunk[c],
           \A x \in Header : x + size[x] <= a,
           chunk'[k].base <= a, chunk'[k].used = a + n,
           IF k \in Chunks THEN chunk'[k].base = chunk[k].base /\ chunk[k].used = a
                           ELSE chunk'[k].base = a,
           \A x \in Addr : size'[x] = IF x = a THEN n ELSE size[x],
           \A x \in Header : InBitmap(x)' <=> InBitmap(x),
           start' = start \cup {x \in {a} : InBitmap(a)'}
    PROVE  Laid' /\ Header' = Header \cup {a} /\ a \notin Header
  <1>1. ChunksInOrder /\ Tiled /\ BitsExact
    BY DEF Laid
  <1>2. /\ \A x \in Header : x \in Addr /\ x \in Nat /\ size[x] \in Nat \ {0}
        /\ a \in Nat
    BY <1>1, Numbers DEF Header
  <1>3. a \notin Header
    BY <1>2
  <1>4. Header' = Header \cup {a}
    BY <1>2 DEF Header
  <1>5. \A x \in Header : size'[x] = size[x]
    BY <1>2, <1>3
  <1>6. size'[a] = n
    OBVIOUS
  <1>7. ASSUME NEW c \in Chunks'
        PROVE  /\ chunk'[c].base <= chunk'[c].used /\ chunk'[c].used <= chunk'[c].end
               /\ chunk'[c].used # chunk'[c].base => chunk'[c].base \in Header'
    <2>1. chunk'[c].base <= chunk'[c].used /\ chunk'[c].used <= chunk'[c].end
      BY <1>7 DEF ChunksInOrder
    <2>2. CASE c # k
      BY <1>1, <1>4, <2>1, <2>2 DEF Tiled
    <2>3. CASE c = k /\ k \in Chunks
      BY <1>1, <1>4, <2>1, <2>3 DEF Tiled
    <2>4. CASE c = k /\ k \notin Chunks
      BY <1>4, <2>1, <2>4
    <2> QED BY <2>1, <2>2, <2>3, <2>4
  <1>8. ASSUME NEW x \in Header'
        PROVE  \E c \in ChunkOf(x)' :
                 /\ x + size'[x] <= chunk'[c].used
                 /\ x + size'[x] # chunk'[c].used => x + size'[x] \in Header'
                 /\ \A y \in Block(x)' \ {x} : y \notin Header'
    <2>1. CASE x = a
      <3>1. k \in ChunkOf(x)'
        BY <1>2, <2>1 DEF ChunkOf
      <3>2. ASSUME NEW y \in Block(x)' \ {x} PROVE y \notin Header'
        <4>1. y \in Int /\ y > a
          BY <1>2, <1>6, <2>1 DEF Block
        <4> QED BY <1>2, <1>4, <4>1
      <3> QED BY <1>2, <1>6, <2>1, <3>1, <3>2
    <2>2. CASE x \in Header
      <3>1. PICK c \in Chunks : /\ chunk[c].base <= x /\ x < chunk[c].used
                                /\ x + size[x] <= chunk[c].used
                                /\ x + size[x] # chunk[c].used => x + size[x] \in Header
        BY <1>1, <2>2, InChunk
      <3>2. c \in Chunks' /\ chunk'[c].base = chunk[c].base
        BY <3>1
      <3>3. chunk'[c].used = chunk[c].used \/ (chunk[c].used = a /\ chunk'[c].used = a + n)
        BY <3>1
      <3>4. c \in ChunkOf(x)'
        BY <1>2, <2>2, <3>1, <3>2, <3>3 DEF ChunkOf
      <3>5. x + size'[x] <= chunk'[c].used
        BY <1>2, <1>5, <2>2, <3>1, <3>3
      <3>6. x + size'[x] # chunk'[c].used => x + size'[x] \in Header'
        BY <1>4, <1>5, <2>2, <3>1, <3>3
      <3>7. ASSUME NEW y \in Block(x)' \ {x} PROVE y \notin Header'
        <4>1. y \in Block(x) \ {x} /\ y < x + size[x] /\ y \in Int
          BY <1>2, <1>5, <2>2 DEF Block
        <4>2. y \notin Header
          BY <1>1, <2>2, <4>1 DEF Tiled
        <4>3. y # a
          BY <1>2, <2>2, <4>1
        <4> QED BY <1>4, <4>2, <4>3
      <3> QED BY <3>4, <3>5, <3>6, <3>7
    <2> QED BY <1>4, <2>1, <2>2
  <1>9. Tiled'
    BY <1>7, <1>8 DEF Tiled
  <1>10. BitsExact'
    BY <1>1, <1>4 DEF BitsExact
  <1> QED BY <1>3, <1>4, <1>9, <1>10 DEF Laid

(* The chunks stay as they are. *)
LEMMA SameChunks ==
    ASSUME UNCHANGED chunk
    PROVE  /\ Chunks' = Chunks
           /\ ChunksInOrder => ChunksInOrder'
           /\ \A x : (InBitmap(x)' <=> InBitmap(x)) /\ ChunkOf(x)' = ChunkOf(x)
  BY DEF Chunks, ChunksInOrder, InBitmap, ChunkOf

(* Block a is split: its last size[a] - n units become a block.             *)
LEMMA BlockSplit ==
    ASSUME TypeOK, Laid, NEW a \in Header, NEW n \in Nat \ {0}, n < size[a],
           UNCHANGED chunk,
           \A x \in Addr : size'[x] = IF x = a THEN n ELSE IF x = a + n THEN size[a] - n ELSE size[x],
           start' = start \cup WithBit(a + n)
    PROVE  /\ Laid' /\ Header' = Header \cup {a + n}
           /\ a + n \in Addr \ Header
  <1> DEFINE b == a + n
  <1>1. ChunksInOrder /\ Tiled /\ BitsExact
    BY DEF Laid
  <1>2. /\ \A x \in Header : x \in Addr /\ x \in Nat \ {0} /\ size[x] \in Nat \ {0}
        /\ Space \in Nat
    BY <1>1, Numbers, HeapAssumption DEF Header
  <1>3. PICK c \in Chunks :
             /\ chunk[c].base <= a /\ a < chunk[c].used
             /\ a + size[a] <= chunk[c].used /\ a + size[a] <= Space + 1
             /\ a + size[a] # chunk[c].used => a + size[a] \in Header
    BY <1>1, InChunk
  <1>4. chunk[c].used \in Nat /\ chunk[c].base \in Nat
    BY <1>1, Numbers
  <1>5. b \in Nat /\ a < b /\ b < a + size[a] /\ b \in Addr
    BY <1>2, <1>3 DEF Addr
  <1>6. \A y \in Header : y <= a \/ a + size[a] <= y
    BY <1>1, <1>2, Apart
  <1>7. b \notin Header
    BY <1>2, <1>5, <1>6
  <1>8. Header' = Header \cup {b}
    BY <1>2, <1>5 DEF Header
  <1>9. /\ size'[a] = n /\ size'[b] = size[a] - n
        /\ \A x \in Header : x # a => size'[x] = size[x]
    BY <1>2, <1>5, <1>7
  <1>10. \A x : ChunkOf(x)' = ChunkOf(x)
    BY SameChunks
  <1>11. ASSUME NEW d \in Chunks'
         PROVE  /\ chunk'[d].base <= chunk'[d].used /\ chunk'[d].used <= chunk'[d].end
                /\ chunk'[d].used # chunk'[d].base => chunk'[d].base \in Header'
    BY <1>1, <1>8, SameChunks DEF Tiled
  <1>12. ASSUME NEW x \in Header'
         PROVE  \E d \in ChunkOf(x)' :
                  /\ x + size'[x] <= chunk'[d].used
                  /\ x + size'[x] # chunk'[d].used => x + size'[x] \in Header'
                  /\ \A y \in Block(x)' \ {x} : y \notin Header'
    <2>1. CASE x = a
      <3>1. c \in ChunkOf(x)'
        BY <1>3, <1>10, <2>1 DEF ChunkOf
      <3>2. x + size'[x] = b /\ b <= chunk'[c].used /\ b \in Header'
        BY <1>2, <1>3, <1>4, <1>5, <1>8, <1>9, <2>1
      <3>3. ASSUME NEW y \in Block(x)' \ {x} PROVE y \notin Header'
        <4>1. y \in Int /\ a < y /\ y < b
          BY <1>2, <1>9, <2>1 DEF Block
        <4> QED BY <1>2, <1>5, <1>6, <1>8, <4>1
      <3> QED BY <3>1, <3>2, <3>3
    <2>2. CASE x = b
      <3>1. c \in ChunkOf(x)'
        BY <1>2, <1>3, <1>4, <1>5, <1>10, <2>2 DEF ChunkOf
      <3>2. x + size'[x] = a + size[a]
        BY <1>2, <1>5, <1>9, <2>2
      <3>3. x + size'[x] # chunk'[c].used => x + size'[x] \in Header'
        BY <1>3, <1>8, <3>2
      <3>4. ASSUME NEW y \in Block(x)' \ {x} PROVE y \notin Header'
        <4>1. y \in Int /\ b < y /\ y < a + size[a]
          BY <1>2, <1>5, <1>9, <2>2 DEF Block
        <4> QED BY <1>2, <1>5, <1>6, <1>8, <4>1
      <3> QED BY <1>3, <3>1, <3>2, <3>3, <3>4
    <2>3. CASE x \in Header /\ x # a
      <3>1. PICK d \in ChunkOf(x) :
                /\ x + size[x] <= chunk[d].used
                /\ x + size[x] # chunk[d].used => x + size[x] \in Header
                /\ \A y \in Block(x) \ {x} : y \notin Header
        BY <1>1, <2>3 DEF Tiled
      <3>2. size'[x] = size[x] /\ Block(x)' = Block(x)
        BY <1>9, <2>3 DEF Block
      <3>3. x + size[x] <= a \/ b < x
        BY <1>1, <1>2, <1>5, <2>3, Apart
      <3>4. b \notin Block(x)
        BY <1>2, <1>5, <2>3, <3>3 DEF Block
      <3> QED BY <1>8, <1>10, <3>1, <3>2, <3>4
    <2> QED BY <1>8, <2>1, <2>2, <2>3
  <1>13. Tiled'
    BY <1>11, <1>12 DEF Tiled
  <1>14. BitsExact'
    <2>1. \A x : InBitmap(x)' <=> InBitmap(x)
      BY SameChunks
    <2>2. WithBit(b) = {x \in {b} : InBitmap(x)}
      BY <1>5 DEF WithBit
    <2> QED BY <1>1, <1>8, <2>1, <2>2 DEF BitsExact
  <1> QED BY <1>1, <1>5, <1>7, <1>8, <1>13, <1>14, SameChunks DEF Laid

(* Block p absorbs the block a behind it.                                   *)
LEMMA BlocksMerged ==
    ASSUME TypeOK, Laid, NEW p \in Header, NEW a \in Header, p + size[p] = a,
           NEW c \in Chunks, chunk[c].base <= p, a < chunk[c].used,
           UNCHANGED chunk,
           \A x \in Addr : size'[x] = IF x = p THEN size[p] + size[a] ELSE IF x = a THEN 0 ELSE size[x],
           start' = start \ WithBit(a)
    PROVE  Laid' /\ Header' = Header \ {a}
  <1>1. ChunksInOrder /\ Tiled /\ BitsExact
    BY DEF Laid
  <1>2. \A x \in Header : x \in Addr /\ x \in Nat \ {0} /\ size[x] \in Nat \ {0}
    BY <1>1, Numbers DEF Header
  <1>3. p < a
    BY <1>2
  <1>4. Header' = Header \ {a}
    BY <1>2, <1>3 DEF Header
  <1>5. /\ size'[p] = size[p] + size[a]
        /\ \A x \in Header : x # p /\ x # a => size'[x] = size[x]
    BY <1>2, <1>3
  <1>6. \A x : ChunkOf(x)' = ChunkOf(x)
    BY SameChunks
  <1>7. /\ chunk[c].base \in Nat /\ chunk[c].used \in Nat /\ chunk[c].end \in Nat
        /\ chunk[c].used <= chunk[c].end
    BY <1>1, Numbers DEF ChunksInOrder
  <1>8. ASSUME NEW d \in Chunks
        PROVE  /\ chunk[d].base <= chunk[d].used /\ chunk[d].used <= chunk[d].end
               /\ chunk[d].used # chunk[d].base => chunk[d].base \in Header'
    <2>1. /\ chunk[d].base <= chunk[d].used /\ chunk[d].used <= chunk[d].end
          /\ chunk[d].base < chunk[d].end
          /\ chunk[d].used # chunk[d].base => chunk[d].base \in Header
      BY <1>1 DEF Tiled, ChunksInOrder
    <2>2. chunk[d].base # a
      <3> SUFFICES ASSUME chunk[d].base = a PROVE FALSE
        OBVIOUS
      <3>1. chunk[c].base <= a /\ a < chunk[c].end /\ chunk[d].base <= a /\ a < chunk[d].end
        BY <1>2, <1>3, <1>7, <2>1
      <3>2. c = d
        BY <1>1, <1>2, <3>1, OneChunk
      <3> QED BY <1>2, <1>3, <1>7, <3>2
    <2> QED BY <1>4, <2>1, <2>2
  <1>9. ASSUME NEW x \in Header'
         PROVE  \E d \in ChunkOf(x)' :
                  /\ x + size'[x] <= chunk'[d].used
                  /\ x + size'[x] # chunk'[d].used => x + size'[x] \in Header'
                  /\ \A y \in Block(x)' \ {x} : y \notin Header'
    <2>1. CASE x = p
      <3>1. PICK d \in Chunks : /\ ChunkOf(a) = {d}
                                /\ a + size[a] <= chunk[d].used
                                /\ a + size[a] # chunk[d].used => a + size[a] \in Header
        BY <1>1, InChunk
      <3>2. c \in ChunkOf(a) /\ c \in ChunkOf(p)
        BY <1>2, <1>3, <1>7 DEF ChunkOf
      <3>3. d = c
        BY <3>1, <3>2
      <3>4. x + size'[x] = a + size[a] /\ a + size[a] # a
        BY <1>2, <1>5, <2>1
      <3>5. ASSUME NEW y \in Block(x)' \ {x} PROVE y \notin Header'
        <4>1. y \in Int /\ p < y /\ y < a + size[a]
          BY <1>2, <1>5, <2>1 DEF Block
        <4>2. y \in Header => y >= a
          BY <1>1, <4>1, Apart
        <4>3. y \in Header => y <= a
          BY <1>1, <1>2, <4>1, Apart
        <4> QED BY <1>2, <1>4, <4>1, <4>2, <4>3
      <3> QED BY <1>4, <1>6, <2>1, <3>1, <3>2, <3>3, <3>4, <3>5
    <2>2. CASE x # p
      <3>1. PICK d \in ChunkOf(x) :
                /\ x + size[x] <= chunk[d].used
                /\ x + size[x] # chunk[d].used => x + size[x] \in Header
                /\ \A y \in Block(x) \ {x} : y \notin Header
        BY <1>1, <1>4 DEF Tiled
      <3>2. x \in Header /\ x # a
        BY <1>4
      <3>3. size'[x] = size[x] /\ Block(x)' = Block(x)
        BY <1>5, <2>2, <3>2 DEF Block
      <3>4. x + size[x] # a
        <4>1. x < p => x + size[x] <= p
          BY <1>1, <3>2, Apart
        <4>2. p < x => a <= x
          BY <1>1, <3>2, Apart
        <4> QED BY <1>2, <1>3, <2>2, <3>2, <4>1, <4>2
      <3> QED BY <1>4, <1>6, <3>1, <3>3, <3>4
    <2> QED BY <2>1, <2>2
  <1>10. Tiled'
    BY <1>8, <1>9, SameChunks DEF Tiled
  <1>11. BitsExact'
    <2>1. \A x : InBitmap(x)' <=> InBitmap(x)
      BY SameChunks
    <2>2. WithBit(a) = {x \in {a} : InBitmap(x)}
      BY <1>2 DEF WithBit
    <2> QED BY <1>1, <1>4, <2>1, <2>2 DEF BitsExact
  <1> QED BY <1>1, <1>4, <1>10, <1>11, SameChunks DEF Laid

-----------------------------------------------------------------------------
(* Taking a block from the free lists                                      *)

Splits(a, n) == size[a] - n >= MinSplit
Taken(a, n) == IF Splits(a, n) THEN n ELSE size[a]
Within(x, a, n) == a <= x /\ x < a + Taken(a, n)

(* FreeTake as seen from one block a, the free lists left aside.            *)
Took(a, n, s, t) ==
    /\ a \in Free /\ n <= size[a]
    /\ \A x \in Addr :
         /\ flag'[x] = IF Splits(a, n) /\ x = a + n THEN 2 ELSE IF Within(x, a, n) THEN 0 ELSE flag[x]
         /\ payload'[x] = IF Within(x, a, n) THEN {} ELSE payload[x]
    /\ IF Splits(a, n)
       THEN /\ \A x \in Addr : size'[x] = IF x = a THEN n ELSE IF x = a + n THEN size[a] - n ELSE size[x]
            /\ start' = start \cup WithBit(a + n)
       ELSE UNCHANGED <<size, start>>
    /\ size' \in [Addr -> 0..Space] /\ flag' \in [Addr -> 0..2] /\ start' \subseteq Addr
    /\ payload' \in [Addr -> SUBSET Word]
    /\ Deliver(a, s, t)
    /\ UNCHANGED chunk

(* The class of the block it leaves in the lists.                           *)
RestOf(a, n, c) == IF Splits(a, n) /\ c = ClassOf(size[a] - n) THEN {a + n} ELSE {}

Unlinked(a, n) ==
    /\ free' \in [Class -> Seq(Addr)]
    /\ \A c \in Class : /\ Distinct(free'[c])
                        /\ Elems(free'[c]) = (OfClass(c) \ {a}) \cup RestOf(a, n, c)

LEMMA Chosen ==
    ASSUME NEW n, FreeFits(n)
    PROVE  LET c == CHOOSE x \in Candidate(n) : \A y \in Candidate(n) : x <= y
               i == CHOOSE x \in FirstFit(c, n) : TRUE
           IN  c \in Class /\ i \in DOMAIN free[c] /\ size[free[c][i]] >= n
  <1>1. Candidate(n) \subseteq Nat /\ Candidate(n) # {}
    BY HeapAssumption DEF Candidate, FreeFits, Class
  <1>2. PICK d \in Candidate(n) : \A y \in Candidate(n) : d <= y
    BY <1>1, NatMin
  <1> DEFINE c == CHOOSE x \in Candidate(n) : \A y \in Candidate(n) : x <= y
             i == CHOOSE x \in FirstFit(c, n) : TRUE
  <1>3. c \in Candidate(n)
    BY <1>2
  <1> HIDE DEF c
  <1>4. c \in Class /\ FirstFit(c, n) # {}
    BY <1>3 DEF Candidate
  <1>5. i \in FirstFit(c, n)
    BY <1>4
  <1> HIDE DEF i
  <1>6. i \in DOMAIN free[c] /\ size[free[c][i]] >= n
    BY <1>5 DEF FirstFit
  <1> QED BY <1>4, <1>6 DEF i, c

LEMMA Taking ==
    ASSUME BlocksInv, sweep = Idle, phase # "sweep",
           NEW n \in Request, NEW s \in Slot, NEW t \in {"atomic", "traced"},
           FreeTake(n, s, t)
    PROVE  \E a \in Addr : Took(a, n, s, t) /\ Unlinked(a, n)
  <1>1. TypeOK /\ ChunksInOrder /\ Tiled /\ ListsExact
    BY DEF BlocksInv, Laid
  <1>2. Elems(sweep.list) = {}
    BY DEF Elems, Idle
  <1>3. free \in [Class -> Seq(Addr)]
    BY <1>1 DEF TypeOK
  <1>4. \A d \in Class : Distinct(free[d]) /\ Elems(free[d]) = OfClass(d)
    BY <1>1, <1>2 DEF ListsExact
  <1> DEFINE c == CHOOSE x \in Candidate(n) : \A y \in Candidate(n) : x <= y
             i == CHOOSE x \in FirstFit(c, n) : TRUE
             a == free[c][i]
             b == a + n
             unlinked == [free EXCEPT ![c] = WithoutIndex(free[c], i)]
  <1>5. c \in Class /\ i \in DOMAIN free[c] /\ size[a] >= n
    BY Chosen DEF FreeTake
  <1>6. /\ IF Splits(a, n)
           THEN /\ size' = [size EXCEPT ![a] = n, ![b] = size[a] - n]
                /\ flag' = [x \in Addr |-> IF x = b THEN 2 ELSE IF Within(x, a, n) THEN 0 ELSE flag[x]]
                /\ start' = start \cup WithBit(b)
                /\ free' = [unlinked EXCEPT ![ClassOf(size[a] - n)] = <<b>> \o @]
           ELSE /\ flag' = [x \in Addr |-> IF Within(x, a, n) THEN 0 ELSE flag[x]]
                /\ free' = unlinked
                /\ UNCHANGED <<size, start>>
        /\ payload' = [x \in Addr |-> IF Within(x, a, n) THEN {} ELSE payload[x]]
        /\ Deliver(a, s, t)
        /\ UNCHANGED chunk
    BY DEF FreeTake, Splits, Taken, Within, Scrubbed
  <1> HIDE DEF c, i
  <1>7. a \in Elems(free[c])
    BY <1>5 DEF Elems
  <1>8. a \in Free /\ ClassOf(size[a]) = c /\ a \in Addr
    BY <1>4, <1>5, <1>7 DEF OfClass, Free, Header
  <1>9. size \in [Addr -> 0..Space] /\ a \in Nat \ {0} /\ n \in Nat \ {0} /\ size[a] \in Nat
    BY <1>1, <1>8, Numbers, HeapAssumption DEF TypeOK
  <1>10. PICK p \in Seq(Addr) : /\ p = WithoutIndex(free[c], i)
                                /\ Distinct(p) /\ Elems(p) = Elems(free[c]) \ {a}
    BY <1>3, <1>4, <1>5, WithoutFacts
  <1>11. \A d \in Class : unlinked[d] = IF d = c THEN p ELSE free[d]
    BY <1>3, <1>10
  <1>12. unlinked \in [Class -> Seq(Addr)]
    BY <1>3, <1>10
  <1>13. \A d \in Class : Distinct(unlinked[d]) /\ Elems(unlinked[d]) = OfClass(d) \ {a}
    <2>1. \A d \in Class : d # c => a \notin OfClass(d)
      BY <1>8 DEF OfClass
    <2> QED BY <1>4, <1>10, <1>11, <2>1
  <1> HIDE DEF a
  <1>14. Splits(a, n) => n < size[a]
    BY <1>9, HeapAssumption DEF Splits
  <1>15. Splits(a, n) => b \in Addr /\ b \notin Header
    <2> SUFFICES ASSUME Splits(a, n) PROVE b \in Addr /\ b \notin Header
      OBVIOUS
    <2>1. a + size[a] <= Space + 1 /\ a \in Header
      BY <1>1, <1>8, InChunk DEF Free
    <2>2. b \in Nat /\ a < b /\ b < a + size[a]
      BY <1>9, <1>14
    <2>3. b \in Addr
      BY <1>9, <2>1, <2>2, HeapAssumption DEF Addr
    <2>4. b \in Header => a + size[a] <= b
      BY <1>1, <2>1, <2>2, Apart
    <2> QED BY <1>9, <2>2, <2>3, <2>4
  <1>16. Took(a, n, s, t)
    <2>1. \A x \in Addr :
            /\ flag'[x] = IF Splits(a, n) /\ x = a + n THEN 2 ELSE IF Within(x, a, n) THEN 0 ELSE flag[x]
            /\ payload'[x] = IF Within(x, a, n) THEN {} ELSE payload[x]
      BY <1>6
    <2>4. flag' \in [Addr -> 0..2]
      BY <1>1, <1>6 DEF TypeOK
    <2>5. start' \subseteq Addr
      BY <1>1, <1>6 DEF TypeOK, WithBit
    <2>6. payload' \in [Addr -> SUBSET Word]
      BY <1>1, <1>6 DEF TypeOK
    <2>7. size' \in [Addr -> 0..Space]
      <3>1. size[a] \in 0..Space
        BY <1>8, <1>9
      <3>2. Splits(a, n) => n \in 0..Space /\ size[a] - n \in 0..Space
        BY <1>9, <1>14, <3>1, HeapAssumption
      <3> QED BY <1>6, <1>9, <3>2
    <2>2. CASE Splits(a, n)
      <3>1. \A x \in Addr : size'[x] = IF x = a THEN n ELSE IF x = a + n THEN size[a] - n ELSE size[x]
        <4>1. b # a
          BY <1>9
        <4> QED BY <1>6, <1>9, <2>2, <4>1
      <3> QED BY <1>5, <1>6, <1>8, <1>9, <2>1, <2>2, <2>4, <2>5, <2>6, <2>7, <3>1 DEF Took
    <2>3. CASE ~Splits(a, n)
      BY <1>5, <1>6, <1>8, <1>9, <2>1, <2>3, <2>4, <2>5, <2>6, <2>7 DEF Took
    <2> QED BY <2>2, <2>3
  <1> HIDE DEF unlinked
  <1>17. CASE ~Splits(a, n)
    <2>1. \A d \in Class : RestOf(a, n, d) = {}
      BY <1>17 DEF RestOf
    <2> QED BY <1>6, <1>8, <1>12, <1>13, <1>16, <1>17, <2>1 DEF Unlinked
  <1>18. CASE Splits(a, n)
    <2> DEFINE left == size[a] - n
    <2>0. left \in Nat
      BY <1>9, <1>14, <1>18
    <2> HIDE DEF left
    <2>1. PICK r \in Class : r = ClassOf(left)
      BY <2>0, ClassOfIsClass
    <2> USE DEF left
    <2>2. PICK q \in Seq(Addr) : q = unlinked[r]
      BY <1>12, <2>1
    <2>3. PICK w \in Seq(Addr) : /\ w = <<b>> \o q
                                 /\ Elems(w) = {b} \cup Elems(q)
                                 /\ Distinct(q) /\ b \notin Elems(q) => Distinct(w)
      BY <1>15, <1>18, <2>2, ConsFacts
    <2>4. \A d \in Class : free'[d] = IF d = r THEN w ELSE unlinked[d]
      BY <1>6, <1>12, <1>18, <2>1, <2>2, <2>3
    <2>5. free' \in [Class -> Seq(Addr)]
      BY <1>6, <1>12, <1>18, <2>1, <2>2, <2>3
    <2>6. b \notin Elems(q)
      BY <1>13, <1>15, <1>18, <2>2 DEF OfClass, Free
    <2>7. \A d \in Class : RestOf(a, n, d) = IF d = r THEN {b} ELSE {}
      BY <1>18, <2>1 DEF RestOf
    <2>8. \A d \in Class : Distinct(free'[d])
      BY <1>13, <2>2, <2>3, <2>4, <2>6
    <2>9. \A d \in Class : Elems(free'[d]) = (OfClass(d) \ {a}) \cup RestOf(a, n, d)
      BY <1>13, <2>2, <2>3, <2>4, <2>7
    <2> QED BY <1>8, <1>16, <2>5, <2>8, <2>9 DEF Unlinked
  <1> QED BY <1>17, <1>18

(* What remains free, and what the program has been given. *)
LEMMA TookKeeps ==
    ASSUME TypeOK, Laid, NEW a \in Addr, NEW n \in Nat \ {0}, NEW s, NEW t,
           Took(a, n, s, t)
    PROVE  /\ Laid'
           /\ a \in Header /\ flag[a] = 2 /\ flag'[a] = 0
           /\ Header' = Header \cup {x \in {a + n} : Splits(a, n)}
           /\ \A x \in Header : x # a => size'[x] = size[x] /\ flag'[x] = flag[x] /\ payload'[x] = payload[x]
           /\ Splits(a, n) => a + n \notin Header /\ a + n # a /\ flag'[a + n] = 2 /\ size'[a + n] = size[a] - n
           /\ \A c : OfClass(c)' = (OfClass(c) \ {a}) \cup RestOf(a, n, c)
  <1>1. a \in Header /\ flag[a] = 2 /\ n <= size[a] /\ a \in Nat \ {0} /\ size[a] \in Nat \ {0}
    BY Numbers DEF Took, Free, Header, Laid
  <1>2. TypeOK /\ ChunksInOrder /\ Tiled
    BY DEF Laid
  <1>3. UNCHANGED chunk
    BY DEF Took
  <1>4. Splits(a, n) => n < size[a]
    BY <1>1, HeapAssumption DEF Splits
  <1>5. \A x \in Header : x \in Addr /\ x \in Nat /\ size[x] \in Nat \ {0}
    BY <1>2, Numbers DEF Header
  <1>6. Taken(a, n) \in Nat /\ 0 < Taken(a, n) /\ Taken(a, n) <= size[a]
    BY <1>1 DEF Taken
  <1>7. ASSUME NEW x \in Header, x # a PROVE ~Within(x, a, n)
    <2>1. x < a \/ a + size[a] <= x
      BY <1>1, <1>2, <1>5, <1>7, Apart
    <2> QED BY <1>1, <1>5, <1>6, <2>1 DEF Within
  <1>8. Within(a, a, n)
    BY <1>1, <1>6 DEF Within
  <1>9. CASE Splits(a, n)
    <2>1. /\ \A x \in Addr : size'[x] = IF x = a THEN n ELSE IF x = a + n THEN size[a] - n ELSE size[x]
          /\ start' = start \cup WithBit(a + n)
      BY <1>9 DEF Took
    <2>2. Laid' /\ Header' = Header \cup {a + n} /\ a + n \in Addr \ Header
      BY <1>1, <1>3, <1>4, <1>9, <2>1, BlockSplit
    <2>3. a + n # a /\ size'[a + n] = size[a] - n
      BY <1>1, <2>1, <2>2
    <2>4. flag'[a] = 0 /\ flag'[a + n] = 2
      BY <1>8, <1>9, <2>2, <2>3 DEF Took
    <2>5. \A x \in Header : x # a => size'[x] = size[x] /\ flag'[x] = flag[x] /\ payload'[x] = payload[x]
      BY <1>5, <1>7, <2>1, <2>2 DEF Took
    <2>6. \A c : OfClass(c)' = (OfClass(c) \ {a}) \cup RestOf(a, n, c)
      BY <1>9, <2>2, <2>3, <2>4, <2>5 DEF OfClass, Free, RestOf
    <2> QED BY <1>1, <1>9, <2>2, <2>3, <2>4, <2>5, <2>6
  <1>10. CASE ~Splits(a, n)
    <2>1. UNCHANGED <<size, start>>
      BY <1>10 DEF Took
    <2>2. Header' = Header
      BY <2>1 DEF Header
    <2>3. Laid'
      BY <1>3, <2>1, <2>2, SameChunks DEF Laid, Tiled, BitsExact, Block
    <2>4. flag'[a] = 0
      BY <1>8, <1>10 DEF Took
    <2>5. \A x \in Header : x # a => size'[x] = size[x] /\ flag'[x] = flag[x] /\ payload'[x] = payload[x]
      BY <1>5, <1>7, <1>10, <2>1 DEF Took
    <2>6. \A c : OfClass(c)' = (OfClass(c) \ {a}) \cup RestOf(a, n, c)
      BY <1>10, <2>2, <2>4, <2>5 DEF OfClass, Free, RestOf
    <2> QED BY <1>1, <1>10, <2>2, <2>3, <2>4, <2>5, <2>6
  <1> QED BY <1>9, <1>10

-----------------------------------------------------------------------------
(* The steps                                                               *)

LEMMA BlocksInit == Init => BlocksInv
  <1> SUFFICES ASSUME Init PROVE BlocksInv
    OBVIOUS
  <1>1. /\ Len(chunk) = 1 /\ Chunks = {1} /\ Header = {} /\ Free = {}
        /\ chunk[1] = [base |-> 1, used |-> 1, end |-> 1 + ChunkUnits]
    <2>1. Header = {}
      BY DEF Init, Header
    <2>2. Len(chunk) = 1 /\ chunk[1] = [base |-> 1, used |-> 1, end |-> 1 + ChunkUnits]
      BY DEF Init
    <2>3. 1 .. 1 = {1}
      OBVIOUS
    <2> QED BY <2>1, <2>2, <2>3 DEF Chunks, Free
  <1>2. TypeOK
    <2>1. 1 \in Addr /\ 1 + ChunkUnits \in Nat /\ 0 \in 0..Space
      BY HeapAssumption DEF Addr
    <2>2. chunk \in Seq([base : Addr, used : Nat, end : Nat])
      BY <2>1 DEF Init
    <2>3. /\ dense \in [Chunks -> [list : Seq(Addr), count : Nat]]
          /\ denseStack \in Seq(Chunks) /\ queued \subseteq Chunks
      BY <1>1 DEF Init
    <2>4. want \in [units : Request \cup {0}, slot : Slot \cup {Nil}, type : {"atomic", "traced"}]
      BY DEF Init, NoRequest
    <2>5. sweep \in [chunk : Nat, at : Nat, prev : Addr \cup {Nil}, list : Seq(Addr)]
      BY DEF Init, Idle
    <2> QED BY <2>1, <2>2, <2>3, <2>4, <2>5 DEF Init, TypeOK
  <1>3. ChunksInOrder
    <2>1. chunk # <<>>
      BY DEF Init
    <2> QED BY <1>1, <2>1, HeapAssumption DEF ChunksInOrder
  <1>4. Tiled
    BY <1>1, HeapAssumption DEF Tiled
  <1>5. BitsExact
    BY <1>1 DEF BitsExact, Init
  <1>6. \A c \in Class : Distinct(free[c]) /\ Elems(free[c]) = {}
    BY DEF Init, Distinct, Elems
  <1>7. ListsExact
    BY <1>1, <1>6 DEF ListsExact, OfClass
  <1>8. SweepInPlace
    BY DEF Init, SweepInPlace, Idle, Distinct
  <1>9. WantKept
    BY DEF Init, WantKept
  <1> QED BY <1>2, <1>3, <1>4, <1>5, <1>7, <1>8, <1>9 DEF BlocksInv, Laid

LEMMA SameSizes ==
    ASSUME UNCHANGED <<chunk, size>>
    PROVE  Header' = Header /\ (Laid /\ UNCHANGED start => Laid')
  <1>1. Header' = Header /\ \A a : Block(a)' = Block(a)
    BY DEF Header, Block
  <1> QED BY <1>1, SameChunks DEF Laid, Tiled, BitsExact

(* A step that frees no block and takes none. *)
LEMMA Quiet ==
    ASSUME BlocksInv, UNCHANGED <<chunk, size, start, free, sweep>>,
           \A x \in Addr : flag'[x] = 2 <=> flag[x] = 2,
           phase' = phase \/ (phase \notin {"sweep", "partition"} /\ phase' \notin {"sweep", "partition"})
    PROVE  Laid' /\ ListsExact' /\ SweepInPlace'
  <1>1. Laid' /\ Header' = Header /\ Chunks' = Chunks
    BY SameSizes, SameChunks DEF BlocksInv
  <1>2. Free' = Free /\ \A c : OfClass(c)' = OfClass(c)
    BY <1>1 DEF Free, OfClass, Header
  <1>3. ListsExact'
    BY <1>2 DEF BlocksInv, ListsExact
  <1>4. \A a : Swept(a)' <=> Swept(a)
    BY DEF Swept
  <1>5. AtBoundary' <=> AtBoundary
    BY <1>1, <1>2 DEF AtBoundary
  <1>6. SweepInPlace'
    BY <1>2, <1>4, <1>5 DEF BlocksInv, SweepInPlace, Idle
  <1> QED BY <1>1, <1>3, <1>6

LEMMA BlocksProgram ==
    ASSUME BlocksInv, Program
    PROVE  BlocksInv'
  <1>1. UNCHANGED <<blocks, type, phase, want, marking, sweep>>
    BY DEF Program, Drop, Store, Load, object
  <1>2. Laid' /\ ListsExact' /\ SweepInPlace'
    BY <1>1, Quiet DEF blocks
  <1>3. WantKept'
    BY <1>1 DEF BlocksInv, WantKept
  <1>4. payload' \in [Addr -> SUBSET Word] /\ root' \in [Slot -> Addr \cup {Nil}]
    <2>1. TypeOK
      BY DEF BlocksInv
    <2>2. ASSUME NEW s \in Slot, Drop(s)
          PROVE  payload' = payload /\ root' \in [Slot -> Addr \cup {Nil}]
      BY <2>1, <2>2 DEF Drop, TypeOK, object
    <2>3. ASSUME NEW s \in Slot, NEW w \in Word, Store(s, w)
          PROVE  payload' \in [Addr -> SUBSET Word] /\ root' = root
      BY <2>1, <2>3 DEF Store, TypeOK
    <2>4. ASSUME NEW s \in Slot, NEW x \in Slot, Load(s, x)
          PROVE  payload' = payload /\ root' \in [Slot -> Addr \cup {Nil}]
      BY <2>1, <2>4 DEF Load, TypeOK, object
    <2> QED BY <2>1, <2>2, <2>3, <2>4 DEF Program, TypeOK
  <1>5. TypeOK'
    BY <1>1, <1>4, SameChunks DEF BlocksInv, TypeOK, blocks, marking
  <1> QED BY <1>2, <1>3, <1>5 DEF BlocksInv

(* A chunk's own work list is replaced. *)
WithList(D, c, q) == [D EXCEPT ![c].list = q]

LEMMA ListChanged ==
    ASSUME NEW C, NEW D \in [C -> [list : Seq(Addr), count : Nat]], NEW c \in C, NEW q \in Seq(Addr)
    PROVE  WithList(D, c, q) \in [C -> [list : Seq(Addr), count : Nat]]
  BY DEF WithList

LEMMA ListAt ==
    ASSUME NEW C, NEW D \in [C -> [list : Seq(Addr), count : Nat]], NEW c \in C, NEW q \in Seq(Addr),
           NEW d \in C
    PROVE  WithList(D, c, q)[d].list = IF d = c THEN q ELSE D[d].list
  BY DEF WithList

LEMMA CountRaised ==
    ASSUME NEW e \in [list : Seq(Addr), count : Nat]
    PROVE  /\ [e EXCEPT !.count = @ + 1] \in [list : Seq(Addr), count : Nat]
           /\ [e EXCEPT !.count = @ + 1].list = e.list
  <1>1. e = [list |-> e.list, count |-> e.count] /\ e.list \in Seq(Addr) /\ e.count \in Nat
    OBVIOUS
  <1>2. [e EXCEPT !.count = @ + 1] = [list |-> e.list, count |-> e.count + 1]
    BY <1>1
  <1> QED BY <1>1, <1>2

LEMMA BlocksMark ==
    ASSUME BlocksInv, Mark
    PROVE  BlocksInv'
  <1>1. TypeOK
    BY DEF BlocksInv
  <1>2. /\ UNCHANGED <<chunk, size, start, free, object, root, phase, want, sweep>>
        /\ \E a \in Addr : todo' = todo \ {a}
        /\ flag' = flag \/ \E a \in Addr : flag[a] = 0 /\ flag' = [flag EXCEPT ![a] = 1]
    BY DEF Mark, Reject, MarkAtomic, MarkSparse, MarkDense, Accept, blocks
  <1>3. flag' \in [Addr -> 0..2] /\ \A x \in Addr : flag'[x] = 2 <=> flag[x] = 2
    <2>1. flag \in [Addr -> 0..2]
      BY <1>1 DEF TypeOK
    <2>2. CASE flag' = flag
      BY <2>1, <2>2
    <2>3. ASSUME NEW a \in Addr, flag[a] = 0, flag' = [flag EXCEPT ![a] = 1]
          PROVE  flag' \in [Addr -> 0..2] /\ \A x \in Addr : flag'[x] = 2 <=> flag[x] = 2
      BY <2>1, <2>3
    <2> QED BY <1>2, <2>2, <2>3
  <1>4. Laid' /\ ListsExact' /\ SweepInPlace'
    BY <1>2, <1>3, Quiet
  <1>5. WantKept'
    BY <1>2 DEF BlocksInv, WantKept
  <1>6. /\ stack' \in Seq(Addr) /\ dense' \in [Chunks -> [list : Seq(Addr), count : Nat]]
        /\ denseStack' \in Seq(Chunks) /\ queued' \subseteq Chunks
    <2>1. ASSUME NEW a \in Addr, MarkSparse(a)
          PROVE  /\ stack' \in Seq(Addr) /\ dense' \in [Chunks -> [list : Seq(Addr), count : Nat]]
                 /\ denseStack' = denseStack /\ queued' = queued
      <3>1. stack' \in Seq(Addr)
        BY <1>1, <2>1, ConsFacts DEF MarkSparse, TypeOK
      <3>2. dense' \in [Chunks -> [list : Seq(Addr), count : Nat]]
        <4> DEFINE R == [list : Seq(Addr), count : Nat]
        <4>0. dense \in [Chunks -> R]
          BY <1>1 DEF TypeOK
        <4>1. \A c \in Chunks : [dense[c] EXCEPT !.count = @ + 1] \in R /\ dense[c] \in R
          BY <4>0, CountRaised
        <4> HIDE DEF R
        <4>2. dense' \in [Chunks -> R]
          BY <2>1, <4>1 DEF MarkSparse
        <4> QED BY <4>2 DEF R
      <3> QED BY <2>1, <3>1, <3>2 DEF MarkSparse
    <2>2. ASSUME NEW a \in Addr, MarkDense(a)
          PROVE  /\ stack' = stack /\ dense' \in [Chunks -> [list : Seq(Addr), count : Nat]]
                 /\ denseStack' \in Seq(Chunks) /\ queued' \subseteq Chunks
      <3>1. PICK c \in Chunks : dense' = [dense EXCEPT ![c].list = <<a>> \o @] /\ Enqueue(c)
        BY <2>2 DEF MarkDense, ChunkOf
      <3>2. <<a>> \o dense[c].list \in Seq(Addr)
        BY <1>1, <3>1, ConsFacts DEF TypeOK
      <3>3. dense' \in [Chunks -> [list : Seq(Addr), count : Nat]]
        <4>1. dense \in [Chunks -> [list : Seq(Addr), count : Nat]]
          BY <1>1 DEF TypeOK
        <4>2. dense' = WithList(dense, c, <<a>> \o dense[c].list)
          BY <3>1 DEF WithList
        <4> QED BY <3>1, <3>2, <4>1, <4>2, ListChanged
      <3>4. <<c>> \o denseStack \in Seq(Chunks)
        BY <1>1, <3>1, ConsFacts DEF TypeOK
      <3>5. denseStack' \in Seq(Chunks) /\ queued' \subseteq Chunks
        BY <1>1, <3>1, <3>4 DEF Enqueue, TypeOK
      <3> QED BY <2>2, <3>3, <3>5 DEF MarkDense
    <2>3. ASSUME NEW a \in Addr, Reject(a) \/ MarkAtomic(a)
          PROVE  UNCHANGED <<stack, dense, denseStack, queued>>
      BY <2>3 DEF Reject, MarkAtomic
    <2> QED BY <1>1, <2>1, <2>2, <2>3 DEF Mark, TypeOK
  <1>7. TypeOK'
    BY <1>1, <1>2, <1>3, <1>6, SameChunks DEF TypeOK, object
  <1> QED BY <1>4, <1>5, <1>7 DEF BlocksInv

LEMMA BlocksTrace ==
    ASSUME BlocksInv, TraceNext \/ TraceDense \/ RetireChunk \/ OutOfMemory
    PROVE  BlocksInv'
  <1>1. TypeOK
    BY DEF BlocksInv
  <1>2. /\ UNCHANGED <<blocks, object, root, want, sweep>>
        /\ phase' = phase \/ (phase = "retry" /\ phase' = "dead")
    BY DEF TraceNext, TraceDense, RetireChunk, OutOfMemory, DenseTurn, blocks, object
  <1>3. Laid' /\ ListsExact' /\ SweepInPlace'
    BY <1>2, Quiet DEF blocks
  <1>4. WantKept'
    BY <1>2 DEF BlocksInv, WantKept
  <1>5. /\ todo' \subseteq Addr /\ stack' \in Seq(Addr)
        /\ dense' \in [Chunks -> [list : Seq(Addr), count : Nat]]
        /\ denseStack' \in Seq(Chunks) /\ queued' \subseteq Chunks
    <2>1. \A a \in Addr : Children(a) \subseteq Addr
      BY <1>1 DEF Children, TypeOK, Word
    <2>2. CASE TraceNext
      <3>1. stack \in Seq(Addr) /\ stack # <<>>
        BY <1>1, <2>2 DEF TraceNext, TypeOK
      <3>2. Head(stack) \in Addr /\ Tail(stack) \in Seq(Addr)
        BY <3>1, TailFacts
      <3> QED BY <1>1, <2>1, <2>2, <3>2 DEF TraceNext, TypeOK
    <2>3. CASE TraceDense
      <3>1. denseStack \in Seq(Chunks) /\ denseStack # <<>>
        BY <1>1, <2>3 DEF TraceDense, DenseTurn, TypeOK
      <3>2. PICK c \in Chunks : c = Head(denseStack)
        BY <3>1, TailFacts
      <3>3. dense[c].list \in Seq(Addr) /\ dense[c].list # <<>>
        BY <1>1, <2>3, <3>2 DEF TraceDense, TypeOK
      <3>4. Head(dense[c].list) \in Addr /\ Tail(dense[c].list) \in Seq(Addr)
        BY <3>3, TailFacts
      <3>5. dense' \in [Chunks -> [list : Seq(Addr), count : Nat]]
        <4>1. dense \in [Chunks -> [list : Seq(Addr), count : Nat]]
          BY <1>1 DEF TypeOK
        <4>2. PICK q \in Seq(Addr) : q = Tail(dense[c].list)
          BY <3>4
        <4>3. dense' = WithList(dense, c, q)
          BY <2>3, <3>2, <4>2 DEF TraceDense, WithList
        <4> QED BY <4>1, <4>3, ListChanged
      <3>6. todo' \subseteq Addr
        BY <2>1, <2>3, <3>2, <3>3, <3>4 DEF TraceDense
      <3> QED BY <1>1, <2>3, <3>5, <3>6 DEF TraceDense, TypeOK
    <2>4. CASE RetireChunk
      <3>1. denseStack \in Seq(Chunks) /\ denseStack # <<>>
        BY <1>1, <2>4 DEF RetireChunk, DenseTurn, TypeOK
      <3>2. Tail(denseStack) \in Seq(Chunks)
        BY <3>1, TailFacts
      <3> QED BY <1>1, <2>4, <3>2 DEF RetireChunk, TypeOK
    <2>5. CASE OutOfMemory
      BY <1>1, <2>5 DEF OutOfMemory, TypeOK, marking
    <2> QED BY <2>2, <2>3, <2>4, <2>5
  <1>6. TypeOK'
    BY <1>1, <1>2, <1>5, SameChunks DEF TypeOK, blocks, object
  <1> QED BY <1>3, <1>4, <1>6 DEF BlocksInv

LEMMA BlocksStart ==
    ASSUME BlocksInv, NEW n \in Request, NEW s \in Slot, NEW t \in {"atomic", "traced"},
           StartCollection(n, s, t)
    PROVE  BlocksInv'
  <1>1. TypeOK
    BY DEF BlocksInv
  <1>2. Laid' /\ ListsExact' /\ SweepInPlace'
    BY Quiet DEF StartCollection, blocks
  <1>3. want' = [units |-> n, slot |-> s, type |-> t]
    BY DEF StartCollection
  <1>4. WantKept'
    BY <1>3 DEF WantKept
  <1>5. want' \in [units : Request \cup {0}, slot : Slot \cup {Nil}, type : {"atomic", "traced"}]
    BY <1>3
  <1>6. todo' \subseteq Addr
    BY <1>1 DEF StartCollection, RootWords, TypeOK
  <1>7. /\ dense' \in [Chunks -> [list : Seq(Addr), count : Nat]]
        /\ stack' \in Seq(Addr) /\ denseStack' \in Seq(Chunks) /\ queued' \subseteq Chunks
    BY DEF StartCollection
  <1>8. TypeOK'
    BY <1>1, <1>5, <1>6, <1>7, SameChunks DEF StartCollection, TypeOK, blocks, object
  <1> QED BY <1>2, <1>4, <1>8 DEF BlocksInv

(* A block is taken from the lists, by Reuse or by RetryFree. *)
LEMMA BlocksTaken ==
    ASSUME BlocksInv, phase \notin {"sweep", "partition"}, phase' = "run",
           NEW n \in Request, NEW s \in Slot, NEW t \in {"atomic", "traced"},
           FreeTake(n, s, t), UNCHANGED <<marking, sweep>>,
           want' = want \/ want' = NoRequest
    PROVE  BlocksInv'
  <1>1. TypeOK /\ Laid /\ sweep = Idle /\ SweepInPlace
    BY DEF BlocksInv, SweepInPlace
  <1>2. PICK a \in Addr : Took(a, n, s, t) /\ Unlinked(a, n)
    <2>1. phase # "sweep"
      OBVIOUS
    <2> QED BY <1>1, <2>1, Taking
  <1>3. n \in Nat \ {0}
    BY HeapAssumption
  <1>4. Laid' /\ \A c : OfClass(c)' = (OfClass(c) \ {a}) \cup RestOf(a, n, c)
    BY <1>1, <1>2, <1>3, TookKeeps
  <1>5. sweep' = Idle /\ Elems(sweep'.list) = {} /\ Distinct(sweep'.list)
    BY <1>1 DEF Elems, Idle, Distinct
  <1>6. ListsExact'
    BY <1>2, <1>4, <1>5 DEF ListsExact, Unlinked
  <1>7. SweepInPlace'
    BY <1>5 DEF SweepInPlace, Idle
  <1>8. WantKept'
    BY DEF WantKept
  <1>9. /\ size' \in [Addr -> 0..Space] /\ flag' \in [Addr -> 0..2] /\ start' \subseteq Addr
        /\ payload' \in [Addr -> SUBSET Word]
        /\ root' = [root EXCEPT ![s] = a] /\ type' = [type EXCEPT ![a] = t]
        /\ UNCHANGED chunk
    BY <1>2 DEF Took, Deliver
  <1>10. want' \in [units : Request \cup {0}, slot : Slot \cup {Nil}, type : {"atomic", "traced"}]
    BY <1>1 DEF TypeOK, NoRequest
  <1>11. type' \in [Addr -> {"atomic", "traced"}] /\ root' \in [Slot -> Addr \cup {Nil}]
    BY <1>1, <1>9 DEF TypeOK
  <1>12. TypeOK'
    BY <1>1, <1>2, <1>9, <1>10, <1>11, SameChunks DEF TypeOK, marking, Unlinked
  <1> QED BY <1>4, <1>6, <1>7, <1>8, <1>12 DEF BlocksInv

(* What a block put behind all others changes: nothing of what is free.     *)
LEMMA NoneFreed ==
    ASSUME BlocksInv, phase \notin {"sweep", "partition"}, phase' \notin {"sweep", "partition"},
           NEW a \in Addr, Header' = Header \cup {a}, a \notin Header, flag'[a] # 2,
           \A x \in Header : flag'[x] = flag[x] /\ size'[x] = size[x],
           UNCHANGED <<free, sweep>>
    PROVE  ListsExact' /\ SweepInPlace'
  <1>1. Free' = Free /\ \A x \in Free : size'[x] = size[x]
    BY DEF Free
  <1>2. \A c : OfClass(c)' = OfClass(c)
    BY <1>1 DEF OfClass
  <1>3. ListsExact'
    BY <1>2 DEF BlocksInv, ListsExact
  <1>4. SweepInPlace'
    BY DEF BlocksInv, SweepInPlace, Idle
  <1> QED BY <1>3, <1>4

(* An allocated block a of n units begins where there was none. *)
Added(a, n) ==
    /\ a \notin Header /\ ChunkOf(a) = {}
    /\ Header' = Header \cup {a} /\ Laid'
    /\ \A x \in Addr : size'[x] = IF x = a THEN n ELSE size[x]
    /\ \A x \in Addr : flag'[x] = IF x = a THEN 0 ELSE flag[x]
    /\ Chunks \subseteq Chunks'
    /\ \A c \in Chunks : /\ chunk'[c].base = chunk[c].base /\ chunk'[c].end = chunk[c].end
                         /\ chunk[c].used <= chunk'[c].used
    /\ chunk' \in Seq([base : Addr, used : Nat, end : Nat])
    /\ size' \in [Addr -> 0..Space] /\ flag' \in [Addr -> 0..2] /\ start' \subseteq Addr

LEMMA BumpAdds ==
    ASSUME TypeOK, Laid, NEW n \in Request, NEW s \in Slot, NEW t \in {"atomic", "traced"},
           Bump(n, s, t)
    PROVE  \E a \in Addr : Added(a, n) /\ a = LastChunk.used /\ Chunks' = Chunks
  <1> DEFINE R == [base : Addr, used : Nat, end : Nat]
  <1>1. ChunksInOrder /\ Tiled /\ chunk \in Seq(R)
    BY DEF Laid, TypeOK
  <1>2. PICK m \in Nat \ {0} : m = Len(chunk) /\ m \in Chunks /\ Chunks = 1..m
    BY <1>1, Numbers DEF Chunks
  <1>0. PICK a \in Nat : a = chunk[m].used
    BY <1>1, <1>2, Numbers
  <1>3. /\ chunk[m].base \in Nat \ {0} /\ a \in Nat /\ chunk[m].end \in Nat
        /\ chunk[m].base <= a /\ chunk[m].end <= Space + 1
    BY <1>0, <1>1, <1>2, Numbers DEF ChunksInOrder
  <1>4. n \in Nat \ {0} /\ Space \in Nat
    BY HeapAssumption
  <1>5. /\ a + n <= chunk[m].end
        /\ chunk' = [chunk EXCEPT ![m].used = a + n]
        /\ size' = [size EXCEPT ![a] = n] /\ flag' = [flag EXCEPT ![a] = 0]
        /\ start' = start \cup WithBit(a)
    BY <1>0, <1>2 DEF Bump, BumpFits, LastChunk
  <1>6. a \in Addr /\ n \in 0..Space
    BY <1>3, <1>4, <1>5 DEF Addr
  <1>7. chunk[m] \in R
    <2> HIDE DEF R
    <2> QED BY <1>1, <1>2
  <1>8. [chunk[m] EXCEPT !.used = a + n] = [base |-> chunk[m].base, used |-> a + n, end |-> chunk[m].end]
    BY <1>7
  <1>9. chunk' = [chunk EXCEPT ![m] = [base |-> chunk[m].base, used |-> a + n, end |-> chunk[m].end]]
    BY <1>5, <1>8
  <1>10. [base |-> chunk[m].base, used |-> a + n, end |-> chunk[m].end] \in R
    BY <1>3, <1>4, <1>7
  <1>11. /\ chunk' \in Seq(R) /\ Len(chunk') = m
         /\ \A c \in 1..m : chunk'[c] = IF c = m THEN [base |-> chunk[m].base, used |-> a + n, end |-> chunk[m].end] ELSE chunk[c]
    <2> HIDE DEF R
    <2>1. chunk' \in Seq(R) /\ Len(chunk') = m
      BY <1>1, <1>2, <1>9, <1>10
    <2>2. ASSUME NEW c \in 1..m
          PROVE  chunk'[c] = IF c = m THEN [base |-> chunk[m].base, used |-> a + n, end |-> chunk[m].end] ELSE chunk[c]
      BY <1>1, <1>2, <1>9
    <2> QED BY <2>1, <2>2
  <1>12. Chunks' = Chunks
    BY <1>2, <1>11 DEF Chunks
  <1>13. /\ chunk'[m].base = chunk[m].base /\ chunk'[m].used = a + n /\ chunk'[m].end = chunk[m].end
         /\ \A c \in Chunks : c # m => chunk'[c] = chunk[c]
    BY <1>2, <1>11
  <1> HIDE DEF R
  <1>14. chunk[m].used = a
    BY <1>0
  <1>15. \A x \in Addr : size'[x] = IF x = a THEN n ELSE size[x]
    BY <1>5, <1>6 DEF TypeOK
  <1>16. \A x \in Addr : flag'[x] = IF x = a THEN 0 ELSE flag[x]
    BY <1>5, <1>6 DEF TypeOK
  <1>17. \A c \in Chunks : chunk'[c].base = chunk[c].base /\ chunk'[c].end = chunk[c].end
    BY <1>13
  <1>18. \A c \in Chunks : chunk'[c].used \in Nat /\ chunk'[c].base \in Nat /\ chunk[c].used \in Nat /\ chunk[c].used <= chunk'[c].used
    <2>1. \A c \in Chunks : chunk[c].used \in Nat /\ chunk[c].base \in Nat
      BY <1>1, Numbers
    <2> QED BY <1>3, <1>4, <1>13, <1>14, <2>1
  <1>19. ChunksInOrder'
    <2>1. chunk' # <<>>
      BY <1>2, <1>11
    <2>2. ASSUME NEW c \in Chunks
          PROVE  /\ chunk'[c].base <= chunk'[c].used /\ chunk'[c].used <= chunk'[c].end
                 /\ chunk'[c].base < chunk'[c].end /\ chunk'[c].end <= Space + 1
      <3>1. CASE c = m
        BY <1>1, <1>2, <1>3, <1>4, <1>5, <1>13, <3>1 DEF ChunksInOrder
      <3>2. CASE c # m
        BY <1>1, <1>13, <3>2 DEF ChunksInOrder
      <3> QED BY <3>1, <3>2
    <2>3. \A c, d \in Chunks : c < d => chunk'[c].end <= chunk'[d].base
      BY <1>1, <1>17 DEF ChunksInOrder
    <2> QED BY <1>12, <2>1, <2>2, <2>3 DEF ChunksInOrder
  <1>20. \A x : InBitmap(x)' <=> InBitmap(x)
    BY <1>12, <1>17 DEF InBitmap
  <1>21. start' = start \cup {x \in {a} : InBitmap(a)'}
    <2>1. InBitmap(a)' <=> InBitmap(a)
      BY <1>20
    <2>2. WithBit(a) = {x \in {a} : InBitmap(a)}
      BY <1>6 DEF WithBit
    <2> QED BY <1>5, <2>1, <2>2
  <1>22. \A x \in Header : x + size[x] <= a
    BY <1>1, <1>2, <1>14, BeforeLast DEF LastChunk
  <1>23. Laid' /\ Header' = Header \cup {a} /\ a \notin Header
    <2>1. m \in Chunks' /\ Chunks \subseteq Chunks' /\ m \in Chunks
      BY <1>2, <1>12
    <2>2. \A c \in Chunks' : chunk'[c].base \in Nat /\ chunk'[c].used \in Nat
      BY <1>12, <1>18
    <2>3. \A c \in Chunks' : c # m => c \in Chunks /\ chunk'[c] = chunk[c]
      BY <1>12, <1>13
    <2>4. chunk'[m].base <= a
      BY <1>3, <1>13
    <2>5. \A x \in Header : InBitmap(x)' <=> InBitmap(x)
      BY <1>20
    <2>6. IF m \in Chunks THEN chunk'[m].base = chunk[m].base /\ chunk[m].used = a
                          ELSE chunk'[m].base = a
      BY <1>13, <1>14, <2>1
    <2> QED BY <1>4, <1>6, <1>13, <1>15, <1>19, <1>21, <1>22, <2>1, <2>2, <2>3, <2>4, <2>5, <2>6, BlockAdded
  <1>24. ChunkOf(a) = {}
    <2> SUFFICES ASSUME NEW c \in Chunks, chunk[c].base <= a, a < chunk[c].used PROVE FALSE
      BY DEF ChunkOf
    <2>1. c \in Nat /\ c <= m
      BY <1>2
    <2>2. c # m
      BY <1>3, <1>14
    <2>3. chunk[c].end <= chunk[m].base /\ chunk[c].used <= chunk[c].end
      BY <1>1, <1>2, <2>1, <2>2 DEF ChunksInOrder
    <2>4. chunk[c].used \in Nat /\ chunk[c].end \in Nat
      BY <1>1, Numbers
    <2> QED BY <1>3, <1>14, <2>3, <2>4
  <1>25. size' \in [Addr -> 0..Space] /\ flag' \in [Addr -> 0..2]
    BY <1>5, <1>6 DEF TypeOK
  <1>26. start' \subseteq Addr
    BY <1>5 DEF TypeOK, WithBit
  <1>27. Added(a, n)
    BY <1>6, <1>11, <1>12, <1>15, <1>16, <1>17, <1>18, <1>23, <1>24, <1>25, <1>26 DEF R, Added
  <1>28. a = LastChunk.used
    BY <1>0, <1>2 DEF LastChunk
  <1> QED BY <1>6, <1>12, <1>27, <1>28

LEMMA BlocksBump ==
    ASSUME BlocksInv, NEW n \in Request, NEW s \in Slot, NEW t \in {"atomic", "traced"},
           Bump(n, s, t)
    PROVE  BlocksInv'
  <1>1. TypeOK /\ Laid
    BY DEF BlocksInv
  <1>2. PICK a \in Addr : Added(a, n) /\ Chunks' = Chunks
    BY <1>1, BumpAdds
  <1> USE DEF Added
  <1>3. \A x \in Header : flag'[x] = flag[x] /\ size'[x] = size[x]
    BY <1>2 DEF Header
  <1>4. ListsExact' /\ SweepInPlace'
    <2>1. phase \notin {"sweep", "partition"} /\ phase' \notin {"sweep", "partition"} /\ UNCHANGED <<free, sweep>>
      BY DEF Bump
    <2>2. flag'[a] # 2
      BY <1>2
    <2> QED BY <1>2, <1>3, <2>1, <2>2, NoneFreed
  <1>5. WantKept'
    BY DEF WantKept, Bump
  <1>6. type' \in [Addr -> {"atomic", "traced"}] /\ root' \in [Slot -> Addr \cup {Nil}]
    BY <1>1, <1>2, SMTT(30) DEF Bump, Deliver, TypeOK
  <1>7. TypeOK'
    BY <1>1, <1>2, <1>6 DEF Bump, TypeOK, marking
  <1> QED BY <1>2, <1>4, <1>5, <1>7 DEF BlocksInv

(* MapChunk, in terms of BlockAdded: the chunk k is new. *)
LEMMA MapAdds ==
    ASSUME TypeOK, Laid, WantKept, MapChunk
    PROVE  \E a \in Addr, k \in Chunks' :
             /\ Added(a, want.units) /\ a = LastChunk.end
             /\ k = Len(chunk) + 1 /\ Chunks' = Chunks \cup {k} /\ k \notin Chunks
             /\ chunk'[k].base = a /\ chunk'[k].used = a + want.units
             /\ chunk'[k].end = a + ChunkSizeFor(want.units)
             /\ \A c \in Chunks : chunk'[c] = chunk[c]
  <1> DEFINE R == [base : Addr, used : Nat, end : Nat]
  <1>1. ChunksInOrder /\ Tiled /\ chunk \in Seq(R)
    BY DEF Laid, TypeOK
  <1>2. PICK m \in Nat \ {0} : m = Len(chunk) /\ m \in Chunks /\ Chunks = 1..m
    BY <1>1, Numbers DEF Chunks
  <1>3. PICK a \in Nat : a = chunk[m].end
    BY <1>1, <1>2, Numbers
  <1>4. PICK n \in Nat \ {0} : n = want.units
    BY HeapAssumption DEF MapChunk, WantKept
  <1>5. PICK z \in Nat \ {0} : z = ChunkSizeFor(n) /\ n <= z
    BY <1>4, HeapAssumption DEF ChunkSizeFor
  <1>6. /\ a + z - 1 <= Space
        /\ chunk' = Append(chunk, [base |-> a, used |-> a + n, end |-> a + z])
        /\ size' = [size EXCEPT ![a] = n] /\ flag' = [flag EXCEPT ![a] = 0]
        /\ start' = start \cup {a}
    BY <1>2, <1>3, <1>4, <1>5 DEF MapChunk, Mappable, LastChunk
  <1>7. /\ chunk[m].base \in Nat \ {0} /\ chunk[m].base <= chunk[m].used
        /\ chunk[m].used <= a /\ chunk[m].used \in Nat
    BY <1>1, <1>2, <1>3, Numbers DEF ChunksInOrder
  <1>8. a \in Addr /\ n \in 0..Space /\ Space \in Nat
    <2>1. Space \in Nat /\ a >= 1 /\ a + z - 1 <= Space
      BY <1>6, <1>7, HeapAssumption
    <2>2. a <= Space /\ z <= Space
      BY <2>1
    <2> QED BY <1>5, <2>1, <2>2 DEF Addr
  <1>9. PICK k \in Nat : k = m + 1
    OBVIOUS
  <1>10. [base |-> a, used |-> a + n, end |-> a + z] \in R
    BY <1>8
  <1>11. /\ chunk' \in Seq(R) /\ Len(chunk') = k
         /\ chunk'[k] = [base |-> a, used |-> a + n, end |-> a + z]
         /\ \A c \in 1..m : chunk'[c] = chunk[c]
    <2> HIDE DEF R
    <2> QED BY <1>1, <1>2, <1>6, <1>9, <1>10
  <1> HIDE DEF R
  <1>12. Chunks' = Chunks \cup {k} /\ k \notin Chunks
    <2>1. 1..k = (1..m) \cup {k}
      BY <1>9
    <2> QED BY <1>2, <1>9, <1>11, <2>1 DEF Chunks
  <1>13. chunk'[k].base = a /\ chunk'[k].used = a + n /\ chunk'[k].end = a + z
    BY <1>11
  <1>14. \A c \in Chunks : chunk'[c] = chunk[c]
    BY <1>2, <1>11
  <1>15. \A x \in Addr : size'[x] = IF x = a THEN n ELSE size[x]
    BY <1>6, <1>8 DEF TypeOK
  <1>16. \A x \in Addr : flag'[x] = IF x = a THEN 0 ELSE flag[x]
    BY <1>6, <1>8 DEF TypeOK
  <1>17. \A c \in Chunks' : chunk'[c].used \in Nat /\ chunk'[c].base \in Nat
    BY <1>1, <1>12, <1>13, <1>14, Numbers
  <1>18. \A c \in Chunks : chunk[c].end <= a
    <2> SUFFICES ASSUME NEW c \in Chunks PROVE chunk[c].end <= a
      OBVIOUS
    <2>1. CASE c = m
      BY <1>3, <2>1
    <2>2. CASE c # m
      <3>1. chunk[c].end <= chunk[m].base
        BY <1>1, <1>2, <2>2 DEF ChunksInOrder
      <3> QED BY <1>1, <1>7, <3>1, Numbers
    <2> QED BY <2>1, <2>2
  <1>19. ChunksInOrder'
    <2>1. chunk' # <<>>
      BY <1>9, <1>11
    <2>2. ASSUME NEW c \in Chunks'
          PROVE  /\ chunk'[c].base <= chunk'[c].used /\ chunk'[c].used <= chunk'[c].end
                 /\ chunk'[c].base < chunk'[c].end /\ chunk'[c].end <= Space + 1
      <3>1. CASE c = k
        <4>1. a <= a + n /\ a + n <= a + z /\ a < a + z /\ a + z <= Space + 1
          BY <1>5, <1>6, <1>8
        <4> QED BY <1>13, <3>1, <4>1
      <3>2. CASE c # k
        BY <1>1, <1>12, <1>14, <3>2 DEF ChunksInOrder
      <3> QED BY <3>1, <3>2
    <2>3. ASSUME NEW c \in Chunks', NEW d \in Chunks', c < d
          PROVE  chunk'[c].end <= chunk'[d].base
      <3>1. c \in Chunks
        <4>1. c # k
          BY <1>2, <1>9, <1>12, <2>3
        <4> QED BY <1>12, <4>1
      <3>2. CASE d = k
        BY <1>13, <1>14, <1>18, <3>1, <3>2
      <3>3. CASE d # k
        BY <1>1, <1>12, <1>14, <2>3, <3>1, <3>3 DEF ChunksInOrder
      <3> QED BY <3>2, <3>3
    <2> QED BY <2>1, <2>2, <2>3 DEF ChunksInOrder
  <1>20. \A x \in Header : x + size[x] <= a /\ x < a
    <2> SUFFICES ASSUME NEW x \in Header PROVE x + size[x] <= a /\ x < a
      OBVIOUS
    <2>1. x + size[x] <= chunk[m].used
      BY <1>1, <1>2, BeforeLast DEF LastChunk
    <2>2. x \in Nat /\ size[x] \in Nat \ {0}
      BY <1>1, Numbers DEF Header
    <2> QED BY <1>7, <2>1, <2>2
  <1>21. \A x \in Header : InBitmap(x)' <=> InBitmap(x)
    <2>1. \A x \in Header : ~(a <= x)
      BY <1>1, <1>20, Numbers DEF Header
    <2> QED BY <1>12, <1>13, <1>14, <2>1 DEF InBitmap
  <1>22. InBitmap(a)'
    <2>1. a <= a /\ a < a + z /\ a - a < Covered
      BY <1>5, HeapAssumption
    <2> QED BY <1>12, <1>13, <2>1 DEF InBitmap
  <1>23. start' = start \cup {x \in {a} : InBitmap(a)'}
    BY <1>6, <1>22
  <1>24. Laid' /\ Header' = Header \cup {a} /\ a \notin Header
    <2>1. k \in Chunks' /\ Chunks \subseteq Chunks' /\ k \notin Chunks
      BY <1>12
    <2>2. \A c \in Chunks' : chunk'[c].base \in Nat /\ chunk'[c].used \in Nat
      BY <1>17
    <2>3. \A c \in Chunks' : c # k => c \in Chunks /\ chunk'[c] = chunk[c]
      BY <1>12, <1>14
    <2>4. chunk'[k].base <= a
      BY <1>13
    <2>5. IF k \in Chunks THEN chunk'[k].base = chunk[k].base /\ chunk[k].used = a
                          ELSE chunk'[k].base = a
      BY <1>13, <2>1
    <2>6. \A x \in Header : x + size[x] <= a
      BY <1>20
    <2> QED BY <1>8, <1>13, <1>15, <1>19, <1>21, <1>23, <2>1, <2>2, <2>3, <2>4, <2>5, <2>6, BlockAdded
  <1>25. ChunkOf(a) = {}
    <2> SUFFICES ASSUME NEW c \in Chunks, chunk[c].base <= a, a < chunk[c].used PROVE FALSE
      BY DEF ChunkOf
    <2>1. chunk[c].used <= chunk[c].end /\ chunk[c].used \in Nat /\ chunk[c].end \in Nat
      BY <1>1, Numbers DEF ChunksInOrder
    <2> QED BY <1>18, <2>1
  <1>26. size' \in [Addr -> 0..Space] /\ flag' \in [Addr -> 0..2]
    BY <1>6, <1>8 DEF TypeOK
  <1>27. start' \subseteq Addr
    BY <1>6, <1>8 DEF TypeOK
  <1>28. \A c \in Chunks : /\ chunk'[c].base = chunk[c].base /\ chunk'[c].end = chunk[c].end
                           /\ chunk[c].used <= chunk'[c].used
    <2>1. \A c \in Chunks : chunk[c].used <= chunk[c].used
      BY <1>1, Numbers
    <2> QED BY <1>14, <2>1
  <1>29. Added(a, n)
    BY <1>11, <1>12, <1>15, <1>16, <1>24, <1>25, <1>26, <1>27, <1>28 DEF Added, R
  <1> QED BY <1>2, <1>3, <1>4, <1>5, <1>8, <1>9, <1>12, <1>13, <1>14, <1>29 DEF LastChunk

LEMMA BlocksMap ==
    ASSUME BlocksInv, MapChunk
    PROVE  BlocksInv'
  <1>1. TypeOK /\ Laid /\ WantKept /\ sweep = Idle
    BY DEF BlocksInv, SweepInPlace, MapChunk
  <1>2. PICK a \in Addr, k \in Chunks' :
             /\ Added(a, want.units)
             /\ k = Len(chunk) + 1 /\ Chunks' = Chunks \cup {k} /\ k \notin Chunks
    BY <1>1, MapAdds
  <1>3. \A x \in Header : flag'[x] = flag[x] /\ size'[x] = size[x]
    BY <1>2 DEF Header, Added
  <1>4. ListsExact' /\ SweepInPlace'
    <2>1. phase \notin {"sweep", "partition"} /\ phase' \notin {"sweep", "partition"} /\ UNCHANGED <<free, sweep>>
      BY DEF MapChunk
    <2>2. flag'[a] # 2
      BY <1>2 DEF Added
    <2> QED BY <1>2, <1>3, <2>1, <2>2, NoneFreed DEF Added
  <1>5. WantKept'
    BY DEF WantKept, MapChunk
  <1>6. Laid'
    BY <1>2 DEF Added
  <1>7. type' \in [Addr -> {"atomic", "traced"}] /\ root' \in [Slot -> Addr \cup {Nil}]
    <2>1. PICK b : type' = [type EXCEPT ![b] = want.type] /\ root' = [root EXCEPT ![want.slot] = b] /\ b = LastChunk.end
      BY DEF MapChunk, Deliver
    <2>2. want.type \in {"atomic", "traced"} /\ LastChunk.end \in Addr
      <3>1. PICK x \in Addr, y \in Chunks' : x = LastChunk.end
        BY <1>1, MapAdds
      <3> QED BY <1>1, <3>1 DEF TypeOK
    <2> QED BY <1>1, <2>1, <2>2 DEF TypeOK
  <1>8. dense' \in [Chunks' -> [list : Seq(Addr), count : Nat]]
    <2>1. Chunks' = 1..Len(chunk) + 1
      BY <1>1, <1>2, Numbers, SMTT(30) DEF Chunks, Laid
    <2>2. dense \in [Chunks -> [list : Seq(Addr), count : Nat]]
      BY <1>1 DEF TypeOK
    <2>3. [list |-> <<>>, count |-> 0] \in [list : Seq(Addr), count : Nat]
      OBVIOUS
    <2> QED BY <2>1, <2>2, <2>3 DEF MapChunk
  <1>9. denseStack' \in Seq(Chunks') /\ queued' \subseteq Chunks'
    BY <1>1, <1>2 DEF MapChunk, TypeOK
  <1>10. want' = NoRequest /\ phase' = "run" /\ UNCHANGED <<payload, free, todo, stack, sweep>>
    BY DEF MapChunk
  <1>11. TypeOK'
    BY <1>1, <1>2, <1>7, <1>8, <1>9, <1>10 DEF TypeOK, NoRequest, Added
  <1> QED BY <1>4, <1>5, <1>6, <1>11 DEF BlocksInv

-----------------------------------------------------------------------------
(* The sweep                                                               *)

Behind(x, c, b) == chunk[c].end <= x \/ (chunk[c].base <= x /\ x < b)

(* The sweep is about to look at block a of chunk c.                        *)
Looking(c, a) ==
    /\ c = sweep.chunk /\ a = sweep.at /\ c # 0
    /\ ChunkOf(a) = {c} /\ chunk[c].base <= a /\ a < chunk[c].used
    /\ a + size[a] \in Nat /\ chunk[c].base <= a + size[a] /\ a + size[a] <= chunk[c].used
    /\ a + size[a] # chunk[c].used => a + size[a] \in Header
    /\ a + size[a] # a
    /\ ~Swept(a)
    /\ \A x \in Header : Behind(x, c, a + size[a]) <=> Swept(x) \/ x = a

LEMMA Spot ==
    ASSUME BlocksInv, SweepTurn
    PROVE  \E c \in Chunks, a \in Header : Looking(c, a)
  <1>1. TypeOK /\ ChunksInOrder /\ Tiled /\ AtBoundary
    BY DEF BlocksInv, Laid, SweepInPlace, SweepTurn
  <1>2. PICK c \in Chunks : c = sweep.chunk /\ c # 0
    BY <1>1 DEF AtBoundary, SweepTurn
  <1>3. PICK a \in Header : /\ a = sweep.at /\ chunk[c].base <= a /\ a < chunk[c].used
    <2>1. sweep.at < chunk[c].used /\ sweep.at \in Nat
      BY <1>1, <1>2 DEF SweepTurn, TypeOK
    <2>2. sweep.at \in Header /\ chunk[c].base <= sweep.at
      BY <1>1, <1>2, <2>1, Numbers DEF AtBoundary
    <2> QED BY <2>1, <2>2
  <1>4. /\ chunk[c].base \in Nat \ {0} /\ chunk[c].used \in Nat /\ chunk[c].end \in Nat
        /\ chunk[c].used <= chunk[c].end
    BY <1>1, Numbers DEF ChunksInOrder
  <1>5. \A x \in Header : x \in Nat \ {0} /\ size[x] \in Nat \ {0}
    BY <1>1, Numbers DEF Header
  <1>6. c \in ChunkOf(a)
    BY <1>3 DEF ChunkOf
  <1>7. /\ ChunkOf(a) = {c} /\ a + size[a] <= chunk[c].used
        /\ a + size[a] # chunk[c].used => a + size[a] \in Header
    <2>1. PICK d \in Chunks : /\ ChunkOf(a) = {d} /\ a + size[a] <= chunk[d].used
                              /\ a + size[a] # chunk[d].used => a + size[a] \in Header
      BY <1>1, InChunk
    <2> QED BY <1>6, <2>1
  <1>8. \A x \in Header : Swept(x) <=> Behind(x, c, a)
    BY <1>2, <1>3 DEF Swept, Behind
  <1>9. ~Swept(a)
    BY <1>3, <1>4, <1>5, <1>8 DEF Behind
  <1>10. ASSUME NEW x \in Header
         PROVE  Behind(x, c, a + size[a]) <=> Swept(x) \/ x = a
    <2>1. a < x => a + size[a] <= x
      BY <1>1, Apart
    <2>2. x < a + size[a] <=> x < a \/ x = a
      BY <1>5, <2>1
    <2> QED BY <1>3, <1>4, <1>5, <1>8, <2>2 DEF Behind
  <1>11. a + size[a] \in Nat /\ chunk[c].base <= a + size[a] /\ a + size[a] # a
    BY <1>3, <1>4, <1>5
  <1> QED BY <1>2, <1>3, <1>7, <1>9, <1>10, <1>11 DEF Looking

(* What the sweep of a block leaves alone.                                  *)
LEMMA SweepTypes ==
    ASSUME TypeOK, UNCHANGED <<chunk, free, object, root, phase, want, marking>>,
           size' \in [Addr -> 0..Space], flag' \in [Addr -> 0..2], start' \subseteq Addr,
           sweep' \in [chunk : Nat, at : Nat, prev : Addr \cup {Nil}, list : Seq(Addr)]
    PROVE  TypeOK'
  BY SameChunks DEF TypeOK, object, marking

LEMMA BlocksSweepLive ==
    ASSUME BlocksInv, SweepLive
    PROVE  BlocksInv'
  <1>1. TypeOK /\ Laid /\ SweepInPlace /\ WantKept /\ phase = "sweep"
    BY DEF BlocksInv, SweepLive, SweepTurn
  <1>2. PICK c \in Chunks, a \in Header : Looking(c, a)
    BY Spot DEF SweepLive
  <1>3. /\ flag[a] = 1 /\ flag' = [flag EXCEPT ![a] = 0]
        /\ sweep' = [sweep EXCEPT !.at = a + size[a], !.prev = Nil]
        /\ UNCHANGED <<chunk, size, start, free, object, root, phase, want, marking>>
    BY <1>2 DEF SweepLive, Looking, Unmarked
  <1>4. sweep \in [chunk : Nat, at : Nat, prev : Addr \cup {Nil}, list : Seq(Addr)]
    BY <1>1 DEF TypeOK
  <1>5. /\ sweep' \in [chunk : Nat, at : Nat, prev : Addr \cup {Nil}, list : Seq(Addr)]
        /\ sweep'.chunk = c /\ sweep'.at = a + size[a] /\ sweep'.prev = Nil /\ sweep'.list = sweep.list
    BY <1>2, <1>3, <1>4 DEF Looking
  <1>6. flag' \in [Addr -> 0..2] /\ \A x \in Addr : flag'[x] = IF x = a THEN 0 ELSE flag[x]
    BY <1>1, <1>3 DEF TypeOK, Header
  <1>7. TypeOK'
    BY <1>1, <1>3, <1>5, <1>6, SweepTypes DEF TypeOK
  <1>8. Laid' /\ Header' = Header /\ Chunks' = Chunks
    BY <1>1, <1>3, SameSizes, SameChunks
  <1>9. Free' = Free /\ a \notin Free
    BY <1>3, <1>6, <1>8 DEF Free, Header
  <1>10. \A x \in Free : Swept(x)' <=> Swept(x)
    <2>1. \A x \in Header : Swept(x)' <=> Behind(x, c, a + size[a])
      BY <1>2, <1>3, <1>5 DEF Swept, Behind, Looking
    <2> QED BY <1>2, <1>9, <2>1 DEF Looking, Free
  <1>11. AtBoundary'
    BY <1>2, <1>3, <1>5, <1>8 DEF AtBoundary, Looking
  <1>12. SweepInPlace'
    BY <1>1, <1>3, <1>5, <1>9, <1>10, <1>11 DEF SweepInPlace
  <1>13. ListsExact' /\ WantKept'
    BY <1>1, <1>3 DEF ListsExact, WantKept
  <1> QED BY <1>7, <1>8, <1>12, <1>13 DEF BlocksInv

LEMMA BlocksSweepFree ==
    ASSUME BlocksInv, SweepFree
    PROVE  BlocksInv'
  <1>1. TypeOK /\ Laid /\ SweepInPlace /\ WantKept /\ phase = "sweep"
    BY DEF BlocksInv, SweepFree, SweepTurn
  <1>2. PICK c \in Chunks, a \in Header : Looking(c, a)
    BY Spot DEF SweepFree
  <1>3. /\ flag' = [flag EXCEPT ![a] = 2]
        /\ sweep' = [sweep EXCEPT !.at = a + size[a], !.prev = a, !.list = <<a>> \o sweep.list]
        /\ UNCHANGED <<chunk, size, start, free, object, root, phase, want, marking>>
    BY <1>2 DEF SweepFree, Looking
  <1>4. sweep \in [chunk : Nat, at : Nat, prev : Addr \cup {Nil}, list : Seq(Addr)] /\ a \in Addr
    BY <1>1 DEF TypeOK, Header
  <1>5. PICK q \in Seq(Addr) : /\ q = <<a>> \o sweep.list /\ Elems(q) = {a} \cup Elems(sweep.list)
                               /\ Distinct(sweep.list) /\ a \notin Elems(sweep.list) => Distinct(q)
    BY <1>4, ConsFacts
  <1>6. /\ sweep' \in [chunk : Nat, at : Nat, prev : Addr \cup {Nil}, list : Seq(Addr)]
        /\ sweep'.chunk = c /\ sweep'.at = a + size[a] /\ sweep'.prev = a /\ sweep'.list = q
    BY <1>2, <1>3, <1>4, <1>5 DEF Looking
  <1>7. flag' \in [Addr -> 0..2] /\ \A x \in Addr : flag'[x] = IF x = a THEN 2 ELSE flag[x]
    BY <1>1, <1>3 DEF TypeOK, Header
  <1>8. TypeOK'
    BY <1>1, <1>3, <1>6, <1>7, SweepTypes DEF TypeOK
  <1>9. Laid' /\ Header' = Header /\ Chunks' = Chunks
    BY <1>1, <1>3, SameSizes, SameChunks
  <1>10. Free' = Free \cup {a}
    BY <1>3, <1>7, <1>9 DEF Free, Header
  <1>11. \A x \in Free' : Swept(x)' <=> Swept(x) \/ x = a
    <2>1. \A x \in Header : Swept(x)' <=> Behind(x, c, a + size[a])
      BY <1>2, <1>3, <1>6 DEF Swept, Behind, Looking
    <2> QED BY <1>2, <1>10, <2>1 DEF Looking, Free
  <1>12. AtBoundary'
    BY <1>2, <1>3, <1>6, <1>9, <1>10 DEF AtBoundary, Looking
  <1>13. Elems(sweep.list) = {x \in Free : Swept(x)} /\ Distinct(sweep.list)
    BY <1>1 DEF SweepInPlace
  <1>14. a \notin Elems(sweep.list)
    BY <1>2, <1>13 DEF Looking
  <1>15. Elems(sweep'.list) = {x \in Free' : Swept(x)'} /\ Distinct(sweep'.list)
    BY <1>5, <1>6, <1>10, <1>11, <1>13, <1>14
  <1>16. SweepInPlace'
    BY <1>1, <1>3, <1>12, <1>15 DEF SweepInPlace
  <1>17. ListsExact' /\ WantKept'
    BY <1>1, <1>3 DEF ListsExact, WantKept
  <1> QED BY <1>8, <1>9, <1>16, <1>17 DEF BlocksInv

(* Coalesce, in terms of BlocksMerged: p absorbs a.                         *)
Merges(p, c, a) ==
    /\ Looking(c, a) /\ p = sweep.prev /\ p \in Free /\ p # a /\ p + size[p] = a
    /\ chunk[c].base <= p
    /\ Laid' /\ Header' = Header \ {a}
    /\ \A x \in Addr : size'[x] = IF x = p THEN size[p] + size[a] ELSE IF x = a THEN 0 ELSE size[x]
    /\ \A x \in Addr : flag'[x] = IF x = a THEN 2 ELSE flag[x]
    /\ size' \in [Addr -> 0..Space] /\ flag' \in [Addr -> 0..2] /\ start' \subseteq Addr

LEMMA Merging ==
    ASSUME BlocksInv, Coalesce
    PROVE  \E p \in Header, c \in Chunks, a \in Header : Merges(p, c, a)
  <1>1. TypeOK /\ Laid /\ SweepInPlace /\ AtBoundary /\ ChunksInOrder /\ Tiled
    BY DEF BlocksInv, Coalesce, SweepTurn, SweepInPlace, Laid
  <1>2. PICK c \in Chunks, a \in Header : Looking(c, a)
    BY Spot DEF Coalesce
  <1>3. /\ BehindFree
        /\ flag' = [flag EXCEPT ![a] = 2]
        /\ size' = Absorbed(sweep.prev, a)
        /\ start' = start \ WithBit(a)
        /\ UNCHANGED chunk
    BY <1>2 DEF Coalesce, Looking, BitCleared
  <1>4. PICK p \in Header : /\ p = sweep.prev /\ p \in Free /\ p + size[p] = a
                            /\ chunk[c].base <= p
    <2>1. sweep.prev \in Header /\ sweep.prev + size[sweep.prev] = a
      BY <1>2, <1>3 DEF BehindFree, Looking
    <2>2. sweep.prev # Nil
      BY <2>1, HeapAssumption DEF Header, Addr, Nil
    <2> QED BY <1>1, <1>2, <2>1, <2>2 DEF AtBoundary, Looking
  <1>5. p \in Nat \ {0} /\ size[p] \in Nat \ {0} /\ a \in Nat \ {0} /\ size[a] \in Nat \ {0}
    BY <1>1, Numbers DEF Header
  <1>6. p # a /\ p \in Addr /\ a \in Addr
    BY <1>4, <1>5 DEF Header
  <1>7. a + size[a] <= Space + 1
    BY <1>1, InChunk
  <1>8. size[p] + size[a] \in 0..Space /\ 0 \in 0..Space
    BY <1>4, <1>5, <1>7, HeapAssumption, SMTT(30)
  <1>9. \A x \in Addr : size'[x] = IF x = p THEN size[p] + size[a] ELSE IF x = a THEN 0 ELSE size[x]
    BY <1>1, <1>3, <1>4, <1>6 DEF Absorbed, TypeOK
  <1>10. size' \in [Addr -> 0..Space]
    BY <1>1, <1>3, <1>4, <1>6, <1>8 DEF Absorbed, TypeOK
  <1>11. flag' \in [Addr -> 0..2] /\ \A x \in Addr : flag'[x] = IF x = a THEN 2 ELSE flag[x]
    BY <1>1, <1>3, <1>6 DEF TypeOK
  <1>12. start' \subseteq Addr
    BY <1>1, <1>3 DEF TypeOK
  <1>13. Laid' /\ Header' = Header \ {a}
    BY <1>1, <1>2, <1>3, <1>4, <1>9, BlocksMerged DEF Looking
  <1> QED BY <1>2, <1>4, <1>6, <1>9, <1>10, <1>11, <1>12, <1>13 DEF Merges

LEMMA BlocksCoalesce ==
    ASSUME BlocksInv, Coalesce
    PROVE  BlocksInv'
  <1>1. TypeOK /\ SweepInPlace /\ WantKept /\ phase = "sweep" /\ ChunksInOrder
    BY DEF BlocksInv, Coalesce, SweepTurn, Laid
  <1>2. PICK p \in Header, c \in Chunks, a \in Header : Merges(p, c, a)
    BY Merging
  <1>3. /\ sweep' = [sweep EXCEPT !.at = a + size[a]]
        /\ UNCHANGED <<chunk, free, object, root, phase, want, marking>>
    BY <1>2 DEF Coalesce, Merges, Looking
  <1>4. sweep \in [chunk : Nat, at : Nat, prev : Addr \cup {Nil}, list : Seq(Addr)]
    BY <1>1 DEF TypeOK
  <1>5. /\ sweep' \in [chunk : Nat, at : Nat, prev : Addr \cup {Nil}, list : Seq(Addr)]
        /\ sweep'.chunk = c /\ sweep'.at = a + size[a] /\ sweep'.prev = p /\ sweep'.list = sweep.list
    BY <1>2, <1>3, <1>4 DEF Merges, Looking
  <1>6. TypeOK'
    BY <1>1, <1>2, <1>3, <1>5, SweepTypes DEF Merges
  <1>7. Free' = Free \ {a} /\ Header' = Header \ {a} /\ Chunks' = Chunks
    BY <1>2, <1>3, SameChunks DEF Free, Merges, Header
  <1>8. \A x \in Free' : Swept(x)' <=> Swept(x)
    <2>1. \A x \in Header : Swept(x)' <=> Behind(x, c, a + size[a])
      BY <1>2, <1>3, <1>5 DEF Swept, Behind, Looking, Merges
    <2> QED BY <1>2, <1>7, <2>1 DEF Looking, Free, Merges
  <1>9. AtBoundary'
    <2>1. p \in Free' /\ a + size[a] # a
      BY <1>2, <1>7 DEF Merges, Looking
    <2>2. p + size'[p] = a + size[a]
      <3>1. p \in Addr /\ a \in Addr /\ p \in Nat /\ size[p] \in Nat /\ a \in Nat /\ size[a] \in Nat
        BY <1>1, Numbers DEF Header
      <3> QED BY <1>2, <3>1 DEF Merges
    <2> QED BY <1>2, <1>3, <1>5, <1>7, <2>1, <2>2 DEF AtBoundary, Looking, Merges
  <1>10. Elems(sweep.list) = {x \in Free : Swept(x)} /\ Distinct(sweep.list) /\ ~Swept(a)
    BY <1>1, <1>2 DEF SweepInPlace, Looking, Merges
  <1>11. SweepInPlace'
    BY <1>1, <1>3, <1>5, <1>7, <1>8, <1>9, <1>10 DEF SweepInPlace
  <1>12. ListsExact' /\ WantKept'
    BY <1>1, <1>3 DEF ListsExact, WantKept
  <1>13. Laid'
    BY <1>2 DEF Merges
  <1> QED BY <1>6, <1>11, <1>12, <1>13 DEF BlocksInv

(* Going to the next chunk leaves what has been swept as it is.             *)
LEMMA NextSwept ==
    ASSUME BlocksInv, NextChunk
    PROVE  \A x \in Header : Swept(x)' <=> Swept(x)
  <1>1. TypeOK /\ ChunksInOrder /\ Tiled /\ AtBoundary
    BY DEF BlocksInv, Laid, SweepInPlace, NextChunk
  <1>2. PICK c \in Chunks : c = sweep.chunk /\ c # 0 /\ c \in Nat \ {0}
    BY <1>1, Numbers DEF AtBoundary, NextChunk
  <1>3. sweep.at = chunk[c].used
    <2>1. sweep.at >= chunk[c].used /\ sweep.at <= chunk[c].used /\ sweep.at \in Nat
      BY <1>1, <1>2 DEF NextChunk, AtBoundary, TypeOK
    <2> QED BY <1>1, <2>1, Numbers
  <1>4. sweep' = [sweep EXCEPT !.chunk = @ - 1, !.prev = Nil,
                               !.at = IF sweep.chunk = 1 THEN 0 ELSE chunk[sweep.chunk - 1].base]
    BY DEF NextChunk
  <1>5. /\ sweep'.chunk = c - 1
        /\ c # 1 => sweep'.at = chunk[c - 1].base
    <2>1. sweep \in [chunk : Nat, at : Nat, prev : Addr \cup {Nil}, list : Seq(Addr)]
      BY <1>1 DEF TypeOK
    <2> QED BY <1>2, <1>4, <2>1
  <1>6. SUFFICES ASSUME NEW x \in Header PROVE Swept(x)' <=> Swept(x)
    OBVIOUS
  <1>7. PICK d \in Chunks : chunk[d].base <= x /\ x < chunk[d].used /\ x < chunk[d].end
    BY <1>1, InChunk
  <1>8. x \in Nat
    BY <1>1, Numbers DEF Header
  <1>9. /\ chunk[c].base \in Nat /\ chunk[c].end \in Nat /\ chunk[c].used \in Nat
        /\ chunk[d].base \in Nat /\ chunk[d].end \in Nat /\ chunk[d].used \in Nat
        /\ c \in Nat /\ d \in Nat
        /\ chunk[c].base <= chunk[c].used /\ chunk[c].used <= chunk[c].end
        /\ chunk[d].base <= chunk[d].used /\ chunk[d].used <= chunk[d].end
    BY <1>1, Numbers DEF ChunksInOrder
  <1>10. c < d => chunk[c].end <= chunk[d].base
    BY <1>1 DEF ChunksInOrder
  <1>11. d < c => chunk[d].end <= chunk[c].base
    BY <1>1 DEF ChunksInOrder
  <1>12. Swept(x) <=> c <= d
    <2>1. Swept(x) <=> chunk[c].end <= x \/ (chunk[c].base <= x /\ x < chunk[c].used)
      BY <1>2, <1>3 DEF Swept
    <2>2. CASE c = d
      BY <1>7, <1>8, <1>9, <2>1, <2>2
    <2>3. CASE c < d
      BY <1>7, <1>8, <1>9, <1>10, <2>1, <2>3
    <2>4. CASE d < c
      BY <1>7, <1>8, <1>9, <1>11, <2>1, <2>4
    <2> QED BY <1>9, <2>2, <2>3, <2>4
  <1>13. Swept(x)' <=> c <= d
    <2>1. CASE c = 1
      <3>1. Swept(x)'
        BY <1>5, <2>1 DEF Swept
      <3>2. c <= d
        BY <1>1, <2>1, Numbers DEF Chunks
      <3> QED BY <3>1, <3>2
    <2>2. CASE c # 1
      <3>1. PICK b \in Chunks : b = c - 1 /\ b \in Nat \ {0}
        <4>1. c - 1 \in Chunks /\ c - 1 \in Nat \ {0}
          BY <1>1, <1>2, <2>2, Numbers DEF Chunks
        <4> QED BY <4>1
      <3>2. Swept(x)' <=> chunk[b].end <= x \/ (chunk[b].base <= x /\ x < chunk[b].base)
        BY <1>5, <2>2, <3>1 DEF Swept, NextChunk, blocks
      <3>3. /\ chunk[b].base \in Nat /\ chunk[b].end \in Nat
            /\ chunk[b].base <= chunk[b].end
        BY <1>1, Numbers DEF ChunksInOrder
      <3>4. b < d => chunk[b].end <= chunk[d].base
        BY <1>1 DEF ChunksInOrder
      <3>5. d < b => chunk[d].end <= chunk[b].base
        BY <1>1 DEF ChunksInOrder
      <3>6. CASE b < d
        BY <1>2, <1>7, <1>8, <1>9, <3>1, <3>2, <3>3, <3>4, <3>6
      <3>7. CASE d < b
        BY <1>2, <1>7, <1>8, <1>9, <3>1, <3>2, <3>3, <3>5, <3>7
      <3>8. CASE d = b
        BY <1>2, <1>7, <1>8, <1>9, <3>1, <3>2, <3>3, <3>8
      <3> QED BY <1>9, <3>1, <3>6, <3>7, <3>8
    <2> QED BY <2>1, <2>2
  <1> QED BY <1>12, <1>13

LEMMA BlocksNextChunk ==
    ASSUME BlocksInv, NextChunk
    PROVE  BlocksInv'
  <1>1. TypeOK /\ Laid /\ ChunksInOrder /\ Tiled /\ AtBoundary /\ SweepInPlace /\ WantKept /\ phase = "sweep"
    BY DEF BlocksInv, Laid, SweepInPlace, NextChunk
  <1>2. UNCHANGED <<chunk, size, flag, start, free, object, root, phase, want, marking>>
    BY DEF NextChunk, blocks
  <1>3. PICK c \in Chunks : c = sweep.chunk /\ c \in Nat \ {0}
    BY <1>1, Numbers DEF AtBoundary, NextChunk
  <1>4. c # 1 => c - 1 \in Chunks /\ c - 1 # 0 /\ chunk[c - 1].base \in Nat
    <2>1. c # 1 => c - 1 \in Chunks /\ c - 1 # 0
      BY <1>1, <1>3, Numbers DEF Chunks
    <2> QED BY <1>1, <2>1, Numbers
  <1>5. sweep \in [chunk : Nat, at : Nat, prev : Addr \cup {Nil}, list : Seq(Addr)]
    BY <1>1 DEF TypeOK
  <1>6. /\ sweep' \in [chunk : Nat, at : Nat, prev : Addr \cup {Nil}, list : Seq(Addr)]
        /\ sweep'.chunk = c - 1 /\ sweep'.prev = Nil /\ sweep'.list = sweep.list
        /\ c # 1 => sweep'.at = chunk[c - 1].base
    <2>1. PICK b \in Nat : b = (IF c = 1 THEN 0 ELSE chunk[c - 1].base)
      BY <1>4
    <2>2. sweep' = [sweep EXCEPT !.chunk = c - 1, !.prev = Nil, !.at = b]
      BY <1>3, <2>1 DEF NextChunk
    <2>3. c - 1 \in Nat
      BY <1>3
    <2>4. /\ sweep' \in [chunk : Nat, at : Nat, prev : Addr \cup {Nil}, list : Seq(Addr)]
          /\ sweep'.chunk = c - 1 /\ sweep'.prev = Nil /\ sweep'.list = sweep.list /\ sweep'.at = b
      BY <1>5, <2>2, <2>3
    <2> QED BY <2>1, <2>4
  <1>7. TypeOK'
    BY <1>1, <1>2, <1>6, SweepTypes DEF TypeOK
  <1>8. Laid' /\ Header' = Header /\ Chunks' = Chunks
    BY <1>1, <1>2, SameSizes, SameChunks
  <1>9. Free' = Free
    BY <1>2, <1>8 DEF Free
  <1>10. {x \in Free : Swept(x)}' = {x \in Free : Swept(x)}
    BY <1>9, NextSwept DEF Free
  <1>11. c # 1 => AtBoundary'
    <2> SUFFICES ASSUME c # 1 PROVE AtBoundary'
      OBVIOUS
    <2>1. PICK d \in Chunks : d = c - 1
      BY <1>4
    <2>2. sweep'.chunk = d /\ sweep'.at = chunk'[d].base /\ sweep'.prev = Nil
      BY <1>2, <1>6, <2>1
    <2>3. /\ chunk[d].base <= chunk[d].used /\ chunk[d].base <= chunk[d].base
          /\ chunk[d].used # chunk[d].base => chunk[d].base \in Header
      BY <1>1, Numbers DEF Tiled
    <2> QED BY <1>2, <1>8, <2>2, <2>3 DEF AtBoundary
  <1>12. sweep'.chunk # 0 => AtBoundary'
    BY <1>3, <1>6, <1>11
  <1>13. SweepInPlace'
    BY <1>1, <1>2, <1>6, <1>10, <1>12 DEF SweepInPlace
  <1>14. ListsExact' /\ WantKept'
    BY <1>1, <1>2 DEF ListsExact, WantKept
  <1> QED BY <1>7, <1>8, <1>13, <1>14 DEF BlocksInv

LEMMA BlocksPartition ==
    ASSUME BlocksInv, StartPartition \/ Partition \/ EndCollection
    PROVE  BlocksInv'
  <1>1. TypeOK /\ Laid /\ ListsExact /\ SweepInPlace /\ WantKept
    BY DEF BlocksInv
  <1>2. /\ UNCHANGED <<chunk, size, flag, start, object, root, want, marking>>
        /\ phase # "run"
    BY DEF StartPartition, Partition, EndCollection, blocks
  <1>3. Laid' /\ Header' = Header /\ Chunks' = Chunks
    BY <1>1, <1>2, SameSizes, SameChunks
  <1>4. Free' = Free /\ \A c : OfClass(c)' = OfClass(c)
    BY <1>2, <1>3 DEF Free, OfClass
  <1>5. WantKept'
    BY <1>1, <1>2 DEF WantKept
  <1>6. sweep \in [chunk : Nat, at : Nat, prev : Addr \cup {Nil}, list : Seq(Addr)] /\ free \in [Class -> Seq(Addr)]
    BY <1>1 DEF TypeOK
  <1>7. ASSUME free' \in [Class -> Seq(Addr)], phase' \in {"partition", "retry"},
               sweep' \in [chunk : Nat, at : Nat, prev : Addr \cup {Nil}, list : Seq(Addr)]
        PROVE  TypeOK'
    BY <1>1, <1>2, <1>3, <1>7 DEF TypeOK, object, marking
  <1>8. CASE StartPartition
    <2>1. /\ phase = "sweep" /\ phase' = "partition" /\ sweep' = sweep /\ sweep.chunk = 0
          /\ free' = [c \in Class |-> <<>>]
      BY <1>8 DEF StartPartition
    <2>2. Elems(sweep.list) = Free
      BY <1>1, <2>1 DEF SweepInPlace, Swept
    <2>3. ListsExact'
      <3>1. ASSUME NEW c \in Class
            PROVE  Distinct(free'[c]) /\ Elems(free'[c]) = OfClass(c)' \ Elems(sweep'.list)
        <4>1. free'[c] = <<>>
          BY <2>1
        <4>2. Distinct(<<>>) /\ Elems(<<>>) = {}
          BY DEF Distinct, Elems
        <4>3. OfClass(c)' \ Elems(sweep'.list) = {}
          BY <1>4, <2>1, <2>2 DEF OfClass
        <4> QED BY <4>1, <4>2, <4>3
      <3> QED BY <3>1 DEF ListsExact
    <2>4. SweepInPlace'
      BY <1>1, <1>4, <2>1, <2>2 DEF SweepInPlace
    <2>5. free' \in [Class -> Seq(Addr)]
      BY <2>1
    <2> QED BY <1>3, <1>5, <1>6, <1>7, <2>1, <2>3, <2>4, <2>5 DEF BlocksInv
  <1>9. CASE Partition
    <2>1. /\ phase = "partition" /\ phase' = "partition" /\ sweep.chunk = 0 /\ sweep.list # <<>>
          /\ Elems(sweep.list) \subseteq Free /\ Distinct(sweep.list) /\ sweep.list \in Seq(Addr)
      BY <1>1, <1>6, <1>9 DEF Partition, SweepInPlace
    <2>2. PICK a \in Addr, q \in Seq(Addr) :
               /\ a = Head(sweep.list) /\ q = Tail(sweep.list)
               /\ Elems(sweep.list) = {a} \cup Elems(q)
               /\ Distinct(q) /\ a \notin Elems(q)
      BY <2>1, TailFacts
    <2>3. a \in Free /\ size[a] \in Nat
      <3>1. a \in Free
        BY <2>1, <2>2
      <3> QED BY <1>1, <3>1, Numbers DEF Free, Header, Laid
    <2>4. PICK r \in Class : r = ClassOf(size[a])
      BY <2>3, ClassOfIsClass
    <2>5. /\ free' = [free EXCEPT ![r] = <<a>> \o free[r]]
          /\ sweep' = [sweep EXCEPT !.list = q]
      BY <1>9, <2>2, <2>4 DEF Partition
    <2>6. /\ sweep' \in [chunk : Nat, at : Nat, prev : Addr \cup {Nil}, list : Seq(Addr)]
          /\ sweep'.chunk = 0 /\ sweep'.list = q
      BY <1>6, <2>1, <2>2, <2>5
    <2>7. PICK w \in Seq(Addr) : /\ w = <<a>> \o free[r]
                                 /\ Elems(w) = {a} \cup Elems(free[r])
                                 /\ Distinct(free[r]) /\ a \notin Elems(free[r]) => Distinct(w)
      BY <1>6, ConsFacts
    <2>8. \A c \in Class : free'[c] = IF c = r THEN w ELSE free[c]
      BY <1>6, <2>5, <2>7
    <2>9. free' \in [Class -> Seq(Addr)]
      BY <1>6, <2>5, <2>7
    <2>10. \A c \in Class : Distinct(free[c]) /\ Elems(free[c]) = OfClass(c) \ Elems(sweep.list)
      BY <1>1, <2>1 DEF ListsExact
    <2>11. a \in Elems(sweep.list) /\ \A c \in Class : a \in OfClass(c) <=> c = r
      BY <2>2, <2>3, <2>4 DEF OfClass
    <2>12. ASSUME NEW c \in Class
           PROVE  Distinct(free'[c]) /\ Elems(free'[c]) = OfClass(c)' \ Elems(sweep'.list)
      <3>1. CASE c = r
        BY <1>4, <2>2, <2>6, <2>7, <2>8, <2>10, <2>11, <3>1, ZenonT(60)
      <3>2. CASE c # r
        BY <1>4, <2>2, <2>6, <2>8, <2>10, <2>11, <3>2
      <3> QED BY <3>1, <3>2
    <2>13. ListsExact'
      BY <2>12 DEF ListsExact
    <2>14. SweepInPlace'
      BY <1>4, <2>1, <2>2, <2>6 DEF SweepInPlace
    <2> QED BY <1>3, <1>5, <1>7, <2>1, <2>6, <2>9, <2>13, <2>14 DEF BlocksInv
  <1>10. CASE EndCollection
    <2>1. /\ phase = "partition" /\ phase' = "retry" /\ sweep' = Idle /\ free' = free /\ sweep.list = <<>>
      BY <1>10 DEF EndCollection, blocks
    <2>2. Elems(<<>>) = {} /\ Distinct(<<>>)
      BY DEF Elems, Distinct
    <2>3. Idle.list = <<>> /\ Idle \in [chunk : Nat, at : Nat, prev : Addr \cup {Nil}, list : Seq(Addr)]
      BY DEF Idle
    <2>4. ListsExact'
      BY <1>1, <1>4, <2>1, <2>2, <2>3 DEF ListsExact
    <2>5. SweepInPlace'
      BY <2>1, <2>2, <2>3 DEF SweepInPlace
    <2> QED BY <1>3, <1>5, <1>6, <1>7, <2>1, <2>3, <2>4, <2>5 DEF BlocksInv
  <1> QED BY <1>8, <1>9, <1>10

(* A sweep that begins has passed no block.                                 *)
LEMMA StartUnswept ==
    ASSUME BlocksInv, StartSweep, NEW x \in Header
    PROVE  ~Swept(x)'
  <1>1. /\ UNCHANGED chunk
        /\ sweep' = [chunk |-> Len(chunk), at |-> LastChunk.base, prev |-> Nil, list |-> <<>>]
    BY DEF StartSweep, blocks
  <1>2. TypeOK /\ ChunksInOrder /\ Tiled
    BY DEF BlocksInv, Laid
  <1>3. PICK m \in Chunks : m = Len(chunk) /\ m \in Nat \ {0} /\ chunk[m].base \in Nat
    BY <1>2, Numbers
  <1>4. x + size[x] <= chunk[m].used /\ x \in Nat /\ size[x] \in Nat \ {0}
    BY <1>2, <1>3, BeforeLast, Numbers DEF LastChunk, Header
  <1>5. chunk[m].used <= chunk[m].end /\ chunk[m].used \in Nat /\ chunk[m].end \in Nat
    BY <1>2, Numbers DEF ChunksInOrder
  <1>6. ~(chunk[m].end <= x) /\ ~(chunk[m].base <= x /\ x < chunk[m].base)
    BY <1>3, <1>4, <1>5
  <1>7. sweep'.chunk = m /\ sweep'.at = chunk[m].base
    BY <1>1, <1>3 DEF LastChunk
  <1> QED BY <1>1, <1>3, <1>6, <1>7 DEF Swept

LEMMA BlocksStep == BlocksInv /\ [Next]_vars => BlocksInv'
  <1> SUFFICES ASSUME BlocksInv, [Next]_vars PROVE BlocksInv'
    OBVIOUS
  <1>1. CASE UNCHANGED vars
    <2>1. UNCHANGED <<chunk, size, flag, start, free, object, root, phase, want, marking, sweep>>
      BY <1>1 DEF vars, blocks
    <2>2. Laid' /\ ListsExact' /\ SweepInPlace'
      BY <2>1, Quiet
    <2>3. TypeOK'
      BY <2>1, SameChunks DEF BlocksInv, TypeOK, object, marking
    <2>4. WantKept'
      BY <2>1 DEF BlocksInv, WantKept
    <2> QED BY <2>2, <2>3, <2>4 DEF BlocksInv
  <1>2. ASSUME NEW n \in Request, NEW s \in Slot, NEW t \in {"atomic", "traced"}, Bump(n, s, t)
        PROVE  BlocksInv'
    BY <1>2, BlocksBump
  <1>3. ASSUME NEW n \in Request, NEW s \in Slot, NEW t \in {"atomic", "traced"}, Reuse(n, s, t)
        PROVE  BlocksInv'
    BY <1>3, BlocksTaken DEF Reuse
  <1>4. ASSUME NEW n \in Request, NEW s \in Slot, NEW t \in {"atomic", "traced"}, StartCollection(n, s, t)
        PROVE  BlocksInv'
    BY <1>4, BlocksStart
  <1>5. CASE RetryFree
    <2>1. want.units \in Request /\ want.slot \in Slot /\ want.type \in {"atomic", "traced"}
      BY <1>5 DEF RetryFree, BlocksInv, WantKept, TypeOK
    <2>2. PICK n \in Request, s \in Slot, t \in {"atomic", "traced"} : FreeTake(n, s, t)
      BY <1>5, <2>1 DEF RetryFree
    <2>3. /\ phase \notin {"sweep", "partition"} /\ phase' = "run"
          /\ UNCHANGED <<marking, sweep>> /\ want' = NoRequest
      BY <1>5 DEF RetryFree
    <2> QED BY <2>2, <2>3, BlocksTaken
  <1>6. CASE Mark
    BY <1>6, BlocksMark
  <1>7. CASE TraceNext \/ TraceDense \/ RetireChunk \/ OutOfMemory
    BY <1>7, BlocksTrace
  <1>8. CASE StartSweep
    <2>1. /\ UNCHANGED <<chunk, size, flag, start, free, object, root, want, marking>>
          /\ phase = "mark" /\ phase' = "sweep"
          /\ sweep' = [chunk |-> Len(chunk), at |-> LastChunk.base, prev |-> Nil, list |-> <<>>]
      BY <1>8 DEF StartSweep, blocks
    <2>2. TypeOK /\ Laid /\ WantKept /\ ChunksInOrder /\ Tiled
      BY DEF BlocksInv, Laid
    <2>3. Laid' /\ Header' = Header /\ Chunks' = Chunks
      BY <2>1, <2>2, SameSizes, SameChunks
    <2>4. PICK m \in Chunks : /\ m = Len(chunk) /\ m \in Nat \ {0} /\ chunk[m].base \in Nat
                              /\ chunk[m].base <= chunk[m].used
                              /\ chunk[m].used # chunk[m].base => chunk[m].base \in Header
      BY <2>2, Numbers DEF Tiled
    <2>5. /\ sweep' \in [chunk : Nat, at : Nat, prev : Addr \cup {Nil}, list : Seq(Addr)]
          /\ sweep'.chunk = m /\ sweep'.at = chunk[m].base /\ sweep'.prev = Nil /\ sweep'.list = <<>>
      BY <2>1, <2>4 DEF LastChunk
    <2>6. TypeOK'
      BY <2>1, <2>2, <2>3, <2>5 DEF TypeOK, object, marking
    <2>7. \A x \in Header : ~Swept(x)'
      BY <1>8, StartUnswept
    <2>8. Elems(<<>>) = {} /\ Distinct(<<>>)
      BY DEF Elems, Distinct
    <2>9. {x \in Free : Swept(x)}' = {}
      BY <2>3, <2>7 DEF Free
    <2>10. AtBoundary'
      <3>1. chunk[m].base <= chunk[m].base
        BY <2>4
      <3> QED BY <2>1, <2>3, <2>4, <2>5, <3>1 DEF AtBoundary
    <2>11. SweepInPlace'
      BY <2>1, <2>5, <2>8, <2>9, <2>10 DEF SweepInPlace
    <2>12. ListsExact' /\ WantKept'
      BY <2>1, <2>2 DEF ListsExact, WantKept
    <2> QED BY <2>3, <2>6, <2>11, <2>12 DEF BlocksInv
  <1>9. CASE SweepLive
    BY <1>9, BlocksSweepLive
  <1>10. CASE SweepFree
    BY <1>10, BlocksSweepFree
  <1>11. CASE Coalesce
    BY <1>11, BlocksCoalesce
  <1>12. CASE NextChunk
    BY <1>12, BlocksNextChunk
  <1>13. CASE StartPartition \/ Partition \/ EndCollection
    BY <1>13, BlocksPartition
  <1>14. CASE MapChunk
    BY <1>14, BlocksMap
  <1>15. CASE Program
    BY <1>15, BlocksProgram
  <1> QED BY <1>1, <1>2, <1>3, <1>4, <1>5, <1>6, <1>7, <1>8, <1>9, <1>10, <1>11, <1>12, <1>13,
             <1>14, <1>15 DEF Next, Allocate, Collector

(* Blocks, start bits and free lists always describe one heap: the blocks   *)
(* tile every chunk whatever is split, absorbed or mapped, the bits of the  *)
(* bitmap are the headers, and outside a sweep the lists hold every free    *)
(* block once, in its class.                                                *)
THEOREM BlocksBitsAndListsAgree == Spec => []HeapConsistent
  <1>1. BlocksInv => HeapConsistent
    <2> SUFFICES ASSUME BlocksInv PROVE HeapConsistent
      OBVIOUS
    <2>1. TypeOK /\ Tiled /\ ListsExact
      BY DEF BlocksInv, Laid
    <2>2. BitsAreHeaders
      BY DEF BlocksInv, Laid, BitsExact, BitsAreHeaders
    <2>3. ASSUME phase \notin {"sweep", "partition"}
          PROVE  /\ \A c \in Class : \A i \in DOMAIN free[c] :
                      /\ free[c][i] \in Header /\ flag[free[c][i]] = 2
                      /\ ClassOf(size[free[c][i]]) = c
                      /\ \A j \in 1..i - 1 : free[c][j] # free[c][i]
                 /\ \A a \in Header : flag[a] = 2 => \E c \in Class : \E i \in DOMAIN free[c] : free[c][i] = a
      <3>1. \A c \in Class : Distinct(free[c]) /\ Elems(free[c]) = OfClass(c)
        <4>1. Elems(sweep.list) = {}
          BY <2>3 DEF BlocksInv, SweepInPlace, Idle, Elems
        <4> QED BY <2>1, <2>3, <4>1 DEF ListsExact
      <3>2. ASSUME NEW c \in Class, NEW i \in DOMAIN free[c]
            PROVE  /\ free[c][i] \in Header /\ flag[free[c][i]] = 2
                   /\ ClassOf(size[free[c][i]]) = c
                   /\ \A j \in 1..i - 1 : free[c][j] # free[c][i]
        <4>1. free[c][i] \in OfClass(c)
          BY <3>1 DEF Elems
        <4>2. DOMAIN free[c] = 1..Len(free[c]) /\ Len(free[c]) \in Nat
          BY <2>1 DEF TypeOK
        <4>3. \A j \in 1..i - 1 : j \in DOMAIN free[c] /\ j # i
          BY <4>2
        <4> QED BY <3>1, <4>1, <4>3 DEF OfClass, Free, Distinct
      <3>3. ASSUME NEW a \in Header, flag[a] = 2
            PROVE  \E c \in Class : \E i \in DOMAIN free[c] : free[c][i] = a
        <4>1. size[a] \in Nat
          BY <2>1, Numbers DEF Header, BlocksInv, Laid
        <4>2. PICK c \in Class : c = ClassOf(size[a])
          BY <4>1, ClassOfIsClass
        <4>3. a \in Elems(free[c])
          BY <3>1, <3>3, <4>2 DEF OfClass, Free
        <4> QED BY <4>3 DEF Elems
      <3> QED BY <3>2, <3>3
    <2>4. FreeListsExact
      BY <2>3 DEF FreeListsExact
    <2> QED BY <2>1, <2>2, <2>4 DEF HeapConsistent
  <1> QED BY <1>1, BlocksInit, BlocksStep, PTL DEF Spec

-----------------------------------------------------------------------------
(* What the collector takes for granted: a chunk's bitmap has a bit for     *)
(* every unit of the longest allocation.                                    *)
WithinBitmap == \A n \in Request : n <= Covered

-----------------------------------------------------------------------------
(* The invariant                                                           *)

AllCovered == \A c \in Chunks : chunk[c].end - chunk[c].base <= Covered

(* Marks exist while a collection needs them, on blocks it has not swept.   *)
Markable(a) ==
    /\ a \in Header
    /\ phase \in {"mark", "sweep"}
    /\ phase = "sweep" => ~Swept(a)

MarkedAreHeaders == \A a \in Addr : flag[a] = 1 => Markable(a)

GrayAreMarked == phase = "mark" => \A a \in Addr : InLists(a) \/ InDense(a) => flag[a] = 1
QueuedOnce == phase = "mark" => Distinct(denseStack)

Colours == GrayAreMarked /\ WorkIsQueued /\ QueuedOnce /\ NothingOverlooked

(* What is not free, or will not be once the sweep is over.                 *)
Kept == {a \in Header : IF phase = "sweep" /\ ~Swept(a) THEN flag[a] = 1 ELSE flag[a] # 2}

KeptClosed ==
    /\ \A s \in Slot : root[s] # Nil => root[s] \in Kept
    /\ \A a \in Kept : Targets(a) \subseteq Kept

(* No words lie where no block is, nor in an object without references.     *)
PayloadsClean ==
    /\ \A a \in Addr : payload[a] # {} => ChunkOf(a) # {}
    /\ \A a \in Allocated : type[a] = "atomic" => payload[a] = {}

MarkInv == BlocksInv /\ AllCovered /\ MarkedAreHeaders /\ Colours /\ KeptClosed /\ PayloadsClean

-----------------------------------------------------------------------------
(* What the marker learns from a start bit                                 *)

LEMMA BitTells ==
    ASSUME BlocksInv, AllCovered, NEW a \in Addr, ChunkOf(a) # {}
    PROVE  StartBit(a) = {a \in Header}
  <1>1. TypeOK /\ ChunksInOrder /\ BitsExact
    BY DEF BlocksInv, Laid
  <1>2. PICK c \in Chunks : chunk[c].base <= a /\ a < chunk[c].used
    BY DEF ChunkOf
  <1>3. /\ chunk[c].base \in Nat /\ chunk[c].used \in Nat /\ chunk[c].end \in Nat /\ a \in Nat
        /\ chunk[c].used <= chunk[c].end /\ chunk[c].end - chunk[c].base <= Covered
        /\ Covered \in Nat
    BY <1>1, Numbers, HeapAssumption DEF ChunksInOrder, AllCovered
  <1>4. a < chunk[c].end /\ a - chunk[c].base < Covered
    BY <1>2, <1>3
  <1>5. InBitmap(a)
    BY <1>2, <1>4 DEF InBitmap
  <1>6. a \in start <=> a \in Header
    BY <1>1, <1>5 DEF BitsExact
  <1>7. StartBit(a) = {a \in start}
    BY <1>5 DEF StartBit
  <1> QED BY <1>6, <1>7

LEMMA Accepted ==
    ASSUME BlocksInv, AllCovered, NEW a \in Addr, Accept(a)
    PROVE  /\ a \in Header /\ flag[a] = 0 /\ flag' \in [Addr -> 0..2]
           /\ \A x \in Addr : flag'[x] = IF x = a THEN 1 ELSE flag[x]
  <1>1. StartBit(a) = {a \in Header}
    BY BitTells DEF Accept
  <1>2. TRUE \in StartBit(a) /\ flag[a] = 0 /\ flag' = [flag EXCEPT ![a] = 1]
    BY DEF Accept
  <1>3. flag \in [Addr -> 0..2]
    BY DEF BlocksInv, TypeOK
  <1>4. a \in Header
    BY <1>1, <1>2
  <1> QED BY <1>2, <1>3, <1>4

LEMMA Rejected ==
    ASSUME BlocksInv, AllCovered, NEW a \in Addr, Reject(a)
    PROVE  a \notin Header \/ flag[a] = 1 \/ flag[a] = 2
  <1>1. flag[a] \in 0..2
    BY DEF BlocksInv, TypeOK
  <1>2. CASE flag[a] # 0
    BY <1>1, <1>2
  <1>3. CASE ChunkOf(a) = {}
    BY <1>3, InChunk DEF BlocksInv, Laid
  <1>4. CASE ChunkOf(a) # {} /\ FALSE \in StartBit(a)
    BY <1>4, BitTells
  <1> QED BY <1>2, <1>3, <1>4 DEF Reject

(* No mark leads from an allocated block to one that is not.                *)
LEMMA Held ==
    ASSUME BlocksInv, KeptClosed
    PROVE  /\ Kept \subseteq Allocated
           /\ phase # "sweep" => Kept = Allocated
           /\ \A s \in Slot : root[s] # Nil => root[s] \in Allocated
  BY DEF Kept, Allocated, KeptClosed

-----------------------------------------------------------------------------
(* The colours                                                             *)

LEMMA ColoursStart ==
    ASSUME MarkInv, NEW n \in Request, NEW s \in Slot, NEW t \in {"atomic", "traced"},
           StartCollection(n, s, t)
    PROVE  Colours'
  <1>1. /\ todo' = RootWords /\ stack' = <<>> /\ denseStack' = <<>> /\ queued' = {}
        /\ dense' = [c \in Chunks |-> [list |-> <<>>, count |-> 0]]
        /\ UNCHANGED <<chunk, size, flag, type, payload, root>>
    BY DEF StartCollection, blocks, object
  <1>2. \A a \in Addr : flag'[a] # 1
    BY <1>1 DEF MarkInv, MarkedAreHeaders, Markable, StartCollection
  <1>3. Chunks' = Chunks
    BY <1>1, SameChunks
  <1>4. \A c \in Chunks' : dense'[c].list = <<>>
    BY <1>1, <1>3
  <1>5. DOMAIN <<>> = {}
    OBVIOUS
  <1>6. \A a : ~InLists(a)' /\ ~InDense(a)'
    BY <1>1, <1>4, <1>5 DEF InLists, InDense
  <1>7. GrayAreMarked'
    BY <1>6 DEF GrayAreMarked
  <1>8. WorkIsQueued'
    BY <1>1, <1>4, <1>5, <1>6 DEF WorkIsQueued
  <1>9. QueuedOnce'
    BY <1>1, <1>5 DEF QueuedOnce, Distinct
  <1>10. NothingOverlooked'
    <2>1. \A x \in Slot : root'[x] # Nil => root'[x] \in todo'
      BY <1>1 DEF RootWords
    <2>2. \A a \in Header' : flag'[a] # 1
      BY <1>2 DEF Header
    <2> QED BY <2>1, <2>2 DEF NothingOverlooked
  <1> QED BY <1>7, <1>8, <1>9, <1>10 DEF Colours

LEMMA ColoursReject ==
    ASSUME MarkInv, phase = "mark", NEW a \in Addr, Reject(a)
    PROVE  Colours'
  <1>1. /\ UNCHANGED <<chunk, size, flag, start, type, payload, root, phase, stack, dense, denseStack, queued>>
        /\ todo' = todo \ {a}
    BY DEF Reject, blocks, object
  <1>2. a \notin Header \/ flag[a] = 1 \/ flag[a] = 2
    BY Rejected DEF MarkInv
  <1>3. a \in Allocated => flag[a] = 1
    BY <1>2 DEF Allocated
  <1>4. \A s \in Slot : root[s] # Nil => root[s] \in Allocated
    BY Held DEF MarkInv
  <1>5. Header' = Header /\ Chunks' = Chunks /\ Allocated' = Allocated /\ \A x : Children(x)' = Children(x)
    BY <1>1 DEF Header, Chunks, Allocated, Children
  <1>6. \A x : (InLists(x)' <=> InLists(x)) /\ (InDense(x)' <=> InDense(x))
    BY <1>1, <1>5 DEF InLists, InDense
  <1>7. GrayAreMarked' /\ WorkIsQueued' /\ QueuedOnce'
    BY <1>1, <1>5, <1>6 DEF MarkInv, Colours, GrayAreMarked, WorkIsQueued, QueuedOnce
  <1>8. NothingOverlooked'
    <2>1. NothingOverlooked
      BY DEF MarkInv, Colours
    <2>2. Gray' = Gray
      BY <1>5, <1>6 DEF Gray
    <2>3. \A s \in Slot : root'[s] # Nil => root'[s] \in todo' \/ flag'[root'[s]] = 1
      BY <1>1, <1>3, <1>4, <2>1 DEF NothingOverlooked
    <2>4. \A x \in Header' \ Gray' : flag'[x] = 1 /\ type'[x] = "traced" =>
             \A b \in Children(x)' \cap Allocated' : b \in todo' \/ flag'[b] = 1
      BY <1>1, <1>3, <1>5, <2>1, <2>2 DEF NothingOverlooked
    <2> QED BY <2>3, <2>4 DEF NothingOverlooked
  <1> QED BY <1>7, <1>8 DEF Colours

(* A white object a is marked; unless it is atomic, it enters a list.       *)
LEMMA ColoursAccept ==
    ASSUME MarkInv, phase = "mark", NEW a \in Addr, Accept(a),
           \A x \in Addr : InLists(x)' \/ InDense(x)' <=> InLists(x) \/ InDense(x) \/ (x = a /\ type[a] = "traced"),
           WorkIsQueued', QueuedOnce'
    PROVE  Colours'
  <1>1. /\ UNCHANGED <<chunk, size, start, type, payload, root, phase>>
        /\ todo' = todo \ {a}
    BY DEF Accept, object
  <1>2. a \in Header /\ flag[a] = 0 /\ \A x \in Addr : flag'[x] = IF x = a THEN 1 ELSE flag[x]
    BY Accepted DEF MarkInv
  <1>3. Header' = Header /\ \A x : Children(x)' = Children(x)
    BY <1>1 DEF Header, Children
  <1>4. Header \subseteq Addr
    BY DEF Header
  <1>5. Allocated' = Allocated
    BY <1>2, <1>3, <1>4 DEF Allocated
  <1>6. GrayAreMarked'
    BY <1>1, <1>2 DEF MarkInv, Colours, GrayAreMarked
  <1>7. NothingOverlooked'
    <2>1. NothingOverlooked /\ \A s \in Slot : root[s] # Nil => root[s] \in Allocated
      BY Held DEF MarkInv, Colours
    <2>2. \A s \in Slot : root'[s] # Nil => root'[s] \in todo' \/ flag'[root'[s]] = 1
      BY <1>1, <1>2, <1>4, <2>1 DEF NothingOverlooked, Allocated
    <2>3. ASSUME NEW x \in Header' \ Gray', flag'[x] = 1, type'[x] = "traced",
                 NEW b \in Children(x)' \cap Allocated'
          PROVE  b \in todo' \/ flag'[b] = 1
      <3>1. x \in Header /\ x \in Addr /\ ~(InLists(x)' \/ InDense(x)')
        BY <1>3, <1>4, <2>3 DEF Gray
      <3>2. x # a /\ ~(InLists(x) \/ InDense(x))
        BY <1>1, <2>3, <3>1
      <3>3. x \in Header \ Gray /\ flag[x] = 1 /\ type[x] = "traced"
        BY <1>1, <1>2, <2>3, <3>1, <3>2 DEF Gray
      <3>4. b \in Children(x) \cap Allocated /\ b \in Addr
        BY <1>3, <1>4, <1>5 DEF Allocated
      <3>5. b \in todo \/ flag[b] = 1
        BY <2>1, <3>3, <3>4 DEF NothingOverlooked
      <3> QED BY <1>1, <1>2, <3>4, <3>5
    <2> QED BY <2>2, <2>3 DEF NothingOverlooked
  <1> QED BY <1>6, <1>7 DEF Colours

LEMMA ColoursMark ==
    ASSUME MarkInv, phase = "mark", Mark
    PROVE  Colours'
  <1>1. /\ WorkIsQueued /\ QueuedOnce /\ GrayAreMarked /\ ChunksInOrder
        /\ stack \in Seq(Addr) /\ denseStack \in Seq(Chunks)
        /\ dense \in [Chunks -> [list : Seq(Addr), count : Nat]]
    BY DEF MarkInv, Colours, BlocksInv, TypeOK, Laid
  <1>2. ASSUME NEW a \in Addr, Accept(a)
        PROVE  /\ ~InLists(a) /\ ~InDense(a) /\ Chunks' = Chunks /\ phase' = phase
    <2>1. flag[a] = 0
      BY <1>2 DEF Accept
    <2> QED BY <1>1, <1>2, <2>1, SameChunks DEF GrayAreMarked, Accept
  <1>3. ASSUME NEW a \in Addr, MarkAtomic(a) PROVE Colours'
    <2>1. Accept(a) /\ type[a] = "atomic" /\ UNCHANGED <<stack, dense, denseStack, queued>>
      BY <1>3 DEF MarkAtomic
    <2>2. Chunks' = Chunks /\ phase' = phase
      BY <1>2, <2>1
    <2>3. \A x : (InLists(x)' <=> InLists(x)) /\ (InDense(x)' <=> InDense(x))
      BY <2>1, <2>2 DEF InLists, InDense
    <2>4. WorkIsQueued' /\ QueuedOnce'
      BY <1>1, <2>1, <2>2, <2>3 DEF WorkIsQueued, QueuedOnce
    <2> QED BY <2>1, <2>3, <2>4, ColoursAccept
  <1>4. ASSUME NEW a \in Addr, MarkSparse(a) PROVE Colours'
    <2>1. /\ Accept(a) /\ type[a] = "traced" /\ stack' = <<a>> \o stack
          /\ dense' = [c \in Chunks |-> IF c \in ChunkOf(a) THEN [dense[c] EXCEPT !.count = @ + 1] ELSE dense[c]]
          /\ UNCHANGED <<denseStack, queued>>
      BY <1>4 DEF MarkSparse
    <2>2. Chunks' = Chunks /\ phase' = phase /\ ~InLists(a) /\ ~InDense(a)
      BY <1>2, <2>1
    <2>3. Elems(stack') = {a} \cup Elems(stack)
      BY <1>1, <2>1, ConsFacts
    <2>4. \A c \in Chunks : dense'[c].list = dense[c].list
      <3>1. \A c \in Chunks : [dense[c] EXCEPT !.count = @ + 1].list = dense[c].list
        BY <1>1, CountRaised
      <3> QED BY <2>1, <3>1
    <2>5. \A x : (InLists(x)' <=> InLists(x) \/ x = a) /\ (InDense(x)' <=> InDense(x))
      BY <2>2, <2>3, <2>4 DEF InLists, InDense, Elems
    <2>6. WorkIsQueued' /\ QueuedOnce'
      BY <1>1, <2>1, <2>2, <2>4, <2>5 DEF WorkIsQueued, QueuedOnce
    <2> QED BY <2>1, <2>5, <2>6, ColoursAccept
  <1>5. ASSUME NEW a \in Addr, MarkDense(a) PROVE Colours'
    <2>1. /\ Accept(a) /\ type[a] = "traced" /\ stack' = stack
      BY <1>5 DEF MarkDense
    <2>2. PICK c \in Chunks : dense' = [dense EXCEPT ![c].list = <<a>> \o dense[c].list] /\ Enqueue(c)
      BY <1>5 DEF MarkDense, ChunkOf
    <2>3. Chunks' = Chunks /\ phase' = phase /\ ~InLists(a) /\ ~InDense(a)
      BY <1>2, <2>1
    <2>4. PICK q \in Seq(Addr) : q = <<a>> \o dense[c].list /\ Elems(q) = {a} \cup Elems(dense[c].list)
      BY <1>1, ConsFacts
    <2>5. \A d \in Chunks : dense'[d].list = IF d = c THEN q ELSE dense[d].list
      <3>1. dense' = WithList(dense, c, q)
        BY <2>2, <2>4 DEF WithList
      <3>2. dense \in [Chunks -> [list : Seq(Addr), count : Nat]]
        BY <1>1
      <3>3. \A d \in Chunks : WithList(dense, c, q)[d].list = IF d = c THEN q ELSE dense[d].list
        BY <3>2, ListAt
      <3> QED BY <3>1, <3>3
    <2>6. \A x : (InLists(x)' <=> InLists(x)) /\ (InDense(x)' <=> InDense(x) \/ x = a)
      <3>1. \A x : InDense(x) <=> \E d \in Chunks : x \in Elems(dense[d].list)
        BY DEF InDense, Elems
      <3>2. \A x : InDense(x)' <=> \E d \in Chunks : x \in Elems(dense'[d].list)
        BY <2>3 DEF InDense, Elems
      <3>3. \A x : InLists(x)' <=> InLists(x)
        BY <2>1 DEF InLists
      <3> QED BY <2>4, <2>5, <3>1, <3>2, <3>3
    <2>7. queued = Elems(denseStack)
      BY <1>1 DEF WorkIsQueued, Elems
    <2>8. Elems(denseStack') = queued' /\ queued' = queued \cup {c} /\ Distinct(denseStack')
      <3>1. CASE c \in queued
        BY <1>1, <2>2, <2>7, <3>1 DEF Enqueue, QueuedOnce
      <3>2. CASE c \notin queued
        <4>1. denseStack' = <<c>> \o denseStack /\ Distinct(denseStack) /\ queued' = queued \cup {c}
          BY <1>1, <2>2, <3>2 DEF Enqueue, QueuedOnce
        <4> QED BY <1>1, <2>7, <3>2, <4>1, ConsFacts
      <3> QED BY <3>1, <3>2
    <2>9. WorkIsQueued'
      <3>1. \A x \in Addr : ~(InLists(x)' /\ InDense(x)')
        BY <1>1, <2>3, <2>6 DEF WorkIsQueued
      <3>2. \A d \in Chunks : dense'[d].list # <<>> => d \in Elems(denseStack')
        <4>1. \A d \in Chunks : dense[d].list # <<>> => d \in Elems(denseStack)
          BY <1>1 DEF WorkIsQueued, Elems
        <4> QED BY <2>5, <2>7, <2>8, <4>1
      <3> QED BY <2>3, <2>8, <3>1, <3>2 DEF WorkIsQueued, Elems
    <2>10. QueuedOnce'
      BY <2>8 DEF QueuedOnce
    <2> QED BY <2>1, <2>6, <2>9, <2>10, ColoursAccept
  <1> QED BY <1>3, <1>4, <1>5, ColoursReject DEF Mark

(* An object a leaves its list and its words are offered to the marker.     *)
LEMMA ColoursOffered ==
    ASSUME MarkInv, phase = "mark", todo = {}, NEW a \in Addr,
           UNCHANGED <<blocks, object, root, phase>>, todo' = Children(a),
           \A x \in Addr : /\ InLists(x)' => InLists(x)
                           /\ InDense(x)' => InDense(x)
                           /\ InLists(x) \/ InDense(x) => InLists(x)' \/ InDense(x)' \/ x = a,
           WorkIsQueued', QueuedOnce'
    PROVE  Colours'
  <1>1. UNCHANGED <<chunk, size, flag, start, type, payload, root, phase>>
    BY DEF blocks, object
  <1>2. Header' = Header /\ Allocated' = Allocated /\ (\A x : Children(x)' = Children(x)) /\ Header \subseteq Addr
    BY <1>1 DEF Header, Allocated, Children
  <1>3. GrayAreMarked'
    BY <1>1 DEF MarkInv, Colours, GrayAreMarked
  <1>4. NothingOverlooked'
    <2>1. NothingOverlooked
      BY DEF MarkInv, Colours
    <2>2. \A s \in Slot : root'[s] # Nil => root'[s] \in todo' \/ flag'[root'[s]] = 1
      BY <1>1, <2>1 DEF NothingOverlooked
    <2>3. ASSUME NEW x \in Header' \ Gray', flag'[x] = 1, type'[x] = "traced",
                 NEW b \in Children(x)' \cap Allocated'
          PROVE  b \in todo' \/ flag'[b] = 1
      <3>1. x \in Header /\ x \in Addr /\ ~(InLists(x)' \/ InDense(x)')
        BY <1>2, <2>3 DEF Gray
      <3>2. CASE x = a
        BY <1>2, <2>3, <3>2
      <3>3. CASE x # a
        <4>1. x \in Header \ Gray /\ flag[x] = 1 /\ type[x] = "traced"
          BY <1>1, <2>3, <3>1, <3>3 DEF Gray
        <4> QED BY <1>1, <1>2, <2>1, <2>3, <4>1 DEF NothingOverlooked
      <3> QED BY <3>2, <3>3
    <2> QED BY <2>2, <2>3 DEF NothingOverlooked
  <1> QED BY <1>3, <1>4 DEF Colours

LEMMA ColoursTrace ==
    ASSUME MarkInv, phase = "mark", TraceNext \/ TraceDense \/ RetireChunk
    PROVE  Colours'
  <1>1. /\ WorkIsQueued /\ QueuedOnce /\ GrayAreMarked
        /\ stack \in Seq(Addr) /\ denseStack \in Seq(Chunks)
        /\ dense \in [Chunks -> [list : Seq(Addr), count : Nat]]
    BY DEF MarkInv, Colours, BlocksInv, TypeOK, Laid
  <1>2. /\ UNCHANGED <<blocks, object, root, phase>> /\ todo = {} /\ Chunks' = Chunks
    BY SameChunks DEF TraceNext, TraceDense, RetireChunk, DenseTurn, blocks
  <1>3. CASE TraceNext
    <2>1. stack # <<>> /\ todo' = Children(Head(stack)) /\ stack' = Tail(stack) /\ UNCHANGED <<dense, denseStack, queued>>
      BY <1>3 DEF TraceNext
    <2>2. PICK a \in Addr : a = Head(stack) /\ Elems(stack) = {a} \cup Elems(stack')
      BY <1>1, <2>1, TailFacts
    <2>3. \A x : InDense(x)' <=> InDense(x)
      BY <1>2, <2>1 DEF InDense
    <2>4. \A x : (InLists(x)' => InLists(x)) /\ (InLists(x) => InLists(x)' \/ x = a)
      BY <2>2 DEF InLists, Elems
    <2>5. WorkIsQueued' /\ QueuedOnce'
      BY <1>1, <1>2, <2>1, <2>3, <2>4 DEF WorkIsQueued, QueuedOnce
    <2> QED BY <1>2, <2>1, <2>2, <2>3, <2>4, <2>5, ColoursOffered
  <1>4. CASE TraceDense
    <2>1. PICK c \in Chunks : c = Head(denseStack)
      BY <1>1, <1>4, TailFacts DEF TraceDense, DenseTurn
    <2>2. /\ dense[c].list # <<>> /\ todo' = Children(Head(dense[c].list))
          /\ dense' = [dense EXCEPT ![c].list = Tail(dense[c].list)]
          /\ UNCHANGED <<stack, denseStack, queued>>
      BY <1>4, <2>1 DEF TraceDense
    <2>3. PICK a \in Addr, q \in Seq(Addr) : /\ a = Head(dense[c].list) /\ q = Tail(dense[c].list)
                                             /\ Elems(dense[c].list) = {a} \cup Elems(q)
      <3>1. dense[c].list \in Seq(Addr) /\ dense[c].list # <<>>
        BY <1>1, <2>2
      <3>2. /\ Head(dense[c].list) \in Addr /\ Tail(dense[c].list) \in Seq(Addr)
            /\ Elems(dense[c].list) = {Head(dense[c].list)} \cup Elems(Tail(dense[c].list))
        BY <3>1, TailFacts
      <3> QED BY <3>2
    <2>4. \A d \in Chunks : dense'[d].list = IF d = c THEN q ELSE dense[d].list
      <3>1. dense' = WithList(dense, c, q)
        BY <2>2, <2>3 DEF WithList
      <3>2. dense \in [Chunks -> [list : Seq(Addr), count : Nat]]
        BY <1>1
      <3>3. \A d \in Chunks : WithList(dense, c, q)[d].list = IF d = c THEN q ELSE dense[d].list
        BY <3>2, ListAt
      <3> QED BY <3>1, <3>3
    <2>5. \A x : InLists(x)' <=> InLists(x)
      BY <2>2 DEF InLists
    <2>6. \A x : (InDense(x)' => InDense(x)) /\ (InDense(x) => InDense(x)' \/ x = a)
      <3>1. \A x : InDense(x) <=> \E d \in Chunks : x \in Elems(dense[d].list)
        BY DEF InDense, Elems
      <3>2. \A x : InDense(x)' <=> \E d \in Chunks : x \in Elems(dense'[d].list)
        BY <1>2 DEF InDense, Elems
      <3> QED BY <2>3, <2>4, <3>1, <3>2
    <2>7. WorkIsQueued' /\ QueuedOnce'
      BY <1>1, <1>2, <2>2, <2>4, <2>5, <2>6 DEF WorkIsQueued, QueuedOnce
    <2> QED BY <1>2, <2>2, <2>3, <2>5, <2>6, <2>7, ColoursOffered
  <1>5. CASE RetireChunk
    <2>1. PICK c \in Chunks, q \in Seq(Chunks) :
               /\ c = Head(denseStack) /\ q = Tail(denseStack)
               /\ Elems(denseStack) = {c} \cup Elems(q)
               /\ Distinct(denseStack) => Distinct(q) /\ c \notin Elems(q)
      BY <1>1, <1>5, TailFacts DEF RetireChunk, DenseTurn
    <2>2. /\ dense[c].list = <<>> /\ denseStack' = q /\ queued' = queued \ {c}
          /\ UNCHANGED <<chunk, size, flag, type, payload, todo, stack, dense>>
      BY <1>5, <2>1 DEF RetireChunk, blocks, object
    <2>3. \A x : (InLists(x)' <=> InLists(x)) /\ (InDense(x)' <=> InDense(x))
      BY <1>2, <2>2 DEF InLists, InDense
    <2>4. queued = Elems(denseStack) /\ Distinct(denseStack) /\ phase = "mark"
      BY <1>1, <1>5 DEF WorkIsQueued, Elems, QueuedOnce, RetireChunk, DenseTurn
    <2>5. queued' = Elems(denseStack') /\ Distinct(denseStack')
      BY <2>1, <2>2, <2>4
    <2>6. WorkIsQueued'
      <3>1. \A d \in Chunks : dense[d].list # <<>> => d \in Elems(denseStack)
        BY <1>1, <2>4 DEF WorkIsQueued, Elems
      <3>2. \A d \in Chunks : dense[d].list # <<>> => d \in Elems(denseStack')
        BY <2>1, <2>2, <3>1
      <3> QED BY <1>1, <1>2, <2>2, <2>3, <2>5, <3>2, ZenonT(60) DEF WorkIsQueued, Elems
    <2>7. QueuedOnce'
      BY <2>5 DEF QueuedOnce
    <2>8. Header' = Header /\ Gray' = Gray /\ Allocated' = Allocated /\ \A x : Children(x)' = Children(x)
      BY <2>2, <2>3 DEF Header, Gray, Allocated, Children
    <2>9. GrayAreMarked' /\ NothingOverlooked'
      BY <1>2, <2>2, <2>3, <2>8 DEF MarkInv, Colours, GrayAreMarked, NothingOverlooked
    <2> QED BY <2>6, <2>7, <2>9 DEF Colours
  <1> QED BY <1>3, <1>4, <1>5

(* No other step leaves the marker with work.                               *)
LEMMA ColoursStep ==
    ASSUME MarkInv, [Next]_vars
    PROVE  Colours'
  <1>1. CASE phase' # "mark"
    BY <1>1 DEF Colours, GrayAreMarked, WorkIsQueued, QueuedOnce, NothingOverlooked
  <1>2. CASE phase' = "mark"
    <2>1. ASSUME phase = "mark", UNCHANGED vars PROVE Colours'
      <3>1. UNCHANGED <<chunk, size, flag, type, payload, root, phase, todo, stack, dense, denseStack, queued>>
        BY <2>1 DEF vars, blocks, object, marking
      <3>2. \A x : (InLists(x)' <=> InLists(x)) /\ (InDense(x)' <=> InDense(x))
        BY <3>1 DEF InLists, InDense, Chunks
      <3>3. /\ Header' = Header /\ Gray' = Gray /\ Allocated' = Allocated /\ Chunks' = Chunks
            /\ \A x : Children(x)' = Children(x)
        BY <3>1, <3>2 DEF Header, Gray, Allocated, Children, Chunks
      <3> QED BY <3>1, <3>2, <3>3 DEF MarkInv, Colours, GrayAreMarked, WorkIsQueued, QueuedOnce, NothingOverlooked
    <2>2. ASSUME phase = "mark", Next PROVE Mark \/ TraceNext \/ TraceDense \/ RetireChunk
      <3>1. ~Allocate /\ ~Program
        BY <2>2 DEF Allocate, Bump, Reuse, StartCollection, Program, Drop, Store, Load
      <3>2. ~(SweepLive \/ SweepFree \/ Coalesce \/ NextChunk \/ StartPartition \/ Partition \/ EndCollection)
        BY <2>2 DEF SweepLive, SweepFree, Coalesce, SweepTurn, NextChunk, StartPartition, Partition, EndCollection
      <3>3. ~(RetryFree \/ MapChunk \/ OutOfMemory \/ StartSweep)
        BY <1>2, <2>2 DEF RetryFree, MapChunk, OutOfMemory, StartSweep
      <3> QED BY <2>2, <3>1, <3>2, <3>3 DEF Next, Collector
    <2>3. ASSUME phase # "mark"
          PROVE  \E n \in Request, s \in Slot, t \in {"atomic", "traced"} : StartCollection(n, s, t)
      <3>1. ~UNCHANGED vars
        BY <1>2, <2>3 DEF vars
      <3>2. ~Program
        BY <1>2, <2>3 DEF Program, Drop, Store, Load
      <3>3. ~Collector
        BY <1>2, <2>3 DEF Collector, Mark, Reject, MarkAtomic, MarkSparse, MarkDense, Accept, TraceNext,
             TraceDense, RetireChunk, DenseTurn, StartSweep, SweepLive, SweepFree, Coalesce, SweepTurn,
             NextChunk, StartPartition, Partition, EndCollection, RetryFree, MapChunk, OutOfMemory
      <3> QED BY <1>2, <2>3, <3>1, <3>2, <3>3 DEF Next, Allocate, Bump, Reuse
    <2> QED BY <2>1, <2>2, <2>3, ColoursStart, ColoursMark, ColoursTrace
  <1> QED BY <1>1, <1>2

-----------------------------------------------------------------------------
(* What survives                                                           *)

(* The sweep has passed block a.                                            *)
Passed(a) ==
    /\ phase = "sweep" /\ phase' = "sweep" /\ ~Swept(a)
    /\ UNCHANGED <<chunk, type, payload, root>>
    /\ \A x \in Addr : flag'[x] = IF x = a THEN (IF flag[a] = 1 THEN 0 ELSE 2) ELSE flag[x]
    /\ Header' = Header \/ (Header' = Header \ {a} /\ flag[a] # 1)
    /\ \A x \in Header : Swept(x)' <=> Swept(x) \/ x = a
    /\ \A x \in Header : x \notin Free /\ x # a => size'[x] = size[x]
    /\ flag[a] = 1 => size'[a] = size[a]

LEMMA Passing ==
    ASSUME BlocksInv, SweepLive \/ SweepFree \/ Coalesce
    PROVE  \E a \in Header : Passed(a)
  <1>1. TypeOK
    BY DEF BlocksInv
  <1>2. PICK c \in Chunks, a \in Header : Looking(c, a)
    BY Spot DEF SweepLive, SweepFree, Coalesce
  <1>3. /\ phase = "sweep" /\ phase' = "sweep" /\ UNCHANGED <<chunk, type, payload, root>>
        /\ sweep'.chunk = c /\ sweep'.at = a + size[a] /\ ~Swept(a) /\ a \in Addr /\ c # 0
    <2>1. sweep \in [chunk : Nat, at : Nat, prev : Addr \cup {Nil}, list : Seq(Addr)]
      BY <1>1 DEF TypeOK
    <2>2. sweep.chunk = c /\ sweep.at = a /\ a + size[a] \in Nat
      BY <1>2 DEF Looking
    <2> QED BY <1>2, <2>1, <2>2 DEF SweepLive, SweepFree, Coalesce, SweepTurn, Looking, Header, object
  <1>4. \A x \in Header : Swept(x)' <=> Swept(x) \/ x = a
    <2>1. \A x : Swept(x)' <=> Behind(x, c, a + size[a])
      BY <1>3 DEF Swept, Behind
    <2> QED BY <1>2, <2>1 DEF Looking
  <1>5. CASE SweepLive
    <2>1. flag[a] = 1 /\ flag' = [flag EXCEPT ![a] = 0] /\ UNCHANGED size
      BY <1>2, <1>5 DEF SweepLive, Looking, Unmarked
    <2>2. \A x \in Addr : flag'[x] = IF x = a THEN 0 ELSE flag[x]
      BY <1>1, <1>3, <2>1 DEF TypeOK
    <2>3. Header' = Header
      BY <2>1 DEF Header
    <2> QED BY <1>3, <1>4, <2>1, <2>2, <2>3 DEF Passed
  <1>6. CASE SweepFree
    <2>1. flag[a] # 1 /\ flag' = [flag EXCEPT ![a] = 2] /\ UNCHANGED size
      BY <1>2, <1>6 DEF SweepFree, Looking
    <2>2. \A x \in Addr : flag'[x] = IF x = a THEN 2 ELSE flag[x]
      BY <1>1, <1>3, <2>1 DEF TypeOK
    <2>3. Header' = Header
      BY <2>1 DEF Header
    <2> QED BY <1>3, <1>4, <2>1, <2>2, <2>3 DEF Passed
  <1>7. CASE Coalesce
    <2>1. PICK p \in Header, d \in Chunks, b \in Header : Merges(p, d, b)
      BY <1>7, Merging
    <2>2. b = a
      BY <1>2, <2>1 DEF Merges, Looking
    <2>3. flag[a] # 1
      BY <1>2, <1>7 DEF Coalesce, Looking
    <2>4. /\ Header' = Header \ {a} /\ p \in Free
          /\ \A x \in Addr : flag'[x] = IF x = a THEN 2 ELSE flag[x]
          /\ \A x \in Addr : x # p /\ x # a => size'[x] = size[x]
      BY <2>1, <2>2 DEF Merges
    <2>5. \A x \in Header : x \notin Free /\ x # a => size'[x] = size[x]
      BY <2>4 DEF Header
    <2> QED BY <1>3, <1>4, <2>3, <2>4, <2>5 DEF Passed
  <1> QED BY <1>2, <1>5, <1>6, <1>7

LEMMA PassedKept ==
    ASSUME BlocksInv, NEW a \in Header, Passed(a)
    PROVE  Kept' = Kept
  <1>1. Header' \subseteq Header /\ Header \subseteq Addr
    BY DEF Passed, Header
  <1>2. ASSUME NEW x \in Header', x # a PROVE x \in Kept' <=> x \in Kept
    BY <1>1, <1>2 DEF Kept, Passed
  <1>3. a \in Kept <=> flag[a] = 1
    BY DEF Kept, Passed
  <1>4. a \in Kept' <=> flag[a] = 1
    BY <1>1 DEF Kept, Passed
  <1>5. Kept \subseteq Header' \cup {a} /\ Kept' \subseteq Header'
    BY DEF Kept, Passed
  <1> QED BY <1>2, <1>3, <1>4, <1>5

LEMMA MarkedStep ==
    ASSUME MarkInv, [Next]_vars
    PROVE  MarkedAreHeaders'
  <1>1. BlocksInv /\ MarkedAreHeaders /\ TypeOK
    BY DEF MarkInv, BlocksInv
  <1>2. SUFFICES ASSUME NEW x \in Addr, flag'[x] = 1
                 PROVE  Markable(x)'
    BY DEF MarkedAreHeaders
  <1>3. flag[x] = 1 => x \in Header /\ phase \in {"mark", "sweep"} /\ (phase = "sweep" => ~Swept(x))
    BY <1>1 DEF MarkedAreHeaders, Markable
  <1>4. ASSUME UNCHANGED <<chunk, size, flag, sweep>>, phase' = phase PROVE Markable(x)'
    <2>1. Header' = Header
      BY <1>4 DEF Header
    <2> QED BY <1>2, <1>3, <1>4, <2>1 DEF Swept, Markable
  <1>5. CASE Mark
    <2>1. CASE flag' = flag
      <3>1. UNCHANGED <<chunk, size, sweep, phase>>
        BY <1>5 DEF Mark, Reject, MarkAtomic, MarkSparse, MarkDense, Accept, blocks
      <3> QED BY <1>4, <2>1, <3>1
    <2>2. ASSUME NEW a \in Addr, Accept(a) PROVE Markable(x)'
      <3>1. UNCHANGED <<chunk, size, sweep>> /\ phase' = phase /\ phase = "mark"
        BY <2>2 DEF Accept
      <3>2. a \in Header /\ \A y \in Addr : flag'[y] = IF y = a THEN 1 ELSE flag[y]
        BY <2>2, Accepted DEF MarkInv
      <3>3. Header' = Header
        BY <3>1 DEF Header
      <3>4. x \in Header
        BY <1>2, <1>3, <3>2
      <3> QED BY <3>1, <3>3, <3>4 DEF Markable
    <2> QED BY <1>5, <2>1, <2>2 DEF Mark, Reject, MarkAtomic, MarkSparse, MarkDense, blocks
  <1>6. CASE UNCHANGED vars \/ TraceNext \/ TraceDense \/ RetireChunk
    BY <1>4, <1>6 DEF vars, blocks, TraceNext, TraceDense, RetireChunk, DenseTurn
  <1>7. CASE Program \/ OutOfMemory \/ Partition \/ EndCollection \/ \E n \in Request, s \in Slot, t \in {"atomic", "traced"} : StartCollection(n, s, t)
    <2>1. flag' = flag /\ phase \in {"run", "retry", "partition"}
      BY <1>7 DEF Program, Drop, Store, Load, OutOfMemory, Partition, EndCollection, StartCollection, blocks
    <2> QED BY <1>2, <1>3, <2>1
  <1>8. ASSUME NEW n \in Request, NEW s \in Slot, NEW t \in {"atomic", "traced"}, Bump(n, s, t)
        PROVE Markable(x)'
    <2>1. phase = "run"
      BY <1>8 DEF Bump
    <2>2. PICK a \in Addr : \A y \in Addr : flag'[y] = IF y = a THEN 0 ELSE flag[y]
      <3>1. PICK a \in Addr : Added(a, n)
        BY <1>1, <1>8, BumpAdds DEF BlocksInv
      <3> QED BY <3>1 DEF Added
    <2> QED BY <1>2, <1>3, <2>1, <2>2
  <1>9. CASE MapChunk
    <2>1. phase = "retry"
      BY <1>9 DEF MapChunk
    <2>2. PICK a \in Addr : \A y \in Addr : flag'[y] = IF y = a THEN 0 ELSE flag[y]
      <3>1. PICK a \in Addr, k \in Chunks' : Added(a, want.units)
        BY <1>1, <1>9, MapAdds DEF BlocksInv
      <3> QED BY <3>1 DEF Added
    <2> QED BY <1>2, <1>3, <2>1, <2>2
  <1>10. ASSUME NEW n \in Request, NEW s \in Slot, NEW t \in {"atomic", "traced"}, FreeTake(n, s, t),
                phase \in {"run", "retry"}
         PROVE  Markable(x)'
    <2>1. sweep = Idle /\ phase # "sweep"
      BY <1>1, <1>10 DEF BlocksInv, SweepInPlace
    <2>2. PICK a \in Addr : Took(a, n, s, t)
      BY <1>1, <1>10, <2>1, Taking
    <2>3. flag'[x] = 2 \/ flag'[x] = 0 \/ flag'[x] = flag[x]
      BY <2>2 DEF Took
    <2> QED BY <1>2, <1>3, <1>10, <2>3
  <1>11. CASE SweepLive \/ SweepFree \/ Coalesce
    <2>1. PICK a \in Header : Passed(a)
      BY <1>1, <1>11, Passing
    <2>2. x # a /\ flag[x] = 1
      BY <1>2, <2>1 DEF Passed
    <2>3. x \in Header /\ ~Swept(x)
      BY <1>3, <2>1, <2>2 DEF Passed
    <2> QED BY <2>1, <2>2, <2>3 DEF Passed, Markable
  <1>12. CASE NextChunk
    <2>1. /\ phase = "sweep" /\ phase' = "sweep" /\ UNCHANGED <<size, flag>>
      BY <1>12 DEF NextChunk, blocks
    <2>2. x \in Header /\ ~Swept(x)
      BY <1>2, <1>3, <2>1
    <2>3. ~Swept(x)' /\ Header' = Header
      BY <1>1, <1>12, <2>1, <2>2, NextSwept DEF Header
    <2> QED BY <2>1, <2>2, <2>3 DEF Markable
  <1>13. CASE StartPartition
    <2>1. phase = "sweep" /\ sweep.chunk = 0 /\ UNCHANGED flag
      BY <1>13 DEF StartPartition
    <2> QED BY <1>2, <1>3, <2>1 DEF Swept
  <1>14. CASE StartSweep
    <2>1. phase' = "sweep" /\ UNCHANGED <<chunk, size, flag>>
          /\ sweep' = [chunk |-> Len(chunk), at |-> LastChunk.base, prev |-> Nil, list |-> <<>>]
      BY <1>14 DEF StartSweep, blocks
    <2>2. x \in Header /\ Header' = Header
      BY <1>2, <1>3, <2>1 DEF Header
    <2>3. ~Swept(x)'
      BY <1>1, <2>2, <1>14, StartUnswept
    <2> QED BY <2>1, <2>2, <2>3 DEF Markable
  <1> QED BY <1>5, <1>6, <1>7, <1>8, <1>9, <1>10, <1>11, <1>12, <1>13, <1>14
           DEF Next, Allocate, Collector, Reuse, RetryFree, BlocksInv, WantKept, MarkInv, TypeOK

(* A step of the collector that moves nothing between kept and free.        *)
Still ==
    /\ UNCHANGED <<chunk, type, payload, root>>
    /\ Kept' = Kept /\ Allocated' \subseteq Allocated

(* A block a has become an object without words, named by root s.           *)
Born(a, s) ==
    /\ a \in Addr /\ \A c : \A x \in Addr : c \in ChunkOf(x) => c \in ChunkOf(x)'
    /\ root' = [root EXCEPT ![s] = a]
    /\ \E t \in {"atomic", "traced"} : type' = [type EXCEPT ![a] = t]
    /\ payload'[a] = {} /\ \A x \in Addr : payload'[x] = {} \/ payload'[x] = payload[x]
    /\ \A x \in Allocated : payload'[x] = payload[x]
    /\ Allocated' = Allocated \cup {a} /\ a \notin Allocated
    /\ phase # "sweep" /\ phase' # "sweep"
    /\ \A x \in Allocated : size'[x] = size[x]

LEMMA BornByAdding ==
    ASSUME BlocksInv, PayloadsClean, NEW n \in Request, NEW a \in Addr, NEW s, NEW t \in {"atomic", "traced"},
           Added(a, n), Deliver(a, s, t), UNCHANGED payload, phase \in {"run", "retry"}, phase' = "run"
    PROVE  Born(a, s)
  <1>1. /\ a \notin Header /\ ChunkOf(a) = {} /\ Header' = Header \cup {a}
        /\ \A x \in Addr : size'[x] = IF x = a THEN n ELSE size[x]
        /\ \A x \in Addr : flag'[x] = IF x = a THEN 0 ELSE flag[x]
        /\ Chunks \subseteq Chunks'
        /\ \A c \in Chunks : chunk'[c].base = chunk[c].base /\ chunk[c].used <= chunk'[c].used
    BY DEF Added
  <1>2. payload'[a] = {}
    BY <1>1 DEF PayloadsClean
  <1>3. \A c : \A x \in Addr : c \in ChunkOf(x) => c \in ChunkOf(x)'
    <2> SUFFICES ASSUME NEW c, NEW x \in Addr, c \in ChunkOf(x) PROVE c \in ChunkOf(x)'
      OBVIOUS
    <2>1. c \in Chunks /\ chunk[c].base <= x /\ x < chunk[c].used /\ c \in Chunks'
      BY <1>1 DEF ChunkOf
    <2>2. chunk[c].used \in Nat /\ x \in Nat /\ chunk'[c].used \in Nat
      <3>1. TypeOK /\ ChunksInOrder /\ Laid'
        BY DEF BlocksInv, Laid, Added
      <3>2. chunk'[c].used \in Nat
        <4>1. chunk' \in Seq([base : Addr, used : Nat, end : Nat]) /\ c \in 1..Len(chunk')
          BY <2>1 DEF Added, Chunks
        <4>2. chunk'[c] \in [base : Addr, used : Nat, end : Nat]
          <5> DEFINE R == [base : Addr, used : Nat, end : Nat]
          <5>1. chunk' \in Seq(R)
            BY <4>1
          <5> HIDE DEF R
          <5>2. chunk'[c] \in R
            BY <4>1, <5>1
          <5> QED BY <5>2 DEF R
        <4> QED BY <4>2
      <3> QED BY <2>1, <3>1, <3>2, Numbers
    <2>3. chunk'[c].base <= x /\ x < chunk'[c].used
      BY <1>1, <2>1, <2>2
    <2> QED BY <2>1, <2>3 DEF ChunkOf
  <1>4. Allocated' = Allocated \cup {a} /\ a \notin Allocated
    BY <1>1 DEF Allocated, Header
  <1>5. \A x \in Allocated : size'[x] = size[x]
    BY <1>1 DEF Allocated, Header
  <1> QED BY <1>2, <1>3, <1>4, <1>5 DEF Born, Deliver

LEMMA BornByTaking ==
    ASSUME BlocksInv, NEW n \in Request, NEW a \in Addr, NEW s, NEW t \in {"atomic", "traced"},
           Took(a, n, s, t), phase \in {"run", "retry"}, phase' = "run"
    PROVE  Born(a, s)
  <1>1. TypeOK /\ Laid /\ n \in Nat \ {0}
    BY HeapAssumption DEF BlocksInv
  <1>2. /\ a \in Header /\ flag[a] = 2 /\ flag'[a] = 0
        /\ Header' = Header \cup {x \in {a + n} : Splits(a, n)}
        /\ \A x \in Header : x # a => size'[x] = size[x] /\ flag'[x] = flag[x] /\ payload'[x] = payload[x]
        /\ Splits(a, n) => flag'[a + n] = 2 /\ a + n # a /\ a + n \notin Header
    BY <1>1, TookKeeps
  <1>3. Allocated' = Allocated \cup {a} /\ a \notin Allocated
    BY <1>2 DEF Allocated
  <1>4. \A x \in Allocated : size'[x] = size[x] /\ payload'[x] = payload[x]
    BY <1>2 DEF Allocated
  <1>5. \A x \in Addr : payload'[x] = {} \/ payload'[x] = payload[x]
    BY DEF Took
  <1>6. payload'[a] = {}
    <2>1. a \in Nat \ {0} /\ size[a] \in Nat \ {0}
      BY <1>1, <1>2, Numbers DEF Header, Laid
    <2>2. Within(a, a, n)
      BY <1>1, <2>1 DEF Within, Taken
    <2> QED BY <2>2 DEF Took
  <1>7. \A x : ChunkOf(x)' = ChunkOf(x)
    BY SameChunks DEF Took
  <1> QED BY <1>3, <1>4, <1>5, <1>6, <1>7 DEF Born, Took, Deliver

LEMMA SurvivalStill ==
    ASSUME KeptClosed, PayloadsClean, Still
    PROVE  KeptClosed' /\ PayloadsClean'
  <1>1. \A x : Targets(x)' = Targets(x) /\ ChunkOf(x)' = ChunkOf(x)
    BY SameChunks DEF Still, Targets
  <1>2. KeptClosed'
    BY <1>1 DEF KeptClosed, Still
  <1>3. PayloadsClean'
    BY <1>1 DEF PayloadsClean, Still
  <1> QED BY <1>2, <1>3

LEMMA SurvivalBorn ==
    ASSUME BlocksInv, KeptClosed, PayloadsClean, NEW a, NEW s \in Slot, Born(a, s)
    PROVE  KeptClosed' /\ PayloadsClean'
  <1>1. TypeOK /\ Kept = Allocated /\ Kept' = Allocated'
    BY DEF BlocksInv, Born, Kept, Allocated
  <1>2. Allocated \subseteq Addr
    BY DEF Allocated, Header
  <1>3. Targets(a)' = {} /\ \A x \in Allocated : Targets(x)' = Targets(x)
    BY DEF Targets, Born
  <1>4. \A x \in Slot : root'[x] = IF x = s THEN a ELSE root[x]
    BY <1>1 DEF Born, TypeOK
  <1>5. KeptClosed'
    BY <1>1, <1>3, <1>4 DEF KeptClosed, Born
  <1>6. \A x \in Addr : x # a => type'[x] = type[x]
    BY <1>1 DEF Born, TypeOK
  <1>7. PayloadsClean'
    <2>1. ASSUME NEW x \in Addr, payload'[x] # {} PROVE ChunkOf(x)' # {}
      BY <2>1 DEF PayloadsClean, Born
    <2>2. ASSUME NEW x \in Allocated', type'[x] = "atomic" PROVE payload'[x] = {}
      BY <1>2, <1>6, <2>2 DEF PayloadsClean, Born
    <2> QED BY <2>1, <2>2 DEF PayloadsClean
  <1> QED BY <1>5, <1>7

LEMMA SurvivalProgram ==
    ASSUME BlocksInv, KeptClosed, PayloadsClean, Program
    PROVE  KeptClosed' /\ PayloadsClean'
  <1>1. /\ TypeOK /\ Kept = Allocated /\ Kept' = Allocated' /\ Allocated' = Allocated /\ phase = "run"
        /\ UNCHANGED <<chunk, type>>
    BY DEF BlocksInv, Program, Drop, Store, Load, Kept, Allocated, Header, blocks, object
  <1>2. \A x : ChunkOf(x)' = ChunkOf(x)
    BY <1>1, SameChunks
  <1>3. ASSUME NEW s \in Slot, Drop(s) PROVE KeptClosed' /\ PayloadsClean'
    <2>1. UNCHANGED payload /\ \A x \in Slot : root'[x] = IF x = s THEN Nil ELSE root[x]
      BY <1>1, <1>3 DEF Drop, object, TypeOK
    <2>2. \A x : Targets(x)' = Targets(x)
      BY <2>1 DEF Targets
    <2> QED BY <1>1, <1>2, <2>1, <2>2 DEF KeptClosed, PayloadsClean
  <1>4. ASSUME NEW s \in Slot, NEW w \in Word, Store(s, w) PROVE KeptClosed' /\ PayloadsClean'
    <2>1. /\ root[s] # Nil /\ root[s] \in Kept /\ type[root[s]] = "traced" /\ UNCHANGED root
          /\ payload' = [payload EXCEPT ![root[s]] = {w}]
          /\ \/ w \in {Reference(root[x]) : x \in {y \in Slot : root[y] # Nil}}
             \/ w \in {<<"num", a>> : a \in Number}
      BY <1>4 DEF Store, KeptClosed
    <2>2. PICK o \in Header : o = root[s] /\ o \in Addr
      BY <2>1 DEF Kept, Header
    <2>3. \A x \in Addr : payload'[x] = IF x = o THEN {w} ELSE payload[x]
      BY <1>1, <2>1, <2>2 DEF TypeOK
    <2>4. w[1] = "ref" => w[2] \in Kept
      <3>1. ASSUME NEW x \in Slot, root[x] # Nil, w = Reference(root[x]) PROVE w[2] \in Kept
        BY <3>1 DEF Reference, KeptClosed
      <3>2. ASSUME NEW a \in Number, w = <<"num", a>> PROVE w[1] # "ref"
        BY <3>2
      <3> QED BY <2>1, <3>1, <3>2
    <2>5. Targets(o)' \subseteq Kept
      BY <2>2, <2>3, <2>4 DEF Targets
    <2>6. \A x \in Kept : x # o => Targets(x)' = Targets(x)
      BY <2>3 DEF Targets, Kept, Header
    <2>7. KeptClosed'
      BY <1>1, <2>1, <2>5, <2>6 DEF KeptClosed
    <2>8. ChunkOf(o) # {}
      BY <2>2, InChunk DEF BlocksInv, Laid
    <2>9. PayloadsClean'
      BY <1>1, <1>2, <2>1, <2>2, <2>3, <2>8 DEF PayloadsClean, Allocated, Header
    <2> QED BY <2>7, <2>9
  <1>5. ASSUME NEW s \in Slot, NEW x \in Slot, Load(s, x) PROVE KeptClosed' /\ PayloadsClean'
    <2>1. PICK a \in Addr : Reference(a) \in payload[root[s]] /\ root' = [root EXCEPT ![x] = a]
      BY <1>5 DEF Load
    <2>2. root[s] \in Kept /\ UNCHANGED payload
      BY <1>5 DEF Load, KeptClosed, object
    <2>3. a \in Targets(root[s])
      BY <2>1 DEF Targets, Reference
    <2>4. a \in Kept
      BY <2>2, <2>3 DEF KeptClosed
    <2>5. \A y \in Slot : root'[y] = IF y = x THEN a ELSE root[y]
      BY <1>1, <2>1 DEF TypeOK
    <2>6. \A y : Targets(y)' = Targets(y)
      BY <2>2 DEF Targets
    <2> QED BY <1>1, <1>2, <2>2, <2>4, <2>5, <2>6 DEF KeptClosed, PayloadsClean
  <1> QED BY <1>3, <1>4, <1>5 DEF Program

(* When the sweep begins, what is marked is closed under references.        *)
LEMMA SurvivalStartSweep ==
    ASSUME MarkInv, StartSweep
    PROVE  /\ KeptClosed' /\ PayloadsClean' /\ Kept' \subseteq Kept
           /\ Kept' = {a \in Header : flag[a] = 1}
  <1>1. /\ phase = "mark" /\ phase' = "sweep" /\ todo = {} /\ stack = <<>> /\ denseStack = <<>>
        /\ UNCHANGED <<chunk, size, flag, type, payload, root>>
    BY DEF StartSweep, blocks, object
  <1>2. Header' = Header /\ (\A x : Targets(x)' = Targets(x)) /\ \A x : ChunkOf(x)' = ChunkOf(x)
    BY <1>1, SameChunks DEF Header, Targets
  <1>3. BlocksInv /\ KeptClosed /\ WorkIsQueued /\ NothingOverlooked /\ PayloadsClean
    BY DEF MarkInv, Colours
  <1>4. \A x \in Header : ~Swept(x)'
    BY <1>3, StartUnswept
  <1>5. Kept' = {a \in Header : flag[a] = 1}
    BY <1>1, <1>2, <1>4 DEF Kept
  <1>6. Kept = Allocated
    BY <1>1, <1>3, Held
  <1>7. Gray = {}
    <2>1. \A a : ~InLists(a)
      BY <1>1 DEF InLists
    <2>2. \A c \in Chunks : dense[c].list = <<>>
      BY <1>1, <1>3 DEF WorkIsQueued
    <2>3. \A a : ~InDense(a)
      BY <2>2 DEF InDense
    <2> QED BY <2>1, <2>3 DEF Gray
  <1>8. \A s \in Slot : root'[s] # Nil => root'[s] \in Kept'
    BY <1>1, <1>3, <1>5, <1>6 DEF NothingOverlooked, KeptClosed, Allocated
  <1>9. ASSUME NEW a \in Kept', NEW b \in Targets(a) PROVE b \in Kept'
    <2>1. a \in Header /\ flag[a] = 1 /\ a \in Allocated /\ a \in Addr
      BY <1>5 DEF Allocated, Header
    <2>2. b \in Allocated
      BY <1>3, <1>6, <2>1 DEF KeptClosed
    <2>3. b \in Children(a) /\ payload[a] # {}
      BY DEF Targets, Children
    <2>4. type[a] = "traced"
      BY <1>3, <2>1, <2>3 DEF PayloadsClean, BlocksInv, TypeOK
    <2>5. flag[b] = 1
      BY <1>1, <1>3, <1>7, <2>1, <2>2, <2>3, <2>4 DEF NothingOverlooked
    <2> QED BY <1>5, <2>2, <2>5 DEF Allocated
  <1>10. KeptClosed'
    BY <1>2, <1>8, <1>9 DEF KeptClosed
  <1>11. Allocated' = Allocated
    BY <1>1, <1>2 DEF Allocated
  <1>12. PayloadsClean'
    BY <1>1, <1>2, <1>3, <1>11 DEF PayloadsClean
  <1>13. Kept' \subseteq Kept
    BY <1>5, <1>6 DEF Allocated
  <1> QED BY <1>5, <1>10, <1>12, <1>13

(* Every step but these keeps the graph of objects as it is.                *)
LEMMA StillSteps ==
    ASSUME MarkInv,
           \/ UNCHANGED vars \/ Mark \/ TraceNext \/ TraceDense \/ RetireChunk
           \/ \E n \in Request, s \in Slot, t \in {"atomic", "traced"} : StartCollection(n, s, t)
           \/ OutOfMemory \/ SweepLive \/ SweepFree \/ Coalesce \/ NextChunk
           \/ StartPartition \/ Partition \/ EndCollection
    PROVE  Still
  <1>1. BlocksInv /\ TypeOK /\ MarkedAreHeaders
    BY DEF MarkInv, BlocksInv
  <1>2. CASE SweepLive \/ SweepFree \/ Coalesce
    <2>1. PICK a \in Header : Passed(a)
      BY <1>1, <1>2, Passing
    <2>2. Kept' = Kept
      BY <1>1, <2>1, PassedKept
    <2>3. Allocated' \subseteq Allocated
      BY <2>1 DEF Passed, Allocated, Header
    <2> QED BY <2>1, <2>2, <2>3 DEF Still, Passed
  <1>3. CASE NextChunk
    <2>1. /\ UNCHANGED <<chunk, size, flag, type, payload, root, phase>>
      BY <1>3 DEF NextChunk, blocks, object
    <2>2. Header' = Header /\ \A x \in Header : Swept(x)' <=> Swept(x)
      BY <1>1, <1>3, <2>1, NextSwept DEF Header
    <2> QED BY <2>1, <2>2 DEF Still, Kept, Allocated
  <1>4. CASE StartPartition
    <2>1. /\ UNCHANGED <<chunk, size, flag, type, payload, root>>
          /\ phase = "sweep" /\ phase' = "partition" /\ sweep.chunk = 0
      BY <1>4 DEF StartPartition, object
    <2>2. Header' = Header /\ \A x \in Header : Swept(x)
      BY <2>1 DEF Header, Swept
    <2> QED BY <2>1, <2>2 DEF Still, Kept, Allocated
  <1>5. CASE Mark
    <2>1. UNCHANGED <<chunk, size, type, payload, root>> /\ phase = "mark" /\ phase' = "mark"
      BY <1>5 DEF Mark, Reject, MarkAtomic, MarkSparse, MarkDense, Accept, blocks, object
    <2>2. \A x \in Addr : flag'[x] = 2 <=> flag[x] = 2
      <3>1. flag' = flag \/ \E a \in Addr : Accept(a)
        BY <1>5 DEF Mark, Reject, MarkAtomic, MarkSparse, MarkDense, blocks
      <3>2. ASSUME NEW a \in Addr, Accept(a) PROVE <2>2
        BY <3>2, Accepted DEF MarkInv
      <3> QED BY <3>1, <3>2
    <2>3. Header' = Header /\ Header \subseteq Addr
      BY <2>1 DEF Header
    <2> QED BY <2>1, <2>2, <2>3 DEF Still, Kept, Allocated
  <1>6. CASE \/ UNCHANGED vars \/ TraceNext \/ TraceDense \/ RetireChunk \/ OutOfMemory \/ Partition \/ EndCollection
             \/ \E n \in Request, s \in Slot, t \in {"atomic", "traced"} : StartCollection(n, s, t)
    <2>1. /\ UNCHANGED <<chunk, size, flag, type, payload, root>>
          /\ \/ phase # "sweep" /\ phase' # "sweep"
             \/ phase' = phase /\ UNCHANGED sweep
      BY <1>6 DEF vars, TraceNext, TraceDense, RetireChunk, DenseTurn, OutOfMemory, Partition, EndCollection,
                  StartCollection, blocks, object
    <2>2. Header' = Header /\ (UNCHANGED sweep => \A x : Swept(x)' <=> Swept(x))
      BY <2>1 DEF Header, Swept
    <2> QED BY <2>1, <2>2 DEF Still, Kept, Allocated
  <1> QED BY <1>2, <1>3, <1>4, <1>5, <1>6

-----------------------------------------------------------------------------
(* The invariant is kept                                                   *)

(* The steps that make a block an object.                                   *)
Birth ==
    \/ \E n \in Request, s \in Slot, t \in {"atomic", "traced"} : Bump(n, s, t) \/ Reuse(n, s, t)
    \/ RetryFree \/ MapChunk

LEMMA Births ==
    ASSUME BlocksInv, PayloadsClean, Birth
    PROVE  \E a \in Addr, s \in Slot : Born(a, s)
  <1>1. TypeOK /\ Laid /\ SweepInPlace /\ WantKept
    BY DEF BlocksInv
  <1>2. ASSUME NEW n \in Request, NEW s \in Slot, NEW t \in {"atomic", "traced"}, Bump(n, s, t)
        PROVE  \E a \in Addr : Born(a, s)
    <2>1. PICK a \in Addr : Added(a, n) /\ a = LastChunk.used
      BY <1>1, <1>2, BumpAdds
    <2>2. UNCHANGED payload /\ phase = "run" /\ phase' = "run" /\ Deliver(a, s, t)
      BY <1>2, <2>1 DEF Bump
    <2> QED BY <2>1, <2>2, BornByAdding
  <1>3. ASSUME NEW n \in Request, NEW s \in Slot, NEW t \in {"atomic", "traced"}, FreeTake(n, s, t),
               phase \in {"run", "retry"}, phase' = "run"
        PROVE  \E a \in Addr : Born(a, s)
    <2>1. sweep = Idle /\ phase # "sweep"
      BY <1>1, <1>3 DEF SweepInPlace
    <2>2. PICK a \in Addr : Took(a, n, s, t)
      BY <1>3, <2>1, Taking
    <2> QED BY <1>3, <2>2, BornByTaking
  <1>4. ASSUME phase = "retry"
        PROVE  want.units \in Request /\ want.slot \in Slot /\ want.type \in {"atomic", "traced"}
    BY <1>1, <1>4 DEF WantKept, TypeOK
  <1>5. CASE RetryFree
    <2>1. /\ FreeTake(want.units, want.slot, want.type) /\ phase = "retry" /\ phase' = "run"
      BY <1>5 DEF RetryFree
    <2> QED BY <1>3, <1>4, <2>1
  <1>6. CASE MapChunk
    <2>1. PICK a \in Addr, k \in Chunks' : Added(a, want.units) /\ a = LastChunk.end
      BY <1>1, <1>6, MapAdds
    <2>2. UNCHANGED payload /\ phase = "retry" /\ phase' = "run" /\ Deliver(a, want.slot, want.type)
      BY <1>6, <2>1 DEF MapChunk
    <2> QED BY <1>4, <2>1, <2>2, BornByAdding
  <1>7. ASSUME NEW n \in Request, NEW s \in Slot, NEW t \in {"atomic", "traced"}, Reuse(n, s, t)
        PROVE  \E a \in Addr : Born(a, s)
    <2>1. FreeTake(n, s, t) /\ phase = "run" /\ phase' = "run"
      BY <1>7 DEF Reuse
    <2> QED BY <1>3, <2>1
  <1> QED BY <1>2, <1>5, <1>6, <1>7 DEF Birth

(* A step that is none of these, nor one of the program, is a step of the   *)
(* collector that moves nothing, or the start of a sweep.                   *)
StillStep ==
    \/ UNCHANGED vars \/ Mark \/ TraceNext \/ TraceDense \/ RetireChunk
    \/ \E n \in Request, s \in Slot, t \in {"atomic", "traced"} : StartCollection(n, s, t)
    \/ OutOfMemory \/ SweepLive \/ SweepFree \/ Coalesce \/ NextChunk
    \/ StartPartition \/ Partition \/ EndCollection

LEMMA StepKinds == [Next]_vars => Birth \/ StillStep \/ StartSweep \/ Program
  BY DEF Next, Allocate, Collector, Birth, StillStep

LEMMA CoveredStep ==
    ASSUME WithinBitmap, BlocksInv, AllCovered, [Next]_vars
    PROVE  AllCovered'
  <1>1. TypeOK /\ Laid /\ WantKept
    BY DEF BlocksInv
  <1>2. CASE UNCHANGED chunk
    BY <1>2, SameChunks DEF AllCovered
  <1>3. ASSUME NEW n \in Request, NEW s \in Slot, NEW t \in {"atomic", "traced"}, Bump(n, s, t)
        PROVE  AllCovered'
    <2>1. PICK a \in Addr : Added(a, n) /\ Chunks' = Chunks
      BY <1>1, <1>3, BumpAdds
    <2> QED BY <2>1 DEF AllCovered, Added
  <1>4. CASE MapChunk
    <2>1. PICK a \in Addr, k \in Chunks' :
             /\ Added(a, want.units) /\ Chunks' = Chunks \cup {k}
             /\ chunk'[k].base = a /\ chunk'[k].end = a + ChunkSizeFor(want.units)
      BY <1>1, <1>4, MapAdds
    <2>2. want.units \in Request /\ want.units \in Nat
      BY <1>1, <1>4, HeapAssumption DEF MapChunk, WantKept
    <2>3. ChunkSizeFor(want.units) \in Nat /\ ChunkSizeFor(want.units) <= Covered
      BY <2>2, HeapAssumption DEF ChunkSizeFor, WithinBitmap
    <2>4. a \in Nat
      BY HeapAssumption DEF Addr
    <2>5. chunk'[k].end - chunk'[k].base <= Covered
      BY <2>1, <2>3, <2>4
    <2>6. \A c \in Chunks : chunk'[c].base = chunk[c].base /\ chunk'[c].end = chunk[c].end
      BY <2>1 DEF Added
    <2> QED BY <2>1, <2>5, <2>6 DEF AllCovered
  <1>5. StillStep \/ StartSweep \/ Program => UNCHANGED chunk
    BY DEF StillStep, vars, blocks, Mark, Reject, MarkAtomic, MarkSparse, MarkDense, Accept, TraceNext, TraceDense,
           RetireChunk, StartCollection, OutOfMemory, SweepLive, SweepFree, Coalesce, NextChunk, StartPartition,
           Partition, EndCollection, StartSweep, Program, Drop, Store, Load
  <1>6. RetryFree => UNCHANGED chunk
    BY DEF RetryFree, FreeTake
  <1>7. ASSUME NEW n, NEW s, NEW t, Reuse(n, s, t) PROVE UNCHANGED chunk
    BY <1>7 DEF Reuse, FreeTake
  <1> QED BY <1>2, <1>3, <1>4, <1>5, <1>6, <1>7, StepKinds DEF Birth

LEMMA MarkInit == Init => MarkInv
  <1> SUFFICES ASSUME Init PROVE MarkInv
    OBVIOUS
  <1>1. BlocksInv
    BY BlocksInit
  <1>2. /\ Header = {} /\ phase = "run" /\ \A a \in Addr : flag[a] = 0 /\ payload[a] = {}
        /\ \A s \in Slot : root[s] = Nil
    BY DEF Init, Header
  <1>3. AllCovered
    <2>1. Len(chunk) = 1 /\ chunk[1].base = 1 /\ chunk[1].end = 1 + ChunkUnits
      BY DEF Init
    <2>2. Chunks = {1}
      BY <2>1 DEF Chunks
    <2> QED BY <2>1, <2>2, HeapAssumption DEF AllCovered
  <1>4. MarkedAreHeaders
    BY <1>2 DEF MarkedAreHeaders
  <1>5. Colours
    BY <1>2 DEF Colours, GrayAreMarked, WorkIsQueued, QueuedOnce, NothingOverlooked
  <1>6. KeptClosed /\ PayloadsClean
    BY <1>2 DEF KeptClosed, Kept, PayloadsClean, Allocated
  <1> QED BY <1>1, <1>3, <1>4, <1>5, <1>6 DEF MarkInv

LEMMA MarkStep ==
    ASSUME WithinBitmap, MarkInv, [Next]_vars
    PROVE  MarkInv'
  <1>1. BlocksInv /\ AllCovered /\ KeptClosed /\ PayloadsClean
    BY DEF MarkInv
  <1>2. BlocksInv' /\ AllCovered' /\ MarkedAreHeaders' /\ Colours'
    BY <1>1, BlocksStep, CoveredStep, MarkedStep, ColoursStep
  <1>3. CASE Birth
    <2>1. PICK a \in Addr, s \in Slot : Born(a, s)
      BY <1>1, <1>3, Births
    <2>2. KeptClosed' /\ PayloadsClean'
      BY <1>1, <2>1, SurvivalBorn
    <2> QED BY <1>2, <2>2 DEF MarkInv
  <1>4. CASE StillStep
    <2>1. Still
      BY <1>4, StillSteps DEF StillStep
    <2>2. KeptClosed' /\ PayloadsClean'
      BY <1>1, <2>1, SurvivalStill
    <2> QED BY <1>2, <2>2 DEF MarkInv
  <1>5. CASE StartSweep
    BY <1>2, <1>5, SurvivalStartSweep DEF MarkInv
  <1>6. CASE Program
    BY <1>1, <1>2, <1>6, SurvivalProgram DEF MarkInv
  <1> QED BY <1>3, <1>4, <1>5, <1>6, StepKinds

LEMMA MarkAlways == WithinBitmap => (Spec => []MarkInv)
  <1> SUFFICES ASSUME WithinBitmap PROVE Spec => []MarkInv
    OBVIOUS
  <1>1. MarkInv /\ [Next]_vars => MarkInv'
    BY MarkStep
  <1> QED BY <1>1, MarkInit, PTL DEF Spec

(* If no allocation is longer than a chunk's bitmap covers, the marker      *)
(* writes only headers, every object it has still to trace is in one list   *)
(* of a queued chunk or on the stack, and no word of a traced object is     *)
(* overlooked.                                                              *)
THEOREM MarkingIsComplete == WithinBitmap => (Spec => []MarkingComplete)
  <1> SUFFICES ASSUME WithinBitmap PROVE Spec => []MarkingComplete
    OBVIOUS
  <1>1. MarkInv => MarkingComplete
    BY DEF MarkInv, MarkedAreHeaders, Markable, Colours, MarkingComplete, OnlyHeadersMarked
  <1> QED BY <1>1, MarkAlways, PTL

(* If no allocation is longer than a chunk's bitmap covers, no object the   *)
(* program can reach is ever free, before, in and after any collection, and *)
(* its references lead to allocated blocks.                                 *)
THEOREM ReachableAlwaysSurvives == WithinBitmap => (Spec => []ReachableSurvives)
  <1>1. ASSUME MarkInv PROVE ReachableSurvives
    <2>1. BlocksInv /\ KeptClosed
      BY <1>1 DEF MarkInv
    <2>2. Kept \subseteq Allocated /\ \A s \in Slot : root[s] # Nil => root[s] \in Allocated
      BY <2>1, Held
    <2>3. Kept \subseteq Header /\ Nil \notin Header
      BY DEF Kept, Header, Addr, Nil
    <2>4. Closed(Kept)
      BY <2>1, <2>3 DEF Closed, KeptClosed
    <2>5. Live \subseteq Kept
      BY <2>3, <2>4 DEF Live
    <2>6. \A a \in Live : a \in Allocated /\ Targets(a) \subseteq Allocated
      BY <2>1, <2>2, <2>5 DEF KeptClosed
    <2> QED BY <2>2, <2>6 DEF ReachableSurvives
  <1> SUFFICES ASSUME WithinBitmap PROVE Spec => []ReachableSurvives
    OBVIOUS
  <1> QED BY <1>1, MarkAlways, PTL

-----------------------------------------------------------------------------
(* The heap is one of objects                                              *)

Objects == [a \in Allocated |-> [units |-> size[a], words |-> payload[a]]]

(* The program sees the same objects.                                       *)
Unseen ==
    /\ UNCHANGED <<payload, root>> /\ Allocated' = Allocated
    /\ \A x \in Allocated : size'[x] = size[x]

LEMMA UnseenStutters ==
    ASSUME Unseen
    PROVE  UNCHANGED Abstract!vars
  <1>1. Objects' = Objects
    BY DEF Objects, Unseen
  <1> QED BY <1>1 DEF Abstract!vars, Objects, Unseen

(* The sweep reclaims an object only when no references lead to it.         *)
LEMMA PassedReclaims ==
    ASSUME MarkInv, NEW a \in Header, Passed(a), flag[a] = 0
    PROVE  Abstract!Reclaim(a)
  <1>1. BlocksInv /\ KeptClosed
    BY DEF MarkInv
  <1>2. Kept \subseteq Allocated /\ a \notin Kept /\ a \in Allocated
    BY <1>1, Held DEF Passed, Kept, Allocated
  <1>3. DOMAIN Objects = Allocated /\ \A x \in Allocated : Objects[x].words = payload[x]
    BY DEF Objects
  <1>4. Abstract!Closed(Kept)
    <2>1. \A x \in Kept : Abstract!Targets(x) = Targets(x)
      BY <1>2, <1>3 DEF Abstract!Targets, Targets, Objects
    <2> QED BY <1>1, <2>1 DEF Abstract!Closed, KeptClosed
  <1>5. a \notin Abstract!Live
    BY <1>2, <1>3, <1>4 DEF Abstract!Live, Objects
  <1>6. Allocated' = Allocated \ {a} /\ \A x \in Allocated : x # a => size'[x] = size[x]
    BY DEF Passed, Allocated, Header, Free
  <1>7. Objects' = [x \in Allocated \ {a} |-> Objects[x]]
    BY <1>6 DEF Objects, Passed
  <1> QED BY <1>2, <1>3, <1>5, <1>7 DEF Abstract!Reclaim, Objects, Passed

SpansDisjoint == \A a, b \in Header : a # b => Block(a) \cap Block(b) = {}

LEMMA SpansApart ==
    ASSUME BlocksInv
    PROVE  SpansDisjoint
  <1> SUFFICES ASSUME NEW a \in Header, NEW b \in Header, a # b
               PROVE  Block(a) \cap Block(b) = {}
    BY DEF SpansDisjoint
  <1>1. a \in Nat /\ size[a] \in Nat /\ b \in Nat /\ size[b] \in Nat
    BY Numbers DEF Header, BlocksInv, Laid
  <1>2. a + size[a] <= b \/ b + size[b] <= a
    BY <1>1, Apart DEF BlocksInv, Laid
  <1> QED BY <1>1, <1>2 DEF Block

LEMMA BornIsNew ==
    ASSUME BlocksInv', SpansDisjoint', NEW a \in Addr, NEW s \in Slot, Born(a, s)
    PROVE  size'[a] \in Addr /\ Abstract!New(a, size'[a], s)
  <1>1. a \in Header' /\ Allocated' = Allocated \cup {a} /\ a \notin Allocated
    BY DEF Born, Allocated
  <1>2. size'[a] \in Addr
    <2>1. size'[a] \in 0..Space /\ size'[a] # 0
      BY <1>1 DEF BlocksInv, TypeOK, Header
    <2> QED BY <2>1, HeapAssumption DEF Addr
  <1>3. ASSUME NEW b \in Allocated
        PROVE  (b..b + size[b] - 1) \cap (a..a + size'[a] - 1) = {}
    <2>1. b \in Header' /\ b # a /\ size'[b] = size[b]
      BY <1>1 DEF Born, Allocated
    <2>2. (Block(b) \cap Block(a) = {})'
      BY <1>1, <2>1 DEF SpansDisjoint
    <2> QED BY <2>1, <2>2 DEF Block
  <1>4. DOMAIN Objects = Allocated /\ \A b \in Allocated : Objects[b].units = size[b]
    BY DEF Objects
  <1>5. \A b \in DOMAIN Objects : Abstract!Span(b) \cap (a..a + size'[a] - 1) = {}
    BY <1>3, <1>4 DEF Abstract!Span, Objects
  <1>6. Objects' = [b \in DOMAIN Objects \cup {a} |->
                      IF b = a THEN [units |-> size'[a], words |-> {}] ELSE Objects[b]]
    BY <1>1 DEF Objects, Born
  <1>7. root' = [root EXCEPT ![s] = a]
    BY DEF Born
  <1> QED BY <1>2, <1>5, <1>6, <1>7 DEF Abstract!New, Objects

LEMMA ProgramSeesObjects ==
    ASSUME MarkInv, Program
    PROVE  Abstract!Next
  <1>1. TypeOK /\ Kept = Allocated /\ KeptClosed /\ UNCHANGED <<size, flag>>
    BY Held DEF MarkInv, BlocksInv, Program, Drop, Store, Load, blocks
  <1>2. Allocated' = Allocated /\ DOMAIN Objects = Allocated
    BY <1>1 DEF Allocated, Header, Objects
  <1>3. ASSUME NEW s \in Slot, Drop(s) PROVE Abstract!Next
    <2>1. UNCHANGED payload /\ root' = [root EXCEPT ![s] = Nil]
      BY <1>3 DEF Drop, object
    <2>2. Objects' = Objects
      BY <1>1, <1>2, <2>1 DEF Objects
    <2>3. Abstract!Drop(s)
      BY <2>1, <2>2 DEF Abstract!Drop, Objects
    <2> QED BY <2>3 DEF Abstract!Next
  <1>4. ASSUME NEW s \in Slot, NEW w \in Word, Store(s, w) PROVE Abstract!Next
    <2>1. root[s] # Nil /\ UNCHANGED root /\ payload' = [payload EXCEPT ![root[s]] = {w}]
      BY <1>4 DEF Store
    <2>2. PICK o \in Allocated : o = root[s] /\ o \in Addr
      BY <1>1, <2>1 DEF KeptClosed, Allocated, Header
    <2>3. \A x \in Addr : payload'[x] = IF x = o THEN {w} ELSE payload[x]
      BY <1>1, <2>1, <2>2 DEF TypeOK
    <2>4. Objects' = [x \in Allocated |-> IF x = o THEN [units |-> size[x], words |-> {w}] ELSE Objects[x]]
      BY <1>1, <1>2, <2>3 DEF Objects, Allocated, Header
    <2>5. [Objects EXCEPT ![o].words = {w}]
             = [x \in Allocated |-> IF x = o THEN [units |-> size[x], words |-> {w}] ELSE Objects[x]]
      <3>1. Objects[o] = [units |-> size[o], words |-> payload[o]]
        BY <2>2 DEF Objects
      <3>2. [Objects[o] EXCEPT !.words = {w}] = [units |-> size[o], words |-> {w}]
        BY <3>1
      <3>3. Objects = [x \in Allocated |-> Objects[x]]
        BY DEF Objects
      <3>4. [Objects EXCEPT ![o].words = {w}]
               = [x \in Allocated |-> IF x = o THEN [Objects[o] EXCEPT !.words = {w}] ELSE Objects[x]]
        BY <1>2, <2>2, <3>3
      <3> QED BY <3>2, <3>4
    <2>6. Abstract!Write(s, {w})
      BY <2>1, <2>2, <2>4, <2>5 DEF Abstract!Write, Objects
    <2>7. {w} \in {{x} : x \in Word}
      OBVIOUS
    <2> QED BY <2>6, <2>7 DEF Abstract!Next
  <1>5. ASSUME NEW s \in Slot, NEW x \in Slot, Load(s, x) PROVE Abstract!Next
    <2>1. PICK a \in Addr : Reference(a) \in payload[root[s]] /\ root' = [root EXCEPT ![x] = a]
      BY <1>5 DEF Load
    <2>2. root[s] # Nil /\ root[s] \in Allocated /\ UNCHANGED payload
      BY <1>1, <1>5 DEF Load, KeptClosed, object
    <2>3. Objects' = Objects
      BY <1>1, <1>2, <2>2 DEF Objects
    <2>4. Objects[root[s]].words = payload[root[s]]
      BY <2>2 DEF Objects
    <2>5. a \in Targets(root[s])
      BY <2>1 DEF Targets, Reference
    <2>6. Abstract!Targets(root[s]) = Targets(root[s])
      BY <2>4 DEF Abstract!Targets, Targets, Objects
    <2>7. a \in Abstract!Targets(root[s]) \cap DOMAIN Objects
      BY <1>1, <1>2, <2>2, <2>5, <2>6 DEF KeptClosed
    <2>8. Abstract!Read(s, x)
      BY <2>1, <2>2, <2>3, <2>7 DEF Abstract!Read, Objects
    <2> QED BY <2>8 DEF Abstract!Next
  <1> QED BY <1>3, <1>4, <1>5 DEF Program

LEMMA StillSeesObjects ==
    ASSUME MarkInv, StillStep \/ StartSweep
    PROVE  [Abstract!Next]_(Abstract!vars)
  <1>1. CASE SweepLive \/ SweepFree \/ Coalesce
    <2>1. PICK a \in Header : Passed(a)
      BY <1>1, Passing DEF MarkInv
    <2>2. CASE flag[a] = 0
      <3>1. Abstract!Reclaim(a) /\ a \in Addr
        BY <2>1, <2>2, PassedReclaims DEF Header
      <3> QED BY <3>1 DEF Abstract!Next
    <2>3. CASE flag[a] # 0
      <3>1. flag[a] \in 0..2 /\ a \in Addr
        BY DEF MarkInv, BlocksInv, TypeOK, Header
      <3>2. Allocated' = Allocated
        BY <2>1, <2>3, <3>1 DEF Passed, Allocated, Header
      <3>3. \A x \in Allocated : size'[x] = size[x]
        BY <2>1, <2>3, <3>1 DEF Passed, Allocated, Free
      <3>4. Unseen
        BY <2>1, <3>2, <3>3 DEF Unseen, Passed
      <3> QED BY <3>4, UnseenStutters
    <2> QED BY <2>2, <2>3
  <1>2. CASE Mark
    <2>1. UNCHANGED <<size, payload, root>>
      BY <1>2 DEF Mark, Reject, MarkAtomic, MarkSparse, MarkDense, Accept, blocks, object
    <2>2. \A x \in Addr : flag'[x] = 2 <=> flag[x] = 2
      <3>1. flag' = flag \/ \E a \in Addr : Accept(a)
        BY <1>2 DEF Mark, Reject, MarkAtomic, MarkSparse, MarkDense, blocks
      <3>2. ASSUME NEW a \in Addr, Accept(a) PROVE <2>2
        BY <3>2, Accepted DEF MarkInv
      <3> QED BY <3>1, <3>2
    <2>3. Unseen
      BY <2>1, <2>2 DEF Unseen, Allocated, Header
    <2> QED BY <2>3, UnseenStutters
  <1>3. ASSUME ~(SweepLive \/ SweepFree \/ Coalesce \/ Mark) PROVE Unseen
    <2>1. UNCHANGED <<size, flag, payload, root>>
      BY <1>3 DEF StillStep, vars, TraceNext, TraceDense, RetireChunk, OutOfMemory, NextChunk, StartPartition,
             Partition, EndCollection, StartCollection, StartSweep, blocks, object
    <2> QED BY <2>1 DEF Unseen, Allocated, Header
  <1> QED BY <1>1, <1>2, <1>3, UnseenStutters

(* If no allocation is longer than a chunk's bitmap covers, the program     *)
(* sees a heap of objects that do not overlap, keep their words and go only *)
(* when no references lead to them: every step of an allocation or a        *)
(* collection is a step of AbstractHeap or changes nothing there.           *)
THEOREM HeapIsOneOfObjects == WithinBitmap => (Spec => HeapOfObjects)
  <1> SUFFICES ASSUME WithinBitmap PROVE Spec => HeapOfObjects
    OBVIOUS
  <1>1. Init => Abstract!Init
    <2> SUFFICES ASSUME Init PROVE Abstract!Init
      OBVIOUS
    <2>1. Allocated = {} /\ root = [s \in Slot |-> Nil]
      BY DEF Init, Allocated, Header
    <2>2. Objects = [a \in {} |-> [units |-> 0, words |-> {}]]
      BY <2>1 DEF Objects
    <2> QED BY <2>1, <2>2 DEF Abstract!Init, Objects
  <1>2. MarkInv => SpansDisjoint
    BY SpansApart DEF MarkInv
  <1>3. MarkInv /\ MarkInv' /\ SpansDisjoint' /\ [Next]_vars => [Abstract!Next]_(Abstract!vars)
    <2> SUFFICES ASSUME MarkInv, MarkInv', SpansDisjoint', [Next]_vars PROVE [Abstract!Next]_(Abstract!vars)
      OBVIOUS
    <2>1. CASE Birth
      <3>1. PICK a \in Addr, s \in Slot : Born(a, s)
        BY <2>1, Births DEF MarkInv
      <3>2. size'[a] \in Addr /\ Abstract!New(a, size'[a], s)
        BY <3>1, BornIsNew DEF MarkInv
      <3> QED BY <3>2 DEF Abstract!Next
    <2>2. CASE Program
      BY <2>2, ProgramSeesObjects
    <2>3. CASE StillStep \/ StartSweep
      BY <2>3, StillSeesObjects
    <2> QED BY <2>1, <2>2, <2>3, StepKinds
  <1> QED BY <1>1, <1>2, <1>3, MarkAlways, PTL DEF Spec, HeapOfObjects, Abstract!Spec

-----------------------------------------------------------------------------
(* What a collection leaves                                                *)

(* S holds what the words of the roots and of its own blocks lead to.       *)
Chained(S) ==
    /\ \A s \in Slot : root[s] # Nil => root[s] \in S
    /\ \A a \in S \cap Kept : Children(a) \cap Kept \subseteq S

(* Nothing is marked, or kept by a sweep, but what such a chain leads to.   *)
OnlyChainedMarked(S) ==
    /\ phase = "mark" => todo \cap Allocated \subseteq S /\ \A a \in Addr : flag[a] = 1 => a \in S
    /\ phase \in {"sweep", "partition", "retry"} => Kept \subseteq S

NothingExtra == \A S \in SUBSET Addr : Chained(S) => OnlyChainedMarked(S)

EndsAtSweep(a) == sweep.chunk # 0 /\ a + size[a] = sweep.at

(* Where the sweep has been, a free block is followed by one that is not:   *)
(* the one the sweep may still extend ends where the sweep is.              *)
Merged ==
    phase \in {"sweep", "partition", "retry"} =>
        \A a \in Free : \A c \in ChunkOf(a) :
            Swept(a) /\ a + size[a] < chunk[c].used =>
                IF EndsAtSweep(a) THEN a = sweep.prev ELSE flag[a + size[a]] # 2

LEMMA ChainedStill ==
    ASSUME Still, NEW S
    PROVE  Chained(S)' <=> Chained(S)
  <1>1. \A a : Children(a)' = Children(a)
    BY DEF Still, Children
  <1> QED BY <1>1 DEF Still, Chained

LEMMA ExtraMarking ==
    ASSUME MarkInv, phase = "mark", Mark \/ TraceNext \/ TraceDense \/ RetireChunk,
           NEW S \in SUBSET Addr, Chained(S), OnlyChainedMarked(S)
    PROVE  OnlyChainedMarked(S)'
  <1>1. /\ todo \cap Allocated \subseteq S /\ \A a \in Addr : flag[a] = 1 => a \in S
        /\ phase' = "mark"
    BY DEF OnlyChainedMarked, Mark, Reject, MarkAtomic, MarkSparse, MarkDense, Accept, TraceNext, TraceDense,
           RetireChunk, DenseTurn
  <1>2. Still
    BY StillSteps
  <1>3. BlocksInv /\ AllCovered /\ MarkedAreHeaders /\ GrayAreMarked /\ KeptClosed
        /\ stack \in Seq(Addr) /\ denseStack \in Seq(Chunks)
        /\ dense \in [Chunks -> [list : Seq(Addr), count : Nat]]
    BY DEF MarkInv, Colours, BlocksInv, TypeOK
  <1>4. SUFFICES todo' \cap Allocated' \subseteq S /\ \A a \in Addr : flag'[a] = 1 => a \in S
    BY <1>1 DEF OnlyChainedMarked
  <1>5. Allocated' \subseteq Allocated
    BY <1>2 DEF Still
  <1>6. ASSUME NEW a \in Addr, InLists(a) \/ InDense(a)
        PROVE  Children(a) \cap Allocated \subseteq S
    <2>1. flag[a] = 1
      BY <1>3, <1>6 DEF GrayAreMarked
    <2>2. a \in S /\ a \in Header
      BY <1>1, <1>3, <2>1 DEF MarkedAreHeaders, Markable
    <2>3. a \in Kept /\ Kept = Allocated
      BY <1>3, <2>1, <2>2, Held DEF Allocated
    <2> QED BY <2>2, <2>3 DEF Chained
  <1>7. ASSUME NEW a \in Addr, Reject(a) PROVE <1>4!1
    BY <1>1, <1>5, <1>7 DEF Reject, blocks
  <1>8. ASSUME NEW a \in Addr, Accept(a) PROVE <1>4!1
    <2>1. a \in Header /\ flag[a] = 0 /\ \A x \in Addr : flag'[x] = IF x = a THEN 1 ELSE flag[x]
      BY <1>3, <1>8, Accepted
    <2>2. a \in S
      BY <1>1, <1>8, <2>1 DEF Allocated, Accept
    <2> QED BY <1>1, <1>5, <1>8, <2>1, <2>2 DEF Accept
  <1>9. CASE TraceNext
    <2>1. todo' = Children(Head(stack)) /\ stack # <<>> /\ UNCHANGED flag
      BY <1>9 DEF TraceNext, blocks
    <2>2. Head(stack) \in Addr /\ InLists(Head(stack))
      BY <1>3, <2>1, TailFacts DEF InLists, Elems
    <2> QED BY <1>1, <1>5, <1>6, <2>1, <2>2
  <1>10. CASE TraceDense
    <2>1. PICK c \in Chunks : c = Head(denseStack)
      BY <1>3, <1>10, TailFacts DEF TraceDense, DenseTurn
    <2>2. dense[c].list # <<>> /\ todo' = Children(Head(dense[c].list)) /\ UNCHANGED flag
      BY <1>10, <2>1 DEF TraceDense, blocks
    <2>3. PICK q \in Seq(Addr) : q = dense[c].list
      BY <1>3
    <2>4. Head(q) \in Addr /\ Head(q) \in Elems(q)
      BY <2>2, <2>3, TailFacts
    <2>5. InDense(Head(q))
      BY <2>3, <2>4 DEF InDense, Elems
    <2> QED BY <1>1, <1>5, <1>6, <2>2, <2>3, <2>4, <2>5
  <1>11. CASE RetireChunk
    BY <1>1, <1>5, <1>11 DEF RetireChunk, blocks
  <1> QED BY <1>7, <1>8, <1>9, <1>10, <1>11 DEF Mark, MarkAtomic, MarkSparse, MarkDense

(* When the sweep begins: of a chain through what is kept, the marked part  *)
(* is a chain already.                                                      *)
LEMMA ExtraStartSweep ==
    ASSUME MarkInv, NothingExtra, StartSweep, NEW S \in SUBSET Addr, Chained(S)'
    PROVE  Kept' \subseteq S
  <1>1. /\ phase = "mark" /\ todo = {} /\ UNCHANGED <<payload, root, type>>
    BY DEF StartSweep, object
  <1>2. /\ Kept' = {a \in Header : flag[a] = 1} /\ KeptClosed'
    BY SurvivalStartSweep
  <1>3. BlocksInv /\ KeptClosed /\ WorkIsQueued /\ NothingOverlooked /\ PayloadsClean /\ MarkedAreHeaders
    BY DEF MarkInv, Colours
  <1>4. Kept = Allocated
    BY <1>1, <1>3, Held
  <1>5. Gray = {}
    <2>1. \A a : ~InLists(a)
      BY DEF InLists, StartSweep
    <2>2. \A c \in Chunks : dense[c].list = <<>>
      BY <1>1, <1>3 DEF WorkIsQueued, StartSweep
    <2>3. \A a : ~InDense(a)
      BY <2>2 DEF InDense
    <2> QED BY <2>1, <2>3 DEF Gray
  <1>6. ASSUME NEW a \in Header, flag[a] = 1, NEW b \in Children(a) \cap Allocated
        PROVE  b \in Kept'
    <2>1. a \in Allocated /\ payload[a] # {} /\ a \in Addr
      BY <1>6 DEF Allocated, Children, Header
    <2>2. type[a] = "traced"
      BY <1>3, <2>1 DEF PayloadsClean, BlocksInv, TypeOK
    <2>3. flag[b] = 1
      BY <1>1, <1>3, <1>5, <1>6, <2>2 DEF NothingOverlooked
    <2> QED BY <1>2, <1>6, <2>3 DEF Allocated
  <1> DEFINE T == {a \in S : a \in Header /\ flag[a] = 1}
  <1>7. Chained(T)
    <2>1. \A s \in Slot : root[s] # Nil => root[s] \in T
      BY <1>1, <1>2 DEF Chained, KeptClosed
    <2>2. ASSUME NEW a \in T \cap Kept, NEW b \in Children(a) \cap Kept PROVE b \in T
      <3>1. b \in Kept'
        BY <1>4, <1>6, <2>2
      <3>2. a \in Kept' /\ b \in Children(a)'
        BY <1>1, <1>2, <2>2 DEF Children
      <3>3. b \in S
        BY <3>1, <3>2 DEF Chained
      <3> QED BY <1>2, <3>1, <3>3
    <2> QED BY <2>1, <2>2 DEF Chained
  <1>8. \A a \in Addr : flag[a] = 1 => a \in T
    <2>1. T \in SUBSET Addr
      OBVIOUS
    <2> HIDE DEF T
    <2> QED BY <1>1, <1>7, <2>1 DEF NothingExtra, OnlyChainedMarked
  <1> QED BY <1>2, <1>8 DEF Header

LEMMA ExtraStep ==
    ASSUME MarkInv, NothingExtra, [Next]_vars
    PROVE  NothingExtra'
  <1> SUFFICES ASSUME NEW S \in SUBSET Addr, Chained(S)' PROVE OnlyChainedMarked(S)'
    BY DEF NothingExtra
  <1>1. CASE Birth \/ Program \/ OutOfMemory
    <2>1. phase' \notin {"mark", "sweep", "partition", "retry"}
      BY <1>1 DEF Birth, Program, OutOfMemory, Bump, Reuse, RetryFree, MapChunk, Drop, Store, Load
    <2> QED BY <2>1 DEF OnlyChainedMarked
  <1>2. CASE StartSweep
    BY <1>2, ExtraStartSweep DEF OnlyChainedMarked, StartSweep
  <1>3. ASSUME StillStep
        PROVE  Still /\ Chained(S) /\ OnlyChainedMarked(S)
    <2>1. Still
      BY <1>3, StillSteps DEF StillStep
    <2> QED BY <2>1, ChainedStill DEF NothingExtra
  <1>4. CASE Mark \/ TraceNext \/ TraceDense \/ RetireChunk
    <2>1. phase = "mark" /\ StillStep
      BY <1>4 DEF Mark, Reject, MarkAtomic, MarkSparse, MarkDense, Accept, TraceNext, TraceDense, RetireChunk,
                  DenseTurn, StillStep
    <2> QED BY <1>3, <1>4, <2>1, ExtraMarking
  <1>5. ASSUME NEW n \in Request, NEW s \in Slot, NEW t \in {"atomic", "traced"}, StartCollection(n, s, t)
        PROVE  OnlyChainedMarked(S)'
    <2>1. phase = "run" /\ phase' = "mark" /\ todo' = RootWords /\ UNCHANGED <<flag, root>>
      BY <1>5 DEF StartCollection, blocks
    <2>2. \A a \in Addr : flag'[a] # 1
      BY <2>1 DEF MarkInv, MarkedAreHeaders, Markable
    <2>3. RootWords \subseteq S
      BY <1>3, <1>5 DEF RootWords, Chained, StillStep
    <2> QED BY <2>1, <2>2, <2>3 DEF OnlyChainedMarked
  <1>6. CASE \/ SweepLive \/ SweepFree \/ Coalesce \/ NextChunk
             \/ StartPartition \/ Partition \/ EndCollection
    <2>1. /\ phase \in {"sweep", "partition"} /\ phase' \in {"sweep", "partition", "retry"}
      BY <1>6 DEF SweepLive, SweepFree, Coalesce, SweepTurn, NextChunk, StartPartition, Partition, EndCollection
    <2>2. Kept' = Kept /\ OnlyChainedMarked(S)
      BY <1>3, <1>6 DEF Still, StillStep
    <2> QED BY <2>1, <2>2 DEF OnlyChainedMarked
  <1>7. CASE UNCHANGED vars
    <2>1. Kept' = Kept /\ OnlyChainedMarked(S) /\ UNCHANGED <<phase, todo, flag, size>>
      BY <1>3, <1>7 DEF Still, StillStep, vars, marking, blocks
    <2> QED BY <2>1 DEF OnlyChainedMarked, Allocated, Header
  <1> QED BY <1>1, <1>2, <1>4, <1>5, <1>6, <1>7, StepKinds DEF StillStep

LEMMA NextTo ==
    ASSUME BlocksInv, NEW x \in Header, NEW d \in ChunkOf(x), x + size[x] < chunk[d].used
    PROVE  x + size[x] \in Header
  <1>1. TypeOK /\ ChunksInOrder /\ Tiled
    BY DEF BlocksInv, Laid
  <1>2. PICK c \in Chunks : ChunkOf(x) = {c} /\ (x + size[x] # chunk[c].used => x + size[x] \in Header)
    BY <1>1, InChunk
  <1>3. c = d /\ chunk[d].used \in Nat /\ x \in Nat /\ size[x] \in Nat
    BY <1>1, <1>2, Numbers DEF Header
  <1> QED BY <1>2, <1>3

(* Blocks the sweep has passed end before the next one, or come after.      *)
LEMMA SweptPlace ==
    ASSUME BlocksInv, NEW c \in Chunks, NEW a \in Header, Looking(c, a), NEW x \in Header, Swept(x)
    PROVE  x + size[x] <= a \/ x + size[x] > a + size[a]
  <1>1. TypeOK /\ ChunksInOrder /\ Tiled
    BY DEF BlocksInv, Laid
  <1>2. /\ x \in Nat \ {0} /\ size[x] \in Nat \ {0} /\ a \in Nat /\ size[a] \in Nat
        /\ chunk[c].end \in Nat /\ chunk[c].used \in Nat /\ chunk[c].used <= chunk[c].end
    BY <1>1, Numbers DEF Header, ChunksInOrder
  <1>3. chunk[c].end <= x \/ x < a
    BY DEF Swept, Looking
  <1>4. x < a => x + size[x] <= a
    BY <1>1, Apart
  <1>5. a + size[a] <= chunk[c].used
    BY DEF Looking
  <1> QED BY <1>2, <1>3, <1>4, <1>5

(* The sweep passes block a of chunk c, and p is the free block behind it.  *)
Sweeping(c, a, p) ==
    /\ phase = "sweep" /\ UNCHANGED chunk /\ Looking(c, a)
    /\ sweep'.chunk = c /\ sweep'.at = a + size[a] /\ sweep'.prev = p
    /\ \A x \in Header : x # a => flag'[x] = flag[x]
    /\ \A x \in Header' : Swept(x)' => Swept(x) \/ x = a
    /\ Header' \subseteq Header

LEMMA SweepFacts ==
    ASSUME BlocksInv, SweepLive \/ SweepFree \/ Coalesce
    PROVE  \E c \in Chunks, a \in Header : /\ Sweeping(c, a, sweep'.prev)
                                           /\ SweepLive => sweep'.prev = Nil
                                           /\ SweepFree => sweep'.prev = a
                                           /\ Coalesce => sweep'.prev = sweep.prev
  <1>1. PICK c \in Chunks, a \in Header : Looking(c, a)
    BY Spot DEF SweepLive, SweepFree, Coalesce
  <1>2. PICK b \in Header : Passed(b)
    BY Passing
  <1>3. sweep \in [chunk : Nat, at : Nat, prev : Addr \cup {Nil}, list : Seq(Addr)]
    BY DEF BlocksInv, TypeOK
  <1>4. /\ sweep'.chunk = c /\ sweep'.at = a + size[a]
        /\ SweepLive => sweep'.prev = Nil
        /\ SweepFree => sweep'.prev = a
        /\ Coalesce => sweep'.prev = sweep.prev
    <2>1. sweep.at = a /\ sweep.chunk = c /\ a + size[a] \in Nat
      BY <1>1 DEF Looking
    <2>2. CASE SweepLive
      <3>1. sweep' = [sweep EXCEPT !.at = a + size[a], !.prev = Nil] /\ flag[a] = 1
        BY <2>1, <2>2 DEF SweepLive
      <3> QED BY <1>3, <2>1, <3>1 DEF SweepFree, Coalesce
    <2>3. CASE SweepFree
      <3>1. sweep' = [sweep EXCEPT !.at = a + size[a], !.prev = a, !.list = <<a>> \o sweep.list] /\ flag[a] # 1 /\ ~BehindFree
        BY <2>1, <2>3 DEF SweepFree
      <3> QED BY <1>3, <2>1, <3>1 DEF SweepLive, Coalesce
    <2>4. CASE Coalesce
      <3>1. sweep' = [sweep EXCEPT !.at = a + size[a]] /\ flag[a] # 1 /\ BehindFree
        BY <2>1, <2>4 DEF Coalesce
      <3> QED BY <1>3, <2>1, <3>1 DEF SweepLive, SweepFree
    <2> QED BY <2>2, <2>3, <2>4
  <1>5. Swept(b)' \/ b \notin Header'
    BY <1>2 DEF Passed
  <1>6. \A x \in Header : Swept(x)' <=> Swept(x) \/ x = a
    <2>1. \A x : Swept(x)' <=> Behind(x, c, a + size[a])
      BY <1>1, <1>2, <1>4 DEF Swept, Behind, Passed, Looking
    <2> QED BY <1>1, <2>1 DEF Looking
  <1>7. a = b
    BY <1>1, <1>2, <1>6 DEF Passed, Looking
  <1>8. Sweeping(c, a, sweep'.prev)
    BY <1>1, <1>2, <1>4, <1>6, <1>7 DEF Sweeping, Passed, Header
  <1> QED BY <1>4, <1>8

LEMMA MergedSweep ==
    ASSUME BlocksInv, Merged, SweepLive \/ SweepFree \/ Coalesce
    PROVE  Merged'
  <1>1. TypeOK /\ ChunksInOrder /\ Tiled /\ phase = "sweep"
    BY DEF BlocksInv, Laid, SweepLive, SweepFree, Coalesce, SweepTurn
  <1>2. PICK c \in Chunks, a \in Header : /\ Sweeping(c, a, sweep'.prev)
                                          /\ SweepLive => sweep'.prev = Nil
                                          /\ SweepFree => sweep'.prev = a
                                          /\ Coalesce => sweep'.prev = sweep.prev
    BY SweepFacts
  <1>3. SUFFICES ASSUME NEW x \in Free', NEW d \in ChunkOf(x)', Swept(x)', x + size'[x] < chunk'[d].used
                 PROVE  IF EndsAtSweep(x)' THEN x = sweep'.prev ELSE flag'[x + size'[x]] # 2
    BY DEF Merged
  <1>4. x \in Header /\ d \in ChunkOf(x) /\ chunk'[d].used = chunk[d].used /\ flag'[x] = 2
        /\ (Swept(x) \/ x = a)
    BY <1>2, <1>3, SameChunks DEF Sweeping, Free
  <1>5. /\ x \in Nat \ {0} /\ size[x] \in Nat \ {0} /\ a \in Nat \ {0} /\ size[a] \in Nat \ {0}
    BY <1>1, <1>4, Numbers DEF Header
  <1>6. EndsAtSweep(x)' <=> x + size'[x] = a + size[a]
    BY <1>2 DEF EndsAtSweep, Sweeping, Looking
  <1>7. ASSUME x # a, size'[x] = size[x], x + size[x] = a => SweepLive
        PROVE  IF EndsAtSweep(x)' THEN x = sweep'.prev ELSE flag'[x + size'[x]] # 2
    <2>1. x \in Free /\ Swept(x)
      BY <1>2, <1>4, <1>7 DEF Free, Sweeping
    <2>2. x + size[x] <= a \/ x + size[x] > a + size[a]
      BY <1>2, <1>4, <2>1, SweptPlace DEF Sweeping
    <2>3. ~EndsAtSweep(x)'
      BY <1>5, <1>6, <1>7, <2>2
    <2>4. CASE x + size[x] = a
      <3>1. SweepLive /\ flag' = [flag EXCEPT ![a] = 0]
        BY <1>2, <1>7, <2>4 DEF SweepLive, Unmarked, Sweeping, Looking
      <3>2. flag'[a] = 0
        BY <1>1, <3>1 DEF TypeOK, Header
      <3> QED BY <1>7, <2>3, <2>4, <3>2
    <2>5. CASE x + size[x] # a
      <3>1. x + size[x] < chunk[d].used
        BY <1>3, <1>4, <1>7
      <3>2. x + size[x] \in Header
        BY <1>4, <3>1, NextTo
      <3>3. ~EndsAtSweep(x)
        BY <1>2, <2>5 DEF EndsAtSweep, Sweeping, Looking
      <3>4. flag[x + size[x]] # 2
        BY <1>1, <1>4, <2>1, <3>1, <3>3 DEF Merged
      <3>5. flag'[x + size[x]] # 2
        BY <1>2, <2>5, <3>2, <3>4 DEF Sweeping
      <3> QED BY <1>7, <2>3, <3>5
    <2> QED BY <2>4, <2>5
  <1>8. ASSUME x # a, x + size[x] = a PROVE x + size[x] < chunk[d].used
    <2>1. PICK e \in Chunks : ChunkOf(x) = {e} /\ x < chunk[e].end /\ x + size[x] <= chunk[e].used /\ chunk[e].base <= x
      BY <1>1, <1>4, InChunk
    <2>2. Looking(c, a) /\ e = d
      BY <1>2, <1>4, <2>1 DEF Sweeping
    <2>3. Swept(x) /\ (chunk[c].end <= x \/ chunk[c].base <= x)
      BY <1>4, <1>8, <2>2 DEF Swept, Looking
    <2>4. /\ chunk[c].base <= a /\ a < chunk[c].used /\ chunk[c].used <= chunk[c].end /\ chunk[c].base \in Nat /\ chunk[c].used \in Nat /\ chunk[c].end \in Nat
      BY <1>1, <2>2, Numbers DEF Looking, ChunksInOrder
    <2>5. chunk[c].base <= x /\ x < chunk[c].used
      BY <1>5, <1>8, <2>3, <2>4
    <2>6. c = e
      BY <2>1, <2>5 DEF ChunkOf
    <2> QED BY <1>8, <2>2, <2>4, <2>6
  <1>9. ASSUME x # a, x + size[x] = a PROVE x = sweep.prev /\ BehindFree
    <2>1. x \in Free /\ Swept(x)
      BY <1>2, <1>4, <1>9 DEF Free, Sweeping
    <2>2. EndsAtSweep(x)
      BY <1>2, <1>9 DEF EndsAtSweep, Sweeping, Looking
    <2>3. x = sweep.prev
      BY <1>1, <1>4, <1>8, <1>9, <2>1, <2>2 DEF Merged
    <2> QED BY <1>2, <1>4, <1>9, <2>3 DEF BehindFree, Sweeping, Looking
  <1>10. CASE SweepLive
    <2>1. x # a /\ size'[x] = size[x]
      <3>1. flag' = [flag EXCEPT ![a] = 0] /\ UNCHANGED size
        BY <1>2, <1>10 DEF SweepLive, Unmarked, Sweeping, Looking
      <3>2. flag'[a] = 0
        BY <1>1, <3>1 DEF TypeOK, Header
      <3> QED BY <1>4, <3>1, <3>2
    <2> QED BY <1>7, <1>10, <2>1
  <1>11. CASE SweepFree
    <2>1. ~BehindFree /\ UNCHANGED size /\ sweep'.prev = a
      BY <1>2, <1>11 DEF SweepFree
    <2>2. CASE x = a
      BY <1>6, <2>1, <2>2
    <2>3. CASE x # a
      BY <1>7, <1>9, <2>1, <2>3
    <2> QED BY <2>2, <2>3
  <1>12. CASE Coalesce
    <2>1. PICK p \in Header, e \in Chunks, b \in Header : Merges(p, e, b)
      BY <1>12, Merging
    <2>2. b = a /\ p = sweep.prev /\ p # a /\ p + size[p] = a /\ x # a
      BY <1>2, <1>3, <2>1 DEF Merges, Sweeping, Looking, Free
    <2>3. \A y \in Addr : size'[y] = IF y = p THEN size[p] + size[a] ELSE IF y = a THEN 0 ELSE size[y]
      BY <2>1, <2>2 DEF Merges
    <2>4. p \in Nat /\ size[p] \in Nat /\ p \in Addr /\ x \in Addr
      BY <1>1, <1>4, Numbers DEF Header
    <2>5. CASE x = p
      <3>1. x + size'[x] = a + size[a]
        BY <1>5, <2>2, <2>3, <2>4, <2>5
      <3> QED BY <1>2, <1>6, <1>12, <2>2, <2>5, <3>1
    <2>6. CASE x # p
      <3>1. size'[x] = size[x]
        BY <2>2, <2>3, <2>4, <2>6
      <3> QED BY <1>7, <1>9, <2>2, <2>6, <3>1
    <2> QED BY <2>5, <2>6
  <1> QED BY <1>10, <1>11, <1>12

LEMMA MergedNextChunk ==
    ASSUME BlocksInv, Merged, NextChunk
    PROVE  Merged'
  <1>1. TypeOK /\ ChunksInOrder /\ Tiled /\ AtBoundary /\ phase = "sweep"
    BY DEF BlocksInv, Laid, SweepInPlace, NextChunk
  <1>2. UNCHANGED <<chunk, size, flag>>
    BY DEF NextChunk, blocks
  <1>3. PICK c \in Chunks : c = sweep.chunk /\ c # 0 /\ c \in Nat \ {0}
    BY <1>1, Numbers DEF AtBoundary, NextChunk
  <1>4. sweep.at = chunk[c].used
    <2>1. sweep.at >= chunk[c].used /\ sweep.at <= chunk[c].used /\ sweep.at \in Nat
      BY <1>1, <1>3 DEF NextChunk, AtBoundary, TypeOK
    <2> QED BY <1>1, <2>1, Numbers
  <1>5. sweep'.chunk = c - 1 /\ (c # 1 => sweep'.at = chunk[c - 1].base)
    <2>1. sweep \in [chunk : Nat, at : Nat, prev : Addr \cup {Nil}, list : Seq(Addr)]
      BY <1>1 DEF TypeOK
    <2>2. sweep' = [sweep EXCEPT !.chunk = @ - 1, !.prev = Nil,
                                 !.at = IF sweep.chunk = 1 THEN 0 ELSE chunk[sweep.chunk - 1].base]
      BY DEF NextChunk
    <2> QED BY <1>3, <2>1, <2>2
  <1>6. SUFFICES ASSUME NEW x \in Free', NEW d \in ChunkOf(x)', Swept(x)', x + size'[x] < chunk'[d].used
                 PROVE  ~EndsAtSweep(x)' /\ flag'[x + size'[x]] # 2
    BY DEF Merged
  <1>7. x \in Free /\ x \in Header /\ d \in ChunkOf(x)
    BY <1>2, SameChunks DEF Free, Header
  <1>8. Swept(x) /\ x + size[x] < chunk[d].used
    BY <1>2, <1>6, <1>7, NextSwept
  <1>9. /\ x \in Nat \ {0} /\ size[x] \in Nat \ {0}
        /\ chunk[c].base \in Nat /\ chunk[c].used \in Nat /\ chunk[c].end \in Nat
        /\ chunk[c].base <= chunk[c].used /\ chunk[c].used <= chunk[c].end
    BY <1>1, <1>7, Numbers DEF Header, ChunksInOrder
  <1>10. chunk[c].end <= x \/ (chunk[c].base <= x /\ x < chunk[c].used)
    BY <1>3, <1>4, <1>8 DEF Swept
  <1>11. ~EndsAtSweep(x)
    <2>1. CASE chunk[c].end <= x
      BY <1>4, <1>9, <2>1 DEF EndsAtSweep
    <2>2. CASE chunk[c].base <= x /\ x < chunk[c].used
      <3>1. c \in ChunkOf(x)
        BY <2>2 DEF ChunkOf
      <3>2. \E e \in Chunks : ChunkOf(x) = {e}
        BY <1>1, <1>7, InChunk
      <3>3. c = d
        BY <1>7, <3>1, <3>2
      <3> QED BY <1>4, <1>8, <1>9, <3>3 DEF EndsAtSweep
    <2> QED BY <1>10, <2>1, <2>2
  <1>12. flag[x + size[x]] # 2
    BY <1>1, <1>7, <1>8, <1>11 DEF Merged
  <1>13. ~EndsAtSweep(x)'
    <2>1. CASE c = 1
      BY <1>5, <2>1 DEF EndsAtSweep
    <2>2. CASE c # 1
      <3>1. PICK b \in Chunks : b = c - 1 /\ b < c
        <4>1. c - 1 \in Chunks /\ c - 1 < c
          BY <1>1, <1>3, <2>2, Numbers DEF Chunks
        <4> QED BY <4>1
      <3>2. chunk[b].base < chunk[b].end /\ chunk[b].end <= chunk[c].base /\ chunk[b].base \in Nat /\ chunk[b].end \in Nat
        BY <1>1, <3>1, Numbers DEF ChunksInOrder
      <3>3. sweep'.at < x
        BY <1>5, <1>9, <1>10, <2>2, <3>1, <3>2
      <3>4. size'[x] = size[x]
        BY <1>2
      <3> QED BY <1>9, <3>2, <3>3, <3>4, <1>5, <2>2, <3>1 DEF EndsAtSweep
    <2> QED BY <2>1, <2>2
  <1> QED BY <1>2, <1>12, <1>13

LEMMA MergedStep ==
    ASSUME MarkInv, Merged, [Next]_vars
    PROVE  Merged'
  <1>1. BlocksInv
    BY DEF MarkInv
  <1>2. CASE phase' \notin {"sweep", "partition", "retry"}
    BY <1>2 DEF Merged
  <1>3. CASE SweepLive \/ SweepFree \/ Coalesce
    BY <1>1, <1>3, MergedSweep
  <1>4. CASE NextChunk
    BY <1>1, <1>4, MergedNextChunk
  <1>5. CASE StartSweep
    <2>1. \A x \in Free' : ~Swept(x)'
      <3>1. \A x \in Header : ~Swept(x)'
        BY <1>1, <1>5, StartUnswept
      <3> QED BY <1>5, <3>1 DEF Free, Header, StartSweep, blocks
    <2> QED BY <2>1 DEF Merged
  <1>6. CASE StartPartition \/ Partition \/ EndCollection
    <2>1. /\ UNCHANGED <<chunk, size, flag>> /\ phase \in {"sweep", "partition"}
          /\ sweep.chunk = 0 /\ sweep'.chunk = 0
      <3>1. sweep \in [chunk : Nat, at : Nat, prev : Addr \cup {Nil}, list : Seq(Addr)]
        BY <1>1 DEF BlocksInv, TypeOK
      <3>2. CASE StartPartition
        BY <3>2 DEF StartPartition
      <3>3. CASE Partition
        <4>1. sweep.chunk = 0 /\ sweep' = [sweep EXCEPT !.list = Tail(sweep.list)]
          BY <1>1, <3>3 DEF Partition, BlocksInv, SweepInPlace
        <4>2. sweep'.chunk = 0
          BY <3>1, <4>1
        <4> QED BY <3>3, <4>1, <4>2 DEF Partition
      <3>4. CASE EndCollection
        BY <1>1, <3>4 DEF EndCollection, blocks, Idle, BlocksInv, SweepInPlace
      <3> QED BY <1>6, <3>2, <3>3, <3>4
    <2>2. Free' = Free /\ \A x : ChunkOf(x)' = ChunkOf(x)
      BY <2>1, SameChunks DEF Free, Header
    <2>3. \A x : Swept(x) /\ ~EndsAtSweep(x) /\ ~EndsAtSweep(x)'
      BY <2>1 DEF Swept, EndsAtSweep
    <2> QED BY <2>1, <2>2, <2>3 DEF Merged
  <1>7. CASE UNCHANGED vars
    <2>1. UNCHANGED <<chunk, size, flag, phase, sweep>>
      BY <1>7 DEF vars, blocks
    <2>2. Free' = Free /\ \A x : /\ ChunkOf(x)' = ChunkOf(x) /\ (Swept(x)' <=> Swept(x))
                                 /\ (EndsAtSweep(x)' <=> EndsAtSweep(x))
      BY <2>1, SameChunks DEF Free, Header, Swept, EndsAtSweep
    <2> QED BY <2>1, <2>2 DEF Merged
  <1>8. Birth \/ Program \/ OutOfMemory \/ Mark \/ TraceNext \/ TraceDense \/ RetireChunk
          \/ (\E n \in Request, s \in Slot, t \in {"atomic", "traced"} : StartCollection(n, s, t))
          => phase' \notin {"sweep", "partition", "retry"}
    BY DEF Birth, Bump, Reuse, RetryFree, MapChunk, Program, Drop, Store, Load, OutOfMemory, Mark, Reject, MarkAtomic,
           MarkSparse, MarkDense, Accept, TraceNext, TraceDense, RetireChunk, DenseTurn, StartCollection
  <1> QED BY <1>2, <1>3, <1>4, <1>5, <1>6, <1>7, <1>8, StepKinds DEF StillStep

(* If no allocation is longer than a chunk's bitmap covers, a collection    *)
(* leaves no two free blocks side by side in a chunk and, of the blocks it  *)
(* found, keeps exactly those a chain of words from the roots leads to.     *)
THEOREM CollectionIsExact == WithinBitmap => (Spec => []Collected)
  <1> SUFFICES ASSUME WithinBitmap PROVE Spec => []Collected
    OBVIOUS
  <1>1. Init => NothingExtra /\ Merged
    BY DEF Init, NothingExtra, OnlyChainedMarked, Merged
  <1>2. MarkInv /\ NothingExtra /\ Merged /\ [Next]_vars => NothingExtra' /\ Merged'
    BY ExtraStep, MergedStep
  <1>3. ASSUME MarkInv, NothingExtra, Merged PROVE Collected
    <2> SUFFICES ASSUME phase = "retry"
                 PROVE  /\ \A c \in Chunks : \A a \in Header :
                             c \in ChunkOf(a) /\ flag[a] = 2 /\ a + size[a] < chunk[c].used
                               => flag[a + size[a]] # 2
                        /\ Allocated = Shown
      BY DEF Collected
    <2>1. BlocksInv /\ KeptClosed /\ PayloadsClean /\ Kept = Allocated
      BY <1>3, Held DEF MarkInv
    <2>2. sweep.chunk = 0
      BY <2>1 DEF BlocksInv, SweepInPlace, Idle
    <2>3. \A a \in Free : \A c \in ChunkOf(a) : a + size[a] < chunk[c].used => flag[a + size[a]] # 2
      BY <1>3, <2>2 DEF Merged, Swept, EndsAtSweep
    <2>4. ASSUME NEW S \in SUBSET Allocated, ShownTo(S) PROVE Allocated \subseteq S
      <3>1. \A s \in Slot : root[s] # Nil => root[s] \in S
        BY <2>1, <2>4 DEF KeptClosed, ShownTo
      <3>2. ASSUME NEW a \in S, NEW b \in Children(a) \cap Allocated PROVE b \in S
        <4>1. a \in Addr /\ payload[a] # {} /\ a \in Allocated
          BY <3>2 DEF Children, Allocated, Header
        <4>2. type[a] = "traced"
          BY <2>1, <4>1 DEF PayloadsClean, BlocksInv, TypeOK
        <4> QED BY <2>4, <3>2, <4>2 DEF ShownTo
      <3>3. Chained(S) /\ S \in SUBSET Addr
        BY <2>1, <3>1, <3>2 DEF Chained, Allocated, Header
      <3> QED BY <1>3, <2>1, <3>3 DEF NothingExtra, OnlyChainedMarked
    <2>5. Allocated = Shown
      BY <2>4 DEF Shown
    <2> QED BY <2>3, <2>5 DEF Free
  <1> QED BY <1>1, <1>2, <1>3, MarkAlways, PTL DEF Spec
=============================================================================
