-------------------------- MODULE StructuredClone ---------------------------
(***************************************************************************)
(* structuredClone(value, {transfer: [...]}): the transferred buffers are  *)
(* moved first, then the graph of the value is copied along its static     *)
(* types, with a memo of what has been copied already.                     *)
(*                                                                         *)
(* A graph gives every node a kind, an "object" or "array" of slots with   *)
(* static types, a "dynamic" object, or a "buffer". A slot holds a number  *)
(* or refers to a node, as its own type or as "any".                       *)
(***************************************************************************)
EXTENDS Integers, Sequences, FiniteSets, SequencesExt

CONSTANTS
    Node,           \* the objects of a program
    Menu,           \* the calls: a graph with its root and its transfer list
    MaxClones       \* clones after which a copy counts as endless

StructuredCloneAssumption ==
    /\ MaxClones \in Nat
    /\ \A c \in Menu :
        /\ DOMAIN c.kind = Node /\ DOMAIN c.slots = Node
        /\ \A i \in DOMAIN c.transfer : c.kind[c.transfer[i]] = "buffer"

Number == "number"
Gone   == "gone"            \* what a detached buffer holds

VARIABLES call, phase, bytes, memo, made, result

vars == <<call, phase, bytes, memo, made, result>>

\* Where a slot or a result leads: a number, a node of the source, or a clone.
ToNumber   == <<"number", Number>>
ToSource(n) == <<"source", n>>
ToClone(k) == <<"clone", k>>
Nothing    == <<"nothing", Number>>

Init ==
    /\ call \in Menu
    /\ phase = "check"
    /\ bytes = [n \in Node |-> n]
    /\ memo = <<>> /\ made = <<>> /\ result = Nothing

-----------------------------------------------------------------------------
(* The memo: sources and their clones, searched from the front. *)

\* Mutant of structuredCloneMemoIndex: the search begins at the second entry.
MemoIndexFromSecond(m, n) ==
    LET hits == { i \in DOMAIN m.memo \ {1} : m.memo[i].source = n }
    IN  IF hits = {} THEN -1 ELSE CHOOSE i \in hits : \A j \in hits : i <= j

structuredCloneMemoIndex(m, n) ==
    LET hits == { i \in DOMAIN m.memo : m.memo[i].source = n }
    IN  IF hits = {} THEN -1 ELSE CHOOSE i \in hits : \A j \in hits : i <= j

\* A new clone, known to the memo before anything of it is filled in.
registerStructuredCloneMemo(m, n, clone) ==
    [memo |-> Append(m.memo, [source |-> n, clone |-> Len(m.made) + 1]),
     made |-> Append(m.made, clone)]

-----------------------------------------------------------------------------
(* Copying. *)

RECURSIVE cloneStructuredValue(_, _)

\* The slots of a node, copied in order into its clone k.
CloneSlots(m, n, k) ==
    FoldLeft(LAMBDA h, i : LET v == cloneStructuredValue(h, call.slots[n][i])
                           IN  [v.m EXCEPT !.made[k].slots = Append(@, v.to)],
             m, [i \in DOMAIN call.slots[n] |-> i])

\* A buffer's bytes are copied with it; the other kinds are filled in slot by slot.
cloneNode(m, n) ==
    LET found == structuredCloneMemoIndex(m, n)
        k == Len(m.made) + 1
        empty == [kind |-> call.kind[n], slots |-> <<>>, bytes |-> Gone]
    IN  IF found # -1 THEN [m |-> m, to |-> ToClone(m.memo[found].clone)]
        ELSE IF Len(m.made) >= MaxClones THEN [m |-> m, to |-> Nothing]
        ELSE IF call.kind[n] = "buffer"
        THEN [m |-> registerStructuredCloneMemo(m, n, [empty EXCEPT !.bytes = bytes[n]]), to |-> ToClone(k)]
        ELSE [m |-> CloneSlots(registerStructuredCloneMemo(m, n, empty), n, k), to |-> ToClone(k)]

\* By the static type of the slot: behind "any" only a dynamic object is copied.
cloneStructuredValue(m, r) ==
    IF r.to = Number THEN [m |-> m, to |-> ToNumber]
    ELSE IF r.any /\ call.kind[r.to] # "dynamic" THEN [m |-> m, to |-> ToSource(r.to)]
    ELSE cloneNode(m, r.to)

-----------------------------------------------------------------------------

HasDuplicate == \E i, j \in DOMAIN call.transfer : j < i /\ call.transfer[j] = call.transfer[i]

\* A buffer listed twice throws before anything is moved.
Check ==
    /\ phase = "check"
    /\ phase' = IF HasDuplicate THEN "thrown" ELSE "transfer"
    /\ UNCHANGED <<call, bytes, memo, made, result>>

\* The bytes move to a new buffer, and the old one is left empty.
emitAMD64ByteBufferTransfer ==
    /\ phase = "transfer" /\ Len(memo) < Len(call.transfer)
    /\ LET n == call.transfer[Len(memo) + 1]
           m == registerStructuredCloneMemo([memo |-> memo, made |-> made], n,
                                            [kind |-> "buffer", slots |-> <<>>, bytes |-> bytes[n]])
       IN  /\ bytes' = [bytes EXCEPT ![n] = Gone]
           /\ memo' = m.memo /\ made' = m.made
    /\ UNCHANGED <<call, phase, result>>

lowerStructuredClone ==
    /\ phase = "transfer" /\ Len(memo) = Len(call.transfer)
    /\ LET v == cloneStructuredValue([memo |-> memo, made |-> made], call.root)
       IN  memo' = v.m.memo /\ made' = v.m.made /\ result' = v.to
    /\ phase' = "done"
    /\ UNCHANGED <<call, bytes>>

Next == Check \/ emitAMD64ByteBufferTransfer \/ lowerStructuredClone

Spec == Init /\ [][Next]_vars

-----------------------------------------------------------------------------
(* What a clone should be. *)

Transferred == { call.transfer[i] : i \in DOMAIN call.transfer }

\* A slot that leads to a copy, and one that leads back into the source.
Copies(r) == r.to # Number /\ (r.any => call.kind[r.to] = "dynamic")

Targets(ns) == { r.to : r \in { s \in UNION { { call.slots[n][i] : i \in DOMAIN call.slots[n] } : n \in ns } : Copies(s) } }

RECURSIVE Reach(_)
Reach(ns) == LET more == ns \cup Targets(ns) IN IF more = ns THEN ns ELSE Reach(more)

\* The nodes a copy is due of.
Copied == Transferred \cup Reach(IF Copies(call.root) THEN {call.root.to} ELSE {})

CloneOf(n) == memo[CHOOSE i \in DOMAIN memo : memo[i].source = n].clone

Expected(r) == IF r.to = Number THEN ToNumber ELSE IF Copies(r) THEN ToClone(CloneOf(r.to)) ELSE ToSource(r.to)

TypeOK ==
    /\ call \in Menu /\ phase \in {"check", "transfer", "done", "thrown"}
    /\ bytes \in [Node -> Node \cup {Gone}]
    /\ Len(memo) = Len(made)

(* A finished clone has one copy of every node it should, linked as the    *)
(* nodes are, cycles and sharing included; it shares with the source only  *)
(* what an "any" hides; a buffer's bytes are in its copy, and in the       *)
(* source as well unless it was transferred; and a call that throws has    *)
(* moved nothing.                                                          *)
CloneIsCopy ==
    /\ phase = "done" =>
        /\ { memo[i].source : i \in DOMAIN memo } = Copied /\ Len(memo) = Cardinality(Copied)
        /\ { memo[i].clone : i \in DOMAIN memo } = DOMAIN made
        /\ result = Expected(call.root)
        /\ \A n \in Copied : LET c == made[CloneOf(n)] IN
               /\ c.kind = call.kind[n]
               /\ c.bytes = (IF call.kind[n] = "buffer" THEN n ELSE Gone)
               /\ c.slots = (IF n \in Transferred THEN <<>> ELSE [i \in DOMAIN call.slots[n] |-> Expected(call.slots[n][i])])
        /\ \A n \in Node : bytes[n] = (IF n \in Transferred THEN Gone ELSE n)
    /\ phase = "thrown" => made = <<>> /\ bytes = [n \in Node |-> n]

=============================================================================
