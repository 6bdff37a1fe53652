---------------------------- MODULE AbstractHeap ----------------------------
(***************************************************************************)
(* What the program relies on: objects that do not overlap, keep their     *)
(* words until the program changes them, and disappear only when no chain  *)
(* of references leads to them.                                            *)
(***************************************************************************)
EXTENDS Integers

CONSTANTS Addr, Word, Slot, Nil

VARIABLES
    object,   \* from the address of each object to its units and words
    root

vars == <<object, root>>

Span(a) == a..a + object[a].units - 1
Targets(a) == {w[2] : w \in {v \in object[a].words : v[1] = "ref"}}

Closed(S) ==
    /\ \A s \in Slot : root[s] # Nil => root[s] \in S
    /\ \A a \in S : Targets(a) \subseteq S
Live == {a \in DOMAIN object : \A S \in SUBSET DOMAIN object : Closed(S) => a \in S}

Init ==
    /\ object = [a \in {} |-> [units |-> 0, words |-> {}]]
    /\ root = [s \in Slot |-> Nil]

New(a, n, s) ==
    /\ \A b \in DOMAIN object : Span(b) \cap (a..a + n - 1) = {}
    /\ object' = [b \in DOMAIN object \cup {a} |->
                    IF b = a THEN [units |-> n, words |-> {}] ELSE object[b]]
    /\ root' = [root EXCEPT ![s] = a]

Write(s, words) ==
    /\ root[s] # Nil
    /\ object' = [object EXCEPT ![root[s]].words = words]
    /\ UNCHANGED root

Read(s, x) ==
    /\ root[s] # Nil
    /\ \E a \in Targets(root[s]) \cap DOMAIN object : root' = [root EXCEPT ![x] = a]
    /\ UNCHANGED object

Drop(s) ==
    /\ root' = [root EXCEPT ![s] = Nil]
    /\ UNCHANGED object

Reclaim(a) ==
    /\ a \in DOMAIN object \ Live
    /\ object' = [b \in DOMAIN object \ {a} |-> object[b]]
    /\ UNCHANGED root

Next ==
    \/ \E a \in Addr, n \in Addr, s \in Slot : New(a, n, s)
    \/ \E s \in Slot, words \in {{w} : w \in Word} : Write(s, words)
    \/ \E s, x \in Slot : Read(s, x)
    \/ \E s \in Slot : Drop(s)
    \/ \E a \in Addr : Reclaim(a)

Spec == Init /\ [][Next]_vars
=============================================================================
