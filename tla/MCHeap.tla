------------------------------- MODULE MCHeap -------------------------------
(* Small heaps: chunks of a few units, so that every allocation path, every *)
(* split and every merge happens within a few calls.                        *)
EXTENDS Heap, TLC

MCLimit == <<2, 3>>
SlotSymmetry == Permutations(Slot)
=============================================================================
