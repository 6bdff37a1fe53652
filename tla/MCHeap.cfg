SPECIFICATION Spec
CONSTANTS
    Space = 8
    ChunkUnits = 8
    Covered = 8
    MinSplit = 3
    Limit <- MCLimit
    Request = {2, 3}
    Slot = {s1, s2}
    Number = {3}
    Threshold = 1
SYMMETRY SlotSymmetry
INVARIANTS HeapConsistent MarkingComplete Collected
CHECK_DEADLOCK FALSE
