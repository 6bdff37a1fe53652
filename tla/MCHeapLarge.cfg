SPECIFICATION Spec
CONSTANTS
    Space = 11
    ChunkUnits = 3
    Covered = 3
    MinSplit = 2
    Limit <- MCLimit
    Request = {3, 5, 8}
    Slot = {s1, s2}
    Number = {}
    Threshold = 1
SYMMETRY SlotSymmetry
INVARIANTS ReachableSurvives
CHECK_DEADLOCK FALSE
