SPECIFICATION FairSpec
CONSTANTS
    Space = 8
    ChunkUnits = 4
    Covered = 4
    MinSplit = 2
    Limit <- MCLimit
    Request = {2, 3}
    Slot = {s1, s2}
    Number = {3}
    Threshold = 1
PROPERTIES HeapOfObjects CollectionEnds
CHECK_DEADLOCK FALSE
