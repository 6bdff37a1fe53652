CONSTANTS
    Task = {t1, t2, t3}
    Group = {}
    NoTask = NoTask
    NoRoot = NoRoot
    NoContext = NoContext
    Context = {NoContext}
    Delay <- MCDelay
    MaxTime = 2
SYMMETRY TaskSymmetry
SPECIFICATION Spec
CHECK_DEADLOCK FALSE
INVARIANTS
    TypeOK
    OneHome
    ChainOK
    RootsScanned
    StuckJoinIsNested
    TimersSorted
PROPERTIES
    NoEarlyWake
    ArmedLastFiresLast
    ClearedTimerNeverStarts
    StackDiscipline
