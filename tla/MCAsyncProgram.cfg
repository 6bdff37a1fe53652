CONSTANTS
    Task <- MCTask
    Group = {}
    NoTask = "main"
    NoRoot = "none"
    NoContext = NoContext
    Context = {NoContext}
    Delay = {}
    MaxTime = 8
    LastTick = 2
    Program <- MCPrograms
    Message <- MCMessage
    Empty = Empty
    Request = {0, 2}
SPECIFICATION ProgramSpec
CHECK_DEADLOCK FALSE
INVARIANTS
    CleanExit
PROPERTIES
    Terminates
