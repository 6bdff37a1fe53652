CONSTANTS
    Actor <- MCActor
    Message <- MCMessage
    Empty = Empty
    Request <- MCRequest
    Resumed <- MCResumed
SPECIFICATION FairSpec
CHECK_DEADLOCK FALSE
INVARIANTS
    ChannelConsistent
PROPERTIES
    FirstInFirstOut
    BlockedMeet
