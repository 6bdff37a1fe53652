SPECIFICATION Spec
CONSTANTS
    t1 = t1
    t2 = t2
    src = src
    b1 = b1
    b2 = b2
    r1 = r1
    q1 = q1
    a1 = a1
    a2 = a2
    l1 = l1
    l2 = l2
    g1 = g1
    h1 = h1
    n1 = n1
    n2 = n2
    n3 = n3
INVARIANTS
    ChunksInOrder
    BodiesHeld
    ClearedStops
    AggregateRight
    InStep
    
    URLAgrees
    HeadersAgree
    ContainersAgree
    CloneIsCopy
    RunsAsWritten
CHECK_DEADLOCK FALSE
