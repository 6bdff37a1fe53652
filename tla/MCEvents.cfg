SPECIFICATION Spec
CONSTANTS
    target = target
    s1 = s1
    s2 = s2
    s3 = s3
    first = first
    second = second
    x = x
    y = y
    Task = {a, b}
    Plain = {target}
    Signal = {s1, s2, s3}
    Type = {"tick", "abort"}
    Callback = {first, second}
    Reason = {x, y}
    Menu <- MCMenu
    MaxDispatches = 2
SYMMETRY TaskSymmetry
INVARIANTS
    OnceRunsOnce
    BoundaryRespected
    AbortArrives
CHECK_DEADLOCK FALSE
