SPECIFICATION Spec
CONSTANTS
    a1 = a1
    a2 = a2
    s1 = s1
    l1 = l1
    Arrays = {a1, a2}
    Streams = {s1}
    Listeners = {l1}
    MaxFrames = 3
    MaxLeaks = 1
SYMMETRY ArraySymmetry
INVARIANTS
    TypeOK
    BorrowsAccounted
    HandlersAreLive
    AbortsExplained
CHECK_DEADLOCK FALSE
