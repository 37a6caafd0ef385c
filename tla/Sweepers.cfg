SPECIFICATION FairSpec
CONSTANTS
    w1 = w1
    w2 = w2
    p1 = p1
    p2 = p2
    p3 = p3
    None = None
    Worker = {w1, w2}
    Post = {p1, p2, p3}
    Batch = 2
    MaxEdits = 3
    MaxBad = 1
    MaxSlow = 1
    MaxFaults = 1
CHECK_DEADLOCK FALSE
INVARIANTS
    TypeOK
    OneSweeper
PROPERTIES
    LeaseEndsByHolder
    DirtyIsSwept
