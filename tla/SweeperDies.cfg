SPECIFICATION FairSpec
CONSTANTS
    w1 = w1
    w2 = w2
    p1 = p1
    p2 = p2
    p3 = p3
    None = None
    Worker = {w1}
    Post = {p1}
    Batch = 2
    MaxEdits = 1
    MaxBad = 0
    MaxSlow = 0
    MaxFaults = 1
CHECK_DEADLOCK FALSE
PROPERTIES
    SweptUnlessCancelled
