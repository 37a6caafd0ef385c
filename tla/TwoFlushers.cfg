SPECIFICATION FairSpec
CONSTANTS
    w1 = w1
    w2 = w2
    w3 = w3
    b0 = b0
    b1 = b1
    b2 = b2
    None = None
    Proc = {w1, w2, w3}
    Body = {b0, b1}
    Ready = {b1}
    InitBody = b0
    Does <- TwoFlushers
    Faults = {"redis", "snapttl"}
    MaxOps = 4
    MaxFaults = 1
INVARIANTS
    FlushMutex
    DirtyIndexed
    HistoryHead
    FlushedIsStored
PROPERTIES
    DirtyDrains
