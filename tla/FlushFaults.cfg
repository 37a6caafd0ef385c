SPECIFICATION Spec
CONSTANTS
    w1 = w1
    w2 = w2
    w3 = w3
    b0 = b0
    b1 = b1
    b2 = b2
    None = None
    Proc = {w1, w2, w3}
    Body = {b0, b1}
    Ready = {b1}
    InitBody = b0
    Does <- AllOps
    Faults = {"crash", "abort", "redis", "lockttl", "snapttl"}
    MaxOps = 4
    MaxFaults = 1
INVARIANTS
    TypeOK
    FlushAddsNoDuplicate
PROPERTIES
    LockRemovedOnlyByOwner
    DeletedIsFinal
