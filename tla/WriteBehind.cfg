SPECIFICATION HFairSpec
CONSTANTS
    w1 = w1
    w2 = w2
    w3 = w3
    b0 = b0
    b1 = b1
    b2 = b2
    None = None
    Proc = {w1, w2, w3}
    Body = {b0, b1, b2}
    Ready = {b1, b2}
    InitBody = b0
    Does <- OneFlusher
    Faults = {"redis"}
    MaxOps = 4
    MaxFaults = 1
PROPERTIES
    ImplementsWriteBehind
    EditorConverges
