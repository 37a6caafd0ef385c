SPECIFICATION HSpec
CONSTANTS
    w1 = w1
    w2 = w2
    w3 = w3
    b0 = b0
    b1 = b1
    b2 = b2
    None = None
    Proc = {w1, w2, w3}
    Body = {b0, b1, b2}
    Ready = {b1, b2}
    InitBody = b0
    Does <- PatchAndSweep
    Faults = {}
    MaxOps = 3
    MaxFaults = 0
PROPERTIES
    PatchNotOverwritten
