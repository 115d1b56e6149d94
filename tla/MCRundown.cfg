CONSTANTS
    r1 = r1
    r2 = r2
    ROs = {r1, r2}
    Workers = {w1,w2}
    DiskFails = "yes"
    Messages <- Sent
    MaxOps = 3
    MaxMixed = 2
    Held <- HeldFirst
    NoMessage = NoMessage
SPECIFICATION Spec
SYMMETRY Symmetry
INVARIANTS
    TypeOK
    DiskIsMemory
    AckedIsSaved
PROPERTIES
    KeepsItsPromise
