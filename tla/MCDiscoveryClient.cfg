CONSTANTS
    ROs = {r1}
    NoRO = NoRO
    Attempts = {1, 2, 3, 4, 5, 6}
    NoAttempt = 0
    Sessions = {s1, s2}
    NoSession = NoSession
    MaxQueue = 1
    Native = FALSE
    Passive = {s1}
    Scopes = {"passive", "request"}
    Dials = TRUE
    Overlap = TRUE
    DiskFails = FALSE
    Unsolicited = TRUE
    MaxUnanswered = 1
    MaxTracked = 0
    ScopeOf <- TwoScopes
SPECIFICATION Spec
SYMMETRY ROSymmetry
INVARIANTS
    TypeOK
