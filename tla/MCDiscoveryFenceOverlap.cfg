CONSTANTS
    ROs = {r1}
    NoRO = NoRO
    Attempts = {1, 2, 3, 4, 5, 6}
    NoAttempt = 0
    Sessions = {s1, s2}
    NoSession = NoSession
    MaxQueue = 1
    Native = TRUE
    Passive = {}
    Scopes = {"tcp"}
    Dials = FALSE
    Overlap = TRUE
    DiskFails = FALSE
    Unsolicited = FALSE
    MaxUnanswered = 2
    MaxTracked = 0
    ScopeOf <- OneScope
SPECIFICATION Spec
SYMMETRY Symmetry
INVARIANTS
    AnswersOwnRequest
