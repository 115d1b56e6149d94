CONSTANTS
    ROs = {r1, r2}
    NoRO = NoRO
    Attempts = {1, 2, 3, 4, 5, 6}
    NoAttempt = 0
    Sessions = {s1, s2}
    NoSession = NoSession
    MaxQueue = 2
    Native = TRUE
    Passive = {}
    Scopes = {"tcp"}
    Dials = FALSE
    Overlap = FALSE
    DiskFails = TRUE
    Unsolicited = FALSE
    MaxUnanswered = 2
    MaxTracked = 1
    ScopeOf <- OneScope
SPECIFICATION Spec
SYMMETRY Symmetry
INVARIANTS
    AnswersOwnRequest
    SavedIsOutstanding
    AdvertisedIsSaved
