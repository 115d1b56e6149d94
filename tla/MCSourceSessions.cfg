CONSTANTS
    Sessions = {s1, s2}
    NoSession = NoSession
    Scopes = {"tcp"}
    Stories = {t1}
    NoStory = NoStory
    Contents = {x}
    NoContent = NoContent
    OutsideLimits = {}
    IDs = {1}
    NoID = NoID
    MaxRevision = 7
    DiskFails = TRUE
    Receiver = "absent"
    ScopeOf <- OneScope
    Sent <- Rebuilt
SPECIFICATION Spec
SYMMETRY SessionSymmetry
INVARIANTS
    CompleteIsCovered
    AppliedOnce
CHECK_DEADLOCK FALSE
