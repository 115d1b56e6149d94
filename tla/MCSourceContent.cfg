CONSTANTS
    Sessions = {s1}
    NoSession = NoSession
    Scopes = {"tcp"}
    Stories = {t1}
    NoStory = NoStory
    Contents = {x, y}
    NoContent = NoContent
    OutsideLimits = {y}
    IDs = {1}
    NoID = NoID
    MaxRevision = 4
    DiskFails = TRUE
    Receiver = "foreign"
    ScopeOf <- OneScope
    Sent <- EveryKind
SPECIFICATION FairSpec
INVARIANTS
    TypeOK
    PostsForward
    AcceptedWasReceived
    OKIsDurable
PROPERTIES
    HaltedIsFrozen
    LatestIsAccepted
CHECK_DEADLOCK FALSE
