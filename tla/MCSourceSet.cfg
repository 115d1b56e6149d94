\* One connection, a disk that can fail, and the rundowns up to their limit.
SPECIFICATION Spec
CONSTANTS
    r1 = r1
    r2 = r2
    r3 = r3
    i1 = i1
    a = a
    b = b
    s1 = s1
    ROs = {r1, r2, r3}
    Labels = {a, b}
    NoLabel = NoLabel
    Sessions = {s1}
    NoSession = NoSession
    IDs = {i1}
    NoID = NoID
    Msgs <- MCMsgs
    Limit = 2
    MaxRevision = 4
    MaxBroken = 1
INVARIANTS
    TypeOK
    CompleteIsEnrolled
    CompleteIsCurrent
    RefusedIsFinal
    OneRundownPerMessage
    Resumable
PROPERTIES
    PostsForward
    RejoinsUncovered
    HaltedIsFrozen
