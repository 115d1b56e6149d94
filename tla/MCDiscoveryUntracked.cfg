CONSTANTS
    ROs = {r1, r2, r3}
    NoRO = NoRO
    Attempts = {1}
    NoAttempt = 0
    Sessions = {s1, s2}
    NoSession = NoSession
    MaxQueue = 2
    Native = FALSE
    MaxEvents = 3
SPECIFICATION Spec
INVARIANTS
    NothingForgotten
PROPERTIES
    WalkDrains
