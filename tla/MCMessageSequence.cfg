SPECIFICATION Spec
CONSTANTS
    MaxID = 7
    Block = 3
    ReadErrors = FALSE
INVARIANTS
    NoReuse
    SkipBounded
CHECK_DEADLOCK TRUE
