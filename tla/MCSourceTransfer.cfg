CONSTANTS
    Contents = {x}
    MaxRevision = 3
    MaxOld = 1
    MaxFaults = 2
    Parts = 2
    ScanLimit = 1
    MaxLosses = 2
SPECIFICATION FairSpec
INVARIANTS
    RootReadable
    BackupIsExact
    AcceptedWasPublished
PROPERTIES
    TransferEnds
CHECK_DEADLOCK FALSE
