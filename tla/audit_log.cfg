SPECIFICATION Spec
CONSTANTS
    MaxRows = 4
    Share = 2
    MaxAge = 1
    PurgeAge = 2
    PageSize = 1
    MaxEntries = 5
    MaxTime = 3
    MaxCuts = 1
CHECK_DEADLOCK FALSE
INVARIANTS
    TypeOK
    SizeBounded
    ScanComplete
PROPERTIES
    RecentRetained
