SPECIFICATION FairSpec
CONSTANTS
    c1 = c1
    c2 = c2
    d1 = d1
    d2 = d2
    Requests <- MCRequests
    Kind <- MCKind
    MaxConcurrency = 1
    MaxCrashes = 1
INVARIANTS
    TypeOK
    PermitsConserved
    LoadedOnce
PROPERTIES
    Finishes
CHECK_DEADLOCK FALSE
