SPECIFICATION FairSpec
CONSTANTS
    RouterLog = RouterLog
    StatsLog = StatsLog
    Backlog = 2
    MaxRead = 3
    MaxLines = 3
    MaxRotations = 1
    MaxTears = 1
INVARIANTS
    InStep
PROPERTIES
    BacklogIsLatest
    Follows
CHECK_DEADLOCK FALSE
