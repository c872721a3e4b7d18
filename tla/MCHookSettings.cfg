SPECIFICATION FairSpec
CONSTANTS
    linter = linter
    hooksScript = hooksScript
    oldEntry = oldEntry
    UserHooks <- MCUserHooks
    Older <- MCOlder
    LookAlike <- MCLookAlike
    Shadows <- MCShadows
    Launchd = TRUE
    Faults <- MCFaults
    MaxEdits = 3
    MaxCommands = 2
INVARIANTS
    TypeOK
    NeverHalfWritten
    OneEntry
    TeardownSticks
PROPERTIES
    SaveMerges
    Healed
CHECK_DEADLOCK FALSE
