SPECIFICATION Spec
CONSTANTS
    linter = linter
    hooksScript = hooksScript
    oldEntry = oldEntry
    UserHooks <- MCUserHooks
    Older <- MCOlder
    LookAlike <- MCLookAlike
    Shadows <- MCShadows
    Launchd = TRUE
    Faults <- MCFaults
    MaxEdits = 3
    MaxCommands = 2
PROPERTIES
    NeverClobbers
CHECK_DEADLOCK FALSE
