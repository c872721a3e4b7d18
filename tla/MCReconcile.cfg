SPECIFICATION ReconcileSpec
CONSTANTS
    opus = opus
    haiku = haiku
    a = a
    b = b
    think = think
    use = use
    result = result
    Targets <- MCTargets
    Supports <- MCSupports
    Betas <- MCBetas
    Owners <- MCOwners
    Blocks <- MCBlocks
    Thinking <- MCThinking
    Pairs <- MCPairs
    Absent = Absent
    Originals <- MCOriginals
INVARIANTS
    WellFormed
    NothingElseLost
    OrderIrrelevant
CHECK_DEADLOCK FALSE
