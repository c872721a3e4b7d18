SPECIFICATION Spec
CONSTANTS
    s1 = s1
    s2 = s2
    s3 = s3
    haiku = haiku
    opus = opus
    Ids <- MCIds
    Tiers <- MCTiers
    NoId = NoId
    NoTier = NoTier
    TTL = 1
    MaxEntries = 2
    MaxTime = 3
INVARIANTS
    WorkingSetHeld
PROPERTIES
    FreshLeavesLast
    ImplementsMemory
