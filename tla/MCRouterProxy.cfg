SPECIFICATION FairSpec
CONSTANTS
    r1 = r1
    r2 = r2
    s = s
    lo = lo
    hi = hi
    haiku = haiku
    opus = opus
    Requests <- MCRequests
    Sessions <- MCSessions
    NoSession = NoSession
    Names <- MCNames
    NoTier = NoTier
    Models <- MCModels
    NoModel = NoModel
    NoPin = NoPin
    Policies <- MCPolicies
    NoPolicy = NoPolicy
    BadPolicy = BadPolicy
    Inputs <- MCInputs
    Statuses <- MCStatuses
    Rejections <- MCRejections
    Denied = "denied"
    Lost = Lost
    NoReply = NoReply
    BlockTTL = 2
    MaxTime = 2
INVARIANTS
    TypeOK
    BlockHonoured
    RoutesWithinPolicy
PROPERTIES
    SessionOwned
    ImplementsContract
    Answered
