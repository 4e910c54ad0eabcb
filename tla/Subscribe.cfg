SPECIFICATION FairSpec
CONSTANTS
    Handlers = {h1, h2}
    Ids = {i1, i2}
    None = None
    Capacity = 1
    MaxPolicies = 3
INVARIANTS
    OffersReachOpenChannels
    OnlySharedIdsAreSilent
PROPERTIES
    BroadcastReturns
    ShutdownEnds
CHECK_DEADLOCK FALSE
