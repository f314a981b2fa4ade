CONSTANTS
    MaxHeight = 2
    MaxReconnects = 2
    MaxClients = 1
    MaxRetries = 1
    MaxRestarts = 1
    Roles = {{"peer"}, {"client"}}
    NoHeight = NoHeight
SPECIFICATION FairSpec
INVARIANTS
    NodeStateFollowsStore
    FollowersNeverSkip
PROPERTIES
    CatchupLeavesNoHole
    ServesBlockStream
    CatchupCompletes
    ListenerKeepsUp
CHECK_DEADLOCK FALSE
