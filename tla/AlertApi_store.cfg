SPECIFICATION Spec
CONSTANTS
    None = None
    s1 = s1
    s2 = s2
    Servers = {s1, s2}
    Policy <- MCPolicy
    Claims <- MCClaims
    Request <- MCRequest
    SocketToken <- MCSocketToken
    Tokens <- MCTokens
    Database = TRUE
    Requests = {"create1", "create2", "readonly", "get1", "badtoken"}
    Sockets = {}
    ListLimit = 1
    Capacity = 1
    TenantLength = 64
    Horizon = 1
SYMMETRY AlikeServers
CHECK_DEADLOCK FALSE
INVARIANTS
    TypeOK
    StoreMatchesAnswers
    AnnouncedIsStored
    RefusedLeavesNoRule
PROPERTIES
    RecentRulesAreFound
    ImplementsRuleBook
