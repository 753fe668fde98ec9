SPECIFICATION FairSpec
CONSTANTS
    None = None
    s1 = s1
    Servers = {s1}
    Policy <- MCPolicy
    Claims <- MCClaims
    Request <- MCRequest
    SocketToken <- MCSocketToken
    Tokens <- MCTokens
    Database = FALSE
    Requests = {"create1", "create3", "list1", "invalid"}
    Sockets = {"watch", "badwatch"}
    ListLimit = 1
    Capacity = 1
    TenantLength = 64
    Horizon = 0
CHECK_DEADLOCK FALSE
INVARIANTS
    
    ValidRulesInsert
    OpenSocketMissesNothing
    ReadersSeeTheirOwn

    
    
