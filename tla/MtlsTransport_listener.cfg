SPECIFICATION FairSpec
CONSTANTS
    None = None
    Policy <- MCPolicy
    Claims <- MCClaims
    Operation <- MCOperation
    c1 = c1
    Conns = {c1}
    Frames = {"own"}
    Limit = 1
    MaxOperationDeadline = 1
    ListLimit = 1
    MaxFrameRows = 1
    Horizon = 1
    MaxFrames = 1
    MaxAcceptErrors = 1
CHECK_DEADLOCK FALSE
PROPERTIES
    ConnectionsAccepted
