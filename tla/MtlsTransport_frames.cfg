SPECIFICATION FairSpec
CONSTANTS
    None = None
    Policy <- MCPolicy
    Claims <- MCClaims
    Operation <- MCOperation
    c1 = c1
    c2 = c2
    Conns = {c1, c2}
    Frames = {"own", "crossed", "scoped", "garbled", "bare"}
    Limit = 1
    MaxOperationDeadline = 1
    ListLimit = 1
    MaxFrameRows = 0
    Horizon = 2
    MaxFrames = 2
    MaxAcceptErrors = 1
CHECK_DEADLOCK FALSE
INVARIANTS
    TypeOK
    PermitsConserved
    RepliesMatchFrames
    CompletedIsAuthorized
PROPERTIES
    PermitsReturn
