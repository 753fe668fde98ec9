SPECIFICATION Spec
CONSTANTS
    Command <- MCCommand
    CommandKey = "key"
    ProductTenant = "eal"
    None = None
    s1 = s1
    s2 = s2
    Servers = {s1, s2}
    Msgs = {"request", "resigned"}
    MaxOperationDeadline = 2
    AckWait = 1
    MaxDeliver = 2
    MaxAckPending = 1
    OutboxBatch = 1
    ListLimit = 1
    MaxPayloadRows = 1
    Horizon = 3
    MaxAlerts = 1
    MaxCrashes = 0
    MaxErrors = 0
    MaxLapses = 0
SYMMETRY ServerSymmetry
INVARIANTS
    TypeOK
    RecordsAgree
    LaneInvariant
    ReplyToSigner
