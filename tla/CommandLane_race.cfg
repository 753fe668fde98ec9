SPECIFICATION Spec
CONSTANTS
    Command <- MCCommand
    CommandKey = "key"
    ProductTenant = "eal"
    None = None
    s1 = s1
    s2 = s2
    Servers = {s1, s2}
    Msgs = {"request", "reused"}
    MaxOperationDeadline = 1
    AckWait = 1
    MaxDeliver = 1
    MaxAckPending = 2
    OutboxBatch = 1
    ListLimit = 1
    MaxPayloadRows = 1
    Horizon = 3
    MaxAlerts = 0
    MaxCrashes = 1
    MaxErrors = 1
    MaxLapses = 1
SYMMETRY ServerSymmetry
INVARIANTS
    OneReplyPerCommand
    AckedImpliesRecorded
    StreamMatchesOutbox
    NoDuplicateWithinWindow
PROPERTIES
    RecordsPermanent
    
