SPECIFICATION FairSpec
CONSTANTS
    Command <- MCCommand
    CommandKey = "key"
    ProductTenant = "eal"
    None = None
    s1 = s1
    Servers = {s1}
    Msgs = {"request", "other"}
    MaxOperationDeadline = 2
    AckWait = 1
    MaxDeliver = 1
    MaxAckPending = 2
    OutboxBatch = 2
    ListLimit = 1
    MaxPayloadRows = 0
    Horizon = 3
    MaxAlerts = 1
    MaxCrashes = 0
    MaxErrors = 0
    MaxLapses = 0
PROPERTIES
    FittingRepliesDrain
