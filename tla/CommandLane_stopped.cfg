SPECIFICATION FairSpec
CONSTANTS
    Command <- MCCommand
    CommandKey = "key"
    ProductTenant = "eal"
    None = None
    s1 = s1
    Servers = {s1}
    Msgs = {"request"}
    MaxOperationDeadline = 2
    AckWait = 1
    MaxDeliver = 2
    MaxAckPending = 2
    OutboxBatch = 1
    ListLimit = 1
    MaxPayloadRows = 1
    Horizon = 2
    MaxAlerts = 0
    MaxCrashes = 0
    MaxErrors = 1
    MaxLapses = 0
PROPERTIES
    CommandsSettled
