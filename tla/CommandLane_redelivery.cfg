SPECIFICATION Spec
CONSTANTS
    Command <- MCCommand
    CommandKey = "key"
    ProductTenant = "eal"
    None = None
    s1 = s1
    Servers = {s1}
    Msgs = {"request"}
    MaxOperationDeadline = 1
    AckWait = 2
    MaxDeliver = 2
    MaxAckPending = 2
    OutboxBatch = 1
    ListLimit = 1
    MaxPayloadRows = 1
    Horizon = 3
    MaxAlerts = 0
    MaxCrashes = 1
    MaxErrors = 0
    MaxLapses = 0
INVARIANTS
    RedeliverySafe
