CONSTANTS
    PerMinute = 60
    Burst = 2
    PeerRecords <- MCPeerRecords
    DefaultScopes <- NoScopes
    Self = "self"
    InstanceId <- MCInstanceId
    NoSig = "nosig"
    AllowUnknown = FALSE
    MaxPayload = 1
    MaxTtl = 3
    Skew = 2
    Grace = 3
    Backend = "sqlite"
    Procs = {p1}
    Tools <- Inbox
    Envelopes <- Posted
    NoKey = "nokey"
    Handlers <- DefaultHandlers
    Unauthorized = {}
    Headroom = 1
    IdemTtl = 2
    MaxTime = 2
    MaxRequests = 3
    MaxCrashes = 1
    MaxBusy = 1
    Workers = {w1}
    MaxAttempts = 2
    BackoffBase = 1
    BackoffCap = 1
    MaxBreaks = 1
    MaxSenderCrashes = 1
CONSTRAINT TwoFailures
SPECIFICATION DeliverySpec
INVARIANTS GoneIsTakenUp DeadWasDuplicate NoRerunOnceStored
PROPERTIES HandoverKept LiveReceiptKept
