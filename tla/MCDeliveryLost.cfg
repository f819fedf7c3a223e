CONSTANTS
    PerMinute = 60
    Burst = 1
    PeerRecords <- MCPeerRecords
    DefaultScopes <- NoScopes
    Self = "self"
    InstanceId <- MCInstanceId
    NoSig = "nosig"
    AllowUnknown = FALSE
    MaxPayload = 1
    MaxTtl = 3
    Skew = 2
    Grace = 3
    Backend = "sqlite"
    Procs = {p1}
    Tools <- Inbox
    Envelopes <- PostedOnce
    NoKey = "nokey"
    Handlers <- DefaultHandlers
    Unauthorized = {}
    Headroom = 1
    IdemTtl = 2
    MaxTime = 1
    MaxRequests = 3
    MaxCrashes = 1
    MaxBusy = 0
    Workers = {w1}
    MaxAttempts = 2
    BackoffBase = 1
    BackoffCap = 1
    MaxBreaks = 1
    MaxSenderCrashes = 0
SPECIFICATION DeliverySpec
INVARIANTS AtLeastOnce
