CONSTANTS
    PerMinute = 60
    Burst = 2
    PeerRecords <- MCPeerRecords
    DefaultScopes <- NoScopes
    Self = "self"
    InstanceId <- MCInstanceId
    NoSig = "nosig"
    AllowUnknown = TRUE
    MaxPayload = 1
    MaxTtl = 3
    Skew = 2
    Grace = 3
    Backend = "sqlite"
    Procs = {http, mcp}
    Tools <- Inbox
    Envelopes <- Retries
    NoKey = "nokey"
    Handlers <- DefaultHandlers
    Unauthorized = {}
    Headroom = 1
    IdemTtl = 3
    MaxTime = 1
    MaxRequests = 3
    MaxCrashes = 0
    MaxBusy = 0
SPECIFICATION Spec
INVARIANTS EffectivelyOnce
