CONSTANTS
    PerMinute = 60
    Burst = 1
    PeerRecords <- MCPeerRecords
    DefaultScopes <- NoScopes
    Self = "self"
    InstanceId <- MCInstanceId
    NoSig = "nosig"
    AllowUnknown = TRUE
    MaxPayload = 1
    MaxTtl = 3
    Skew = 2
    Grace = 3
    Backend = "sqlite"
    Procs = {http, mcp}
    Tools <- InboxAndQueries
    Envelopes <- Queries
    NoKey = "nokey"
    Handlers <- DefaultHandlers
    Unauthorized = {}
    Headroom = 1
    IdemTtl = 2
    MaxTime = 1
    MaxRequests = 2
    MaxCrashes = 0
    MaxBusy = 1
SPECIFICATION Spec
INVARIANTS ErrorsAreSigned
