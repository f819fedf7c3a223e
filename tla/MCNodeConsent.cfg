CONSTANTS
    PerMinute = 60
    Burst = 1
    PeerRecords <- MCPeerRecords
    DefaultScopes <- NoScopes
    Self = "self"
    InstanceId <- MCInstanceId
    NoSig = "nosig"
    AllowUnknown = TRUE
    MaxPayload = 1
    MaxTtl = 3
    Skew = 2
    Grace = 3
    Backend = "sqlite"
    Procs = {p1}
    Tools <- Inbox
    Envelopes <- DataRetries
    NoKey = "nokey"
    Handlers <- DefaultHandlers
    Unauthorized = {}
    Headroom = 1
    IdemTtl = 3
    MaxTime = 4
    MaxRequests = 3
    MaxCrashes = 0
    MaxBusy = 0
SPECIFICATION Spec
PROPERTIES DisclosureConsented
