CONSTANTS
    PerMinute = 60
    Burst = 1
    PeerRecords <- MCPeerRecords
    DefaultScopes <- NoScopes
    Self = "self"
    InstanceId <- MCInstanceId
    NoSig = "nosig"
    AllowUnknown = TRUE
    MaxPayload = 1
    MaxTtl = 3
    Skew = 2
    Grace = 3
    Backend = "memory"
    Procs = {p1}
    Tools <- McpAndInbox
    Envelopes <- Admission
    NoKey = "nokey"
    Handlers <- MemoryHandlers
    Unauthorized <- NoToken
    Headroom = 1
    IdemTtl = 2
    MaxTime = 4
    MaxRequests = 2
    MaxCrashes = 1
    MaxBusy = 0
SPECIFICATION Spec
INVARIANTS TypeOK EffectivelyOnce StoredReceiptBacked OnlyTrustedHandled
PROPERTIES NoTraceOfForgeries
