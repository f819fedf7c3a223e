CONSTANTS
    PerMinute = 60
    Burst = 2
    PeerRecords <- MCPeerRecords
    DefaultScopes <- NoScopes
    Self = "self"
    InstanceId <- MCInstanceId
    NoSig = "nosig"
    AllowUnknown = TRUE
    MaxPayload = 1
    MaxTtl = 3
    Skew = 2
    Grace = 3
    Backend = "sqlite"
    Procs = {http, mcp}
    Tools <- InboxAndQueries
    Envelopes <- Lookups
    NoKey = "nokey"
    Handlers <- SharedHandlers
    Unauthorized = {}
    Headroom = 1
    IdemTtl = 2
    MaxTime = 2
    MaxRequests = 3
    MaxCrashes = 0
    MaxBusy = 1
SPECIFICATION Spec
INVARIANTS TruthfulReply OncePerProcess RunsWithinRate StoredReceiptBacked
PROPERTIES AdmitOnce
SYMMETRY Sym
