CONSTANTS
    Procs = {http, mcp}
    Keygens = {keygen}
    MaxCrashes = 2
    MaxForced = 1
SPECIFICATION FairSpec
INVARIANTS TypeOK OneIdentity IdentitiesBounded
PROPERTIES EventuallyUp
CHECK_DEADLOCK FALSE
