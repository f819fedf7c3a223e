CONSTANTS
    PerMinute = 40
    Burst = 2
    Procs = {p1}
    Peers = {a, b}
    MaxTime = 5
    MaxBacks = 1
SPECIFICATION Spec
INVARIANTS TypeOK WindowBound
PROPERTIES RefusedOnlyWhenSpent
