CONSTANTS
    Items = {i1, i2}
    Workers = {w1}
    HasClient = {i1}
    MaxAttempts = 3
    BackoffBase = 1
    BackoffCap = 3
    MaxCrashes = 1
SPECIFICATION FairSpec
INVARIANTS TypeOK RemovedOnlyAnswered SendsBounded
PROPERTIES SettledIsFinal EventuallySettled
\* All items may be settled: the queue is then at rest.
CHECK_DEADLOCK FALSE
