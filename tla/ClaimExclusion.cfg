CONSTANTS
    k1 = k1
    k2 = k2
    Key = {k1, k2}
    None = None
    MaxTask = 2
    mutex_keys <- SharedKey
    max_concurrency = None
    ScanLimit = 2
    StopActions = 1
    Events = {"crash"}
SPECIFICATION Spec
INVARIANTS
    ProcessExclusion
