CONSTANTS
    k1 = k1
    k2 = k2
    Key = {k1, k2}
    None = None
    MaxTask = 2
    mutex_keys <- SharedKey
    max_concurrency = None
    ScanLimit = 2
    StopActions = 2
    Events = {"interrupt", "shutdown"}
SPECIFICATION FairSpec
INVARIANTS
    CleanExit
PROPERTIES
    StopEnds
    ShutdownEnds
