CONSTANTS
    k1 = k1
    k2 = k2
    Key = {k1, k2}
    None = None
    MaxTask = 4
    mutex_keys <- FourTasks
    max_concurrency = 2
    ScanLimit = 2
    StopActions = 0
    Events = {"probe_error"}
SPECIFICATION ProgramsEndSpec
INVARIANTS
    CapacityBound
    BlockersHonest
PROPERTIES
    QueueDrains
