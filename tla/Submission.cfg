SPECIFICATION Spec
CONSTANTS
    k1 = k1
    MaxTask = 3
    MaxClock = 2
    MaxCrash = 1
    Key = {k1}
    NoKey = NoKey
    Batches <- SmallBatches
    Legacy = 1
    RetentionDays = 1
    Budget = 1
INVARIANTS
    OncePerKey
    ReceiptsReadable
    SeedsUnique
    NothingDangling
CHECK_DEADLOCK FALSE
