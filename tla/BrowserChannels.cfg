SPECIFICATION Spec
CONSTANTS
    MaxEvent = 3
    Limit = 2
    Consumer = {"list", "detail"}
    MaxBreak = 2
    MaxSize = 3
    ChunkSize = 2
    WindowBytes = 2
    HitBytes = 1
    OverlapBytes = 1
    OverlapShare = 2
    MaxAttempts = 1
    MaxDrop = 2
    MaxMove = 2
    MaxInput = 1
INVARIANTS
    ReplaySound
PROPERTIES
    NoSkipNoRepeat
    EventsArrive
    ViewCatchesUp
CHECK_DEADLOCK FALSE
