SPECIFICATION FairSpec
CONSTANTS
    Writer = {"service", "executor", "supervisor"}
    MaxBytes = 6
    Marker = 2
    KeepFree = TRUE
    LogFaults = {"disk_low", "write_error", "receipt_error"}
    PtyCapacity = 2
    InputCapacity = 1
    ReadSize = 1
    MaxOutput = 3
    MaxLines = 1
    MaxSent = 1
    MaxMessage = 2
INVARIANTS
    HonestReceipt
    OverlapBound
PROPERTIES
    OutputKeepsDraining
CHECK_DEADLOCK FALSE
