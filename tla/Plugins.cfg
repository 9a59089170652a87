SPECIFICATION Spec
CONSTANTS
    MaxSpent = 3
    Edited = {"other"}
    Written = {"v2", "half", "clash"}
    Nothing = Nothing
INVARIANTS
    ResultsByOwnCode
PROPERTIES
    WatcherSettles
CHECK_DEADLOCK FALSE
