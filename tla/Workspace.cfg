SPECIFICATION Spec
CONSTANTS
    MaxSpent = 3
    Edited = {"two", "other"}
    Nothing = Nothing
INVARIANTS
    MoveKeepsFile
PROPERTIES
    NoBlindOverwrite
    DraftsKept
CHECK_DEADLOCK FALSE
