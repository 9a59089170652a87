SPECIFICATION Spec
CONSTANTS
    Controller = {c1, c2}
    Directory = {d1, d2}
    Nothing = Nothing
    MaxEvents = 2
    Life = 2
    MaxNow = 2
INVARIANTS
    OneOwner
    OwnFormatOnly
    SignedOnce
PROPERTIES
    StartLosesNothing
    InTimeAccepted
SYMMETRY Symmetry
CHECK_DEADLOCK FALSE
