SPECIFICATION Spec
CONSTANTS
    MaxProcess = 4
    MaxSent = 2
INVARIANTS
    WaitHonest
PROPERTIES
    FamilyEnds
CHECK_DEADLOCK FALSE
