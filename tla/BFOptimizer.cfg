SPECIFICATION Spec
CONSTANTS
    Mod = 4
    TapeSize = 20
    MaxOut = 4
    Cases <- MCCases
INVARIANTS
    TypeOK
    SameOutcome
PROPERTY
    KeepsUp
CHECK_DEADLOCK FALSE
