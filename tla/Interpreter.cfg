SPECIFICATION Spec
CONSTANTS
    Mod = 4
    TapeSize = 9
    MaxOut = 3
    Miscompiled = {}
    Cases <- MCCases
INVARIANTS
    TypeOK
    RejectsUnbalanced
    SameMachine
PROPERTY
    CatchesUp
CHECK_DEADLOCK FALSE
