SPECIFICATION ControlSpec
CONSTANTS
    Slots = {0, 1, 2}
    Temps = {t1}
    Mod = 2
    BinaryFns <- MCLessOnly
    NumRegs = 2
    regPos <- MCPos2
    LargeBases = FALSE
    ReadAfterMove = FALSE
    MaxNest = 1
INVARIANTS NoAlias CleanMatchesStack Coherent ObservationsAgree
