SPECIFICATION OperandSpec
CONSTANTS
    Slots = {0, 1}
    Temps = {t1}
    Mod = 2
    BinaryFns <- MCLessOnly
    NumRegs = 4
    regPos <- MCPos4
    LargeBases = FALSE
    ReadAfterMove = FALSE
    MaxNest = 0
INVARIANTS TypeOK Coherent
PROPERTIES ImplementsIR
