SPECIFICATION Spec
CONSTANTS
    Mod = 32
    TapeSize = 84
    SentinelFwd = 24
    FreeRegs = {5}
    Bits = 5
    MaxSlots = 17
    Operations <- NearOperations
    Layouts <- NearLayouts
    MaxOps = 1
INVARIANTS
    TypeOK
    LayoutIntact
PROPERTIES
    ImplementsStack
    OperationsEnd
CHECK_DEADLOCK FALSE
