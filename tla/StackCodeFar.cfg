SPECIFICATION Spec
CONSTANTS
    Mod = 32
    TapeSize = 124
    SentinelFwd = 64
    FreeRegs = {5}
    Bits = 5
    MaxSlots = 17
    Operations <- FarOperations
    Layouts <- FarLayouts
    MaxOps = 2
INVARIANTS
    LayoutIntact
PROPERTIES
    ImplementsStack
CHECK_DEADLOCK FALSE
