SPECIFICATION Spec
CONSTANTS
    Mod = 8
    TapeSize = 40
    SentinelFwd = 24
    FreeRegs = {5}
    Bits = 3
    MaxSlots = 2
    Operations <- NestedOperations
    Layouts <- NestedLayouts
    MaxOps = 2
PROPERTY ImplementsStack
CHECK_DEADLOCK FALSE
