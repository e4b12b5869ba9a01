CONSTANTS
    Programs <- PhasePrograms
    Fuel = 90
    Miscompiled = {}
    Slots <- PhaseSlots
    Temps = {}
    Mod = 8
    BinaryFns <- ControlFunctions
SPECIFICATION PhaseSpec
INVARIANTS
    PhaseTypeOK
    SameOutput
    ReadsLive
    Accepted
    FramesMatch
    PoolKept
PROPERTIES
    Ends
