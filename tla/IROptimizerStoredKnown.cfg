SPECIFICATION StraightSpec
CONSTANTS
    Slots = {0, 1}
    Temps = {}
    Mod = 3
    BinaryFns <- MCFns
    StoresToKnown = TRUE
    MaxNest = 0
INVARIANTS SameValues
