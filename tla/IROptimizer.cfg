SPECIFICATION MCSpec
CONSTANTS
    Slots = {0, 1}
    Temps = {t1}
    Mod = 3
    BinaryFns <- MCFns
    StoresToKnown = FALSE
    MaxNest = 2
INVARIANTS TypeOK SameValues KnownIsTrue FreshIsZero
