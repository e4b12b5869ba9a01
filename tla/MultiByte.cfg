SPECIFICATION Spec
CONSTANTS
    ByteBits = 4
    Base = 3
    Digits <- MCDigits
    CharZero = 4
    CharSpace = 8
    CharNewline = 9
    Sizes = {1, 2, 3}
    Home <- MCHome
    Counts <- MCCounts
    Temps = 29
    LastCell = 96
    Stale = 11
    Statements <- MCStatements
    Inputs <- MCInputs
    Miscompiled = {}
INVARIANTS TypeOK SameValues SamePrinted
CHECK_DEADLOCK FALSE
