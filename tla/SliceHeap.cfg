SPECIFICATION Spec
CONSTANTS
    Outer = {"b", "c", "w", "p"}
    Inner = {"t", "u"}
    Fields = {"f"}
    Strings = {"p", "f", "u"}
    Size <- MCSize
    Statements <- MCStatements
    Mod = 32
    HeapStart = 6
    ArrayBase = 1
    Array <- MCArray
    MaxSlots = 26
    MaxSteps = 5
    Miscompiled = {}
INVARIANTS TypeOK HeapTop SameContents SameResult OneHomePerArray
CHECK_DEADLOCK FALSE
