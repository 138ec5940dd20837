SPECIFICATION Spec
CONSTANTS
    ReadMax = 2
    InitialParse = 2
    IncrParse = 2
    Padding = 0
    MinParse = 0
    MaxOut = 3
    MaxErr = 3
    Word = 16
    CharBytes = 1
    MaxTotal = 8
INVARIANTS
    WritesFit
    HandedIsWhole
    DisplayBounded
    DisplayKeepsTail
