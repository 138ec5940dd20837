SPECIFICATION Spec
CONSTANTS
    Letters = {10}
    CacheSize = 3
    KeyMax = 2
    MaxLine = 3
    MaxFile = 6
INVARIANTS
    TypeOK
    FileIsTree
    FaultHasCause
    RanIsOwn
PROPERTIES
    QuitKeepsAll
CHECK_DEADLOCK FALSE
