SPECIFICATION Spec
CONSTANTS
    Letters = {"a", "b"}
    MaxText = 3
    MaxPattern = 2
    Word = 8
INVARIANTS
    CacheIsMatches
    EndIsKnown
    FaultHasCause
PROPERTIES
    DownIsNext
