SPECIFICATION Spec
CONSTANTS
    Letters = {"a"}
    LineSize = 5
    NameSize = 3
    MaxLines = 3
INVARIANTS
    LinesTile
    TextIsLatest
