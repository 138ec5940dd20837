SPECIFICATION Spec
CONSTANTS
    NRows = 2
    NMembers = 2
    Kinds = {"TIM", "JVAL", "UNK"}
    MaxCols = 2
INVARIANTS
    TypeOK
    CellIsOfItsColumn
    ColumnsAgree
    RawAsAsked
    FaultHasCause
CHECK_DEADLOCK FALSE
