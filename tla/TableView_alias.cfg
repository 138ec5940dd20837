SPECIFICATION Spec
CONSTANTS
    NRows = 1
    NMembers = 2
    Kinds = {"TIM", "JVAL"}
    MaxCols = 2
INVARIANT DocumentIsWhole
CHECK_DEADLOCK FALSE
