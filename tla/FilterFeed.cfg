SPECIFICATION FairSpec
CONSTANTS
    Chunk = 2
    PipeSize = 2
    Commands = {"cat", "jq", "head", "sleep"}
    MaxSize = 7
INVARIANTS
    FedIsWhole
    ShownIsPrinted
    FreezeIsLarge
PROPERTIES
    FeedEnds
    RunEnds
CHECK_DEADLOCK FALSE
