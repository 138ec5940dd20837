SPECIFICATION FairSpec
CONSTANTS
    MaxChunks = 2
    ThreadMayLag = FALSE
    MayIgnoreHup = FALSE
    ExecMayFail = FALSE
INVARIANT NoFaultBeforeClose
PROPERTIES
    AnswersStop
    DrainedRunEnds
    CloseExits
