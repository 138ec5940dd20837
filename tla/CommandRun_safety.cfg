SPECIFICATION Spec
CONSTANTS
    MaxChunks = 2
    ThreadMayLag = TRUE
    MayIgnoreHup = TRUE
    ExecMayFail = TRUE
INVARIANTS
    UpdateHasProc
    CompleteIsDrained
    DictBelongsToRun
    NoStaleStop
PROPERTY KeepsPromise
