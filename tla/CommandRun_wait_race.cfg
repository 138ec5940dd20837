SPECIFICATION Spec
CONSTANTS
    MaxChunks = 1
    ThreadMayLag = TRUE
    MayIgnoreHup = FALSE
    ExecMayFail = FALSE
INVARIANT WaitExitGetsProc
