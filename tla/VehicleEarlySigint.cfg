\* SIGINT before start_blocking; no threaded part.
SPECIFICATION FairSpec
CONSTANTS
    N = 2
    Threaded = {}
    NDEBUG = FALSE
    Phases = {"adding"}
    MaxSignals = 1
PROPERTIES
    SigintEndsProgram
CHECK_DEADLOCK FALSE
