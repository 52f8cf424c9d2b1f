\* SIGINT until the loop ends, to the main thread or, while that handles one,
\* to a part's; Release build.
SPECIFICATION Spec
CONSTANTS
    N = 3
    Threaded = {1, 3}
    NDEBUG = TRUE
    Phases = {"adding", "starting", "running", "handling"}
    MaxSignals = 3
INVARIANTS
    TypeOK
    LoopMeansRunning
    StopLeavesNoThread
CHECK_DEADLOCK FALSE
