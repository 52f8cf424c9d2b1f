\* SIGINT in the loop, to the main thread; Debug build.
SPECIFICATION FairSpec
CONSTANTS
    N = 4
    Threaded = {1, 2, 4}
    NDEBUG = FALSE
    Phases = {"running"}
    MaxSignals = 3
INVARIANTS
    NoCrash
    JoinedBeforeDestroyed
PROPERTIES
    ResumeReturns
    SigintEndsProgram
