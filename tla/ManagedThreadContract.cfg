\* Callers keep to the plain order; Debug build; liveness and safety.
SPECIFICATION FairSpec
CONSTANTS
    Callers = {a, b}
    Task = task
    None = none
    NDEBUG = FALSE
    Env = {}
INVARIANTS
    NoCrash
PROPERTIES
    LockIsReleased
    ExitStopsTask
