\* Callers take every liberty and call in any order; Debug build; safety.
SPECIFICATION Spec
CONSTANTS
    Callers = {a, b, c}
    Task = task
    None = none
    NDEBUG = FALSE
    Env = {"override", "racing_exit", "early_join", "restart", "double_start", "destroy_running", "any_order"}
SYMMETRY CallerSymmetry
INVARIANTS
    TypeOK
    PausedMeansQuiet
    RequestsHaveOwner
    NobodySleepsThrough
    AtMostOneWaiter
PROPERTIES
    ExitIsFinal
    ImplementsWorkPermit
CHECK_DEADLOCK FALSE
