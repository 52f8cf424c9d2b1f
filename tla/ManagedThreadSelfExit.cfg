\* The derived class overrides should_exit().
SPECIFICATION FairSpec
CONSTANTS
    Callers = {a, b}
    Task = task
    None = none
    NDEBUG = FALSE
    Env = {"override"}
PROPERTY LockIsReleased
CHECK_DEADLOCK FALSE
