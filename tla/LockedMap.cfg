\* Two threads on one map, of pointers or not.
SPECIFICATION FairSpec
CONSTANTS
    Threads = {t1, t2}
    Keys = {k1, k2}
    Values = {v1, v2}
    NoValue = none
    Default = default
INVARIANTS
    TypeOK
    LocksBalance
    NoDanglingEntry
PROPERTIES
    ImplementsAtomicMap
    MutexIsReleased
