\* A waiting thread and the vehicle's loop; seconds of three milliseconds.
SPECIFICATION FairSpec
CONSTANTS
    NS_PER_SECOND = 6
    NS_PER_MS = 2
    m_fps = 1
    UINT64 = 12
    INT = 8
    Timeouts = {0, 1, 3, 4}
    Horizon = 7
    MaxNow = 24
INVARIANTS
    DeadlineIsExact
    NoEarlyTimeout
    NoOversleep
PROPERTIES
    WaitReturns
    FrequencyIsKept
