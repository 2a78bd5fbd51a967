SPECIFICATION FairSpec
CONSTANTS
    t1 = t1
    t2 = t2
    Threads = {t1, t2}
    Creator = t1
    Limits <- LateLimits
    MaxUptime = 4
    MaxDelay = 4
CHECK_DEADLOCK FALSE
INVARIANT
    CancelledFindsDriver
