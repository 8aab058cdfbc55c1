\* maxIdleTime set, as by default: every send may dial again.
CONSTANTS
    t1 = t1
    t2 = t2
    Senders = {t1, t2}
    MaxConn = 2
    IdleExpiry = TRUE
    MaxDials = 3
SPECIFICATION Spec
SYMMETRY Symmetry
INVARIANTS
    RunningConnIsRead
    OpenSocketHasReader
    PoolWithinLimit
    ClosedForCause
    ClosedConnIsLeaving
CHECK_DEADLOCK FALSE
