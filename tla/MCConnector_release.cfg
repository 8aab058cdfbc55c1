\* Liveness needs no symmetry: one sender, who reconnects and redials at will.
CONSTANTS
    t1 = t1
    Senders = {t1}
    MaxConn = 2
    IdleExpiry = TRUE
    MaxDials = 2
SPECIFICATION FairSpec
PROPERTIES
    BrokenSocketReleased
    BrokenConnNoticed
    ClosedConnLeavesPool
CHECK_DEADLOCK FALSE
