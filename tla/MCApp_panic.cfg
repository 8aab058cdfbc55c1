\* Two servers, one of which cannot listen.
CONSTANTS
    s1 = s1
    s2 = s2
    s3 = s3
    None = None
    Servers = {s1, s2}
    AnyPort = {}
    LeaseTicks = 3
    MaxMissed = 1
SPECIFICATION Spec
INVARIANT PanicNamesFailed
CHECK_DEADLOCK FALSE
