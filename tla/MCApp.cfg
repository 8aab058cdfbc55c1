\* Three servers, one of them an HttpServer on port 0; one renewal in a row may
\* fail.  A process that died stops.
CONSTANTS
    s1 = s1
    s2 = s2
    s3 = s3
    None = None
    Servers = {s1, s2, s3}
    AnyPort = {s3}
    LeaseTicks = 3
    MaxMissed = 1
SPECIFICATION FairSpec
INVARIANT StaysRegistered
PROPERTIES
    AllUpOrDead
    DeadLeaveRegistry
CHECK_DEADLOCK FALSE
