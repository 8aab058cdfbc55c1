\* Three calls of Start and two of Stop, on a fixed port and on any port.  All may
\* have returned, so the system may stop.
CONSTANTS
    k1 = k1
    k2 = k2
    k3 = k3
    d1 = d1
    d2 = d2
    None = None
    Starts = {k1, k2, k3}
    Conns = {d1}
    MaxStops = 2
    MaxFailures = 2
SPECIFICATION FairSpec
INVARIANTS
    OpenListenerOwned
    StopIsNoError
    RunningIsServed
PROPERTIES
    StoppedLoopsEnd
    ConnNotLeftPending
CHECK_DEADLOCK FALSE
