\* No more calls than ids, so no two calls share one.  The second call has no
\* deadline and the one slot may be lost to a panic, so the system may stop.
CONSTANTS
    c1 = c1
    c2 = c2
    r1 = r1
    None = None
    Calls = {c1, c2}
    Readers = {r1}
    MaxInt32 = 2
    ReTry = 1
    Expiring = {c1}
    MaxInvoke = 1
    MayPanic = TRUE
SPECIFICATION RpcFairSpec
INVARIANTS
    SlotsConserved
    DispatchersBounded
    SettledReply
PROPERTIES
    KeepsPromise
    KeepsService
    CallsReturn
CHECK_DEADLOCK FALSE
