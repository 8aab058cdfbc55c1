\* Two clients share one discoverer and one watch.
CONSTANTS
    c1 = c1
    c2 = c2
    s1 = s1
    s2 = s2
    a1 = a1
    a2 = a2
    None = None
    Clients = {c1, c2}
    Services = {s1, s2}
    Addrs = {a1, a2}
    ServiceOf <- MCServiceOf
    FixedAddr <- MCFixedAddr
    WithPrefix <- MCWithPrefix
    MaxChanges = 3
    MaxFailures = 1
SPECIFICATION FairSpec
INVARIANT FixedKept
PROPERTY Converges
CHECK_DEADLOCK FALSE
