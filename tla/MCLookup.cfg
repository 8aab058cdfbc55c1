\* Two calls and two updates of the list; the calls may have ended.
CONSTANTS
    c1 = c1
    c2 = c2
    a1 = a1
    a2 = a2
    None = None
    Callers = {c1, c2}
    Addrs = {a1, a2}
    Lists <- MCLists
    ReTry = 2
    MaxUpdates = 3
SPECIFICATION Spec
SYMMETRY Symmetry
INVARIANTS
    NextIsFair
    NotFoundIsTrue
    BroadcastComplete
CHECK_DEADLOCK FALSE
