\* Ids wrap after two draws, so that three calls collide; all may expire, so
\* that a call without a deadline is one whose deadline has not come.
CONSTANTS
    c1 = c1
    c2 = c2
    c3 = c3
    r1 = r1
    r2 = r2
    None = None
    Calls = {c1, c2, c3}
    Readers = {r1, r2}
    MaxInt32 = 2
    ReTry = 2
    Expiring = {c1, c2, c3}
SPECIFICATION Spec
SYMMETRY Symmetry
INVARIANTS
    EntriesAreLive
    ChannelSafe
    IdsFarApart
    OwnResponse
    Reachable
    WrittenAtMostOnce
CHECK_DEADLOCK FALSE
