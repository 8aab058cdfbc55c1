\* Two requests for one slot, with a timeout and without one.  Without one,
\* panics of the service methods may use the slot up, so the server may stop.
CONSTANTS
    q1 = q1
    q2 = q2
    Requests = {q1, q2}
    MaxInvoke = 1
    MayPanic = TRUE
SPECIFICATION FairSpec
PROPERTIES
    FinishedUnlessWedged
    WorkerEnds
CHECK_DEADLOCK FALSE
