SPECIFICATION Spec
CONSTANTS
    q1 = q1
    q2 = q2
    None = None
    Requests <- MCRequests
CHECK_DEADLOCK FALSE
INVARIANTS
    ClosedWhenUnused
    ExitTellsTheTruth
PROPERTIES
    StopIsComplete
