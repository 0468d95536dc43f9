SPECIFICATION Spec
CONSTANTS
    Row = {1, 2, 3}
    Time = {1, 2}
    Requests <- MCRequests
    DefaultLimit = 2
    MaxLimit = 3
CHECK_DEADLOCK FALSE
INVARIANTS
    NoneShownTwice
    SteadyRowsAreShown
PROPERTIES
    CursorMeansMore
    WalkEnds
