SPECIFICATION Spec
CONSTANTS
    r1 = r1  r2 = r2
    x = x  y = y
    e0 = e0  e1 = e1  ok = ok
    Replicas = {r1, r2}
    Services = {x}
    Events = {e0, e1, ok}
    ServiceOf <- OneService
    TimeOf <- MCTimeOf
    Bad = {e0, e1}
    Window = 1
    MinEvents = 1
    Num = 2
    Den = 3
    ResolveAfter = 2
    MaxCycle = 1
    MaxAhead = 0
    MaxLate = 1
    MaxClock = 3
    MaxResolves = 1
    MaxFaults = 1
CHECK_DEADLOCK FALSE
SYMMETRY ReplicaSymmetry
INVARIANTS
    OneActive
PROPERTIES
    EpisodesMoveForward
    FiringStaysOpen
