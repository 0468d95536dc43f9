SPECIFICATION FairSpec
CONSTANTS
    r1 = r1  r2 = r2
    x = x  y = y
    e0 = e0  e1 = e1  ok = ok
    Replicas = {r1}
    Services = {x, y}
    Events = {e0, e1}
    ServiceOf <- TwoServices
    TimeOf <- MCTimeOf
    Bad = {e0, e1}
    Window = 1
    MinEvents = 1
    Num = 2
    Den = 3
    ResolveAfter = 2
    MaxCycle = 1
    MaxAhead = 1
    MaxLate = 1
    MaxClock = 6
    MaxResolves = 1
    MaxFaults = 1
CHECK_DEADLOCK FALSE
PROPERTY
    QuietIsResolved
