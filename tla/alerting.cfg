SPECIFICATION FairSpec
CONSTANTS
    s1 = s1  s2 = s2
    ann = ann  bob = bob
    Unset = Unset
    Starters = {s1}
    People = {ann, bob}
    Wire <- MCWire
    ZeroTime <- MCZeroTime
    MaxDuration = 100
    MaxAttempts = 2
    MaxTime = 1
    MaxFaults = 3
CHECK_DEADLOCK FALSE
INVARIANTS
    TrailHasNoGap
    OwnerStopsEscalation
    ClosedOpenMeansAllPaged
    TurnsAreTaken
PROPERTIES
    PageIsFinal
    ImplementsLadder
    OpenIsPaged
    EscalationEnds
