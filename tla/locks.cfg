SPECIFICATION Spec
CONSTANTS
    new = new
    back = back
    s1 = s1
    s2 = s2
    Nobody = Nobody
    e1 = e1
    e2 = e2
    Sessions <- MCSessions
    Runs <- MCRuns
    Known <- MCKnown
    Steps <- MCSteps
    Latest = 2
    Replicas = {e1, e2}
    LeaseSessions = {s1, s2}
    MaxFaults = 2
CHECK_DEADLOCK FALSE
INVARIANTS
    SchemaIsRecorded
    SchemaIsPrefix
    LeaderHoldsTheKey
PROPERTIES
    RunsEnd
    SomeoneLeads
