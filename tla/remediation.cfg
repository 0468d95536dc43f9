SPECIFICATION FairSpec
CONSTANTS
    s1 = s1  s2 = s2
    ann = ann  bob = bob
    Starters = {s1, s2}
    Incident <- MCIncident
    CatalogOf <- TwoCatalogs
    NoRunbook = NoRunbook
    Deciders = {ann, bob}
    Nobody = Nobody
    MaxSteps = 2
    MaxAttempts = 2
    MaxFaults = 2
CHECK_DEADLOCK FALSE
INVARIANTS
    AutomationStops
    ApprovalsAreNotReused
PROPERTIES
    ImplementsSequence
    RunsEnd
    OpenIncidentIsHandled
