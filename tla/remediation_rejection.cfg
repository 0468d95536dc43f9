SPECIFICATION Spec
CONSTANTS
    s1 = s1  s2 = s2
    ann = ann  bob = bob
    Starters = {s1}
    Incident <- MCIncident
    CatalogOf <- OneCatalog
    NoRunbook = NoRunbook
    Deciders = {ann, bob}
    Nobody = Nobody
    MaxSteps = 2
    MaxAttempts = 2
    MaxFaults = 0
CHECK_DEADLOCK FALSE
PROPERTY
    RejectionHalts
