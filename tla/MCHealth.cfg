CONSTANTS
    c1 = c1
    c2 = c2
    None = None
    Specs <- MCSpecs
    Timeout = 2
    RconInterval = 2
    Required = 2
    MaxRestarts = 1
    MaxHiccups = 1
SPECIFICATION Spec
INVARIANTS FaultsNoticed HealthyPasses
PROPERTIES ChecksEnd
CHECK_DEADLOCK FALSE
