\* Nothing is edited, nothing dies, no interaction is delivered.
SPECIFICATION Spec
CONSTANTS
    Runs = {r1}
    Tags = {t1}
    Clicks = {}
    Deliveries = {}
    Runtimes = {m1, m2}
    Expiry = 1
    MaxEdits = 0
    MaxCrashes = 0
    MaxNow = 0
    MaxEvents = 0
    None = None
    d1 = d1
    d2 = d2
    m1 = m1
    m2 = m2
PROPERTIES
    ReleaseRecordsCommit
\* A run may fail for good.
CHECK_DEADLOCK FALSE
