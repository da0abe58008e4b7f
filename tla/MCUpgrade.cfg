\* Two of: an edit, a command that dies, a tick of the clock.
SPECIFICATION Spec
CONSTANTS
    Runs = {r1}
    Tags = {t1}
    Clicks = {i1}
    Deliveries = {d1, d2}
    Runtimes = {m1, m2}
    Expiry = 1
    MaxEdits = 1
    MaxCrashes = 1
    MaxNow = 1
    MaxEvents = 2
    None = None
    d1 = d1
    d2 = d2
    m1 = m1
    m2 = m2
SYMMETRY Symmetry
INVARIANTS
    ReplayHarmless
    LossesAcknowledged
PROPERTIES
    ReleasesWereApproved
    SealedIsImmutable
\* A run may fail for good.
CHECK_DEADLOCK FALSE
