CONSTANTS
    d1 = d1  d2 = d2  r0 = r0  u1 = u1  c1 = c1  c2 = c2
    None = None  Down = Down  Torn = Torn  Gone = Gone  Partial = Partial
    Proc <- MCProc
    Release <- MCRelease
    Container <- MCContainer
    Upgrade <- MCUpgrade
    Installed = r0
SPECIFICATION MCSpec
INVARIANTS OneDeployment WorldRecoverable
    ShipFailureRolledBack FailureLeavesServicesUp OutcomeJournaled
PROPERTIES CompleteIsDeployed DeploymentEnds
\* Requests are bounded once the second daemon has accepted one.
CHECK_DEADLOCK FALSE
