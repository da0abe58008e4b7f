\* The source is edited twice, two runs, three containers stopped or started by others.
SPECIFICATION Spec
CONSTANTS
    Members <- MembersDef
    Requests <- RequestsDef
    ConfAction = "reload"
    RemoteRcon = TRUE
    PortMaps <- PortMapsDef
    MaxEdits = 2
    MaxRuns = 2
    MaxEvents = 3
INVARIANTS
    PromisesKept
    FailedRunRestores
    SuccessIsServed
    Announced
    NoticesCanArrive
PROPERTIES
    RestartProtocol
\* The operator may have nothing left to do.
CHECK_DEADLOCK FALSE
