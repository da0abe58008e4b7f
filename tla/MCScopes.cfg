CONSTANTS
    Members = {1, 2}
    Jars <- MCJars
    Configs = {4, 5}
    Scripts = {6}
    ProtectedFiles = {5}
    Declared <- MCDeclared
    Manual <- MCManual
    Answers = {"client"}
    SlipSide <- MCSlipSide
    IndexDeps <- MCIndexDeps
    JarDeps <- MCJarDeps
    ConfigMode <- MCConfigMode
    Deletions <- MCDeletions
    Policy <- MCPolicy
    Requests <- MCRequests
    Values = {0, 1}
    MaxRuns = 2
    MaxEvents = 2

SPECIFICATION ScopesSpec
INVARIANT CleanRunConverges
PROPERTY WriteDiscipline
CHECK_DEADLOCK FALSE
