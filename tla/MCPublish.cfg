CONSTANTS
    p1 = p1  p2 = p2  r1 = r1  r2 = r2
    Absent = Absent  Partial = Partial  Staged = Staged  Torn = Torn
    Publisher <- MCPublisher
    Release <- MCRelease
    None = None
    Pulled <- MCPulled
SPECIFICATION PullSpec
SYMMETRY Symmetric
INVARIANTS ChainUnbrokenInTurn PublishedVerifies DeployableIsPublished
PROPERTY RegisteredIsFinal
\* Publication ends once every release has a bundle.
CHECK_DEADLOCK FALSE
