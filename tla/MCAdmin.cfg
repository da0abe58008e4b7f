CONSTANTS
    q1 = q1  q2 = q2  k1 = k1  k2 = k2  r1 = r1  r2 = r2
    Stable = Stable  None = None  Torn = Torn
    Request <- MCRequest
    Key <- MCKey
    Body <- MCBody
    Release <- MCRelease
    Installed = r1
    MaxExecutions = 3
    MaxChanges = 1
    MaxCrashes = 1
SPECIFICATION Spec
SYMMETRY MCSymmetry
INVARIANTS OneAnswerPerKey ServedWasVerified ActiveIsDeployed
