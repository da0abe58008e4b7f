CONSTANTS
    p1 = p1
    p2 = p2
    p3 = p3
    p4 = p4
    f1 = f1
    None = None
    Projects <- MCProjects
    Files <- MCFiles
    SeedLists <- MCSeedLists
    BuiltLists <- MCBuiltLists
    DepLists <- MCDepLists
    Skips <- MCSkips
    Policies <- MCPolicies
    Right = Right
    Other = Other
    Torn = Torn
    Absent = Absent
    Chosen <- MCChosen
    Unhashed <- MCUnhashed
    Cap <- MCCap
    Largest = 2
    MaxRetries = 1
    MaxLapses = 1
    MaxBuilds = 1
SPECIFICATION MatSpec
INVARIANTS RequirementsMet CycleVerdict SealedIsStored BudgetKept
SYMMETRY Symmetric
CHECK_DEADLOCK FALSE
