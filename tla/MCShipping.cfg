CONSTANTS
    f1 = f1  f2 = f2  f3 = f3
    h1 = h1  h2 = h2
    Absent = Absent
    Unreadable = Unreadable
    File <- MCFile
    Sha <- MCSha
    Protected <- MCProtected
SPECIFICATION Spec
INVARIANTS NoJarLost ProtectedUntouched
PROPERTY LogicallyAtomic
\* A transaction ends.
CHECK_DEADLOCK FALSE
