SPECIFICATION Spec
CONSTANTS
    Procs = {p1, p2}
    Projects = {r1, r2}
    NoProject = NoProject
    Ttl = 1
    MaxEdits = 2
    MaxClock = 2
    MaxCalls = 3
SYMMETRY Symmetric
INVARIANT TypeOK
INVARIANT PolicyInv
INVARIANT PolicyIsCurrent
CHECK_DEADLOCK FALSE
