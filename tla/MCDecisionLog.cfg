SPECIFICATION Spec
CONSTANTS
    Procs = {p1, p2, p3}
    Nobody = Nobody
    MaxBytes = 4
    Lens = {1, 3}
    MaxLines = 6
    MaxFaults = 2
SYMMETRY Symmetric
INVARIANT TypeOK
INVARIANT LogIsRecent
PROPERTY TruncationFits
CHECK_DEADLOCK FALSE
