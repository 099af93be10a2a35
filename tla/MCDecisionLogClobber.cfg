SPECIFICATION Spec
CONSTANTS
    Procs = {p1, p2}
    Nobody = Nobody
    MaxBytes = 4
    Lens = {1, 3}
    MaxLines = 6
    MaxFaults = 0
CHECK_DEADLOCK FALSE
INVARIANT CommittedLinesKept
