SPECIFICATION Spec
CONSTANTS
    Procs = {p1, p2}
    NoProc = NoProc
    MaxConsecutive = 2
    MaxTotal = 3
    MaxFaults = 0
    BackstopTtl = 1
    OnClassifierError = "passthrough"
    Mode = "full_auto"
    MaxCalls = 6
    MaxClock = 3
INVARIANT OneAskPerTrip
CHECK_DEADLOCK FALSE
