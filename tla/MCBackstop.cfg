SPECIFICATION FairSpec
CONSTANTS
    Procs = {p1, p2}
    NoProc = NoProc
    MaxConsecutive = 2
    MaxTotal = 3
    MaxFaults = 2
    BackstopTtl = 1
    OnClassifierError = "passthrough"
    Mode = "full_auto"
    MaxCalls = 5
    MaxClock = 3
INVARIANT TypeOK
INVARIANT BackstopInv
INVARIANT RecordWithinLimits
INVARIANT ConsumedTripsStayCleared
PROPERTY StoreIsAtomic
PROPERTY TripTimeSticks
PROPERTY NoRepeatedAsk
PROPERTY EveryCallEnds
CHECK_DEADLOCK FALSE
