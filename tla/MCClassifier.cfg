SPECIFICATION FairSpec
CONSTANTS
    Timeouts = {0, 2}
    MaxTokens = 3
    MaxSpent = 2
INVARIANT TypeOK
INVARIANT AllowIsSpoken
INVARIANT PrefilterNeverDenies
INVARIANT CountsFollowVerdicts
PROPERTY ProviderCallEnds
CHECK_DEADLOCK FALSE
