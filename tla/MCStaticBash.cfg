SPECIFICATION FairSpec
CONSTANTS
    Home <- MCHome
    Links <- MCLinks
    Missing <- MCMissing
    DefaultRules <- MCDefaultRules
    Configs <- MCConfigs
    Inputs <- MCInputs
    Node <- MCNode
    Scope <- MCScope
    Request <- MCRequest
    nestedCondition <- MCNestedCondition
    nestedDefs <- MCNestedDefs
    nestedAsked <- MCNestedAsked
    ParseCommand <- Parsed
INVARIANT TypeOK
INVARIANT EveryNodeCleared
INVARIANT NothingSkipped
INVARIANT NoRunAfterWrite
INVARIANT NoLocalGrantAbroad
INVARIANT OnlyListedFlags
 
INVARIANT ClosestSetDecides
INVARIANT UnruledCallsAreChecked
PROPERTY EveryCommandIsAnswered
