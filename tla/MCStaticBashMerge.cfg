SPECIFICATION Spec
CONSTANTS
    Home <- MCHome
    Links <- MCLinks
    Missing <- MCMissing
    DefaultRules <- MCDefaultRules
    Configs <- MCConfigs
    Inputs <- MCInputs
    Node <- MCNode
    Scope <- MCScope
    Request <- MCRequest
    nestedCondition <- MCNestedCondition
    nestedDefs <- MCNestedDefs
    nestedAsked <- MCNestedAsked
    ParseCommand <- Parsed
INVARIANT LastSetDecides
