SPECIFICATION Spec
CONSTANTS
    Home <- MCHome
    Links <- MCLinks
    Missing <- MCMissing
    DefaultRules <- MCDefaultRules
    McpTools <- MCMcpTools
    ManagedSettings <- MCManagedSettings
    MaxIncludeDepth = 2
    ManagedMd <- MCManagedMd
    RuleNames <- MCRuleNames
    Calls <- MCCalls
    Settings <- MCSettings
    Absent <- MCAbsent
    MaxEdits = 1
    BundledEnvironment <- MCBundledEnvironment
    UserRules <- MCUserRules
    IdentityChars <- MCIdentityChars
    MaxIdentity = 3
INVARIANT RepoCannotWiden
INVARIANT OnlyTheUserArgues
INVARIANT InstructionsOnce
