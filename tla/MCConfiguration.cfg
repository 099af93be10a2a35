SPECIFICATION Spec
CONSTANTS
    Home <- MCHome
    Links <- MCLinks
    Missing <- MCMissing
    DefaultRules <- MCDefaultRules
    Numeral <- MCNumeral
    Bits <- MCBits
    EnumNumber <- MCEnumNumber
    Inputs <- MCInputs
    DefaultFile <- MCDefaultFile
INVARIANT HighestLayerWins
INVARIANT MainAgreesWithResolve
INVARIANT NearestBlockJudges
INVARIANT SettingsAsMeant
