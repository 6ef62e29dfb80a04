CONSTANTS
    Asks <- OrderlyAsks
    Unseparated = FALSE
    max_depth = 3
    MaxLevels = 4
    MaxOpen = 4
SPECIFICATION Spec
INVARIANTS
    TypeOK
    InStep
    AskedInPlace
    FlagIsForAttributes
    DepthIsNesting
    OnlyEnumsAreSurprised
