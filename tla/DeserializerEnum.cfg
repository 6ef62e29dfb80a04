CONSTANTS
    Asks <- OrderlyAsks
    Unseparated = TRUE
    max_depth = 2
    MaxLevels = 3
    MaxOpen = 3
SPECIFICATION Spec
INVARIANTS
    InStep
