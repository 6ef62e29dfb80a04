CONSTANTS
    Streams <- MCStreams
    Scan <- MCScan
    DEFAULT_MAX_DEPTH = 2
    Depths = {1}
SPECIFICATION LoopSpec
INVARIANTS
    TypeOK
PROPERTIES
    FailsOnce
    ImplementsFraming
    Ends
