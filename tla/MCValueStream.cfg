CONSTANTS
    Int64Max = 127
    Uint64Max = 255
    VarintBytes = 2
    DoubleBytes = 2
    Spelling <- MCSpelling
    First <- MCFirst
    Later <- MCLater
    MaxRecords = 2
    Limits = {0, 1, 2}
    MaxDepth = 8
SPECIFICATION Spec
\* A buffer that has been read to its end is done with.
CHECK_DEADLOCK FALSE
INVARIANTS
    FramesAreRecords
    EncodersAgree
    TextIsUtf8
    LimitsNest
    ReadsBack
