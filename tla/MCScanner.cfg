CONSTANTS
    Int64Max = 127
    Uint64Max = 255
    VarintBytes = 2
    DoubleBytes = 2
    Spelling <- MCSpelling
    MaxDepth = 1
    Alphabets <- MCAlphabets
    MaxLength = 6
SPECIFICATION Spec
\* An input that has reached MaxLength bytes gets no more of them.
CHECK_DEADLOCK FALSE
INVARIANTS
    ScannerAndReaderAgree
    FramesDecode
    Transcodes
PROPERTIES
    LengthIsSettled
    FoundInTime
    BinaryErrorIsNotShort
