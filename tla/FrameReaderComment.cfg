CONSTANTS
    Streams <- MCStreams
    Scan <- MCScan
    DEFAULT_MAX_DEPTH = 2
    Depths = {1}
    DEFAULT_BUFFER_BYTES = 3
    DEFAULT_MAX_RECORD_BYTES = 4
    MinBufferBytes = 1
    BufferSizes = {0, 2}
    Ceilings = {1, 3}
SPECIFICATION Spec
INVARIANT
    EofIsInsideRecord
