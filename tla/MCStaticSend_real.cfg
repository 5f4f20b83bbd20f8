SPECIFICATION Spec
CONSTANTS
    LONG_MAX = 2147483647
    MAX_CHUNK_SIZE = 8192
    FileSizes <- RealFileSizes
    HeaderLens <- RealHeaderLens
    Fragments = {16384}
    FilesMayChange = FALSE
INVARIANTS
    BodyComplete
    HeaderNeverRefused
    WireShape
    OverrunOnlyByFullChunks
PROPERTIES
    SizeLineWrongOnlyForMisprintedSizes
CHECK_DEADLOCK FALSE
