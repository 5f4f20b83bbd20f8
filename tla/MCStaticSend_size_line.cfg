SPECIFICATION Spec
CONSTANTS
    LONG_MAX = 2147483647
    MAX_CHUNK_SIZE = 8192
    FileSizes <- RealFileSizes
    HeaderLens = {125}
    Fragments = {16384}
    FilesMayChange = FALSE
INVARIANTS
    SizeLinesAreRight
CHECK_DEADLOCK FALSE
