SPECIFICATION ConnSpec
CONSTANTS
    LONG_MAX = 2147483647
    MAX_CHUNK_SIZE = 64
    FileSizes <- ServedFiles
    HeaderLens = {20}
    Fragments = {64}
    FilesMayChange = FALSE
    Requests <- MCRequests
INVARIANTS
    ContextNotUsedAfterFailure
CHECK_DEADLOCK FALSE
