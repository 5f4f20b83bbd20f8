SPECIFICATION ConnFairSpec
CONSTANTS
    LONG_MAX = 2147483647
    MAX_CHUNK_SIZE = 64
    FileSizes <- ServedFiles
    HeaderLens = {12, 20}
    Fragments = {16, 64}
    FilesMayChange = TRUE
    Requests <- MCRequests
INVARIANTS
    ConnTypeOK
    CleanReceiveCycle
    ReleasedAtTheEnd
    CloseHeaderHasNoTail
    EveryBodyComplete
    NothingLeakedPerCycle
    SearchedBodyExists
PROPERTIES
    ImplementsHttpSession
    ServingEnds
    UnsentOnlyAfterUncheckedWrite
CHECK_DEADLOCK FALSE
