SPECIFICATION FairSpec
CONSTANTS
    LONG_MAX = 2147483647
    MAX_CHUNK_SIZE = 64
    FileSizes <- SmallFileSizes
    HeaderLens = {20}
    Fragments = {16, 64}
    FilesMayChange = TRUE
INVARIANTS
    TypeOK
    BodyInStepWithFile
    CountsAgree
PROPERTIES
    SendReturns
CHECK_DEADLOCK FALSE
