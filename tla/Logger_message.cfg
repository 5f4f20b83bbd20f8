SPECIFICATION FairSpec
CONSTANTS
    Threads = {t1, t2}
    MaxRequests = 1
    FopenMayFail = TRUE
    PeersMayFail = FALSE
PROPERTIES
    LogMessageReturns
CHECK_DEADLOCK FALSE
