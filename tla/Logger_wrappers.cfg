SPECIFICATION FairSpec
CONSTANTS
    Threads = {t1, t2}
    MaxRequests = 1
    FopenMayFail = FALSE
    PeersMayFail = TRUE
PROPERTIES
    WrapperCallsReturn
CHECK_DEADLOCK FALSE
