SPECIFICATION FairSpec
CONSTANTS
    Threads = {t1, t2, t3}
    MaxRequests = 2
    FopenMayFail = TRUE
    PeersMayFail = TRUE
INVARIANTS
    TypeOK
    StdoutSerialised
    LogFileSerialised
PROPERTIES
    ServedUnlessLockLeaked
    NobodyIsServedAgain
CHECK_DEADLOCK FALSE
