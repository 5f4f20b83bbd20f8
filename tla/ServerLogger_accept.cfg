SPECIFICATION ServerFairSpec
CONSTANTS
    NoClient = NoClient
    NoFd = NoFd
    Clients = {c1, c2, c3}
    FDs = {fd1, fd2}
    CreateMayFail = TRUE
    MaxRequests = 1
    PeersMayFail = FALSE
INVARIANTS
    TypeOK
    SocketIsOwnClients
    DescriptorsAccountedFor
    AtMostOneLateAccept
PROPERTIES
    StopsOnceAwoken
    EveryoneIsAccepted
CHECK_DEADLOCK FALSE
