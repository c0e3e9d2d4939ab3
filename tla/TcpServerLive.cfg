SPECIFICATION FairSpec
CONSTANTS
    dacA = dacA
    dacB = dacB
    c1 = c1
    c2 = c2
    c3 = c3
    m_devices <- MCNoDevice
    ClearsOnClose = {}
    Conns <- MCConns3
    FDs = {4, 5}
    m_listenSocket = 3
    Requests <- MCFewRequests
    Arrivals <- MCBothLive
    NoConn = NoConn
    NoFd = NoFd
PROPERTIES
    CommandsServed
    LostReleased
    StopsWhenServing
CHECK_DEADLOCK FALSE
