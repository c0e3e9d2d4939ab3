SPECIFICATION Spec
CONSTANTS
    dacA = dacA
    dacB = dacB
    c1 = c1
    c2 = c2
    c3 = c3
    m_devices <- MCDevices
    ClearsOnClose = {dacA, dacB}
    Conns <- MCConns2
    FDs = {4, 5}
    m_listenSocket = 3
    Requests <- MCFewRequests
    Arrivals <- MCUnix
    NoConn = NoConn
    NoFd = NoFd
INVARIANT
    EAGAINIsNoError
CHECK_DEADLOCK FALSE
