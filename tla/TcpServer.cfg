SPECIFICATION Spec
CONSTANTS
    dacA = dacA
    dacB = dacB
    c1 = c1
    c2 = c2
    c3 = c3
    m_devices <- MCDevices
    ClearsOnClose = {dacA, dacB}
    Conns <- MCConns2
    FDs = {4, 5}
    m_listenSocket = 3
    Requests <- MCRequests
    Arrivals <- MCBoth
    NoConn = NoConn
    NoFd = NoFd
SYMMETRY ConnSymmetry
INVARIANTS
    TypeOK
    WatchesOpenSockets
    ListenClosedOnce
    LeftoverOnlyIfShared
PROPERTY
    CancelsOnlyOwn
CHECK_DEADLOCK FALSE
