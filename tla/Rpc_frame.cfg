\* A request of more than 255 bytes.
CONSTANTS
    c1 = c1
    c2 = c2
    c3 = c3
    k1 = k1
    k2 = k2
    k3 = k3
    k4 = k4
    Callers = {c1, c2, c3}
    Main = c1
    WorkerNum = 2
    MaxLives = 2
    NoCaller = None
    Fds = {k1, k2, k3, k4}
    Clients = {c1, c2}
    Backlog = 2
    NoFd = None
    RpcClients = {c1}
    Conns = {k1, k2}
    NoConn = None
    MaxCalls = 1
    CutAt = 5
    TextOf <- LongTexts
    DefaultString = None
SPECIFICATION RpcOnlySpec
CHECK_DEADLOCK FALSE
INVARIANTS
    FrameTellsLength
