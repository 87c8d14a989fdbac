\* Stop against running services on two workers: everything retires and the workers leave.
CONSTANTS
    A = A
    B = B
    U = U
    t1 = t1
    t2 = t2
    m1 = m1
    m2 = m2
    m3 = m3
    Idle = Idle
    None = None
    Services = {A, U}
    MessageDriven = {A}
    Threads = {t1, t2}
    Msgs = {m1}
    CallGraph <- OneCall
    Destinations = {A}
    Signalled = {U}
    Closable = {}
    Waiters = {U}
    Yielders = {}
    LaunchDuringStop = FALSE
SPECIFICATION FairSpec
CHECK_DEADLOCK FALSE
INVARIANTS
    StopRetiresAll
PROPERTIES
    StopReturns
    AcceptedIsHandled
