\* A chain of synchronous calls on one worker implements fair mailboxes.
CONSTANTS
    A = A
    B = B
    U = U
    t1 = t1
    t2 = t2
    m1 = m1
    m2 = m2
    m3 = m3
    Idle = Idle
    None = None
    Services = {A, B, U}
    MessageDriven = {A, B}
    Threads = {t1}
    Msgs = {m1, m2}
    CallGraph <- ChainCalls
    Destinations = {A}
    Signalled = {}
    Closable = {}
    Waiters = {}
    Yielders = {}
    LaunchDuringStop = FALSE
SPECIFICATION FairSpec
CHECK_DEADLOCK FALSE
PROPERTIES
    ImplementsFairMailbox
