\* An actor and a user thread on two workers: every interleaving of waits, wakeups and switches.
CONSTANTS
    A = A
    B = B
    U = U
    t1 = t1
    t2 = t2
    m1 = m1
    m2 = m2
    m3 = m3
    Idle = Idle
    None = None
    Services = {A, U}
    MessageDriven = {A}
    Threads = {t1, t2}
    Msgs = {m1, m2}
    CallGraph <- OneCall
    Destinations = {A}
    Signalled = {A, U}
    Closable = {A, U}
    Waiters = {A, U}
    Yielders = {U}
    LaunchDuringStop = FALSE
SPECIFICATION Spec
SYMMETRY Symmetry
CHECK_DEADLOCK FALSE
INVARIANTS
    OneThreadPerService
    NoLostWakeup
    StatusMatchesSchedule
    NoSpuriousWakeup
    ResponseMatchesCall
