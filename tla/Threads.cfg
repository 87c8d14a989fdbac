\* The MPSC queue with three producers and four nodes of reused memory; two
\* consumers and two goods; two workers, a task that waits for its own task.
CONSTANTS
    p1 = p1
    p2 = p2
    p3 = p3
    n0 = n0
    n1 = n1
    n2 = n2
    n3 = n3
    v1 = v1
    v2 = v2
    None = None
    Producers = {p1, p2, p3}
    Nodes = {n0, n1, n2, n3}
    Stub = n0
    Values = {v1, v2}
    Consumers = {p1, p2}
    Goods = {n1, n2}
    Nobody = None
    t1 = t1
    t2 = t2
    t3 = t3
    NumWorkers = 2
    Tasks = {t1, t2, t3}
    Children <- ForkJoin
    NoTask = None
    MaxStarts = 2
SPECIFICATION ThreadsSpec
CHECK_DEADLOCK FALSE
INVARIANTS
    QueueIsConsistent
    NoItemStranded
    TaskInOnePlace
PROPERTIES
    ImplementsFifo
    PushedIsPopped
    PoolMakesProgress
