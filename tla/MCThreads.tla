----------------------------- MODULE MCThreads -----------------------------
(***************************************************************************)
(* What threads share through util/: the MPSC queue, the blocking queue    *)
(* and the thread pool.  They know nothing of each other, so one instance  *)
(* checks all three: part is the one that moves, the others stay in their  *)
(* initial states.                                                         *)
(***************************************************************************)
EXTENDS MPSCQueue, BlockingQueue, ThreadPool, TLC

CONSTANTS p1, p2, p3, n0, n1, n2, n3, v1, v2, t1, t2, t3

\* t1 submits t2 and waits for it.
ForkJoin == (t1 :> {t2}) @@ (t2 :> {}) @@ (t3 :> {})

VARIABLE part
threadsVars == <<part, vars, blockingVars, poolVars>>

ThreadsInit ==
    /\ Init /\ BlockingInit /\ PoolInit
    /\ part \in {"mpsc", "blocking", "pool"}
    /\ part # "pool" => policy = "single"

InMpsc(A) == part = "mpsc" /\ A /\ UNCHANGED <<part, blockingVars, poolVars>>
InBlocking(A) == part = "blocking" /\ A /\ UNCHANGED <<part, vars, poolVars>>
InPool(A) == part = "pool" /\ A /\ UNCHANGED <<part, vars, blockingVars>>

ThreadsNext == InMpsc(Next) \/ InBlocking(BlockingNext) \/ InPool(PoolNext)

\* The operating system runs every thread.  Pushes are completed, consumers
\* keep popping (and get a mutex they keep asking for), who interrupts a
\* consumer calls wakeAll, the callers of Start and Stop go on, and a task
\* returns once what it waits for is done.
ThreadsFairness ==
    /\ \A p \in Producers : WF_threadsVars(InMpsc(Push(p)))
    /\ WF_threadsVars(InMpsc(Pop))
    /\ \A c \in Consumers : SF_threadsVars(InBlocking(Consumer(c)))
    /\ WF_threadsVars(InBlocking(WakeAll))
    /\ WF_threadsVars(InPool(Controller))
    /\ \A w \in Workers : WF_threadsVars(InPool(Worker(w)))

ThreadsSpec == ThreadsInit /\ [][ThreadsNext]_threadsVars /\ ThreadsFairness
=============================================================================
