----------------------------- MODULE ThreadPool -----------------------------
(***************************************************************************)
(* ThreadPool with its two queue policies, on Thread's interruption flag   *)
(* and ThreadSafeQueue, each of whose operations is one critical section.  *)
(* Queue 0 is the single work queue or the global one; queue i belongs to  *)
(* worker i.  A worker looks into one queue per step: its own, the global  *)
(* one, then everybody's.                                                  *)
(***************************************************************************)
EXTENDS Integers, Sequences, FiniteSets

CONSTANTS
    NumWorkers,   \* ThreadNum(), the number of threads
    Tasks,
    Children,     \* Children[t]: tasks that t submits, and waits for
    NoTask,
    MaxStarts     \* bound on the number of Starts

ASSUME NumWorkersAssumption == NumWorkers \in Nat \ {0}
ASSUME TasksAssumption == IsFiniteSet(Tasks) /\ NoTask \notin Tasks

VARIABLES
    policy,       \* the WorkQueuePolicy: "single" or "stealing"
    pool,         \* "idle", "starting", "running", "interrupt", "join"
    poolIndex,    \* the thread Start or Stop is at
    starts,       \* how often the pool was started
    taskQueue,    \* the queues
    workerAt,     \* where each worker is
    scan,         \* TakeFromOtherThread's position
    taskOf,       \* the task it runs
    interrupted,  \* ThreadImpl::interrupted_
    taskState     \* "new", "submitted", "running" or "done"

poolVars == <<policy, pool, poolIndex, starts, taskQueue, workerAt, scan,
              taskOf, interrupted, taskState>>

Workers == 1 .. NumWorkers
workerLocals == <<workerAt, scan, taskOf>>
control == <<policy, pool, poolIndex, starts>>

PoolInit ==
    /\ policy \in {"single", "stealing"}
    /\ pool = "idle"
    /\ poolIndex = 0
    /\ starts = 0
    /\ taskQueue = [q \in 0 .. NumWorkers |-> <<>>]
    /\ workerAt = [w \in Workers |-> "none"]
    /\ scan = [w \in Workers |-> 0]
    /\ taskOf = [w \in Workers |-> NoTask]
    /\ interrupted = [w \in Workers |-> FALSE]
    /\ taskState = [t \in Tasks |-> "new"]

-----------------------------------------------------------------------------
(* Start, Stop and Submit                                                  *)

Start ==
    /\ pool = "idle"
    /\ starts < MaxStarts
    /\ pool' = "starting"
    /\ poolIndex' = 1
    /\ starts' = starts + 1
    /\ UNCHANGED <<policy, taskQueue, workerLocals, interrupted, taskState>>

\* Thread().Run(worker, i): a new thread, not interrupted.
StartThread ==
    /\ pool = "starting"
    /\ workerAt' = [workerAt EXCEPT ![poolIndex] = "loop"]
    /\ interrupted' = [interrupted EXCEPT ![poolIndex] = FALSE]
    /\ pool' = IF poolIndex = NumWorkers THEN "running" ELSE pool
    /\ poolIndex' = IF poolIndex = NumWorkers THEN 0 ELSE poolIndex + 1
    /\ UNCHANGED <<policy, starts, taskQueue, scan, taskOf, taskState>>

\* Stop.
Stop ==
    /\ pool = "running"
    /\ pool' = "interrupt"
    /\ poolIndex' = 1
    /\ UNCHANGED <<policy, starts, taskQueue, workerLocals, interrupted, taskState>>

Interrupt ==
    /\ pool = "interrupt"
    /\ interrupted' = [interrupted EXCEPT ![poolIndex] = TRUE]
    /\ pool' = "join"
    /\ UNCHANGED <<policy, poolIndex, starts, taskQueue, workerLocals, taskState>>

\* join returns when the thread has ended.
Joinable(w) == workerAt[w] = "ended"

Join ==
    /\ pool = "join"
    /\ Joinable(poolIndex)
    /\ workerAt' = [workerAt EXCEPT ![poolIndex] = "none"]
    /\ pool' = IF poolIndex = NumWorkers THEN "idle" ELSE "interrupt"
    /\ poolIndex' = IF poolIndex = NumWorkers THEN 0 ELSE poolIndex + 1
    /\ UNCHANGED <<policy, starts, taskQueue, scan, taskOf, interrupted, taskState>>

push(q, t) == taskQueue' = [taskQueue EXCEPT ![q] = Append(@, t)]

\* Submit from a thread outside of the pool.
Submit(t) ==
    /\ taskState[t] = "new"
    /\ \A p \in Tasks : t \notin Children[p]
    /\ push(0, t)
    /\ taskState' = [taskState EXCEPT ![t] = "submitted"]
    /\ UNCHANGED <<control, workerLocals, interrupted>>

\* s_this_thread_task_queue, which only the stealing policy sets.
AddQueue(w) == IF policy = "single" THEN 0 ELSE w

\* Submit from a task that worker w runs.
SubmitFromTask(w, t) ==
    /\ workerAt[w] = "run"
    /\ t \in Children[taskOf[w]]
    /\ taskState[t] = "new"
    /\ push(AddQueue(w), t)
    /\ taskState' = [taskState EXCEPT ![t] = "submitted"]
    /\ UNCHANGED <<control, workerLocals, interrupted>>

-----------------------------------------------------------------------------
(* The worker's loop                                                       *)

LoopEnds(w) == interrupted[w]

LoopTest(w) ==
    /\ workerAt[w] = "loop"
    /\ workerAt' = [workerAt EXCEPT ![w] =
                       CASE LoopEnds(w) -> "ended"
                         [] policy = "single" -> "global"
                         [] OTHER -> "local"]
    /\ UNCHANGED <<control, taskQueue, scan, taskOf, interrupted, taskState>>

\* Mutant: the task stays in the queue.
QueueAfterPopSame(q) == taskQueue[q]

QueueAfterPop(q) == Tail(taskQueue[q])

\* ThreadSafeQueue::pop: take the first task and run it, or go on.
pop(w, q, otherwise) ==
    IF taskQueue[q] # <<>>
    THEN /\ taskQueue' = [taskQueue EXCEPT ![q] = QueueAfterPop(q)]
         /\ taskOf' = [taskOf EXCEPT ![w] = Head(taskQueue[q])]
         /\ taskState' = [taskState EXCEPT ![Head(taskQueue[q])] = "running"]
         /\ workerAt' = [workerAt EXCEPT ![w] = "run"]
    ELSE /\ workerAt' = [workerAt EXCEPT ![w] = otherwise]
         /\ UNCHANGED <<taskQueue, taskOf, taskState>>

TakeFromLocal(w) ==
    /\ workerAt[w] = "local"
    /\ pop(w, w, "global")
    /\ UNCHANGED <<control, scan, interrupted>>

TakeFromGlobal(w) ==
    /\ workerAt[w] = "global"
    /\ pop(w, 0, IF policy = "single" THEN "loop" ELSE "others")
    /\ scan' = [scan EXCEPT ![w] = 1]
    /\ UNCHANGED <<control, interrupted>>

\* Mutant: the last queue is not looked into.
ScanEndEarly == NumWorkers - 1

ScanEnd == NumWorkers

TakeFromOtherThread(w) ==
    /\ workerAt[w] = "others"
    /\ IF scan[w] > ScanEnd
       THEN /\ workerAt' = [workerAt EXCEPT ![w] = "loop"]
            /\ UNCHANGED <<taskQueue, taskOf, taskState, scan>>
       ELSE /\ pop(w, scan[w], "others")
            /\ scan' = [scan EXCEPT ![w] = @ + 1]
    /\ UNCHANGED <<control, interrupted>>

\* The task returns; it has submitted its tasks and waited for them.
TaskReturns(w) ==
    /\ workerAt[w] = "run"
    /\ \A t \in Children[taskOf[w]] : taskState[t] = "done"
    /\ taskState' = [taskState EXCEPT ![taskOf[w]] = "done"]
    /\ taskOf' = [taskOf EXCEPT ![w] = NoTask]
    /\ workerAt' = [workerAt EXCEPT ![w] = "loop"]
    /\ UNCHANGED <<control, taskQueue, scan, interrupted>>

Worker(w) ==
    \/ LoopTest(w)
    \/ TakeFromLocal(w)
    \/ TakeFromGlobal(w)
    \/ TakeFromOtherThread(w)
    \/ \E t \in Tasks : SubmitFromTask(w, t)
    \/ TaskReturns(w)

Controller == StartThread \/ Interrupt \/ Join

PoolNext ==
    \/ Start
    \/ Stop
    \/ Controller
    \/ \E t \in Tasks : Submit(t)
    \/ \E w \in Workers : Worker(w)

PoolSpec == PoolInit /\ [][PoolNext]_poolVars

-----------------------------------------------------------------------------
\* Where a task is, whoever submits, steals, stops and starts: a submitted
\* task in one queue, once; a running one on one worker; any other nowhere.
\* So no task is lost, or run twice.  No worker outlives Stop.
TaskInOnePlace ==
    /\ \A t \in Tasks :
         LET queued == {p \in (0 .. NumWorkers) \X (1 .. Cardinality(Tasks)) :
                           /\ p[2] <= Len(taskQueue[p[1]])
                           /\ taskQueue[p[1]][p[2]] = t}
             running == {w \in Workers : taskOf[w] = t}
         IN  /\ Cardinality(queued) = (IF taskState[t] = "submitted" THEN 1 ELSE 0)
             /\ Cardinality(running) = (IF taskState[t] = "running" THEN 1 ELSE 0)
    /\ \A w \in Workers : taskOf[w] # NoTask <=> workerAt[w] = "run"
    /\ pool = "idle" => \A w \in Workers : workerAt[w] = "none"

\* A submitted task is run unless the pool is stopped: also one in the queue
\* of a worker that is busy waiting for it.
SubmittedIsRun ==
    \A t \in Tasks :
        (taskState[t] = "submitted" /\ pool = "running") ~>
            (taskState[t] # "submitted" \/ pool # "running")

\* Does some task wait for a task nobody has begun?
WaitsForQueued ==
    \E w \in Workers : taskOf[w] # NoTask /\
        \E t \in Children[taskOf[w]] : taskState[t] = "submitted"

\* Stop returns, unless it has ended the workers a waiting task depends on.
PoolStops == (pool = "interrupt") ~> (pool = "idle" \/ WaitsForQueued)

\* Work goes on while the pool runs and ends when it is stopped.
PoolMakesProgress == SubmittedIsRun /\ PoolStops
=============================================================================
