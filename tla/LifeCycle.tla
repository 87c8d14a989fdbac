----------------------------- MODULE LifeCycle -----------------------------
(***************************************************************************)
(* System::Start, Stop and WaitStop, called by user threads, and the       *)
(* threads they start and join.  mutex_ is held for the whole of Start and *)
(* Stop.  Of the services only WakeupService is there; it stands for all.  *)
(* The timer and the IO thread end when they are interrupted, like a       *)
(* worker with nothing to schedule: they are not modelled apart.           *)
(***************************************************************************)
EXTENDS Naturals

CONSTANTS
    Callers,     \* user threads
    Main,        \* the one that calls Start
    WorkerNum,   \* threads asked for
    MaxLives,    \* bound on the calls of Start
    NoCaller

ASSUME LifeCycleAssumption == Main \in Callers /\ WorkerNum \in Nat \ {0}
ASSUME NoCallerAssumption == NoCaller \notin Callers

VARIABLES
    stopped,           \* the flag
    holder,            \* who holds mutex_
    callerAt,          \* where each user thread is
    threadAt,          \* each worker: "none", "created", "loop" or "ended"
    worker_init_num,   \* worker_init_num_
    threadsInterrupted, \* are the threads told to end?
    wakeupSrv,         \* the service: "none", "ready" (in the run queue),
                       \* "idle" or "dead"
    lives              \* calls of Start so far

lifeVars == <<stopped, holder, callerAt, threadAt, worker_init_num, threadsInterrupted,
              wakeupSrv, lives>>

WorkerIds == 1 .. WorkerNum

LifeInit ==
    /\ stopped = TRUE /\ holder = NoCaller
    /\ callerAt = [c \in Callers |-> "out"]
    /\ threadAt = [w \in WorkerIds |-> "none"]
    /\ worker_init_num = 0
    /\ threadsInterrupted = FALSE /\ wakeupSrv = "none" /\ lives = 0

CallerStep(c, here, there) ==
    /\ callerAt[c] = here
    /\ callerAt' = [callerAt EXCEPT ![c] = there]

-----------------------------------------------------------------------------
(* Start                                                                   *)

\* CHECK(stopped) comes before the lock.
StartCall ==
    /\ CallerStep(Main, "out", "start") /\ stopped
    /\ lives < MaxLives /\ lives' = lives + 1
    /\ UNCHANGED <<stopped, holder, threadAt, worker_init_num, threadsInterrupted, wakeupSrv>>

StartThreads ==
    /\ CallerStep(Main, "start", "initialize") /\ holder = NoCaller
    /\ holder' = Main
    /\ threadAt' = [w \in WorkerIds |-> "created"]
    /\ threadsInterrupted' = FALSE
    /\ UNCHANGED <<stopped, worker_init_num, wakeupSrv, lives>>

\* IOService::Initialize fails: there is no thread yet.
StartFails ==
    /\ CallerStep(Main, "start", "out") /\ holder = NoCaller
    /\ UNCHANGED <<stopped, holder, threadAt, worker_init_num, threadsInterrupted, wakeupSrv, lives>>

Initialized == worker_init_num = WorkerNum

WorkersInitialized ==
    /\ CallerStep(Main, "initialize", "launch") /\ Initialized
    /\ stopped' = FALSE
    /\ UNCHANGED <<holder, threadAt, worker_init_num, threadsInterrupted, wakeupSrv, lives>>

\* StartBuitinServices: WakeupService is launched and its Start called ...
StartBuitinServices ==
    /\ CallerStep(Main, "launch", "call")
    /\ wakeupSrv' = "ready"
    /\ UNCHANGED <<stopped, holder, threadAt, worker_init_num, threadsInterrupted, lives>>

\* ... or there is no memory for its stack: the exception unlocks the mutex
\* and leaves the system running without it.
BuitinServicesFail ==
    /\ CallerStep(Main, "launch", "out")
    /\ holder' = NoCaller
    /\ UNCHANGED <<stopped, threadAt, worker_init_num, threadsInterrupted, wakeupSrv, lives>>

StartReturns ==
    /\ CallerStep(Main, "call", "out") /\ wakeupSrv = "idle"
    /\ holder' = NoCaller
    /\ UNCHANGED <<stopped, threadAt, worker_init_num, threadsInterrupted, wakeupSrv, lives>>

-----------------------------------------------------------------------------
(* Stop and WaitStop                                                       *)

StopCall(c) ==
    /\ CallerStep(c, "out", "stop")
    /\ UNCHANGED <<stopped, holder, threadAt, worker_init_num, threadsInterrupted, wakeupSrv, lives>>

\* stopped is set and the services are told, unless it was set before.
StopServices(c) ==
    /\ CallerStep(c, "stop", IF stopped THEN "out" ELSE "interrupt") /\ holder = NoCaller
    /\ holder' = IF stopped THEN NoCaller ELSE c
    /\ stopped' = TRUE
    /\ wakeupSrv' = IF stopped \/ wakeupSrv \in {"none", "dead"} THEN wakeupSrv ELSE "ready"
    /\ UNCHANGED <<threadAt, worker_init_num, threadsInterrupted, lives>>

StopInterrupts(c) ==
    /\ CallerStep(c, "interrupt", "join")
    /\ threadsInterrupted' = TRUE
    /\ UNCHANGED <<stopped, holder, threadAt, worker_init_num, wakeupSrv, lives>>

\* Mutant: nobody is notified.
WokenByStopNobody(d) == FALSE

\* stop_cond_.notify_all()
WokenByStop(d) == callerAt[d] = "wait"

StopJoins(c) ==
    /\ callerAt[c] = "join"
    /\ \A w \in WorkerIds : threadAt[w] = "ended"
    /\ threadAt' = [w \in WorkerIds |-> "none"]
    /\ holder' = NoCaller
    /\ callerAt' = [d \in Callers |->
                      IF d = c THEN "out"
                      ELSE IF WokenByStop(d) THEN "relock" ELSE callerAt[d]]
    /\ UNCHANGED <<stopped, worker_init_num, threadsInterrupted, wakeupSrv, lives>>

WaitStopCall(c) ==
    /\ CallerStep(c, "out", "relock")
    /\ UNCHANGED <<stopped, holder, threadAt, worker_init_num, threadsInterrupted, wakeupSrv, lives>>

\* Under the mutex it looks at the flag, and returns or waits.
WaitStopLooks(c) ==
    /\ CallerStep(c, "relock", IF stopped THEN "out" ELSE "wait") /\ holder = NoCaller
    /\ UNCHANGED <<stopped, holder, threadAt, worker_init_num, threadsInterrupted, wakeupSrv, lives>>

-----------------------------------------------------------------------------
(* ThreadMain and IdleService                                              *)

WorkerStep(w, here, there) ==
    /\ threadAt[w] = here
    /\ threadAt' = [threadAt EXCEPT ![w] = there]

WorkerInitializes(w) ==
    /\ WorkerStep(w, "created", "loop")
    /\ worker_init_num' = worker_init_num + 1
    /\ UNCHANGED <<stopped, holder, callerAt, threadsInterrupted, wakeupSrv, lives>>

\* A worker runs the service: Start is called, or it has to stop and ends.
WorkerSchedules(w) ==
    /\ threadAt[w] = "loop" /\ wakeupSrv = "ready"
    /\ wakeupSrv' = IF stopped THEN "dead" ELSE "idle"
    /\ UNCHANGED <<stopped, holder, callerAt, threadAt, worker_init_num, threadsInterrupted, lives>>

\* Mutant: leaves the loop when it is interrupted, whoever is ready.
IdleEndsAtOnce == threadsInterrupted

IdleEnds == threadsInterrupted /\ wakeupSrv # "ready"

WorkerEnds(w) ==
    /\ WorkerStep(w, "loop", "ended") /\ IdleEnds
    /\ UNCHANGED <<stopped, holder, callerAt, worker_init_num, threadsInterrupted, wakeupSrv, lives>>

Starting == StartThreads \/ WorkersInitialized \/ StartBuitinServices \/ StartReturns
Stopping(c) == StopServices(c) \/ StopInterrupts(c) \/ StopJoins(c) \/ WaitStopLooks(c)
WorkerRuns(w) == WorkerInitializes(w) \/ WorkerSchedules(w) \/ WorkerEnds(w)

LifeNext ==
    \/ StartCall \/ StartFails \/ BuitinServicesFail \/ Starting
    \/ \E c \in Callers : StopCall(c) \/ WaitStopCall(c) \/ Stopping(c)
    \/ \E w \in WorkerIds : WorkerRuns(w)

LifeSpec == LifeInit /\ [][LifeNext]_lifeVars

-----------------------------------------------------------------------------
\* "must be set before StartBuitinServices": in the first life of a system no
\* service is launched before every worker can run it.  (In the second life
\* worker_init_num_ starts at the value it is compared with.)
WorkersBeforeServices ==
    (~ stopped /\ lives = 1) => \A w \in WorkerIds : threadAt[w] \notin {"none", "created"}

\* Who gets the mutex and finds the system stopped, in WaitStop or in a
\* second Stop, finds it without a thread and without a service.
StoppedMeansGone ==
    (stopped /\ holder = NoCaller) =>
        /\ \A w \in WorkerIds : threadAt[w] = "none"
        /\ wakeupSrv \in {"none", "dead"}

\* The services' life lies within that of the workers, at both ends.
WorkersEncloseServices == WorkersBeforeServices /\ StoppedMeansGone

\* The first Start returns.  (A second one may wait for ever for the value
\* that worker_init_num_ has passed.)
FirstStartReturns ==
    (callerAt[Main] = "initialize" /\ lives = 1) ~> (callerAt[Main] = "out")

\* The last Stop returns, and so does every WaitStop that waits for it.
WaitStopReturns ==
    (lives = MaxLives /\ \E c \in Callers : callerAt[c] = "join")
        ~> (\A c \in Callers : callerAt[c] \notin {"join", "wait"})

\* Who starts a system or waits for its end comes back.
LifeCycleCallsReturn == FirstStartReturns /\ WaitStopReturns
=============================================================================
