----------------------------- MODULE Scheduler -----------------------------
(***************************************************************************)
(* The M:N scheduler of mcast::System.  Worker threads pop services from   *)
(* one shared run queue and jump into their contexts; services block in    *)
(* Wait_Locked and are made ready again by Wakeup_Locked from any thread.  *)
(*                                                                         *)
(* One action is one critical section: what the code does between locking  *)
(* and unlocking a ServiceContext's mutex, or a thread-local stretch       *)
(* between two of them.  The run queue has a lock of its own; its pushes   *)
(* happen inside a context's critical section and its pops in Schedule.    *)
(***************************************************************************)
EXTENDS Naturals, Sequences

CONSTANTS
    Services,          \* the services that may be launched
    MessageDriven,     \* those with ServiceType() # kUserThreadService
    Threads,           \* the worker threads of Start(thread_num)
    Msgs,              \* the messages that may be sent, each at most once
    CallGraph,         \* <<s, d>>: s may CallMethod(d) synchronously
    Destinations,      \* the services AsyncCallMethod is aimed at
    Signalled,         \* the services Signal and InterruptService are aimed at
    Closable,          \* the services StopService is aimed at
    Waiters,           \* the services whose code calls WaitSignal
    Yielders,          \* the services whose code calls Yield
    LaunchDuringStop,  \* may LaunchService overlap Stop?
    Idle,              \* a thread's IdleService
    None               \* no service, no message

ASSUME SetsAssumption ==
    /\ MessageDriven \subseteq Services
    /\ Destinations \subseteq Services
    /\ Signalled \subseteq Services
    /\ Closable \subseteq Services
    /\ CallGraph \subseteq Services \X Services
    /\ LaunchDuringStop \in BOOLEAN
ASSUME IdleAssumption == Idle \notin Services
ASSUME NoneAssumption == None \notin Services \cup Msgs \cup {Idle}

VARIABLES
    \* ServiceContext
    status, stopping, wakeup_signal, is_swaping_out, wait_events, events,
    msg_queue,
    \* the suspended or running code of a service
    loc,          \* which part of its main function it is in
    mask,         \* the events of the Wait_Locked it is blocked in
    msg,          \* the message HandleMessage is working on
    call,         \* the accepted message CallMethod wants the response of
    \* System
    run_queue, pc, current, prev,
    launching,    \* LaunchService has passed its check of `stopped'
    stopper,      \* where Stop is
    snapshot,     \* services StopAllService has still to stop
    interrupted,  \* threads whose interrupt flag Stop has set
    \* Messages
    mstate,       \* what became of each message
    reply         \* the service its closure wakes with kResponse

ctxVars == <<status, stopping, wakeup_signal, is_swaping_out, wait_events,
             events, msg_queue>>
codeVars == <<loc, mask, msg, call>>
threadVars == <<pc, current, prev>>
stopVars == <<launching, stopper, snapshot, interrupted>>
msgVars == <<mstate, reply>>
vars == <<ctxVars, codeVars, run_queue, threadVars, stopVars, msgVars>>

Events == {"ServiceStart", "Signal", "Interrupt", "Message", "Response",
           "ServiceStop"}
LoopEvents == {"Message", "ServiceStop"}
SignalEvents == {"Signal", "Interrupt", "ServiceStop"}
Statuses == {"Created", "Blocked", "Ready", "Running", "Dead"}

Init ==
    /\ status = [s \in Services |-> "Created"]
    /\ stopping = [s \in Services |-> FALSE]
    /\ wakeup_signal = [s \in Services |-> FALSE]
    /\ is_swaping_out = [s \in Services |-> FALSE]
    /\ wait_events = [s \in Services |-> {}]
    /\ events = [s \in Services |-> {}]
    /\ msg_queue = [s \in Services |-> <<>>]
    /\ loc = [s \in Services |-> "start"]
    /\ mask = [s \in Services |-> {}]
    /\ msg = [s \in Services |-> None]
    /\ call = [s \in Services |-> None]
    /\ run_queue = <<>>
    /\ pc = [t \in Threads |-> "idle"]
    /\ current = [t \in Threads |-> Idle]
    /\ prev = [t \in Threads |-> None]
    /\ launching = {}
    /\ stopper = "up"
    /\ snapshot = {}
    /\ interrupted = {}
    /\ mstate = [m \in Msgs |-> "unsent"]
    /\ reply = [m \in Msgs |-> None]

-----------------------------------------------------------------------------
(* Waking a service up                                                     *)

\* The services_ map: AddService on launch, RemoveService on death.
Registered == {s \in Services : status[s] \notin {"Created", "Dead"}}

\* GrabService finds d, or found it just before it died: a handle to d exists.
GrabService(d) == status[d] # "Created"

\* Mutant: queues a service that its thread has not left yet.
WakeupIgnoresSwap(d, e) ==
    /\ events' = [events EXCEPT ![d] = @ \cup {e}]
    /\ wakeup_signal' = [wakeup_signal EXCEPT ![d] = @ \/ e \in wait_events[d]]
    /\ IF e \in wait_events[d] /\ status[d] = "Blocked"
         THEN /\ status' = [status EXCEPT ![d] = "Ready"]
              /\ run_queue' = Append(run_queue, d)
         ELSE UNCHANGED <<status, run_queue>>

\* Mutant: queues a service that is already ready.
WakeupIgnoresStatus(d, e) ==
    /\ events' = [events EXCEPT ![d] = @ \cup {e}]
    /\ wakeup_signal' = [wakeup_signal EXCEPT ![d] = @ \/ e \in wait_events[d]]
    /\ IF e \in wait_events[d] /\ ~is_swaping_out[d]
         THEN /\ status' = [status EXCEPT ![d] = "Ready"]
              /\ run_queue' = Append(run_queue, d)
         ELSE UNCHANGED <<status, run_queue>>

\* Mutant: any event wakes a blocked service.
WakeupIgnoresMask(d, e) ==
    /\ events' = [events EXCEPT ![d] = @ \cup {e}]
    /\ wakeup_signal' = [wakeup_signal EXCEPT ![d] = TRUE]
    /\ IF ~is_swaping_out[d] /\ status[d] = "Blocked"
         THEN /\ status' = [status EXCEPT ![d] = "Ready"]
              /\ run_queue' = Append(run_queue, d)
         ELSE UNCHANGED <<status, run_queue>>

\* Wakeup_Locked latches e; a service that waits for e is made ready, unless
\* it is still being switched out: then OnResume makes it ready.
Wakeup_Locked(d, e) ==
    /\ events' = [events EXCEPT ![d] = @ \cup {e}]
    /\ wakeup_signal' = [wakeup_signal EXCEPT ![d] = @ \/ e \in wait_events[d]]
    /\ IF /\ e \in wait_events[d]
          /\ ~is_swaping_out[d]
          /\ status[d] = "Blocked"
         THEN /\ status' = [status EXCEPT ![d] = "Ready"]
              /\ run_queue' = Append(run_queue, d)
         ELSE UNCHANGED <<status, run_queue>>

\* System::WakeUp and Signal, by any thread or service.
WakeUp(d, e) ==
    /\ GrabService(d)
    /\ Wakeup_Locked(d, e)
    /\ UNCHANGED <<stopping, is_swaping_out, wait_events, msg_queue>>
    /\ UNCHANGED <<codeVars, threadVars, stopVars, msgVars>>

Signal(d) == WakeUp(d, "Signal")

\* InterruptService wakes only a service that waits for the interrupt.
InterruptService(d) ==
    /\ status[d] = "Blocked"
    /\ "Interrupt" \in wait_events[d]
    /\ WakeUp(d, "Interrupt")

\* Mutant: sets the flag and wakes nobody.
StopOneSilently(d) ==
    /\ stopping' = [stopping EXCEPT ![d] = TRUE]
    /\ UNCHANGED <<status, wakeup_signal, is_swaping_out, wait_events, events,
                   msg_queue, run_queue>>

StopOne(d) ==
    IF stopping[d]
      THEN UNCHANGED <<ctxVars, run_queue>>
      ELSE /\ stopping' = [stopping EXCEPT ![d] = TRUE]
           /\ Wakeup_Locked(d, "ServiceStop")
           /\ UNCHANGED <<is_swaping_out, wait_events, msg_queue>>

\* StopService on a handle.
StopService(d) ==
    /\ GrabService(d)
    /\ StopOne(d)
    /\ UNCHANGED <<codeVars, threadVars, stopVars, msgVars>>

-----------------------------------------------------------------------------
(* Launching                                                               *)

\* LaunchService reads `stopped' without a lock ...
LaunchCheck(s) ==
    /\ stopper = "up"
    /\ s \notin launching
    /\ status[s] = "Created"
    /\ launching' = launching \cup {s}
    /\ UNCHANGED <<ctxVars, codeVars, run_queue, threadVars, msgVars>>
    /\ UNCHANGED <<stopper, snapshot, interrupted>>

\* ... and registers the service later.  A user-thread service is made ready
\* at once, a message-driven one waits for its first message.
LaunchAdd(s) ==
    /\ s \in launching
    /\ launching' = launching \ {s}
    /\ IF s \in MessageDriven
         THEN /\ status' = [status EXCEPT ![s] = "Blocked"]
              /\ wait_events' = [wait_events EXCEPT ![s] = LoopEvents]
              /\ UNCHANGED <<events, wakeup_signal, run_queue>>
         ELSE /\ status' = [status EXCEPT ![s] = "Ready"]
              /\ wait_events' = [wait_events EXCEPT ![s] = {"ServiceStart"}]
              /\ events' = [events EXCEPT ![s] = @ \cup {"ServiceStart"}]
              /\ wakeup_signal' = [wakeup_signal EXCEPT ![s] = TRUE]
              /\ run_queue' = Append(run_queue, s)
    /\ UNCHANGED <<stopping, is_swaping_out, msg_queue, codeVars, threadVars>>
    /\ UNCHANGED <<stopper, snapshot, interrupted, msgVars>>

-----------------------------------------------------------------------------
(* Sending                                                                 *)

\* SendMessage: refused once the destination is stopping, else queued; the
\* destination is woken if it waits for messages.
SendMessage(m, d) ==
    IF stopping[d] \/ status[d] = "Created"
      THEN /\ mstate' = [mstate EXCEPT ![m] = "rejected"]
           /\ UNCHANGED <<ctxVars, run_queue>>
      ELSE /\ mstate' = [mstate EXCEPT ![m] = "queued"]
           /\ msg_queue' = [msg_queue EXCEPT ![d] = Append(@, m)]
           /\ IF "Message" \in wait_events[d]
                THEN Wakeup_Locked(d, "Message")
                ELSE UNCHANGED <<status, wakeup_signal, events, run_queue>>
           /\ UNCHANGED <<stopping, is_swaping_out, wait_events>>

\* AsyncCallMethod by a service, or any call by a thread outside the system
\* (which waits, if it does, on a condition variable of its own).
AsyncCallMethod(m, d) ==
    /\ mstate[m] = "unsent"
    /\ GrabService(d)
    /\ SendMessage(m, d)
    /\ UNCHANGED <<codeVars, threadVars, stopVars, reply>>

\* The running service on thread t is in code of its own, not in the library.
InUserCode(t) ==
    /\ pc[t] = "service"
    /\ loc[current[t]] \in {"handle", "main"}
    /\ mask[current[t]] = {}
    /\ call[current[t]] = None

\* CallMethod by a service: the closure that will wake it is in the message.
CallMethod(t, m, d) ==
    LET s == current[t] IN
    /\ InUserCode(t)
    /\ <<s, d>> \in CallGraph
    /\ mstate[m] = "unsent"
    /\ GrabService(d)
    /\ SendMessage(m, d)
    /\ IF mstate'[m] = "queued"
         THEN /\ call' = [call EXCEPT ![s] = m]
              /\ reply' = [reply EXCEPT ![m] = s]
         ELSE UNCHANGED <<call, reply>>
    /\ UNCHANGED <<loc, mask, msg, threadVars, stopVars>>

-----------------------------------------------------------------------------
(* Waiting                                                                 *)

\* Wait_Locked by service s on thread t, up to the switch.
Block(t, s, es) ==
    /\ status' = [status EXCEPT ![s] = "Blocked"]
    /\ is_swaping_out' = [is_swaping_out EXCEPT ![s] = TRUE]
    /\ wait_events' = [wait_events EXCEPT ![s] = es]
    /\ mask' = [mask EXCEPT ![s] = es]
    /\ pc' = [pc EXCEPT ![t] = "schedule"]
    /\ UNCHANGED <<events, call>>

\* Wait_Locked returns to its caller; CallMethod returns with it.
Return(s) ==
    /\ mask' = [mask EXCEPT ![s] = {}]
    /\ call' = [call EXCEPT ![s] = None]
    /\ UNCHANGED <<status, is_swaping_out, pc>>

Wait_Locked(t, s, es) ==
    \/ /\ stopping[s] /\ "ServiceStop" \in es
       /\ wait_events' = [wait_events EXCEPT ![s] = {}]
       /\ Return(s)
       /\ UNCHANGED events
    \/ /\ ~(stopping[s] /\ "ServiceStop" \in es)
       /\ es \cap events[s] # {}
       /\ wait_events' = [wait_events EXCEPT ![s] = {}]
       /\ events' = [events EXCEPT ![s] = @ \ es]
       /\ Return(s)
    \/ /\ ~(stopping[s] /\ "ServiceStop" \in es)
       /\ es \cap events[s] = {}
       /\ Block(t, s, es)

waitUnchanged ==
    UNCHANGED <<stopping, wakeup_signal, msg_queue, loc, msg, run_queue,
                current, prev, stopVars, msgVars>>

\* Mutant: a stop ends the wait for the response.
WaitResponseOrStop(t) ==
    LET s == current[t] IN
    /\ pc[t] = "service"
    /\ call[s] # None
    /\ mask[s] = {}
    /\ Wait_Locked(t, s, {"Response", "ServiceStop"})
    /\ waitUnchanged

\* CallMethod, after a successful SendMessage, waits for kResponse alone.
WaitResponse(t) ==
    LET s == current[t] IN
    /\ pc[t] = "service"
    /\ call[s] # None
    /\ mask[s] = {}
    /\ Wait_Locked(t, s, {"Response"})
    /\ waitUnchanged

WaitSignal(t) ==
    LET s == current[t] IN
    /\ InUserCode(t)
    /\ s \in Waiters
    /\ Wait_Locked(t, s, SignalEvents)
    /\ waitUnchanged

\* Wait_Locked after the service was switched back in.
WaitResumed(t) ==
    LET s == current[t] IN
    /\ pc[t] = "service"
    /\ mask[s] # {}
    /\ IF mask[s] \cap events[s] # {}
         THEN /\ events' = [events EXCEPT ![s] = @ \ mask[s]]
              /\ Return(s)
              /\ UNCHANGED wait_events
         ELSE Block(t, s, mask[s])
    /\ waitUnchanged

-----------------------------------------------------------------------------
(* The main functions of services                                          *)

\* Mutant: takes the newest message.
PopNewest(t) ==
    LET s == current[t]
        q == msg_queue[s] IN
    /\ pc[t] = "service"
    /\ loc[s] = "loop" /\ mask[s] = {}
    /\ q # <<>>
    /\ msg' = [msg EXCEPT ![s] = q[Len(q)]]
    /\ msg_queue' = [msg_queue EXCEPT ![s] = SubSeq(q, 1, Len(q) - 1)]
    /\ mstate' = [mstate EXCEPT ![q[Len(q)]] = "handling"]
    /\ loc' = [loc EXCEPT ![s] = "handle"]
    /\ UNCHANGED <<status, stopping, wakeup_signal, is_swaping_out,
                   wait_events, events, mask, call, run_queue, threadVars,
                   stopVars, reply>>

\* MessageDrivenServiceMain: the next message of a non-empty queue.
PopMessage(t) ==
    LET s == current[t] IN
    /\ pc[t] = "service"
    /\ loc[s] = "loop" /\ mask[s] = {}
    /\ msg_queue[s] # <<>>
    /\ msg' = [msg EXCEPT ![s] = Head(msg_queue[s])]
    /\ msg_queue' = [msg_queue EXCEPT ![s] = Tail(@)]
    /\ mstate' = [mstate EXCEPT ![Head(msg_queue[s])] = "handling"]
    /\ loc' = [loc EXCEPT ![s] = "handle"]
    /\ UNCHANGED <<status, stopping, wakeup_signal, is_swaping_out,
                   wait_events, events, mask, call, run_queue, threadVars,
                   stopVars, reply>>

\* ... an empty queue of a running service.
LoopWait(t) ==
    LET s == current[t] IN
    /\ pc[t] = "service"
    /\ loc[s] = "loop" /\ mask[s] = {}
    /\ msg_queue[s] = <<>>
    /\ ~stopping[s]
    /\ IF ~wakeup_signal[s]
         THEN /\ Wait_Locked(t, s, LoopEvents)
              /\ waitUnchanged
         ELSE /\ wakeup_signal' = [wakeup_signal EXCEPT ![s] = FALSE]
              /\ UNCHANGED <<status, stopping, is_swaping_out, wait_events,
                             events, msg_queue, codeVars, run_queue,
                             threadVars, stopVars, msgVars>>

\* The end of either main function: kDead, RemoveService, Schedule.
Die(t, s) ==
    /\ status' = [status EXCEPT ![s] = "Dead"]
    /\ loc' = [loc EXCEPT ![s] = "dead"]
    /\ pc' = [pc EXCEPT ![t] = "schedule"]
    /\ UNCHANGED <<wakeup_signal, is_swaping_out, wait_events, events,
                   msg_queue, mask, msg, call, run_queue, current, prev,
                   stopVars, msgVars>>

\* Mutant: a stopping service leaves its messages.
LoopExitAtOnce(t) ==
    LET s == current[t] IN
    /\ pc[t] = "service"
    /\ loc[s] = "loop" /\ mask[s] = {}
    /\ stopping[s]
    /\ Die(t, s)
    /\ UNCHANGED stopping

\* ... an empty queue of a stopping service.
LoopExit(t) ==
    LET s == current[t] IN
    /\ pc[t] = "service"
    /\ loc[s] = "loop" /\ mask[s] = {}
    /\ msg_queue[s] = <<>>
    /\ stopping[s]
    /\ Die(t, s)
    /\ UNCHANGED stopping

\* HandleMessage returns: Dispatch calls Done, whose closure wakes the caller.
HandlerReturns(t) ==
    LET s == current[t] IN
    /\ InUserCode(t)
    /\ loc[s] = "handle"
    /\ loc' = [loc EXCEPT ![s] = "loop"]
    /\ msg' = [msg EXCEPT ![s] = None]
    /\ mstate' = [mstate EXCEPT ![msg[s]] = "done"]
    /\ IF reply[msg[s]] # None
         THEN Wakeup_Locked(reply[msg[s]], "Response")
         ELSE UNCHANGED <<status, wakeup_signal, events, run_queue>>
    /\ UNCHANGED <<stopping, is_swaping_out, wait_events, msg_queue, mask,
                   call, threadVars, stopVars, reply>>

\* Main of a user-thread service returns: UserThreadServiceMain marks the
\* service stopping and leaves what its queue holds.
MainReturns(t) ==
    LET s == current[t] IN
    /\ InUserCode(t)
    /\ loc[s] = "main"
    /\ Die(t, s)
    /\ stopping' = [stopping EXCEPT ![s] = TRUE]

\* Service::Yield is a bare Schedule.
Yield(t) ==
    /\ InUserCode(t)
    /\ current[t] \in Yielders
    /\ pc' = [pc EXCEPT ![t] = "schedule"]
    /\ UNCHANGED <<ctxVars, codeVars, run_queue, current, prev, stopVars,
                   msgVars>>

-----------------------------------------------------------------------------
(* Switching                                                               *)

\* SwitchTo(s, n) on thread t up to the jump; is_swaping_out of a service
\* that blocked is already set, and a thread's IdleService is its own.
SwitchTo(t, n) ==
    LET s == current[t] IN
    /\ is_swaping_out' = IF s = Idle THEN is_swaping_out
                         ELSE [is_swaping_out EXCEPT ![s] = TRUE]
    /\ current' = [current EXCEPT ![t] = n]
    /\ prev' = [prev EXCEPT ![t] = s]
    /\ pc' = [pc EXCEPT ![t] = "resume_prev"]

\* Schedule by a service: the head of the run queue, else the IdleService.
Schedule(t) ==
    /\ pc[t] = "schedule"
    /\ IF run_queue # <<>>
         THEN /\ SwitchTo(t, Head(run_queue))
              /\ run_queue' = Tail(run_queue)
         ELSE /\ SwitchTo(t, Idle)
              /\ UNCHANGED run_queue
    /\ UNCHANGED <<status, stopping, wakeup_signal, wait_events, events,
                   msg_queue, codeVars, stopVars, msgVars>>

\* IdleService::Main schedules while there is work or no interrupt; with an
\* empty run queue Schedule finds the IdleService itself and does nothing.
IdleSchedule(t) ==
    /\ pc[t] = "idle"
    /\ run_queue # <<>>
    /\ SwitchTo(t, Head(run_queue))
    /\ run_queue' = Tail(run_queue)
    /\ UNCHANGED <<status, stopping, wakeup_signal, wait_events, events,
                   msg_queue, codeVars, stopVars, msgVars>>

\* The thread ends through the jump back into ThreadMain.
IdleExit(t) ==
    /\ pc[t] = "idle"
    /\ t \in interrupted
    /\ run_queue = <<>>
    /\ pc' = [pc EXCEPT ![t] = "exited"]
    /\ UNCHANGED <<ctxVars, codeVars, run_queue, current, prev, stopVars,
                   msgVars>>

\* Mutant: does not look at the wakeup signal.
ResumePrevIgnoresSignal(t) ==
    /\ pc[t] = "resume_prev"
    /\ is_swaping_out' = IF prev[t] = Idle THEN is_swaping_out
                         ELSE [is_swaping_out EXCEPT ![prev[t]] = FALSE]
    /\ prev' = [prev EXCEPT ![t] = None]
    /\ pc' = [pc EXCEPT ![t] = "resume_cur"]
    /\ UNCHANGED <<status, stopping, wakeup_signal, wait_events, events,
                   msg_queue, run_queue, codeVars, current, stopVars, msgVars>>

\* OnResume, first half: the switched-out service is complete; if a wakeup
\* came while it was not, it is made ready here.
ResumePrev(t) ==
    LET p == prev[t] IN
    /\ pc[t] = "resume_prev"
    /\ IF p # Idle
         THEN /\ is_swaping_out' = [is_swaping_out EXCEPT ![p] = FALSE]
              /\ IF wakeup_signal[p] /\ status[p] = "Blocked"
                   THEN /\ status' = [status EXCEPT ![p] = "Ready"]
                        /\ run_queue' = Append(run_queue, p)
                   ELSE UNCHANGED <<status, run_queue>>
         ELSE UNCHANGED <<is_swaping_out, status, run_queue>>
    /\ prev' = [prev EXCEPT ![t] = None]
    /\ pc' = [pc EXCEPT ![t] = "resume_cur"]
    /\ UNCHANGED <<stopping, wakeup_signal, wait_events, events, msg_queue,
                   codeVars, current, stopVars, msgVars>>

\* OnResume, second half: the switched-in service runs, where it left off or
\* at the start of its main function.
ResumeCur(t) ==
    LET s == current[t] IN
    /\ pc[t] = "resume_cur"
    /\ IF s # Idle
         THEN /\ wakeup_signal' = [wakeup_signal EXCEPT ![s] = FALSE]
              /\ wait_events' = [wait_events EXCEPT ![s] = {}]
              /\ status' = [status EXCEPT ![s] = "Running"]
              /\ loc' = [loc EXCEPT ![s] =
                           IF @ # "start" THEN @
                           ELSE IF s \in MessageDriven THEN "loop" ELSE "main"]
              /\ pc' = [pc EXCEPT ![t] = "service"]
         ELSE /\ pc' = [pc EXCEPT ![t] = "idle"]
              /\ UNCHANGED <<wakeup_signal, wait_events, status, loc>>
    /\ UNCHANGED <<stopping, is_swaping_out, events, msg_queue, mask, msg,
                   call, run_queue, current, prev, stopVars, msgVars>>

-----------------------------------------------------------------------------
(* System::Stop, called once by a thread outside the system                *)

stopUnchanged == UNCHANGED <<codeVars, threadVars, msgVars, launching>>

StopBegin ==
    /\ stopper = "up"
    /\ LaunchDuringStop \/ launching = {}
    /\ stopper' = "snapshot"
    /\ UNCHANGED <<ctxVars, run_queue, snapshot, interrupted>>
    /\ stopUnchanged

\* StopAllService copies the services_ map ...
StopSnapshot ==
    /\ stopper = "snapshot"
    /\ snapshot' = Registered
    /\ stopper' = "services"
    /\ UNCHANGED <<ctxVars, run_queue, interrupted>>
    /\ stopUnchanged

\* ... and stops what the copy holds, in the map's order, which is any.
StopNext(d) ==
    /\ stopper = "services"
    /\ d \in snapshot
    /\ snapshot' = snapshot \ {d}
    /\ StopOne(d)
    /\ UNCHANGED <<stopper, interrupted>>
    /\ stopUnchanged

\* Mutant: joins the workers before it interrupts them.
StopInterruptAfterJoin(t) ==
    /\ stopper = "services"
    /\ snapshot = {}
    /\ \A u \in Threads : pc[u] = "exited"
    /\ t \notin interrupted
    /\ interrupted' = interrupted \cup {t}
    /\ UNCHANGED <<ctxVars, run_queue, stopper, snapshot>>
    /\ stopUnchanged

StopInterrupt(t) ==
    /\ stopper = "services"
    /\ snapshot = {}
    /\ t \notin interrupted
    /\ interrupted' = interrupted \cup {t}
    /\ UNCHANGED <<ctxVars, run_queue, stopper, snapshot>>
    /\ stopUnchanged

StopJoin ==
    /\ stopper = "services"
    /\ snapshot = {}
    /\ interrupted = Threads
    /\ \A t \in Threads : pc[t] = "exited"
    /\ stopper' = "down"
    /\ UNCHANGED <<ctxVars, run_queue, snapshot, interrupted>>
    /\ stopUnchanged

-----------------------------------------------------------------------------
(* What a worker thread does of itself, and what code it runs does.        *)
LibraryStep(t) ==
    \/ WaitResponse(t) \/ WaitResumed(t)
    \/ PopMessage(t) \/ LoopWait(t) \/ LoopExit(t)
    \/ Schedule(t) \/ IdleSchedule(t) \/ IdleExit(t)
    \/ ResumePrev(t) \/ ResumeCur(t)

UserStep(t) ==
    \/ HandlerReturns(t) \/ MainReturns(t) \/ WaitSignal(t) \/ Yield(t)
    \/ \E m \in Msgs, d \in Services : CallMethod(t, m, d)

\* Calls that a thread outside the system or any running service may make.
CallerStep ==
    \/ \E d \in Signalled : Signal(d) \/ InterruptService(d)
    \/ \E d \in Closable : StopService(d)
    \/ \E s \in Services : LaunchCheck(s) \/ LaunchAdd(s)
    \/ \E m \in Msgs, d \in Destinations : AsyncCallMethod(m, d)

StopStep ==
    \/ StopBegin \/ StopSnapshot \/ StopJoin
    \/ \E d \in Services : StopNext(d)
    \/ \E t \in Threads : StopInterrupt(t)

Next ==
    \/ \E t \in Threads : LibraryStep(t) \/ UserStep(t)
    \/ CallerStep
    \/ StopStep

Spec == Init /\ [][Next]_vars

\* The operating system runs every worker thread; the code a service runs
\* returns after finitely many calls; a caller inside LaunchService or Stop
\* goes on.  Nothing is assumed of signals, interrupts or sends.
Fairness ==
    /\ \A t \in Threads : WF_vars(LibraryStep(t))
    /\ \A s \in Services :
         /\ SF_vars(\E t \in Threads : current[t] = s /\ HandlerReturns(t))
         /\ SF_vars(\E t \in Threads : current[t] = s /\ MainReturns(t))
    /\ WF_vars(StopSnapshot) /\ WF_vars(StopJoin)
    /\ \A d \in Services : WF_vars(StopNext(d)) /\ WF_vars(LaunchAdd(d))
    /\ \A t \in Threads : WF_vars(StopInterrupt(t))

FairSpec == Spec /\ Fairness

-----------------------------------------------------------------------------
(* Properties                                                              *)

Locations == {"start", "loop", "handle", "main", "dead"}
ThreadSteps == {"idle", "schedule", "resume_prev", "resume_cur", "service",
                "exited"}
Outcomes == {"unsent", "queued", "handling", "done", "rejected"}

CtxType ==
    /\ status \in [Services -> Statuses]
    /\ stopping \in [Services -> BOOLEAN]
    /\ wakeup_signal \in [Services -> BOOLEAN]
    /\ is_swaping_out \in [Services -> BOOLEAN]
    /\ wait_events \in [Services -> SUBSET Events]
    /\ events \in [Services -> SUBSET Events]
MailType ==
    /\ msg_queue \in [Services -> Seq(Msgs)]
    /\ mstate \in [Msgs -> Outcomes]
    /\ reply \in [Msgs -> Services \cup {None}]
CodeType ==
    /\ loc \in [Services -> Locations]
    /\ mask \in [Services -> SUBSET Events]
    /\ msg \in [Services -> Msgs \cup {None}]
    /\ call \in [Services -> Msgs \cup {None}]
ThreadType ==
    /\ run_queue \in Seq(Services)
    /\ pc \in [Threads -> ThreadSteps]
    /\ current \in [Threads -> Services \cup {Idle}]
    /\ prev \in [Threads -> Services \cup {Idle, None}]
StopType ==
    /\ launching \subseteq Services
    /\ stopper \in {"up", "snapshot", "services", "down"}
    /\ snapshot \subseteq Services
    /\ interrupted \subseteq Threads

\* Every variable of the contexts, the mail, the services' code, the threads
\* and Stop keeps its type; a thread always has a service to be in.
TypeOK == CtxType /\ MailType /\ CodeType /\ ThreadType /\ StopType

\* A service's context is live on at most one worker thread: no thread jumps
\* into a context that another one is running, or has not finished leaving.
OneThreadPerService ==
    \A t, u \in Threads : t # u =>
        /\ current[t] = current[u] => current[t] = Idle
        /\ current[t] = prev[u] => current[t] = Idle

\* The CHECKs of SwitchTo, Wait_Locked and OnResume hold: a thread leaves a
\* service for another one, finds the one it left marked as swapping out, and
\* finds the one it enters ready and switched out completely.
ResumeChecks ==
    \A t \in Threads :
        /\ pc[t] = "resume_prev" => prev[t] # current[t]
        /\ pc[t] = "resume_prev" /\ prev[t] # Idle => is_swaping_out[prev[t]]
        /\ pc[t] = "resume_cur" /\ current[t] # Idle =>
             ~is_swaping_out[current[t]] /\ status[current[t]] = "Ready"

\* A blocked service that has been sent what it waits for (an event, a
\* message, a stop) is still being switched out and carries the wakeup signal
\* that makes the thread leaving it put it in the run queue.
NoLostWakeup ==
    \A s \in Services : status[s] = "Blocked" =>
        \/ wakeup_signal[s] /\ is_swaping_out[s]
        \/ /\ wait_events[s] \cap events[s] = {}
           /\ "Message" \in wait_events[s] => msg_queue[s] = <<>>
           /\ "ServiceStop" \in wait_events[s] => ~stopping[s]

\* A ready service is where a worker will find it, in the run queue or with
\* the thread that has popped it; and what the run queue holds is ready, there
\* once, and with no thread.
ReadyIsScheduled ==
    /\ \A s \in Services : status[s] = "Ready" =>
         \/ \E i \in DOMAIN run_queue : run_queue[i] = s
         \/ \E t \in Threads : current[t] = s
    /\ \A i \in DOMAIN run_queue :
         /\ status[run_queue[i]] = "Ready"
         /\ \A t \in Threads : current[t] # run_queue[i]
         /\ \A j \in DOMAIN run_queue : run_queue[j] = run_queue[i] => j = i

\* A running service has a thread, unless it called Yield, which gives the
\* thread up without queueing the service.
RunningHasThread ==
    \A s \in Services \ Yielders :
        status[s] = "Running" => \E t \in Threads : current[t] = s

\* A service's status says where it is: with ReadyIsScheduled and
\* RunningHasThread, no wakeup or switch leaves a service that can run where no
\* worker will ever look, or queues one twice.
StatusMatchesSchedule == ReadyIsScheduled /\ RunningHasThread

\* A thread that comes back from Schedule inside Wait_Locked finds an event
\* it waits for: the wait loop's "waked up by" warning is never reached.
NoSpuriousWakeup ==
    \A t \in Threads :
        LET s == current[t] IN
        pc[t] = "service" /\ mask[s] # {} => mask[s] \cap events[s] # {}

\* kResponse is latched only for the call in progress, after its message was
\* handled: CallMethod never returns on the response to an earlier call.
ResponseMatchesCall ==
    \A s \in Services : "Response" \in events[s] =>
        call[s] # None /\ mstate[call[s]] = "done"

\* When Stop has joined the workers, CHECK(run_queue_.empty()) holds, and every
\* launched service has run to its end: no worker left while a service still
\* had to be resumed.
StopRetiresAll ==
    stopper = "down" =>
        /\ run_queue = <<>>
        /\ \A s \in Services : status[s] \in {"Created", "Dead"}

\* A message accepted by SendMessage is handled eventually.
AcceptedIsHandled ==
    \A m \in Msgs : mstate[m] = "queued" ~> mstate[m] = "done"

\* Stop returns: every service finishes and every worker exits.
StopReturns == stopper # "up" ~> stopper = "down"

-----------------------------------------------------------------------------
(* The abstract specification of message-driven services                   *)

\* Reads a service's status as the life of an actor.
Life(s) ==
    CASE status[s] = "Created" -> "absent"
      [] status[s] = "Dead"    -> "dead"
      [] OTHER                 -> "alive"

Mailbox == INSTANCE ActorMailbox WITH
    Actors <- MessageDriven,
    life <- [s \in MessageDriven |-> Life(s)],
    closed <- [s \in MessageDriven |-> stopping[s]],
    inbox <- [s \in MessageDriven |-> msg_queue[s]],
    busy <- [s \in MessageDriven |-> msg[s]],
    outcome <- mstate

\* The scheduler with its main loops implements the actors of ActorMailbox:
\* every step of the library is a step of one actor or changes nothing that
\* callers see.
ImplementsMailbox == Mailbox!Spec

\* ... and, under Fairness, the actors' own fairness: no actor with a message
\* to begin or to finish, or that may retire, is forgotten by the scheduler.
ImplementsFairMailbox == Mailbox!FairSpec
=============================================================================
