-------------------------- MODULE Scheduler_proofs --------------------------
(***************************************************************************)
(* Theorems about Scheduler, for any services, threads and messages.       *)
(*                                                                         *)
(* The inductive invariant SchedInv says who owns a service's context at   *)
(* each step of a switch.  A context belongs to the thread whose `current' *)
(* or `prev' it is, or to the run queue, or to nobody while the service is *)
(* blocked; is_swaping_out is what keeps the last two apart from the first *)
(* while a thread is leaving the context.                                  *)
(***************************************************************************)
EXTENDS Scheduler, TLAPS

-----------------------------------------------------------------------------
(* Type correctness                                                        *)

\* What popping the head of a non-empty queue (run_queue_, msg_queue) leaves.
LEMMA HeadTail ==
    ASSUME NEW S, NEW q \in Seq(S), q # <<>>
    PROVE  /\ Head(q) \in S
           /\ Tail(q) \in Seq(S)
           /\ Len(q) \in Nat /\ Len(q) > 0
           /\ Head(q) = q[1]
           /\ DOMAIN q = 1..Len(q)
           /\ DOMAIN Tail(q) = 1..(Len(q) - 1)
           /\ \A i \in DOMAIN Tail(q) : Tail(q)[i] = q[i + 1] /\ i + 1 \in DOMAIN q
  OBVIOUS

\* Every set of events the code waits for consists of events.
LEMMA EventFacts ==
    /\ LoopEvents \subseteq Events
    /\ SignalEvents \subseteq Events
    /\ {"Response"} \subseteq Events
    /\ {"ServiceStart"} \subseteq Events
  BY DEF LoopEvents, SignalEvents, Events

\* A freshly started system is well typed.
LEMMA TypeInit == Init => TypeOK
  BY DEF Init, TypeOK, CtxType, MailType, CodeType, ThreadType, StopType,
         Statuses, Locations, ThreadSteps, Outcomes

\* Wakeup_Locked keeps the types of what it writes.
LEMMA WakeupType ==
    ASSUME CtxType, ThreadType,
           NEW d \in Services, NEW e \in Events, Wakeup_Locked(d, e)
    PROVE  /\ events' \in [Services -> SUBSET Events]
           /\ wakeup_signal' \in [Services -> BOOLEAN]
           /\ status' \in [Services -> Statuses]
           /\ run_queue' \in Seq(Services)
  <1>1. events' \in [Services -> SUBSET Events]
    BY DEF CtxType, Wakeup_Locked
  <1>2. wakeup_signal' \in [Services -> BOOLEAN]
    BY DEF CtxType, Wakeup_Locked
  <1>3. status' \in [Services -> Statuses]
    BY DEF CtxType, Wakeup_Locked, Statuses
  <1>4. run_queue' \in Seq(Services)
    <2>1. run_queue \in Seq(Services)
      BY DEF ThreadType
    <2>2. Append(run_queue, d) \in Seq(Services)
      BY <2>1
    <2>3. run_queue' = run_queue \/ run_queue' = Append(run_queue, d)
      BY DEF Wakeup_Locked
    <2> QED
      BY <2>1, <2>2, <2>3
  <1> QED
    BY <1>1, <1>2, <1>3, <1>4

\* SendMessage keeps the types of contexts, queues and messages.
LEMMA SendType ==
    ASSUME TypeOK, NEW d \in Services, NEW m \in Msgs, SendMessage(m, d)
    PROVE  /\ CtxType'
           /\ run_queue' \in Seq(Services)
           /\ msg_queue' \in [Services -> Seq(Msgs)]
           /\ mstate' \in [Msgs -> Outcomes]
  <1>1. mstate' \in [Msgs -> Outcomes]
    BY DEF TypeOK, MailType, SendMessage, Outcomes
  <1>2. msg_queue' \in [Services -> Seq(Msgs)]
    <2>1. Append(msg_queue[d], m) \in Seq(Msgs)
      BY DEF TypeOK, MailType
    <2> QED
      BY <2>1 DEF TypeOK, MailType, SendMessage, ctxVars
  <1>3. CASE \/ stopping[d] \/ status[d] = "Created"
             \/ "Message" \notin wait_events[d]
    <2>1. UNCHANGED <<status, stopping, wakeup_signal, is_swaping_out,
                      wait_events, events, run_queue>>
      BY <1>3 DEF SendMessage, ctxVars
    <2> QED
      BY <1>1, <1>2, <2>1 DEF TypeOK, CtxType, ThreadType
  <1>4. CASE /\ ~stopping[d] /\ status[d] # "Created"
             /\ "Message" \in wait_events[d]
    <2>1. Wakeup_Locked(d, "Message") /\ "Message" \in Events
      BY <1>4 DEF SendMessage, Events
    <2> QED
      BY <1>1, <1>2, <1>4, <2>1, WakeupType DEF TypeOK, CtxType, SendMessage
  <1> QED
    BY <1>3, <1>4

\* StopService keeps the types of contexts and leaves the mail alone.
LEMMA StopOneType ==
    ASSUME TypeOK, NEW d \in Services, StopOne(d)
    PROVE  CtxType' /\ run_queue' \in Seq(Services) /\ UNCHANGED msg_queue
  <1>1. CASE stopping[d]
    BY <1>1 DEF TypeOK, CtxType, ThreadType, StopOne, ctxVars
  <1>2. CASE ~stopping[d]
    <2>1. Wakeup_Locked(d, "ServiceStop") /\ "ServiceStop" \in Events
      BY <1>2 DEF StopOne, Events
    <2> QED
      BY <1>2, <2>1, WakeupType DEF TypeOK, CtxType, StopOne
  <1> QED
    BY <1>1, <1>2

\* Wait_Locked, returning or blocking, keeps the types of what it writes.
LEMMA WaitType ==
    ASSUME TypeOK, NEW t \in Threads, NEW s \in Services,
           NEW es \in SUBSET Events,
           Wait_Locked(t, s, es) \/ Block(t, s, es)
    PROVE  /\ status' \in [Services -> Statuses]
           /\ is_swaping_out' \in [Services -> BOOLEAN]
           /\ wait_events' \in [Services -> SUBSET Events]
           /\ events' \in [Services -> SUBSET Events]
           /\ mask' \in [Services -> SUBSET Events]
           /\ call' \in [Services -> Msgs \cup {None}]
           /\ pc' \in [Threads -> ThreadSteps]
  <1> USE DEF TypeOK
  <1>1. CASE Block(t, s, es)
    BY <1>1 DEF CtxType, CodeType, ThreadType, Block, Statuses, ThreadSteps
  <1>2. CASE Wait_Locked(t, s, es) /\ ~Block(t, s, es)
    <2>1. /\ Return(s)
          /\ wait_events' = [wait_events EXCEPT ![s] = {}]
          /\ events' = events \/ events' = [events EXCEPT ![s] = @ \ es]
      BY <1>2 DEF Wait_Locked
    <2>2. /\ mask' \in [Services -> SUBSET Events]
          /\ call' \in [Services -> Msgs \cup {None}]
          /\ UNCHANGED <<status, is_swaping_out, pc>>
      BY <2>1 DEF CodeType, Return
    <2>3. /\ wait_events' \in [Services -> SUBSET Events]
          /\ events' \in [Services -> SUBSET Events]
      BY <2>1 DEF CtxType
    <2> QED
      BY <2>2, <2>3 DEF CtxType, ThreadType
  <1> QED
    BY <1>1, <1>2

\* Where the model names a service or a message, there is one: TypeOK alone
\* does not exclude a thread that runs "no service".
NamesInv ==
    /\ \A t \in Threads :
         /\ pc[t] \in {"schedule", "service"} => current[t] \in Services
         /\ pc[t] = "resume_prev" => prev[t] # None
    /\ \A s \in Services : loc[s] = "handle" => msg[s] \in Msgs

TypeInv == TypeOK /\ NamesInv

\* So does every step of a service that ends in Wait_Locked.
LEMMA WaitStepType ==
    ASSUME TypeInv, NEW t \in Threads, NEW s \in Services, s = current[t],
           NEW es \in SUBSET Events, pc[t] = "service",
           Wait_Locked(t, s, es) \/ Block(t, s, es), waitUnchanged
    PROVE  TypeInv'
  <1> USE DEF TypeInv
  <1>1. UNCHANGED <<stopping, wakeup_signal, msg_queue, loc, msg, run_queue,
                    current, prev, launching, stopper, snapshot, interrupted,
                    mstate, reply>>
    BY DEF waitUnchanged, stopVars, msgVars
  <1>2. TypeOK'
    BY <1>1, WaitType DEF TypeOK, CtxType, MailType, CodeType, ThreadType,
                          StopType
  <1>3. pc' = pc \/ pc' = [pc EXCEPT ![t] = "schedule"]
    BY DEF Wait_Locked, Block, Return
  <1>4. NamesInv'
    BY <1>1, <1>3 DEF NamesInv, TypeOK, ThreadType
  <1> QED
    BY <1>2, <1>4

\* Steps of the library on a worker thread keep the types.
LEMMA TypeLibraryStep ==
    ASSUME TypeInv, NEW t \in Threads, LibraryStep(t)
    PROVE  TypeInv'
  <1> DEFINE s == current[t]
  <1> USE DEF TypeInv
  <1>0. pc[t] \in {"schedule", "service"} => s \in Services
    BY DEF NamesInv
  <1>1. CASE WaitResponse(t)
    BY <1>0, <1>1, WaitStepType, EventFacts DEF WaitResponse
  <1>2. CASE WaitResumed(t)
    <2>1. s \in Services /\ mask[s] \in SUBSET Events
      BY <1>0, <1>2 DEF WaitResumed, TypeOK, CodeType
    <2>2. CASE mask[s] \cap events[s] = {}
      BY <1>2, <2>1, <2>2, WaitStepType DEF WaitResumed
    <2>3. CASE mask[s] \cap events[s] # {}
      <3>1. /\ events' = [events EXCEPT ![s] = events[s] \ mask[s]]
            /\ mask' = [mask EXCEPT ![s] = {}]
            /\ call' = [call EXCEPT ![s] = None]
            /\ UNCHANGED <<status, stopping, wakeup_signal, is_swaping_out,
                           wait_events, msg_queue, loc, msg, run_queue, pc,
                           current, prev, launching, stopper, snapshot,
                           interrupted, mstate, reply>>
        BY <1>2, <2>3
        DEF WaitResumed, Return, waitUnchanged, stopVars, msgVars
      <3>2. CtxType' /\ CodeType'
        BY <2>1, <3>1 DEF TypeOK, CtxType, CodeType
      <3> QED
        BY <3>1, <3>2 DEF TypeOK, MailType, ThreadType, StopType, NamesInv
    <2> QED
      BY <2>2, <2>3
  <1>3. CASE PopMessage(t)
    <2>1. /\ s \in Services /\ loc[s] = "loop" /\ msg_queue[s] # <<>>
          /\ pc[t] = "service"
      BY <1>0, <1>3 DEF PopMessage
    <2>2. Head(msg_queue[s]) \in Msgs /\ Tail(msg_queue[s]) \in Seq(Msgs)
      BY <2>1 DEF TypeOK, MailType
    <2>3. /\ UNCHANGED <<status, stopping, wakeup_signal, is_swaping_out,
                         wait_events, events, mask, call, run_queue, pc,
                         current, prev, launching, stopper, snapshot,
                         interrupted, reply>>
          /\ msg' = [msg EXCEPT ![s] = Head(msg_queue[s])]
          /\ msg_queue' = [msg_queue EXCEPT ![s] = Tail(msg_queue[s])]
          /\ mstate' = [mstate EXCEPT ![Head(msg_queue[s])] = "handling"]
          /\ loc' = [loc EXCEPT ![s] = "handle"]
      BY <1>3 DEF PopMessage, threadVars, stopVars
    <2>4. MailType' /\ CodeType'
      BY <2>1, <2>2, <2>3 DEF TypeOK, MailType, CodeType, Locations, Outcomes
    <2>5. CtxType' /\ ThreadType' /\ StopType'
      BY <2>3 DEF TypeOK, CtxType, ThreadType, StopType
    <2>6. NamesInv'
      BY <2>1, <2>2, <2>3 DEF NamesInv, TypeOK, CodeType
    <2> QED
      BY <2>4, <2>5, <2>6 DEF TypeOK
  <1>4. CASE LoopWait(t)
    <2>1. CASE ~wakeup_signal[s]
      BY <1>0, <1>4, <2>1, WaitStepType, EventFacts DEF LoopWait
    <2>2. CASE wakeup_signal[s]
      <3>1. /\ wakeup_signal' = [wakeup_signal EXCEPT ![s] = FALSE]
            /\ UNCHANGED <<status, stopping, is_swaping_out, wait_events,
                           events, msg_queue, loc, mask, msg, call, run_queue,
                           pc, current, prev, launching, stopper, snapshot,
                           interrupted, mstate, reply>>
        BY <1>4, <2>2
        DEF LoopWait, codeVars, threadVars, stopVars, msgVars
      <3> QED
        BY <3>1 DEF TypeOK, CtxType, MailType, CodeType, ThreadType,
                    StopType, NamesInv
    <2> QED
      BY <2>1, <2>2
  <1>5. CASE LoopExit(t)
    <2>1. s \in Services /\ pc[t] = "service"
      BY <1>0, <1>5 DEF LoopExit
    <2>2. /\ status' = [status EXCEPT ![s] = "Dead"]
          /\ loc' = [loc EXCEPT ![s] = "dead"]
          /\ pc' = [pc EXCEPT ![t] = "schedule"]
          /\ UNCHANGED <<stopping, wakeup_signal, is_swaping_out,
                         wait_events, events, msg_queue, mask, msg, call,
                         run_queue, current, prev, launching, stopper,
                         snapshot, interrupted, mstate, reply>>
      BY <1>5 DEF LoopExit, Die, stopVars, msgVars
    <2> QED
      BY <2>1, <2>2 DEF TypeOK, CtxType, MailType, CodeType, ThreadType,
         StopType, NamesInv, Statuses, Locations, ThreadSteps
  <1>6. CASE Schedule(t) \/ IdleSchedule(t)
    <2>1. PICK n \in Services \cup {Idle} :
             /\ current' = [current EXCEPT ![t] = n]
             /\ prev' = [prev EXCEPT ![t] = s]
             /\ pc' = [pc EXCEPT ![t] = "resume_prev"]
             /\ run_queue' \in Seq(Services)
      <3>1. run_queue # <<>> =>
              Head(run_queue) \in Services /\ Tail(run_queue) \in Seq(Services)
        BY DEF TypeOK, ThreadType
      <3>2. CASE run_queue # <<>>
        BY <1>6, <3>1, <3>2 DEF Schedule, IdleSchedule, SwitchTo
      <3>3. CASE run_queue = <<>>
        BY <1>6, <3>3 DEF Schedule, IdleSchedule, SwitchTo, TypeOK, ThreadType
      <3> QED
        BY <3>2, <3>3
    <2>2. is_swaping_out' \in [Services -> BOOLEAN]
      BY <1>6 DEF Schedule, IdleSchedule, SwitchTo, TypeOK, CtxType
    <2>3. UNCHANGED <<status, stopping, wakeup_signal, wait_events, events,
                      msg_queue, loc, mask, msg, call, launching, stopper,
                      snapshot, interrupted, mstate, reply>>
      BY <1>6 DEF Schedule, IdleSchedule, codeVars, stopVars, msgVars
    <2>4. s \in Services \cup {Idle} /\ s # None
      BY NoneAssumption DEF TypeOK, ThreadType
    <2> QED
      BY <2>1, <2>2, <2>3, <2>4 DEF TypeOK, CtxType, MailType, CodeType,
         ThreadType, StopType, NamesInv, ThreadSteps
  <1>7. CASE IdleExit(t)
    BY <1>7 DEF IdleExit, ctxVars, codeVars, stopVars, msgVars, TypeOK,
       CtxType, MailType, CodeType, ThreadType, StopType, NamesInv,
       ThreadSteps
  <1>8. CASE ResumePrev(t)
    <2> DEFINE p == prev[t]
    <2>1. p \in Services \cup {Idle}
      BY <1>8 DEF ResumePrev, NamesInv, TypeOK, ThreadType
    <2>2. /\ status' \in [Services -> Statuses]
          /\ is_swaping_out' \in [Services -> BOOLEAN]
      BY <1>8, <2>1 DEF ResumePrev, TypeOK, CtxType, Statuses
    <2>3. run_queue' \in Seq(Services)
      <3>1. p \in Services => Append(run_queue, p) \in Seq(Services)
        BY DEF TypeOK, ThreadType
      <3> QED
        BY <1>8, <2>1, <3>1 DEF ResumePrev, TypeOK, ThreadType
    <2>4. /\ prev' = [prev EXCEPT ![t] = None]
          /\ pc' = [pc EXCEPT ![t] = "resume_cur"]
          /\ UNCHANGED <<stopping, wakeup_signal, wait_events, events,
                         msg_queue, loc, mask, msg, call, current, launching,
                         stopper, snapshot, interrupted, mstate, reply>>
      BY <1>8 DEF ResumePrev, codeVars, stopVars, msgVars
    <2> QED
      BY <2>2, <2>3, <2>4 DEF TypeOK, CtxType, MailType, CodeType,
         ThreadType, StopType, NamesInv, ThreadSteps
  <1>9. CASE ResumeCur(t)
    <2>1. /\ wakeup_signal' \in [Services -> BOOLEAN]
          /\ wait_events' \in [Services -> SUBSET Events]
          /\ status' \in [Services -> Statuses]
      BY <1>9 DEF ResumeCur, TypeOK, CtxType, Statuses
    <2>2. loc' \in [Services -> Locations]
      BY <1>9 DEF ResumeCur, TypeOK, CodeType, Locations
    <2>3. \A x \in Services : loc'[x] = "handle" => loc[x] = "handle"
      BY <1>9 DEF ResumeCur, TypeOK, CodeType, Locations
    <2>4. UNCHANGED <<stopping, is_swaping_out, events, msg_queue, mask, msg,
                      call, run_queue, current, prev, launching, stopper,
                      snapshot, interrupted, mstate, reply>>
      BY <1>9 DEF ResumeCur, stopVars, msgVars
    <2>5. \/ s \in Services /\ pc' = [pc EXCEPT ![t] = "service"]
          \/ pc' = [pc EXCEPT ![t] = "idle"]
      BY <1>9 DEF ResumeCur, TypeOK, ThreadType
    <2> QED
      BY <2>1, <2>2, <2>3, <2>4, <2>5 DEF TypeOK, CtxType, MailType,
         CodeType, ThreadType, StopType, NamesInv, ThreadSteps
  <1> QED
    BY <1>1, <1>2, <1>3, <1>4, <1>5, <1>6, <1>7, <1>8, <1>9 DEF LibraryStep

\* Steps of the code of a service keep the types.
LEMMA TypeUserStep ==
    ASSUME TypeInv, NEW t \in Threads, UserStep(t)
    PROVE  TypeInv'
  <1> DEFINE s == current[t]
  <1> USE DEF TypeInv
  <1>0. InUserCode(t)
    BY DEF UserStep, HandlerReturns, MainReturns, WaitSignal, Yield, CallMethod
  <1>s. s \in Services /\ pc[t] = "service" /\ loc[s] \in {"handle", "main"}
    BY <1>0 DEF InUserCode, NamesInv
  <1>1. CASE HandlerReturns(t)
    <2>1. msg[s] \in Msgs
      BY <1>1, <1>s DEF HandlerReturns, NamesInv
    <2>2. /\ wakeup_signal' \in [Services -> BOOLEAN]
          /\ events' \in [Services -> SUBSET Events]
          /\ status' \in [Services -> Statuses]
          /\ run_queue' \in Seq(Services)
      <3>1. CASE reply[msg[s]] = None
        BY <1>1, <3>1 DEF HandlerReturns, TypeOK, CtxType, ThreadType
      <3>2. CASE reply[msg[s]] # None
        <4>1. reply[msg[s]] \in Services /\ "Response" \in Events
          BY <2>1, <3>2 DEF TypeOK, MailType, Events
        <4> QED
          BY <1>1, <3>2, <4>1, WakeupType DEF HandlerReturns, TypeOK
      <3> QED
        BY <3>1, <3>2
    <2>3. /\ loc' = [loc EXCEPT ![s] = "loop"]
          /\ msg' = [msg EXCEPT ![s] = None]
          /\ mstate' = [mstate EXCEPT ![msg[s]] = "done"]
          /\ UNCHANGED <<stopping, is_swaping_out, wait_events, msg_queue,
                         mask, call, pc, current, prev, launching, stopper,
                         snapshot, interrupted, reply>>
      BY <1>1 DEF HandlerReturns, threadVars, stopVars
    <2>4. CodeType' /\ MailType'
      BY <2>1, <2>3 DEF TypeOK, CodeType, MailType, Locations, Outcomes
    <2>5. CtxType' /\ ThreadType' /\ StopType'
      BY <2>2, <2>3 DEF TypeOK, CtxType, ThreadType, StopType
    <2>6. NamesInv'
      BY <1>s, <2>3 DEF NamesInv, TypeOK, CodeType
    <2> QED
      BY <2>4, <2>5, <2>6 DEF TypeOK
  <1>2. CASE MainReturns(t)
    <2>1. /\ status' = [status EXCEPT ![s] = "Dead"]
          /\ stopping' = [stopping EXCEPT ![s] = TRUE]
          /\ loc' = [loc EXCEPT ![s] = "dead"]
          /\ pc' = [pc EXCEPT ![t] = "schedule"]
          /\ UNCHANGED <<wakeup_signal, is_swaping_out, wait_events, events,
                         msg_queue, mask, msg, call, run_queue, current, prev,
                         launching, stopper, snapshot, interrupted, mstate,
                         reply>>
      BY <1>2 DEF MainReturns, Die, stopVars, msgVars
    <2> QED
      BY <1>s, <2>1 DEF TypeOK, CtxType, MailType, CodeType, ThreadType,
         StopType, NamesInv, Statuses, Locations, ThreadSteps
  <1>3. CASE WaitSignal(t)
    BY <1>3, <1>s, WaitStepType, EventFacts DEF WaitSignal
  <1>4. CASE Yield(t)
    BY <1>4, <1>s DEF Yield, ctxVars, codeVars, stopVars, msgVars, TypeOK,
       CtxType, MailType, CodeType, ThreadType, StopType, NamesInv,
       ThreadSteps
  <1>5. ASSUME NEW m \in Msgs, NEW d \in Services, CallMethod(t, m, d)
        PROVE  TypeInv'
    <2>1. SendMessage(m, d)
      BY <1>5 DEF CallMethod
    <2>2. /\ call' \in [Services -> Msgs \cup {None}]
          /\ reply' \in [Msgs -> Services \cup {None}]
      BY <1>5, <1>s DEF CallMethod, TypeOK, CodeType, MailType
    <2>3. UNCHANGED <<loc, mask, msg, pc, current, prev, launching, stopper,
                      snapshot, interrupted>>
      BY <1>5 DEF CallMethod, threadVars, stopVars
    <2> QED
      BY <2>1, <2>2, <2>3, SendType DEF TypeOK, MailType, CodeType,
         ThreadType, StopType, NamesInv
  <1> QED
    BY <1>1, <1>2, <1>3, <1>4, <1>5 DEF UserStep

\* Calls from anywhere, and the steps of Stop, keep the types.
LEMMA TypeOtherStep ==
    ASSUME TypeInv, CallerStep \/ StopStep
    PROVE  TypeInv'
  <1> USE DEF TypeInv
  <1>1. ASSUME NEW d \in Services, NEW e \in Events, WakeUp(d, e)
        PROVE  TypeInv'
    <2>1. UNCHANGED <<stopping, is_swaping_out, wait_events, msg_queue, loc,
                      mask, msg, call, pc, current, prev, launching, stopper,
                      snapshot, interrupted, mstate, reply>>
      BY <1>1 DEF WakeUp, codeVars, threadVars, stopVars, msgVars
    <2>2. Wakeup_Locked(d, e)
      BY <1>1 DEF WakeUp
    <2> QED
      BY <2>1, <2>2, WakeupType DEF TypeOK, CtxType, MailType, CodeType,
         ThreadType, StopType, NamesInv
  <1>2. ASSUME NEW d \in Services, StopService(d) \/ StopNext(d)
        PROVE  TypeInv'
    <2>1. /\ UNCHANGED <<loc, mask, msg, call, pc, current, prev, launching,
                         stopper, interrupted, mstate, reply>>
          /\ snapshot' \subseteq snapshot
      BY <1>2 DEF StopService, StopNext, stopUnchanged, codeVars, threadVars,
                  stopVars, msgVars
    <2>2. StopOne(d)
      BY <1>2 DEF StopService, StopNext
    <2> QED
      BY <2>1, <2>2, StopOneType DEF TypeOK, MailType, CodeType, ThreadType,
         StopType, NamesInv
  <1>3. ASSUME NEW d \in Services, LaunchCheck(d)
        PROVE  TypeInv'
    BY <1>3 DEF LaunchCheck, ctxVars, codeVars, threadVars, msgVars, TypeOK,
       CtxType, MailType, CodeType, ThreadType, StopType, NamesInv
  <1>4. ASSUME NEW d \in Services, LaunchAdd(d)
        PROVE  TypeInv'
    <2>1. /\ UNCHANGED <<stopping, is_swaping_out, msg_queue, loc, mask, msg,
                         call, pc, current, prev, stopper, snapshot,
                         interrupted, mstate, reply>>
          /\ launching' \subseteq launching
      BY <1>4 DEF LaunchAdd, codeVars, threadVars, msgVars
    <2>2. /\ status' \in [Services -> Statuses]
          /\ wait_events' \in [Services -> SUBSET Events]
          /\ events' \in [Services -> SUBSET Events]
          /\ wakeup_signal' \in [Services -> BOOLEAN]
      <3>1. CASE d \in MessageDriven
        BY <1>4, <3>1, EventFacts DEF LaunchAdd, TypeOK, CtxType, Statuses
      <3>2. CASE d \notin MessageDriven
        <4>1. /\ status' = [status EXCEPT ![d] = "Ready"]
              /\ wait_events' = [wait_events EXCEPT ![d] = {"ServiceStart"}]
              /\ events' = [events EXCEPT ![d] =
                              events[d] \cup {"ServiceStart"}]
              /\ wakeup_signal' = [wakeup_signal EXCEPT ![d] = TRUE]
          BY <1>4, <3>2 DEF LaunchAdd
        <4> QED
          BY <4>1, EventFacts DEF TypeOK, CtxType, Statuses
      <3> QED
        BY <3>1, <3>2
    <2>3. run_queue' \in Seq(Services)
      <3>1. Append(run_queue, d) \in Seq(Services)
        BY DEF TypeOK, ThreadType
      <3> QED
        BY <1>4, <3>1 DEF LaunchAdd, TypeOK, ThreadType
    <2> QED
      BY <2>1, <2>2, <2>3 DEF TypeOK, CtxType, MailType, CodeType,
         ThreadType, StopType, NamesInv
  <1>5. ASSUME NEW m \in Msgs, NEW d \in Services, AsyncCallMethod(m, d)
        PROVE  TypeInv'
    <2>1. /\ UNCHANGED <<loc, mask, msg, call, pc, current, prev, launching,
                         stopper, snapshot, interrupted, reply>>
          /\ SendMessage(m, d)
      BY <1>5 DEF AsyncCallMethod, codeVars, threadVars, stopVars
    <2> QED
      BY <2>1, SendType DEF TypeOK, MailType, CodeType, ThreadType, StopType,
         NamesInv
  <1>6. CASE StopBegin \/ StopSnapshot \/ StopJoin
             \/ \E t \in Threads : StopInterrupt(t)
    <2>1. /\ UNCHANGED <<status, stopping, wakeup_signal, is_swaping_out,
                         wait_events, events, msg_queue, run_queue, loc, mask,
                         msg, call, pc, current, prev, launching, mstate,
                         reply>>
          /\ StopType'
      BY <1>6 DEF StopBegin, StopSnapshot, StopJoin, StopInterrupt,
         stopUnchanged, ctxVars, codeVars, threadVars, msgVars, Registered,
         TypeOK, StopType
    <2> QED
      BY <2>1 DEF TypeOK, CtxType, MailType, CodeType, ThreadType, NamesInv
  <1>7. "Signal" \in Events /\ "Interrupt" \in Events
    BY DEF Events
  <1> QED
    BY <1>1, <1>2, <1>3, <1>4, <1>5, <1>6, <1>7, SetsAssumption
    DEF CallerStep, StopStep, Signal, InterruptService

\* Type correctness, and that every name in use is one.
THEOREM TypeCorrect == Spec => []TypeInv
  <1>1. Init => TypeInv
    <2> SUFFICES ASSUME Init PROVE TypeInv
      OBVIOUS
    <2> QED
      BY TypeInit DEF Init, TypeInv, NamesInv
  <1>2. TypeInv /\ [Next]_vars => TypeInv'
    <2> SUFFICES ASSUME TypeInv, [Next]_vars PROVE TypeInv'
      OBVIOUS
    <2>1. CASE UNCHANGED vars
      BY <2>1 DEF vars, ctxVars, codeVars, threadVars, stopVars, msgVars,
         TypeInv, TypeOK, CtxType, MailType, CodeType, ThreadType, StopType,
         NamesInv
    <2> QED
      BY <2>1, TypeLibraryStep, TypeUserStep, TypeOtherStep DEF Next
  <1> QED
    BY <1>1, <1>2, PTL DEF Spec

-----------------------------------------------------------------------------
(* The scheduling invariant                                                *)

\* What a thread's program counter says of the services it holds.
ThreadOK(t) ==
    /\ pc[t] \in {"idle", "exited"} => current[t] = Idle
    /\ pc[t] # "resume_prev" => prev[t] = None
    /\ pc[t] = "schedule" =>
         \/ status[current[t]] = "Blocked" /\ is_swaping_out[current[t]]
         \/ status[current[t]] = "Dead"
         \/ status[current[t]] = "Running" /\ current[t] \in Yielders
    /\ pc[t] = "service" =>
         status[current[t]] = "Running" /\ ~is_swaping_out[current[t]]
    /\ pc[t] \in {"resume_prev", "resume_cur"} /\ current[t] # Idle =>
         status[current[t]] = "Ready" /\ ~is_swaping_out[current[t]]
    /\ pc[t] = "resume_prev" => prev[t] # current[t]
    /\ pc[t] = "resume_prev" /\ prev[t] # Idle =>
         /\ is_swaping_out[prev[t]]
         /\ \/ status[prev[t]] \in {"Blocked", "Dead"}
            \/ status[prev[t]] = "Running" /\ prev[t] \in Yielders

ThreadInv == \A t \in Threads : ThreadOK(t)

\* No two threads hold the same service.
OwnerInv ==
    \A t, u \in Threads : t # u =>
        /\ current[t] = current[u] => current[t] = Idle
        /\ current[t] = prev[u] => current[t] = Idle
        /\ prev[t] = prev[u] => prev[t] \in {Idle, None}

\* The run queue holds ready services, completely switched out, each once,
\* and none that a thread holds.
QueueInv ==
    \A i \in DOMAIN run_queue :
        /\ status[run_queue[i]] = "Ready"
        /\ ~is_swaping_out[run_queue[i]]
        /\ \A t \in Threads : current[t] # run_queue[i]
        /\ \A j \in DOMAIN run_queue : run_queue[j] = run_queue[i] => j = i

\* A ready service is queued or about to be resumed; a running one is on a
\* thread unless it yielded.
PlaceInv ==
    \A s \in Services :
        /\ status[s] = "Ready" =>
             \/ \E i \in DOMAIN run_queue : run_queue[i] = s
             \/ \E t \in Threads : current[t] = s
        /\ status[s] = "Running" /\ s \notin Yielders =>
             \E t \in Threads : current[t] = s

\* Only a blocked or a ready service waits for anything.
QuietInv ==
    \A s \in Services : status[s] \in {"Created", "Running", "Dead"} =>
        wait_events[s] = {} /\ ~wakeup_signal[s]

\* Nothing happens to a service before it is registered.
FreshInv ==
    /\ \A s \in Services : status[s] = "Created" =>
         /\ ~stopping[s] /\ ~is_swaping_out[s]
         /\ events[s] = {} /\ mask[s] = {} /\ msg_queue[s] = <<>>
    /\ \A s \in launching : status[s] = "Created"
    /\ \A s \in snapshot : status[s] # "Created"
    /\ \A m \in Msgs : reply[m] # None => status[reply[m]] # "Created"

\* A service in Wait_Locked is blocked on what it waits for, or has it.
MaskInv ==
    \A s \in Services : mask[s] # {} =>
        \/ status[s] = "Blocked" /\ wait_events[s] = mask[s]
        \/ status[s] \in {"Ready", "Running"} /\ mask[s] \cap events[s] # {}

\* The wakeup signal of a blocked service has a reason.
ReasonInv ==
    \A s \in Services : status[s] = "Blocked" /\ wakeup_signal[s] =>
        wait_events[s] \cap events[s] # {}

SchedInv ==
    /\ ThreadInv /\ OwnerInv /\ QueueInv /\ PlaceInv /\ QuietInv
    /\ FreshInv /\ MaskInv /\ ReasonInv /\ NoLostWakeup

\* The condition under which Wakeup_Locked queues the service.
Woken(d, e) ==
    e \in wait_events[d] /\ ~is_swaping_out[d] /\ status[d] = "Blocked"

\* What a wakeup changes, in the form the proofs below use.
LEMMA WakeupEffect ==
    ASSUME TypeInv, NEW d \in Services, NEW e \in Events, Wakeup_Locked(d, e)
    PROVE  /\ events' = [events EXCEPT ![d] = events[d] \cup {e}]
           /\ wakeup_signal' = [wakeup_signal EXCEPT
                                  ![d] = wakeup_signal[d] \/ e \in wait_events[d]]
           /\ Woken(d, e) => /\ status' = [status EXCEPT ![d] = "Ready"]
                             /\ run_queue' = Append(run_queue, d)
           /\ ~Woken(d, e) => status' = status /\ run_queue' = run_queue
  BY DEF Wakeup_Locked, Woken

\* A blocked service that is not being switched out is held by no thread.
LEMMA BlockedIsFree ==
    ASSUME TypeInv, ThreadInv, NEW d \in Services,
           status[d] = "Blocked", ~is_swaping_out[d]
    PROVE  \A t \in Threads : current[t] # d /\ prev[t] # d
  <1> SUFFICES ASSUME NEW t \in Threads
               PROVE  current[t] # d /\ prev[t] # d
    OBVIOUS
  <1>1. d # Idle /\ d # None /\ pc[t] \in ThreadSteps
    BY IdleAssumption, NoneAssumption DEF TypeInv, TypeOK, ThreadType
  <1> QED
    BY <1>1 DEF ThreadInv, ThreadOK, ThreadSteps

\* Queueing a service that no thread holds, as LaunchService, Wakeup_Locked
\* and OnResume do.
LEMMA QueueStep ==
    ASSUME TypeInv, QueueInv, PlaceInv, NEW d \in Services,
           status[d] # "Ready", ~(is_swaping_out'[d]),
           \A x \in Services : is_swaping_out'[x] => is_swaping_out[x],
           \A t \in Threads : current[t] # d,
           status' = [status EXCEPT ![d] = "Ready"],
           run_queue' = Append(run_queue, d),
           UNCHANGED current
    PROVE  QueueInv' /\ PlaceInv'
  <1>1. /\ run_queue \in Seq(Services) /\ Len(run_queue) \in Nat
        /\ DOMAIN run_queue = 1..Len(run_queue)
        /\ DOMAIN run_queue' = 1..(Len(run_queue) + 1)
        /\ run_queue'[Len(run_queue) + 1] = d
        /\ \A i \in 1..Len(run_queue) : run_queue'[i] = run_queue[i]
        /\ \A i \in 1..Len(run_queue) : run_queue[i] \in Services
    BY DEF TypeInv, TypeOK, ThreadType
  <1>2. \A i \in 1..Len(run_queue) : run_queue[i] # d
    BY <1>1 DEF QueueInv
  <1>3. status \in [Services -> Statuses]
    BY DEF TypeInv, TypeOK, CtxType
  <1>4. QueueInv'
    <2> SUFFICES ASSUME NEW i \in 1..(Len(run_queue) + 1)
                 PROVE  /\ status'[run_queue'[i]] = "Ready"
                        /\ ~(is_swaping_out'[run_queue'[i]])
                        /\ \A t \in Threads : current'[t] # run_queue'[i]
                        /\ \A j \in 1..(Len(run_queue) + 1) :
                             run_queue'[j] = run_queue'[i] => j = i
      BY <1>1 DEF QueueInv
    <2>1. CASE i = Len(run_queue) + 1
      BY <1>1, <1>2, <1>3, <2>1
    <2>2. CASE i \in 1..Len(run_queue)
      <3>1. /\ run_queue'[i] = run_queue[i] /\ run_queue[i] # d
            /\ run_queue[i] \in Services /\ i \in DOMAIN run_queue
        BY <1>1, <1>2, <2>2
      <3>2. /\ status[run_queue[i]] = "Ready"
            /\ ~is_swaping_out[run_queue[i]]
            /\ \A t \in Threads : current[t] # run_queue[i]
            /\ \A j \in 1..Len(run_queue) : run_queue[j] = run_queue[i] => j = i
        BY <1>1, <3>1 DEF QueueInv
      <3>3. \A j \in 1..(Len(run_queue) + 1) :
              run_queue'[j] = run_queue'[i] => j = i
        BY <1>1, <3>1, <3>2
      <3> QED
        BY <1>3, <3>1, <3>2, <3>3
    <2> QED
      BY <1>1, <2>1, <2>2
  <1>5. PlaceInv'
    <2>1. ASSUME NEW s \in Services, status'[s] = "Ready"
          PROVE  \/ \E i \in DOMAIN run_queue' : run_queue'[i] = s
                 \/ \E t \in Threads : current'[t] = s
      <3>1. CASE s = d
        BY <1>1, <3>1
      <3>2. CASE s # d
        BY <1>1, <1>3, <2>1, <3>2 DEF PlaceInv
      <3> QED
        BY <3>1, <3>2
    <2>2. ASSUME NEW s \in Services, status'[s] = "Running", s \notin Yielders
          PROVE  \E t \in Threads : current'[t] = s
      BY <1>3, <2>2 DEF PlaceInv
    <2> QED
      BY <2>1, <2>2 DEF PlaceInv
  <1> QED
    BY <1>4, <1>5

\* Wakeup_Locked on a launched service keeps who owns which context: it queues
\* only a service that is blocked and completely switched out, and otherwise
\* leaves the signal for the thread that is leaving it.
LEMMA WakeupSched ==
    ASSUME TypeInv, SchedInv, NEW d \in Services, NEW e \in Events,
           status[d] # "Created", Wakeup_Locked(d, e),
           UNCHANGED <<is_swaping_out, wait_events, mask, pc, current, prev>>
    PROVE  /\ ThreadInv' /\ OwnerInv' /\ QueueInv' /\ PlaceInv'
           /\ QuietInv' /\ MaskInv' /\ ReasonInv'
           /\ \A s \in Services :
                /\ status'[s] = "Blocked" => status[s] = "Blocked"
                /\ status'[s] = "Created" <=> status[s] = "Created"
                /\ wakeup_signal[s] => wakeup_signal'[s]
                /\ s # d => events'[s] = events[s]
           /\ events'[d] = events[d] \cup {e}
           /\ status'[d] = "Blocked" /\ e \in wait_events[d] =>
                wakeup_signal'[d] /\ is_swaping_out[d]
  <1>1. /\ status \in [Services -> Statuses]
        /\ wakeup_signal \in [Services -> BOOLEAN]
        /\ events \in [Services -> SUBSET Events]
        /\ wait_events \in [Services -> SUBSET Events]
        /\ mask \in [Services -> SUBSET Events]
    BY DEF TypeInv, TypeOK, CtxType, CodeType
  <1>2. OwnerInv'
    BY DEF SchedInv, OwnerInv
  <1>3. CASE ~Woken(d, e)
    <2>1. /\ UNCHANGED <<status, run_queue>>
          /\ events' = [events EXCEPT ![d] = events[d] \cup {e}]
          /\ wakeup_signal' = [wakeup_signal EXCEPT
                                 ![d] = wakeup_signal[d] \/ e \in wait_events[d]]
      BY <1>3, WakeupEffect
    <2>2. ThreadInv' /\ QueueInv' /\ PlaceInv'
      BY <2>1 DEF SchedInv, ThreadInv, ThreadOK, QueueInv, PlaceInv
    <2>3. QuietInv' /\ MaskInv' /\ ReasonInv'
      BY <1>1, <2>1 DEF SchedInv, QuietInv, MaskInv, ReasonInv
    <2> QED
      BY <1>1, <1>2, <1>3, <2>1, <2>2, <2>3 DEF Woken
  <1>4. CASE Woken(d, e)
    <2>1. /\ status' = [status EXCEPT ![d] = "Ready"]
          /\ run_queue' = Append(run_queue, d)
          /\ events' = [events EXCEPT ![d] = events[d] \cup {e}]
          /\ wakeup_signal' = [wakeup_signal EXCEPT
                                 ![d] = wakeup_signal[d] \/ e \in wait_events[d]]
          /\ e \in wait_events[d] /\ ~is_swaping_out[d]
          /\ status[d] = "Blocked"
      BY <1>4, WakeupEffect DEF Woken
    <2>2. \A t \in Threads : current[t] # d /\ prev[t] # d
      BY <2>1, BlockedIsFree DEF SchedInv
    <2>3. QueueInv' /\ PlaceInv'
      <3>1. status[d] # "Ready" /\ ~(is_swaping_out'[d])
        BY <2>1
      <3> QED
        BY <2>1, <2>2, <3>1, QueueStep DEF SchedInv
    <2>4. ThreadInv'
      BY <1>1, <2>1, <2>2 DEF SchedInv, ThreadInv, ThreadOK
    <2>5. QuietInv' /\ MaskInv' /\ ReasonInv'
      BY <1>1, <2>1 DEF SchedInv, QuietInv, MaskInv, ReasonInv
    <2> QED
      BY <1>1, <1>2, <2>1, <2>3, <2>4, <2>5
  <1> QED
    BY <1>3, <1>4

\* A step names no unlaunched service as one to reply to.
RepliesKnown ==
    \A x \in Msgs : reply'[x] # None =>
        \/ reply'[x] = reply[x]
        \/ reply'[x] \in Services /\ status[reply'[x]] # "Created"

\* A wakeup, with what else its caller does, disturbs no unlaunched service.
LEMMA WakeupFresh ==
    ASSUME TypeInv, SchedInv, NEW d \in Services, NEW e \in Events,
           status[d] # "Created", Wakeup_Locked(d, e),
           UNCHANGED <<is_swaping_out, wait_events, mask, pc, current, prev,
                       launching>>,
           snapshot' \subseteq snapshot,
           \A s \in Services : s # d =>
               stopping'[s] = stopping[s] /\ msg_queue'[s] = msg_queue[s],
           RepliesKnown
    PROVE  FreshInv'
  <1>1. /\ launching \subseteq Services /\ snapshot \subseteq Services
        /\ \A x \in Msgs : reply[x] # None => reply[x] \in Services
    BY DEF TypeInv, TypeOK, MailType, StopType
  <1>2. \A s \in Services :
          /\ status'[s] = "Created" <=> status[s] = "Created"
          /\ s # d => events'[s] = events[s]
    BY WakeupSched
  <1>3. \A s \in Services : status'[s] = "Created" =>
          /\ ~(stopping'[s]) /\ ~(is_swaping_out'[s])
          /\ events'[s] = {} /\ mask'[s] = {} /\ msg_queue'[s] = <<>>
    BY <1>2 DEF SchedInv, FreshInv
  <1>4. /\ \A s \in launching' : status'[s] = "Created"
        /\ \A s \in snapshot' : status'[s] # "Created"
    BY <1>1, <1>2 DEF SchedInv, FreshInv
  <1>5. \A x \in Msgs : reply'[x] # None => status'[reply'[x]] # "Created"
    BY <1>1, <1>2 DEF RepliesKnown, SchedInv, FreshInv
  <1> QED
    BY <1>3, <1>4, <1>5 DEF FreshInv

\* WakeUp and Signal keep the ownership of contexts.
LEMMA WakeUpSched ==
    ASSUME TypeInv, SchedInv, NEW d \in Services, NEW e \in Events,
           WakeUp(d, e)
    PROVE  SchedInv'
  <1>1. /\ Wakeup_Locked(d, e) /\ status[d] # "Created"
        /\ UNCHANGED <<stopping, is_swaping_out, wait_events, msg_queue, mask,
                       pc, current, prev, launching, snapshot, reply>>
    BY DEF WakeUp, GrabService, codeVars, threadVars, stopVars, msgVars
  <1>2. FreshInv'
    BY <1>1, WakeupFresh DEF SchedInv, RepliesKnown
  <1>3. NoLostWakeup'
    BY <1>1, WakeupSched DEF SchedInv, NoLostWakeup
  <1> QED
    BY <1>1, <1>2, <1>3, WakeupSched DEF SchedInv

\* Stopping a service keeps it: a service that waits for the stop is woken.
LEMMA StopOneSched ==
    ASSUME TypeInv, SchedInv, NEW d \in Services, status[d] # "Created",
           StopOne(d), snapshot' \subseteq snapshot,
           UNCHANGED <<mask, pc, current, prev, launching, reply>>
    PROVE  SchedInv'
  <1>1. CASE stopping[d]
    BY <1>1 DEF StopOne, ctxVars, SchedInv, ThreadInv, ThreadOK, OwnerInv, QueueInv,
       PlaceInv, QuietInv, FreshInv, MaskInv, ReasonInv, NoLostWakeup
  <1>2. CASE ~stopping[d]
    <2>1. /\ Wakeup_Locked(d, "ServiceStop") /\ "ServiceStop" \in Events
          /\ stopping' = [stopping EXCEPT ![d] = TRUE]
          /\ UNCHANGED <<is_swaping_out, wait_events, msg_queue>>
      BY <1>2 DEF StopOne, Events
    <2>2. stopping \in [Services -> BOOLEAN]
      BY DEF TypeInv, TypeOK, CtxType
    <2>3. FreshInv'
      BY <2>1, <2>2, WakeupFresh DEF SchedInv, RepliesKnown
    <2>4. NoLostWakeup'
      BY <2>1, <2>2, WakeupSched DEF SchedInv, NoLostWakeup
    <2> QED
      BY <2>1, <2>3, <2>4, WakeupSched DEF SchedInv
  <1> QED
    BY <1>1, <1>2

\* SendMessage keeps it: a service that waits for mail is woken by it.
LEMMA SendSched ==
    ASSUME TypeInv, SchedInv, NEW d \in Services, NEW m \in Msgs,
           status[d] # "Created", SendMessage(m, d),
           RepliesKnown,
           UNCHANGED <<mask, pc, current, prev, launching, snapshot>>
    PROVE  SchedInv'
  <1>1. CASE stopping[d] \/ "Message" \notin wait_events[d]
    <2>1. /\ UNCHANGED <<status, stopping, wakeup_signal, is_swaping_out,
                         wait_events, events, run_queue>>
          /\ \/ msg_queue' = msg_queue
             \/ msg_queue' = [msg_queue EXCEPT ![d] = Append(msg_queue[d], m)]
                /\ "Message" \notin wait_events[d]
      BY <1>1 DEF SendMessage, ctxVars
    <2>2. \A s \in Services : s # d => msg_queue'[s] = msg_queue[s]
      BY <2>1 DEF TypeInv, TypeOK, MailType
    <2>3. FreshInv'
      BY <2>1, <2>2 DEF SchedInv, FreshInv, RepliesKnown, TypeInv, TypeOK,
                        MailType
    <2>4. NoLostWakeup'
      BY <2>1, <2>2 DEF SchedInv, NoLostWakeup
    <2> QED
      BY <2>1, <2>3, <2>4 DEF SchedInv, ThreadInv, ThreadOK, OwnerInv, QueueInv,
         PlaceInv, QuietInv, MaskInv, ReasonInv
  <1>2. CASE ~stopping[d] /\ "Message" \in wait_events[d]
    <2>1. /\ Wakeup_Locked(d, "Message") /\ "Message" \in Events
          /\ msg_queue' = [msg_queue EXCEPT ![d] = Append(msg_queue[d], m)]
          /\ UNCHANGED <<stopping, is_swaping_out, wait_events>>
      BY <1>2 DEF SendMessage, Events
    <2>2. \A s \in Services : s # d => msg_queue'[s] = msg_queue[s]
      BY <2>1 DEF TypeInv, TypeOK, MailType
    <2>3. FreshInv'
      BY <2>1, <2>2, WakeupFresh DEF SchedInv
    <2>4. NoLostWakeup'
      BY <1>2, <2>1, <2>2, WakeupSched DEF SchedInv, NoLostWakeup
    <2> QED
      BY <2>1, <2>3, <2>4, WakeupSched DEF SchedInv
  <1> QED
    BY <1>1, <1>2

\* A step that moves no service.
FrameStep ==
    /\ UNCHANGED <<status, stopping, wakeup_signal, is_swaping_out,
                   wait_events, events, mask, run_queue, current, prev, reply>>
    /\ \A t \in Threads :
         pc'[t] = pc[t] \/ (pc[t] = "idle" /\ pc'[t] = "exited")
    /\ \A s \in Services : msg_queue[s] = <<>> => msg_queue'[s] = <<>>
    /\ \A s \in launching' : status[s] = "Created"
    /\ \A s \in snapshot' : status[s] # "Created"

\* A step that touches no context, queue or thread keeps it.
LEMMA FrameSched ==
    ASSUME TypeInv, SchedInv, FrameStep
    PROVE  SchedInv'
  <1>1. ThreadInv'
    BY DEF FrameStep, SchedInv, ThreadInv, ThreadOK
  <1>2. OwnerInv' /\ QueueInv' /\ PlaceInv' /\ QuietInv' /\ MaskInv' /\ ReasonInv'
    BY DEF FrameStep, SchedInv, OwnerInv, QueueInv, PlaceInv, QuietInv, MaskInv, ReasonInv
  <1>3. FreshInv' /\ NoLostWakeup'
    BY DEF FrameStep, SchedInv, FreshInv, NoLostWakeup
  <1> QED
    BY <1>1, <1>2, <1>3 DEF SchedInv

\* LaunchService puts a new service in one place, the run queue or blocked.
LEMMA LaunchAddSched ==
    ASSUME TypeInv, SchedInv, NEW d \in Services, LaunchAdd(d)
    PROVE  SchedInv'
  <1>1. /\ d \in launching /\ launching' = launching \ {d}
        /\ UNCHANGED <<stopping, is_swaping_out, msg_queue, mask, pc, current,
                       prev, snapshot, reply>>
    BY DEF LaunchAdd, codeVars, threadVars, msgVars
  <1>2. /\ status[d] = "Created" /\ ~stopping[d] /\ ~is_swaping_out[d]
        /\ events[d] = {} /\ mask[d] = {} /\ msg_queue[d] = <<>>
        /\ wait_events[d] = {} /\ ~wakeup_signal[d]
    BY <1>1 DEF SchedInv, FreshInv, QuietInv
  <1>3. /\ status \in [Services -> Statuses]
        /\ wakeup_signal \in [Services -> BOOLEAN]
        /\ events \in [Services -> SUBSET Events]
        /\ wait_events \in [Services -> SUBSET Events]
        /\ current \in [Threads -> Services \cup {Idle}]
        /\ prev \in [Threads -> Services \cup {Idle, None}]
        /\ reply \in [Msgs -> Services \cup {None}]
        /\ launching \subseteq Services /\ snapshot \subseteq Services
    BY DEF TypeInv, TypeOK, CtxType, ThreadType, MailType, StopType
  <1>4. \A t \in Threads : current[t] # d /\ prev[t] # d
    <2> SUFFICES ASSUME NEW t \in Threads
                 PROVE  current[t] # d /\ prev[t] # d
      OBVIOUS
    <2>1. d # Idle /\ d # None /\ pc[t] \in ThreadSteps
      BY IdleAssumption, NoneAssumption DEF TypeInv, TypeOK, ThreadType
    <2> QED
      BY <1>2, <2>1 DEF SchedInv, ThreadInv, ThreadOK, ThreadSteps
  <1>5. /\ \A s \in Services : s # d =>
             /\ status'[s] = status[s] /\ events'[s] = events[s]
             /\ wait_events'[s] = wait_events[s]
             /\ wakeup_signal'[s] = wakeup_signal[s]
        /\ status'[d] \in {"Blocked", "Ready"}
    BY <1>3 DEF LaunchAdd
  <1>6. ThreadInv' /\ OwnerInv'
    BY <1>1, <1>3, <1>4, <1>5 DEF SchedInv, ThreadInv, ThreadOK, OwnerInv, TypeInv,
       NamesInv
  <1>7. QuietInv'
    BY <1>5 DEF SchedInv, QuietInv
  <1>8. FreshInv'
    BY <1>1, <1>2, <1>3, <1>5 DEF SchedInv, FreshInv
  <1>9. MaskInv'
    BY <1>1, <1>2, <1>5 DEF SchedInv, MaskInv
  <1>10. CASE d \in MessageDriven
    <2>1. /\ status' = [status EXCEPT ![d] = "Blocked"]
          /\ wait_events' = [wait_events EXCEPT ![d] = LoopEvents]
          /\ UNCHANGED <<events, wakeup_signal, run_queue>>
      BY <1>10 DEF LaunchAdd
    <2>2. run_queue \in Seq(Services)
      BY DEF TypeInv, TypeOK, ThreadType
    <2>3. QueueInv'
      BY <1>1, <1>2, <1>3, <2>1 DEF SchedInv, QueueInv
    <2>4. PlaceInv'
      BY <1>1, <1>3, <2>1 DEF SchedInv, PlaceInv
    <2>5. ReasonInv' /\ NoLostWakeup'
      BY <1>1, <1>2, <1>3, <2>1 DEF SchedInv, ReasonInv, NoLostWakeup
    <2> QED
      BY <1>6, <1>7, <1>8, <1>9, <2>3, <2>4, <2>5 DEF SchedInv
  <1>11. CASE d \notin MessageDriven
    <2>1. /\ status' = [status EXCEPT ![d] = "Ready"]
          /\ run_queue' = Append(run_queue, d)
      BY <1>11 DEF LaunchAdd
    <2>4. QueueInv' /\ PlaceInv'
      BY <1>1, <1>2, <1>4, <2>1, QueueStep DEF SchedInv
    <2>6. ReasonInv' /\ NoLostWakeup'
      BY <1>1, <1>3, <1>5, <2>1 DEF SchedInv, ReasonInv, NoLostWakeup
    <2> QED
      BY <1>6, <1>7, <1>8, <1>9, <2>4, <2>6 DEF SchedInv
  <1> QED
    BY <1>10, <1>11

\* A running service's thread is the only one that holds it.
LEMMA RunningIsHeld ==
    ASSUME TypeInv, SchedInv, NEW t \in Threads, pc[t] = "service"
    PROVE  /\ current[t] \in Services
           /\ status[current[t]] = "Running" /\ ~is_swaping_out[current[t]]
           /\ wait_events[current[t]] = {} /\ ~wakeup_signal[current[t]]
           /\ \A u \in Threads : u # t => current[u] # current[t]
           /\ \A u \in Threads : prev[u] # current[t]
  <1>1. current[t] \in Services
    BY DEF TypeInv, NamesInv
  <1>2. status[current[t]] = "Running" /\ ~is_swaping_out[current[t]]
    BY DEF SchedInv, ThreadInv, ThreadOK
  <1>3. prev[t] = None /\ current[t] # None /\ current[t] # Idle
    BY <1>1, NoneAssumption, IdleAssumption DEF SchedInv, ThreadInv, ThreadOK
  <1> QED
    BY <1>1, <1>2, <1>3 DEF SchedInv, OwnerInv, QuietInv

\* A wait that ends, consuming its events, keeps the ownership of contexts.
LEMMA ReturnSched ==
    ASSUME TypeInv, SchedInv, NEW t \in Threads, NEW s \in Services,
           s = current[t], pc[t] = "service",
           \/ events' = events
           \/ \E es : events' = [events EXCEPT ![s] = events[s] \ es],
           \/ wait_events' = wait_events
           \/ wait_events' = [wait_events EXCEPT ![s] = {}],
           Return(s), waitUnchanged
    PROVE  SchedInv'
  <1>1. /\ mask' = [mask EXCEPT ![s] = {}]
        /\ UNCHANGED <<status, is_swaping_out, pc, stopping, wakeup_signal,
                       msg_queue, run_queue, current, prev, launching,
                       snapshot, reply>>
    BY DEF Return, waitUnchanged, stopVars, msgVars
  <1>2. status[s] = "Running" /\ wait_events[s] = {}
    BY RunningIsHeld
  <1>3. /\ wait_events \in [Services -> SUBSET Events]
        /\ events \in [Services -> SUBSET Events]
        /\ mask \in [Services -> SUBSET Events]
    BY DEF TypeInv, TypeOK, CtxType, CodeType
  <1>4. wait_events' = wait_events
    BY <1>2, <1>3
  <1>5. \A x \in Services : x # s => events'[x] = events[x] /\ mask'[x] = mask[x]
    BY <1>1, <1>3
  <1>6. mask'[s] = {}
    BY <1>1, <1>3
  <1>7. ThreadInv' /\ OwnerInv' /\ QueueInv' /\ PlaceInv' /\ QuietInv'
    BY <1>1, <1>4 DEF SchedInv, ThreadInv, ThreadOK, OwnerInv, QueueInv, PlaceInv,
                      QuietInv
  <1>8. FreshInv'
    BY <1>1, <1>2, <1>5 DEF SchedInv, FreshInv
  <1>9. MaskInv' /\ ReasonInv' /\ NoLostWakeup'
    BY <1>1, <1>2, <1>4, <1>5, <1>6
    DEF SchedInv, MaskInv, ReasonInv, NoLostWakeup
  <1> QED
    BY <1>7, <1>8, <1>9 DEF SchedInv

\* A service that blocks stays with its thread, marked as swapping out.
LEMMA BlockSched ==
    ASSUME TypeInv, SchedInv, NEW t \in Threads, NEW s \in Services,
           NEW es \in SUBSET Events, s = current[t], pc[t] = "service",
           es \cap events[s] = {}, ~(stopping[s] /\ "ServiceStop" \in es),
           "Message" \in es => msg_queue[s] = <<>>,
           Block(t, s, es), waitUnchanged
    PROVE  SchedInv'
  <1>1. /\ status' = [status EXCEPT ![s] = "Blocked"]
        /\ is_swaping_out' = [is_swaping_out EXCEPT ![s] = TRUE]
        /\ wait_events' = [wait_events EXCEPT ![s] = es]
        /\ mask' = [mask EXCEPT ![s] = es]
        /\ pc' = [pc EXCEPT ![t] = "schedule"]
        /\ UNCHANGED <<events, stopping, wakeup_signal, msg_queue, run_queue,
                       current, prev, launching, snapshot, reply>>
    BY DEF Block, waitUnchanged, stopVars, msgVars
  <1>2. /\ status[s] = "Running" /\ wait_events[s] = {} /\ ~wakeup_signal[s]
        /\ \A u \in Threads : u # t => current[u] # s
        /\ \A u \in Threads : prev[u] # s
    BY RunningIsHeld
  <1>3. /\ status \in [Services -> Statuses]
        /\ is_swaping_out \in [Services -> BOOLEAN]
        /\ wait_events \in [Services -> SUBSET Events]
        /\ mask \in [Services -> SUBSET Events]
        /\ pc \in [Threads -> ThreadSteps]
        /\ current \in [Threads -> Services \cup {Idle}]
        /\ prev \in [Threads -> Services \cup {Idle, None}]
        /\ reply \in [Msgs -> Services \cup {None}]
        /\ launching \subseteq Services /\ snapshot \subseteq Services
        /\ run_queue \in Seq(Services)
    BY DEF TypeInv, TypeOK, CtxType, CodeType, ThreadType, MailType, StopType
  <1>4. /\ \A x \in Services : x # s =>
             /\ status'[x] = status[x] /\ wait_events'[x] = wait_events[x]
             /\ mask'[x] = mask[x] /\ is_swaping_out'[x] = is_swaping_out[x]
        /\ status'[s] = "Blocked" /\ wait_events'[s] = es /\ mask'[s] = es
        /\ is_swaping_out'[s]
        /\ pc'[t] = "schedule"
        /\ \A u \in Threads : u # t => pc'[u] = pc[u]
    BY <1>1, <1>3
  <1>5. ThreadInv'
    <2> SUFFICES ASSUME NEW u \in Threads
                 PROVE  ThreadOK(u)'
      BY DEF ThreadInv
    <2>1. CASE u = t
      BY <1>1, <1>2, <1>4, <2>1 DEF SchedInv, ThreadInv, ThreadOK
    <2>2. CASE u # t
      <3>1. /\ pc'[u] = pc[u] /\ current'[u] = current[u] /\ prev'[u] = prev[u]
            /\ current[u] # s /\ prev[u] # s
        BY <1>1, <1>2, <1>4, <2>2
      <3>2. /\ current[u] \in Services \cup {Idle}
            /\ prev[u] \in Services \cup {Idle, None}
            /\ pc[u] \in {"schedule", "service"} => current[u] \in Services
            /\ pc[u] = "resume_prev" => prev[u] # None
        BY <1>3 DEF TypeInv, NamesInv
      <3> QED
        BY <1>4, <3>1, <3>2 DEF SchedInv, ThreadInv, ThreadOK
    <2> QED
      BY <2>1, <2>2
  <1>6. OwnerInv'
    BY <1>1 DEF SchedInv, OwnerInv
  <1>7. QueueInv'
    <2>1. \A i \in DOMAIN run_queue : run_queue[i] \in Services /\ run_queue[i] # s
      BY <1>2, <1>3 DEF SchedInv, QueueInv
    <2> QED
      BY <1>1, <1>4, <2>1 DEF SchedInv, QueueInv
  <1>8. PlaceInv' /\ QuietInv'
    BY <1>1, <1>4 DEF SchedInv, PlaceInv, QuietInv
  <1>9. FreshInv'
    BY <1>1, <1>2, <1>3, <1>4 DEF SchedInv, FreshInv
  <1>10. MaskInv' /\ ReasonInv' /\ NoLostWakeup'
    BY <1>1, <1>2, <1>4 DEF SchedInv, MaskInv, ReasonInv, NoLostWakeup
  <1> QED
    BY <1>5, <1>6, <1>7, <1>8, <1>9, <1>10 DEF SchedInv

\* Hence Wait_Locked keeps it, whichever of its branches is taken.
LEMMA WaitSched ==
    ASSUME TypeInv, SchedInv, NEW t \in Threads, NEW s \in Services,
           NEW es \in SUBSET Events, s = current[t], pc[t] = "service",
           "Message" \in es => msg_queue[s] = <<>>,
           Wait_Locked(t, s, es), waitUnchanged
    PROVE  SchedInv'
  <1>1. CASE Return(s) /\ (\/ events' = events
                           \/ events' = [events EXCEPT ![s] = events[s] \ es])
                       /\ wait_events' = [wait_events EXCEPT ![s] = {}]
    BY <1>1, ReturnSched
  <1>2. CASE /\ ~(stopping[s] /\ "ServiceStop" \in es)
             /\ es \cap events[s] = {}
             /\ Block(t, s, es)
    BY <1>2, BlockSched
  <1> QED
    BY <1>1, <1>2 DEF Wait_Locked

\* Types in the form the steps of a switch use.
LEMMA SwitchTypes ==
    ASSUME TypeInv
    PROVE  /\ status \in [Services -> Statuses]
           /\ stopping \in [Services -> BOOLEAN]
           /\ is_swaping_out \in [Services -> BOOLEAN]
           /\ wakeup_signal \in [Services -> BOOLEAN]
           /\ wait_events \in [Services -> SUBSET Events]
           /\ pc \in [Threads -> ThreadSteps]
           /\ current \in [Threads -> Services \cup {Idle}]
           /\ prev \in [Threads -> Services \cup {Idle, None}]
           /\ reply \in [Msgs -> Services \cup {None}]
           /\ launching \subseteq Services /\ snapshot \subseteq Services
           /\ run_queue \in Seq(Services)
           /\ \A t \in Threads :
                /\ pc[t] \in {"schedule", "service"} => current[t] \in Services
                /\ pc[t] = "resume_prev" => prev[t] # None
  BY DEF TypeInv, TypeOK, CtxType, CodeType, ThreadType, MailType, StopType,
         NamesInv

\* A service that ends is still with its thread and can no longer be woken.
LEMMA DieSched ==
    ASSUME TypeInv, SchedInv, NEW t \in Threads, LoopExit(t) \/ MainReturns(t)
    PROVE  SchedInv'
  <1> DEFINE s == current[t]
  <1>1. pc[t] = "service" /\ mask[s] = {}
    BY DEF LoopExit, MainReturns, InUserCode
  <1>2. /\ s \in Services /\ status[s] = "Running" /\ wait_events[s] = {}
        /\ ~wakeup_signal[s]
        /\ \A u \in Threads : u # t => current[u] # s
        /\ \A u \in Threads : prev[u] # s
    BY <1>1, RunningIsHeld
  <1>3. /\ status' = [status EXCEPT ![s] = "Dead"]
        /\ pc' = [pc EXCEPT ![t] = "schedule"]
        /\ stopping' = stopping \/ stopping' = [stopping EXCEPT ![s] = TRUE]
        /\ UNCHANGED <<wakeup_signal, is_swaping_out, wait_events, events,
                       msg_queue, mask, run_queue, current, prev, launching,
                       snapshot, reply>>
    BY DEF LoopExit, MainReturns, Die, stopVars, msgVars
  <1>4. /\ \A x \in Services : x # s =>
             status'[x] = status[x] /\ stopping'[x] = stopping[x]
        /\ status'[s] = "Dead"
        /\ pc'[t] = "schedule"
        /\ \A u \in Threads : u # t => pc'[u] = pc[u]
    BY <1>2, <1>3, SwitchTypes
  <1>5. ThreadInv'
    <2> SUFFICES ASSUME NEW u \in Threads PROVE ThreadOK(u)'
      BY DEF ThreadInv
    <2>1. CASE u = t
      BY <1>1, <1>3, <1>4, <2>1 DEF SchedInv, ThreadInv, ThreadOK
    <2>2. CASE u # t
      <3>1. /\ pc'[u] = pc[u] /\ current'[u] = current[u] /\ prev'[u] = prev[u]
            /\ current[u] # s /\ prev[u] # s /\ ThreadOK(u)
        BY <1>2, <1>3, <1>4, <2>2 DEF SchedInv, ThreadInv
      <3>2. /\ current[u] \in Services \cup {Idle}
            /\ prev[u] \in Services \cup {Idle, None}
            /\ pc[u] \in {"schedule", "service"} => current[u] \in Services
            /\ pc[u] = "resume_prev" => prev[u] # None
        BY SwitchTypes
      <3> QED
        BY <1>3, <1>4, <3>1, <3>2 DEF ThreadOK
    <2> QED
      BY <2>1, <2>2
  <1>6. OwnerInv'
    BY <1>3 DEF SchedInv, OwnerInv
  <1>7. QueueInv'
    <2>1. \A i \in DOMAIN run_queue : run_queue[i] \in Services /\ run_queue[i] # s
      BY <1>2, SwitchTypes DEF SchedInv, QueueInv
    <2> QED
      BY <1>3, <1>4, <2>1 DEF SchedInv, QueueInv
  <1>8. PlaceInv' /\ QuietInv'
    BY <1>2, <1>3, <1>4 DEF SchedInv, PlaceInv, QuietInv
  <1>9. FreshInv'
    BY <1>2, <1>3, <1>4, SwitchTypes DEF SchedInv, FreshInv
  <1>10. MaskInv' /\ ReasonInv' /\ NoLostWakeup'
    BY <1>1, <1>2, <1>3, <1>4 DEF SchedInv, MaskInv, ReasonInv, NoLostWakeup
  <1> QED
    BY <1>5, <1>6, <1>7, <1>8, <1>9, <1>10 DEF SchedInv

\* Yield only moves the thread on to Schedule.
LEMMA YieldSched ==
    ASSUME TypeInv, SchedInv, NEW t \in Threads, Yield(t)
    PROVE  SchedInv'
  <1>1. /\ pc[t] = "service" /\ current[t] \in Yielders
        /\ pc' = [pc EXCEPT ![t] = "schedule"]
        /\ UNCHANGED <<status, stopping, wakeup_signal, is_swaping_out,
                       wait_events, events, msg_queue, mask, run_queue,
                       current, prev, launching, snapshot, reply>>
    BY DEF Yield, InUserCode, ctxVars, codeVars, stopVars, msgVars
  <1>2. /\ pc'[t] = "schedule"
        /\ \A u \in Threads : u # t => pc'[u] = pc[u]
    BY <1>1, SwitchTypes
  <1>3. ThreadInv'
    BY <1>1, <1>2 DEF SchedInv, ThreadInv, ThreadOK
  <1> QED
    BY <1>1, <1>3 DEF SchedInv, OwnerInv, QueueInv, PlaceInv, QuietInv,
       FreshInv, MaskInv, ReasonInv, NoLostWakeup

\* OnResume, second half: the service entered is ready, with this thread alone.
LEMMA ResumeCurSched ==
    ASSUME TypeInv, SchedInv, NEW t \in Threads, ResumeCur(t)
    PROVE  SchedInv'
  <1> DEFINE s == current[t]
  <1>1. /\ pc[t] = "resume_cur"
        /\ UNCHANGED <<stopping, is_swaping_out, events, msg_queue, mask,
                       run_queue, current, prev, launching, snapshot, reply>>
    BY DEF ResumeCur, stopVars, msgVars
  <1>2. CASE s = Idle
    <2>1. /\ pc' = [pc EXCEPT ![t] = "idle"]
          /\ UNCHANGED <<wakeup_signal, wait_events, status>>
      BY <1>2 DEF ResumeCur
    <2>2. /\ pc'[t] = "idle"
          /\ \A u \in Threads : u # t => pc'[u] = pc[u]
      BY <2>1, SwitchTypes
    <2>3. ThreadInv'
      BY <1>1, <1>2, <2>1, <2>2 DEF SchedInv, ThreadInv, ThreadOK
    <2> QED
      BY <1>1, <2>1, <2>3 DEF SchedInv, OwnerInv, QueueInv, PlaceInv,
         QuietInv, FreshInv, MaskInv, ReasonInv, NoLostWakeup
  <1>3. CASE s # Idle
    <2>1. /\ wakeup_signal' = [wakeup_signal EXCEPT ![s] = FALSE]
          /\ wait_events' = [wait_events EXCEPT ![s] = {}]
          /\ status' = [status EXCEPT ![s] = "Running"]
          /\ pc' = [pc EXCEPT ![t] = "service"]
      BY <1>3 DEF ResumeCur
    <2>2. /\ s \in Services /\ status[s] = "Ready" /\ ~is_swaping_out[s]
          /\ prev[t] = None
      BY <1>1, <1>3, SwitchTypes DEF SchedInv, ThreadInv, ThreadOK
    <2>3. /\ \A u \in Threads : u # t => current[u] # s
          /\ \A u \in Threads : prev[u] # s
      BY <1>3, <2>2, NoneAssumption DEF SchedInv, OwnerInv
    <2>4. /\ \A x \in Services : x # s =>
               /\ status'[x] = status[x]
               /\ wait_events'[x] = wait_events[x]
               /\ wakeup_signal'[x] = wakeup_signal[x]
          /\ status'[s] = "Running" /\ wait_events'[s] = {}
          /\ ~(wakeup_signal'[s])
          /\ pc'[t] = "service"
          /\ \A u \in Threads : u # t => pc'[u] = pc[u]
      BY <2>1, <2>2, SwitchTypes
    <2>5. ThreadInv'
      <3> SUFFICES ASSUME NEW u \in Threads PROVE ThreadOK(u)'
        BY DEF ThreadInv
      <3>1. CASE u = t
        BY <1>1, <2>2, <2>4, <3>1 DEF ThreadOK
      <3>2. CASE u # t
        <4>1. /\ pc'[u] = pc[u] /\ current'[u] = current[u]
              /\ prev'[u] = prev[u]
              /\ current[u] # s /\ prev[u] # s /\ ThreadOK(u)
          BY <1>1, <2>3, <2>4, <3>2 DEF SchedInv, ThreadInv
        <4>2. /\ current[u] \in Services \cup {Idle}
              /\ prev[u] \in Services \cup {Idle, None}
              /\ pc[u] \in {"schedule", "service"} => current[u] \in Services
              /\ pc[u] = "resume_prev" => prev[u] # None
          BY SwitchTypes
        <4> QED
          BY <1>1, <2>4, <4>1, <4>2 DEF ThreadOK
      <3> QED
        BY <3>1, <3>2
    <2>6. OwnerInv'
      BY <1>1 DEF SchedInv, OwnerInv
    <2>7. QueueInv'
      <3>1. \A i \in DOMAIN run_queue :
              run_queue[i] \in Services /\ run_queue[i] # s
        BY SwitchTypes DEF SchedInv, QueueInv
      <3> QED
        BY <1>1, <2>4, <3>1 DEF SchedInv, QueueInv
    <2>8. PlaceInv' /\ QuietInv'
      BY <1>1, <2>2, <2>4 DEF SchedInv, PlaceInv, QuietInv
    <2>9. FreshInv'
      BY <1>1, <2>2, <2>4, SwitchTypes DEF SchedInv, FreshInv
    <2>10. MaskInv' /\ ReasonInv' /\ NoLostWakeup'
      BY <1>1, <2>2, <2>4 DEF SchedInv, MaskInv, ReasonInv, NoLostWakeup
    <2> QED
      BY <2>5, <2>6, <2>7, <2>8, <2>9, <2>10 DEF SchedInv
  <1> QED
    BY <1>2, <1>3

\* OnResume, first half: the service left goes to the run queue if a wakeup
\* came while it was leaving, and is otherwise free to be woken.
LEMMA ResumePrevSched ==
    ASSUME TypeInv, SchedInv, NEW t \in Threads, ResumePrev(t)
    PROVE  SchedInv'
  <1> DEFINE p == prev[t]
  <1>1. /\ pc[t] = "resume_prev"
        /\ prev' = [prev EXCEPT ![t] = None]
        /\ pc' = [pc EXCEPT ![t] = "resume_cur"]
        /\ UNCHANGED <<stopping, wakeup_signal, wait_events, events, msg_queue,
                       mask, current, launching, snapshot, reply>>
    BY DEF ResumePrev, codeVars, stopVars, msgVars
  <1>2. /\ prev'[t] = None /\ pc'[t] = "resume_cur"
        /\ \A u \in Threads : u # t => pc'[u] = pc[u] /\ prev'[u] = prev[u]
    BY <1>1, SwitchTypes
  <1>3. OwnerInv'
    BY <1>1, <1>2, SwitchTypes, NoneAssumption DEF SchedInv, OwnerInv
  <1>4. CASE p = Idle
    <2>1. UNCHANGED <<is_swaping_out, status, run_queue>>
      BY <1>4 DEF ResumePrev
    <2>2. ThreadInv'
      BY <1>1, <1>2, <2>1 DEF SchedInv, ThreadInv, ThreadOK
    <2> QED
      BY <1>1, <1>3, <2>1, <2>2 DEF SchedInv, QueueInv, PlaceInv,
         QuietInv, FreshInv, MaskInv, ReasonInv, NoLostWakeup
  <1>5. CASE p # Idle
    <2>1. /\ p \in Services /\ p # current[t] /\ is_swaping_out[p]
          /\ \/ status[p] \in {"Blocked", "Dead"}
             \/ status[p] = "Running" /\ p \in Yielders
      BY <1>1, <1>5, SwitchTypes DEF SchedInv, ThreadInv, ThreadOK
    <2>2. /\ \A u \in Threads : current[u] # p
          /\ \A u \in Threads : u # t => prev[u] # p
      BY <1>5, <2>1, IdleAssumption, NoneAssumption DEF SchedInv, OwnerInv
    <2>3. /\ is_swaping_out' = [is_swaping_out EXCEPT ![p] = FALSE]
          /\ wakeup_signal[p] /\ status[p] = "Blocked" =>
               /\ status' = [status EXCEPT ![p] = "Ready"]
               /\ run_queue' = Append(run_queue, p)
          /\ ~(wakeup_signal[p] /\ status[p] = "Blocked") =>
               status' = status /\ run_queue' = run_queue
      BY <1>5 DEF ResumePrev
    <2>4. /\ \A x \in Services : x # p => status'[x] = status[x] /\ is_swaping_out'[x] = is_swaping_out[x]
          /\ ~(is_swaping_out'[p])
          /\ status'[p] \in {status[p], "Ready"}
          /\ status'[p] = "Ready" => status[p] = "Blocked" /\ wakeup_signal[p]
          /\ status'[p] = "Blocked" => status[p] = "Blocked" /\ ~wakeup_signal[p]
      BY <2>1, <2>3, SwitchTypes
    <2>5. ThreadInv'
      <3> SUFFICES ASSUME NEW u \in Threads PROVE ThreadOK(u)'
        BY DEF ThreadInv
      <3>1. /\ current[u] \in Services \cup {Idle} /\ current[u] # p
            /\ prev[u] \in Services \cup {Idle, None}
            /\ pc[u] \in {"schedule", "service"} => current[u] \in Services
            /\ pc[u] = "resume_prev" => prev[u] # None
            /\ current'[u] = current[u] /\ ThreadOK(u)
        BY <1>1, <2>2, SwitchTypes DEF SchedInv, ThreadInv
      <3>2. CASE u = t
        BY <1>1, <1>2, <2>4, <3>1, <3>2 DEF ThreadOK
      <3>3. CASE u # t
        BY <1>2, <2>2, <2>4, <3>1, <3>3 DEF ThreadOK
      <3> QED
        BY <3>2, <3>3
    <2>6. QueueInv' /\ PlaceInv'
      <3>1. CASE wakeup_signal[p] /\ status[p] = "Blocked"
        <4>1. /\ status[p] # "Ready"
              /\ \A x \in Services : is_swaping_out'[x] => is_swaping_out[x]
          BY <2>1, <2>4, <3>1
        <4> QED
          BY <1>1, <2>1, <2>2, <2>3, <2>4, <3>1, <4>1, QueueStep DEF SchedInv
      <3>2. CASE ~(wakeup_signal[p] /\ status[p] = "Blocked")
        <4>1. \A i \in DOMAIN run_queue : run_queue[i] \in Services
          BY SwitchTypes
        <4>2. UNCHANGED <<status, run_queue, current>>
          BY <1>1, <2>3, <3>2
        <4> QED
          BY <2>4, <4>1, <4>2 DEF SchedInv, QueueInv, PlaceInv
      <3> QED
        BY <3>1, <3>2
    <2>7. QuietInv'
      BY <1>1, <2>1, <2>4 DEF SchedInv, QuietInv
    <2>8. FreshInv'
      BY <1>1, <2>1, <2>4, SwitchTypes DEF SchedInv, FreshInv
    <2>9. MaskInv'
      BY <1>1, <2>1, <2>4 DEF SchedInv, MaskInv, ReasonInv
    <2>10. ReasonInv' /\ NoLostWakeup'
      BY <1>1, <2>4 DEF SchedInv, ReasonInv, NoLostWakeup
    <2> QED
      BY <1>3, <2>5, <2>6, <2>7, <2>8, <2>9, <2>10 DEF SchedInv
  <1> QED
    BY <1>4, <1>5

\* A thread that switches leaves a service that is not ready.
LEMMA LeavingFacts ==
    ASSUME TypeInv, SchedInv, NEW t \in Threads, pc[t] \in {"schedule", "idle"}
    PROVE  /\ prev[t] = None
           /\ current[t] # Idle =>
                /\ pc[t] = "schedule" /\ current[t] \in Services
                /\ \/ status[current[t]] \in {"Blocked", "Dead"}
                   \/ status[current[t]] = "Running" /\ current[t] \in Yielders
                /\ \A u \in Threads : u # t => current[u] # current[t]
                /\ \A u \in Threads : prev[u] # current[t]
  <1>1. prev[t] = None /\ (pc[t] = "idle" => current[t] = Idle)
    BY DEF SchedInv, ThreadInv, ThreadOK
  <1>2. current[t] # None
    BY SwitchTypes, NoneAssumption
  <1> QED
    BY <1>1, <1>2, SwitchTypes DEF SchedInv, ThreadInv, ThreadOK, OwnerInv

\* A switch to the head of the run queue, or to the IdleService, moves the
\* context from the queue to this thread.
LEMMA SwitchSched ==
    ASSUME TypeInv, SchedInv, NEW t \in Threads, Schedule(t) \/ IdleSchedule(t)
    PROVE  SchedInv'
  <1> DEFINE s == current[t]
             n == IF run_queue # <<>> THEN Head(run_queue) ELSE Idle
  <1>1. /\ pc[t] \in {"schedule", "idle"}
        /\ run_queue = <<>> => pc[t] = "schedule"
        /\ is_swaping_out' = IF s = Idle THEN is_swaping_out
                             ELSE [is_swaping_out EXCEPT ![s] = TRUE]
        /\ current' = [current EXCEPT ![t] = n]
        /\ prev' = [prev EXCEPT ![t] = s]
        /\ pc' = [pc EXCEPT ![t] = "resume_prev"]
        /\ run_queue # <<>> => run_queue' = Tail(run_queue)
        /\ run_queue = <<>> => run_queue' = run_queue
        /\ UNCHANGED <<status, stopping, wakeup_signal, wait_events, events,
                       msg_queue, mask, launching, snapshot, reply>>
    BY DEF Schedule, IdleSchedule, SwitchTo, codeVars, stopVars, msgVars
  <1>2. /\ prev[t] = None
        /\ s # Idle =>
             /\ pc[t] = "schedule" /\ s \in Services
             /\ \/ status[s] \in {"Blocked", "Dead"}
                \/ status[s] = "Running" /\ s \in Yielders
             /\ \A u \in Threads : u # t => current[u] # s
             /\ \A u \in Threads : prev[u] # s
    BY <1>1, LeavingFacts
  <1>3. n # Idle =>
             /\ run_queue # <<>> /\ n = run_queue[1] /\ 1 \in DOMAIN run_queue
             /\ n \in Services /\ status[n] = "Ready" /\ ~is_swaping_out[n]
             /\ \A u \in Threads : current[u] # n
    <2>1. run_queue # <<>> => Head(run_queue) = run_queue[1] /\ 1 \in DOMAIN run_queue
                              /\ Head(run_queue) \in Services
      BY SwitchTypes, HeadTail
    <2> QED
      BY <2>1 DEF SchedInv, QueueInv
  <1>4. n # Idle => \A u \in Threads : prev[u] # n
    <2> SUFFICES ASSUME n # Idle, NEW u \in Threads, prev[u] = n
                 PROVE  FALSE
      OBVIOUS
    <2>1. n # None
      BY <1>3, NoneAssumption
    <2> QED
      BY <1>3, <2>1 DEF SchedInv, ThreadInv, ThreadOK
  <1>5. /\ current'[t] = n /\ prev'[t] = s /\ pc'[t] = "resume_prev"
        /\ \A u \in Threads : u # t =>
             current'[u] = current[u] /\ prev'[u] = prev[u] /\ pc'[u] = pc[u]
        /\ \A x \in Services : x # s => is_swaping_out'[x] = is_swaping_out[x]
        /\ \A x \in Services : is_swaping_out[x] => is_swaping_out'[x]
        /\ s # Idle => is_swaping_out'[s]
        /\ s \in Services \cup {Idle} /\ n \in Services \cup {Idle}
    BY <1>1, <1>2, <1>3, SwitchTypes
  <1>6. n # s
    <2>1. CASE n = Idle
      <3>1. run_queue = <<>>
        BY <2>1, SwitchTypes, HeadTail, IdleAssumption
      <3>2. s \in Services
        BY <1>1, <3>1, SwitchTypes
      <3> QED
        BY <2>1, <3>2, IdleAssumption
    <2>2. CASE n # Idle
      BY <1>3, <2>2
    <2> QED
      BY <2>1, <2>2
  <1>7. ThreadInv'
    <2> SUFFICES ASSUME NEW u \in Threads PROVE ThreadOK(u)'
      BY DEF ThreadInv
    <2>1. CASE u = t
      BY <1>1, <1>2, <1>3, <1>5, <1>6, <2>1 DEF ThreadOK
    <2>2. CASE u # t
      <3>1. /\ current[u] \in Services \cup {Idle}
            /\ prev[u] \in Services \cup {Idle, None}
            /\ pc[u] \in {"schedule", "service"} => current[u] \in Services
            /\ pc[u] = "resume_prev" => prev[u] # None
            /\ ThreadOK(u)
        BY SwitchTypes DEF SchedInv, ThreadInv
      <3>2. /\ current[u] # Idle => current[u] # s
            /\ prev[u] # Idle => prev[u] # s
        BY <1>2, <2>2
      <3> QED
        BY <1>1, <1>5, <2>2, <3>1, <3>2 DEF ThreadOK
    <2> QED
      BY <2>1, <2>2
  <1>8. OwnerInv'
    BY <1>2, <1>3, <1>4, <1>5 DEF SchedInv, OwnerInv
  <1>9. QueueInv' /\ PlaceInv'
    <2>1. CASE run_queue = <<>>
      <3>1. n = Idle /\ run_queue' = <<>> /\ DOMAIN run_queue' = {}
        BY <1>1, <2>1
      <3>2. QueueInv'
        BY <3>1 DEF QueueInv
      <3>3. PlaceInv'
        BY <1>1, <1>2, <1>5, <2>1, IdleAssumption DEF SchedInv, PlaceInv
      <3> QED
        BY <3>2, <3>3
    <2>2. CASE run_queue # <<>>
      <3>1. /\ Len(run_queue) \in Nat /\ Len(run_queue) > 0
            /\ DOMAIN run_queue = 1..Len(run_queue)
            /\ DOMAIN run_queue' = 1..(Len(run_queue) - 1)
            /\ \A i \in DOMAIN run_queue' : run_queue'[i] = run_queue[i + 1]
            /\ n = run_queue[1]
            /\ \A i \in DOMAIN run_queue : run_queue[i] \in Services
        BY <1>1, <2>2, SwitchTypes, HeadTail
      <3>2. n # Idle
        BY <3>1, IdleAssumption
      <3>3. QueueInv'
        <4> SUFFICES ASSUME NEW i \in DOMAIN run_queue'
                     PROVE  /\ status'[run_queue'[i]] = "Ready"
                            /\ ~(is_swaping_out'[run_queue'[i]])
                            /\ \A u \in Threads : current'[u] # run_queue'[i]
                            /\ \A j \in DOMAIN run_queue' :
                                 run_queue'[j] = run_queue'[i] => j = i
          BY DEF QueueInv
        <4>1. /\ i + 1 \in DOMAIN run_queue /\ i + 1 # 1
              /\ run_queue'[i] = run_queue[i + 1]
              /\ run_queue[i + 1] \in Services
          BY <3>1
        <4>2. /\ status[run_queue[i + 1]] = "Ready"
              /\ ~is_swaping_out[run_queue[i + 1]]
              /\ \A u \in Threads : current[u] # run_queue[i + 1]
              /\ \A j \in DOMAIN run_queue :
                   run_queue[j] = run_queue[i + 1] => j = i + 1
          BY <4>1 DEF SchedInv, QueueInv
        <4>3. run_queue[i + 1] # n /\ run_queue[i + 1] # s
          BY <1>3, <3>1, <3>2, <4>1, <4>2
        <4>4. \A j \in DOMAIN run_queue' :
                run_queue'[j] = run_queue'[i] => j = i
          BY <3>1, <4>1, <4>2
        <4> QED
          BY <1>1, <1>5, <4>1, <4>2, <4>3, <4>4
      <3>4. ASSUME NEW x \in Services, status'[x] = "Ready"
            PROVE  \/ \E i \in DOMAIN run_queue' : run_queue'[i] = x
                   \/ \E u \in Threads : current'[u] = x
        <4>1. x # s \/ s = Idle
          BY <1>1, <1>2, <3>4
        <4>2. CASE \E u \in Threads : current[u] = x
          BY <1>5, <4>1, <4>2, IdleAssumption
        <4>3. CASE \E i \in DOMAIN run_queue : run_queue[i] = x
          <5>1. PICK i \in DOMAIN run_queue : run_queue[i] = x
            BY <4>3
          <5>2. CASE i = 1
            BY <1>5, <3>1, <5>1, <5>2
          <5>3. CASE i # 1
            <6>1. i - 1 \in DOMAIN run_queue' /\ run_queue'[i - 1] = x
              BY <3>1, <5>1, <5>3
            <6> QED
              BY <6>1
          <5> QED
            BY <5>2, <5>3
        <4> QED
          BY <1>1, <3>4, <4>2, <4>3 DEF SchedInv, PlaceInv
      <3>5. ASSUME NEW x \in Services, status'[x] = "Running", x \notin Yielders
            PROVE  \E u \in Threads : current'[u] = x
        BY <1>1, <1>2, <1>5, <3>5, IdleAssumption DEF SchedInv, PlaceInv
      <3> QED
        BY <3>3, <3>4, <3>5 DEF PlaceInv
    <2> QED
      BY <2>1, <2>2
  <1>10. QuietInv' /\ MaskInv' /\ ReasonInv'
    BY <1>1 DEF SchedInv, QuietInv, MaskInv, ReasonInv
  <1>11. FreshInv'
    BY <1>1, <1>2, <1>5, SwitchTypes DEF SchedInv, FreshInv
  <1>12. NoLostWakeup'
    BY <1>1, <1>5 DEF SchedInv, NoLostWakeup
  <1> QED
    BY <1>7, <1>8, <1>9, <1>10, <1>11, <1>12 DEF SchedInv

\* The end of a handler wakes the caller and keeps the ownership.
LEMMA HandlerReturnsSched ==
    ASSUME TypeInv, SchedInv, NEW t \in Threads, HandlerReturns(t)
    PROVE  SchedInv'
  <1> DEFINE s == current[t]
             c == reply[msg[s]]
  <1>1. UNCHANGED <<stopping, is_swaping_out, wait_events, msg_queue, mask,
                    pc, current, prev, launching, snapshot, reply>>
    BY DEF HandlerReturns, threadVars, stopVars
  <1>2. s \in Services /\ msg[s] \in Msgs /\ c \in Services \cup {None}
    <2>1. s \in Services /\ loc[s] = "handle"
      BY SwitchTypes DEF HandlerReturns, InUserCode
    <2> QED
      BY <2>1, SwitchTypes DEF TypeInv, NamesInv
  <1>3. CASE c = None
    <2>1. UNCHANGED <<status, wakeup_signal, events, run_queue>>
      BY <1>3 DEF HandlerReturns
    <2> QED
      BY <1>1, <2>1 DEF SchedInv, ThreadInv, ThreadOK, OwnerInv, QueueInv,
         PlaceInv, QuietInv, FreshInv, MaskInv, ReasonInv, NoLostWakeup
  <1>4. CASE c # None
    <2>1. /\ c \in Services /\ status[c] # "Created"
          /\ Wakeup_Locked(c, "Response") /\ "Response" \in Events
      BY <1>2, <1>4 DEF HandlerReturns, SchedInv, FreshInv, Events
    <2>2. FreshInv'
      BY <1>1, <2>1, WakeupFresh DEF RepliesKnown
    <2>3. NoLostWakeup'
      BY <1>1, <2>1, WakeupSched DEF SchedInv, NoLostWakeup
    <2> QED
      BY <1>1, <2>1, <2>2, <2>3, WakeupSched DEF SchedInv
  <1> QED
    BY <1>3, <1>4

\* Steps of the library on a worker thread keep SchedInv.
LEMMA SchedLibraryStep ==
    ASSUME TypeInv, SchedInv, NEW t \in Threads, LibraryStep(t)
    PROVE  SchedInv'
  <1> DEFINE s == current[t]
  <1>0. pc[t] = "service" =>
          /\ s \in Services /\ ~wakeup_signal[s] /\ status[s] = "Running"
          /\ mask[s] # {} => mask[s] \cap events[s] # {}
    BY RunningIsHeld DEF SchedInv, MaskInv
  <1>1. CASE WaitResponse(t)
    <2>1. "Message" \notin {"Response"}
      OBVIOUS
    <2> QED
      BY <1>0, <1>1, <2>1, WaitSched, EventFacts DEF WaitResponse
  <1>2. CASE WaitResumed(t)
    BY <1>0, <1>2, ReturnSched DEF WaitResumed
  <1>3. CASE PopMessage(t)
    <2>1. /\ UNCHANGED <<status, stopping, wakeup_signal, is_swaping_out,
                         wait_events, events, mask, run_queue, pc, current,
                         prev, launching, snapshot, reply>>
          /\ msg_queue' = [msg_queue EXCEPT ![s] = Tail(msg_queue[s])]
          /\ msg_queue[s] # <<>>
      BY <1>3 DEF PopMessage, threadVars, stopVars
    <2>2. \A x \in Services : msg_queue[x] = <<>> => msg_queue'[x] = <<>>
      BY <2>1 DEF TypeInv, TypeOK, MailType
    <2>3. /\ \A x \in launching' : status[x] = "Created"
          /\ \A x \in snapshot' : status[x] # "Created"
          /\ \A u \in Threads : pc'[u] = pc[u]
      BY <2>1 DEF SchedInv, FreshInv
    <2>4. FrameStep
      BY <2>1, <2>2, <2>3 DEF FrameStep
    <2> QED
      BY <2>4, FrameSched
  <1>4. CASE LoopWait(t)
    BY <1>0, <1>4, WaitSched, EventFacts DEF LoopWait
  <1>5. CASE IdleExit(t)
    <2>1. /\ UNCHANGED <<status, stopping, wakeup_signal, is_swaping_out,
                         wait_events, events, msg_queue, mask, run_queue,
                         current, prev, launching, snapshot, reply>>
          /\ pc[t] = "idle" /\ pc' = [pc EXCEPT ![t] = "exited"]
      BY <1>5 DEF IdleExit, ctxVars, codeVars, stopVars, msgVars
    <2>2. \A u \in Threads :
            pc'[u] = pc[u] \/ (pc[u] = "idle" /\ pc'[u] = "exited")
      BY <2>1, SwitchTypes
    <2>3. /\ \A x \in launching' : status[x] = "Created"
          /\ \A x \in snapshot' : status[x] # "Created"
          /\ \A x \in Services : msg_queue[x] = <<>> => msg_queue'[x] = <<>>
      BY <2>1 DEF SchedInv, FreshInv
    <2>4. FrameStep
      BY <2>1, <2>2, <2>3 DEF FrameStep
    <2> QED
      BY <2>4, FrameSched
  <1> QED
    BY <1>1, <1>2, <1>3, <1>4, <1>5, DieSched, SwitchSched, ResumePrevSched,
       ResumeCurSched DEF LibraryStep

\* Steps of the code of a service keep SchedInv.
LEMMA SchedUserStep ==
    ASSUME TypeInv, SchedInv, NEW t \in Threads, UserStep(t)
    PROVE  SchedInv'
  <1>1. CASE WaitSignal(t)
    <2>1. current[t] \in Services /\ pc[t] = "service"
      BY <1>1, SwitchTypes DEF WaitSignal, InUserCode
    <2>2. "Message" \notin SignalEvents
      BY DEF SignalEvents
    <2> QED
      BY <1>1, <2>1, <2>2, WaitSched, EventFacts DEF WaitSignal
  <1>2. ASSUME NEW m \in Msgs, NEW d \in Services, CallMethod(t, m, d)
        PROVE  SchedInv'
    <2>1. /\ SendMessage(m, d) /\ status[d] # "Created"
          /\ UNCHANGED <<mask, pc, current, prev, launching, snapshot>>
          /\ reply' = reply \/ reply' = [reply EXCEPT ![m] = current[t]]
          /\ pc[t] = "service"
      BY <1>2 DEF CallMethod, GrabService, InUserCode, threadVars, stopVars
    <2>2. current[t] \in Services /\ status[current[t]] # "Created"
      BY <2>1, RunningIsHeld
    <2>3. RepliesKnown
      BY <2>1, <2>2, SwitchTypes DEF RepliesKnown
    <2> QED
      BY <2>1, <2>3, SendSched
  <1> QED
    BY <1>1, <1>2, HandlerReturnsSched, DieSched, YieldSched DEF UserStep

\* Calls from anywhere, and the steps of Stop, keep SchedInv.
LEMMA SchedOtherStep ==
    ASSUME TypeInv, SchedInv, CallerStep \/ StopStep
    PROVE  SchedInv'
  <1>1. "Signal" \in Events /\ "Interrupt" \in Events
    BY DEF Events
  <1>2. ASSUME NEW d \in Services, StopService(d) \/ StopNext(d)
        PROVE  SchedInv'
    <2>1. /\ UNCHANGED <<mask, pc, current, prev, launching, reply>>
          /\ snapshot' \subseteq snapshot
          /\ StopOne(d)
          /\ status[d] # "Created"
      BY <1>2 DEF StopService, StopNext, stopUnchanged, codeVars, threadVars,
                  stopVars, msgVars, GrabService, SchedInv, FreshInv
    <2> QED
      BY <2>1, StopOneSched
  <1>3. ASSUME NEW d \in Services, LaunchCheck(d)
        PROVE  SchedInv'
    <2>1. /\ UNCHANGED <<status, stopping, wakeup_signal, is_swaping_out,
                         wait_events, events, msg_queue, mask, run_queue, pc,
                         current, prev, snapshot, reply>>
          /\ launching' = launching \cup {d} /\ status[d] = "Created"
      BY <1>3 DEF LaunchCheck, ctxVars, codeVars, threadVars, msgVars
    <2>2. /\ \A x \in launching' : status[x] = "Created"
          /\ \A x \in snapshot' : status[x] # "Created"
          /\ \A x \in Services : msg_queue[x] = <<>> => msg_queue'[x] = <<>>
          /\ \A u \in Threads : pc'[u] = pc[u]
      BY <2>1 DEF SchedInv, FreshInv
    <2>4. FrameStep
      BY <2>1, <2>2 DEF FrameStep
    <2> QED
      BY <2>4, FrameSched
  <1>4. ASSUME NEW m \in Msgs, NEW d \in Services, AsyncCallMethod(m, d)
        PROVE  SchedInv'
    <2>1. /\ UNCHANGED <<mask, pc, current, prev, launching, snapshot, reply>>
          /\ SendMessage(m, d) /\ status[d] # "Created"
      BY <1>4 DEF AsyncCallMethod, GrabService, codeVars, threadVars, stopVars
    <2>2. RepliesKnown
      BY <2>1 DEF RepliesKnown
    <2> QED
      BY <2>1, <2>2, SendSched
  <1>5. CASE StopBegin \/ StopSnapshot \/ StopJoin
             \/ \E t \in Threads : StopInterrupt(t)
    <2>1. /\ UNCHANGED <<status, stopping, wakeup_signal, is_swaping_out,
                         wait_events, events, msg_queue, mask, run_queue, pc,
                         current, prev, launching, reply>>
          /\ snapshot' = snapshot \/ snapshot' = Registered
      BY <1>5 DEF StopBegin, StopSnapshot, StopJoin, StopInterrupt,
         stopUnchanged, ctxVars, codeVars, threadVars, msgVars
    <2>2. /\ \A x \in launching' : status[x] = "Created"
          /\ \A x \in snapshot' : status[x] # "Created"
          /\ \A x \in Services : msg_queue[x] = <<>> => msg_queue'[x] = <<>>
          /\ \A u \in Threads : pc'[u] = pc[u]
      BY <2>1 DEF SchedInv, FreshInv, Registered
    <2>4. FrameStep
      BY <2>1, <2>2 DEF FrameStep
    <2> QED
      BY <2>4, FrameSched
  <1> QED
    BY <1>1, <1>2, <1>3, <1>4, <1>5, WakeUpSched, LaunchAddSched,
       SetsAssumption
    DEF CallerStep, StopStep, Signal, InterruptService

\* SchedInv holds before anything is launched.
LEMMA SchedInit == Init => SchedInv
  <1> SUFFICES ASSUME Init PROVE SchedInv
    OBVIOUS
  <1>1. DOMAIN run_queue = {}
    BY DEF Init
  <1>2. ThreadInv /\ OwnerInv
    BY DEF Init, ThreadInv, ThreadOK, OwnerInv
  <1>3. QueueInv /\ PlaceInv
    BY <1>1 DEF Init, QueueInv, PlaceInv
  <1> QED
    BY <1>2, <1>3 DEF Init, SchedInv, QuietInv, FreshInv, MaskInv, ReasonInv,
       NoLostWakeup

\* The scheduling invariant holds in every state of the scheduler, whatever
\* services, threads, messages and client calls there are.
THEOREM SchedulingInvariant == Spec => []SchedInv
  <1>1. TypeInv /\ SchedInv /\ [Next]_vars => SchedInv'
    <2> SUFFICES ASSUME TypeInv, SchedInv, [Next]_vars PROVE SchedInv'
      OBVIOUS
    <2>1. CASE UNCHANGED vars
      BY <2>1 DEF vars, ctxVars, codeVars, threadVars, stopVars, msgVars,
         SchedInv, ThreadInv, ThreadOK, OwnerInv, QueueInv, PlaceInv,
         QuietInv, FreshInv, MaskInv, ReasonInv, NoLostWakeup
    <2> QED
      BY <2>1, SchedLibraryStep, SchedUserStep, SchedOtherStep DEF Next
  <1> QED
    BY <1>1, SchedInit, TypeCorrect, PTL DEF Spec

-----------------------------------------------------------------------------
(* What the invariant implies                                              *)

\* Every state of the scheduler is well typed.
THEOREM TypeCorrectness == Spec => []TypeOK
  BY TypeCorrect, PTL DEF TypeInv

\* No service ever runs on two worker threads, or on one while another is
\* still leaving its context: the is_swaping_out handshake between
\* Wait_Locked, Wakeup_Locked and OnResume is a mutual exclusion.
THEOREM ServiceRunsOnOneThread == Spec => []OneThreadPerService
  <1>1. SchedInv => OneThreadPerService
    BY DEF SchedInv, OwnerInv, OneThreadPerService
  <1> QED
    BY <1>1, SchedulingInvariant, PTL

\* The CHECKs of SwitchTo, Wait_Locked and OnResume never fail.
THEOREM ResumeChecksHold == Spec => []ResumeChecks
  <1>1. SchedInv => ResumeChecks
    BY DEF SchedInv, ThreadInv, ThreadOK, ResumeChecks
  <1> QED
    BY <1>1, SchedulingInvariant, PTL

\* No wakeup is lost, at whatever point of a wait or a switch it arrives.
THEOREM WakeupsAreKept == Spec => []NoLostWakeup
  <1>1. SchedInv => NoLostWakeup
    BY DEF SchedInv
  <1> QED
    BY <1>1, SchedulingInvariant, PTL

\* A ready service is in the run queue exactly once or with its one thread.
THEOREM ReadyServicesAreScheduled == Spec => []ReadyIsScheduled
  <1>1. SchedInv => ReadyIsScheduled
    BY DEF SchedInv, QueueInv, PlaceInv, ReadyIsScheduled
  <1> QED
    BY <1>1, SchedulingInvariant, PTL

\* A running service that does not yield has a thread.
THEOREM RunningServicesHaveThreads == Spec => []RunningHasThread
  <1>1. SchedInv => RunningHasThread
    BY DEF SchedInv, PlaceInv, RunningHasThread
  <1> QED
    BY <1>1, SchedulingInvariant, PTL

\* The status of a service says where it is, at every step of every switch.
THEOREM StatusesMatchTheSchedule == Spec => []StatusMatchesSchedule
  <1>1. ReadyIsScheduled /\ RunningHasThread => StatusMatchesSchedule
    BY DEF StatusMatchesSchedule
  <1> QED
    BY <1>1, ReadyServicesAreScheduled, RunningServicesHaveThreads, PTL

\* Wait_Locked never has to wait a second time.
THEOREM WakeupsHaveAReason == Spec => []NoSpuriousWakeup
  <1>1. TypeInv /\ SchedInv => NoSpuriousWakeup
    <2> SUFFICES ASSUME TypeInv, SchedInv PROVE NoSpuriousWakeup
      OBVIOUS
    <2> SUFFICES ASSUME NEW t \in Threads, pc[t] = "service",
                        mask[current[t]] # {}
                 PROVE  mask[current[t]] \cap events[current[t]] # {}
      BY DEF NoSpuriousWakeup
    <2>1. current[t] \in Services /\ status[current[t]] = "Running"
      BY RunningIsHeld
    <2> QED
      BY <2>1 DEF SchedInv, MaskInv
  <1> QED
    BY <1>1, TypeCorrect, SchedulingInvariant, PTL
=============================================================================
