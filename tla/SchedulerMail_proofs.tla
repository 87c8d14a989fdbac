------------------------ MODULE SchedulerMail_proofs ------------------------
(***************************************************************************)
(* What the scheduler does with messages, calls and Stop, for any          *)
(* services, threads and messages: a response ends the call it belongs to, *)
(* message-driven services are the actors of ActorMailbox, and Stop leaves *)
(* no service behind.  The argument rests on the ownership of contexts     *)
(* (SchedInv of Scheduler_proofs).                                         *)
(***************************************************************************)
EXTENDS Scheduler_proofs, WellFoundedInduction

\* A message is in one place: unsent, at one position of one queue, with one
\* handler, or done with.
MailInv ==
    /\ \A s \in Services :
         /\ loc[s] = "handle" <=> msg[s] # None
         /\ msg[s] # None => mstate[msg[s]] = "handling"
         /\ \A i \in DOMAIN msg_queue[s] : mstate[msg_queue[s][i]] = "queued"
    /\ \A r, s \in Services :
         /\ msg[r] = msg[s] /\ msg[r] # None => r = s
         /\ \A i \in DOMAIN msg_queue[r], j \in DOMAIN msg_queue[s] :
              msg_queue[r][i] = msg_queue[s][j] => r = s /\ i = j

\* A service in CallMethod waits for kResponse, which is latched exactly when
\* its message is done; outside CallMethod it has none.
CallInv ==
    \A s \in Services :
        /\ call[s] # None =>
             /\ reply[call[s]] = s
             /\ loc[s] \in {"handle", "main"}
             /\ mask[s] \in {{}, {"Response"}}
             /\ mstate[call[s]] \in {"queued", "handling", "done"}
             /\ "Response" \in events[s] <=> mstate[call[s]] = "done"
        /\ call[s] = None => "Response" \notin events[s] \cup mask[s]

\* A message whose closure wakes a service is that service's call.
ReplyInv ==
    \A m \in Msgs : reply[m] # None =>
        /\ mstate[m] \in {"queued", "handling", "done"}
        /\ mstate[m] # "done" => call[reply[m]] = m

\* A call that has no answer yet is with the service that was called.
PendingInv ==
    \A s \in Services : call[s] # None /\ mstate[call[s]] # "done" =>
        \E d \in Services :
            /\ <<s, d>> \in CallGraph
            /\ \/ msg[d] = call[s]
               \/ \E i \in DOMAIN msg_queue[d] : msg_queue[d][i] = call[s]

CallsInv == MailInv /\ CallInv /\ ReplyInv /\ PendingInv

\* A service is in the main function of its kind, and dies stopping, a
\* message-driven one with its queue empty.
LifeInv ==
    \A s \in Services :
        /\ status[s] = "Created" => loc[s] = "start"
        /\ status[s] = "Dead" <=> loc[s] = "dead"
        /\ status[s] = "Dead" => stopping[s]
        /\ status[s] = "Dead" /\ s \in MessageDriven => msg_queue[s] = <<>>
        /\ s \in MessageDriven => loc[s] # "main"
        /\ s \notin MessageDriven => loc[s] \notin {"loop", "handle"}

\* A blocked service waits for kServiceStop, or for the response to its call.
BlockInv ==
    \A s \in Services : status[s] = "Blocked" =>
        \/ "ServiceStop" \in wait_events[s]
        \/ "Response" \in wait_events[s] /\ call[s] # None

\* A service that is being switched out has a thread that does it.
SwapInv ==
    \A s \in Services : is_swaping_out[s] =>
        \E t \in Threads : \/ prev[t] = s
                           \/ current[t] = s /\ pc[t] = "schedule"

\* Stop without launches beside it: after the copy of services_ every service
\* is stopping or about to be told, workers are interrupted after that, and the
\* last worker leaves when everything has ended.
StopInv ==
    /\ stopper # "up" => launching = {}
    /\ stopper \in {"services", "down"} =>
         \A s \in Services : status[s] # "Created" => stopping[s] \/ s \in snapshot
    /\ interrupted # {} => stopper \in {"services", "down"} /\ snapshot = {}
    /\ \A t \in Threads : pc[t] = "exited" => t \in interrupted
    /\ stopper = "down" => \A t \in Threads : pc[t] = "exited"
    /\ (\A t \in Threads : pc[t] = "exited") =>
         /\ run_queue = <<>>
         /\ \A s \in Services : status[s] \in {"Created", "Dead"}

-----------------------------------------------------------------------------
(* Messages and calls                                                      *)

\* Types in the form the lemmas on messages use.
LEMMA MailTypes ==
    ASSUME TypeInv
    PROVE  /\ msg_queue \in [Services -> Seq(Msgs)]
           /\ mstate \in [Msgs -> Outcomes]
           /\ reply \in [Msgs -> Services \cup {None}]
           /\ loc \in [Services -> Locations]
           /\ mask \in [Services -> SUBSET Events]
           /\ msg \in [Services -> Msgs \cup {None}]
           /\ call \in [Services -> Msgs \cup {None}]
           /\ events \in [Services -> SUBSET Events]
           /\ \A s \in Services :
                /\ Len(msg_queue[s]) \in Nat
                /\ DOMAIN msg_queue[s] = 1..Len(msg_queue[s])
                /\ \A i \in 1..Len(msg_queue[s]) : msg_queue[s][i] \in Msgs
  BY DEF TypeInv, TypeOK, MailType, CodeType, CtxType

\* A step that neither moves a message nor makes or ends a call.
CallFrame ==
    /\ UNCHANGED <<mask, msg, call, msg_queue, mstate, reply>>
    /\ \A s \in Services :
         /\ "Response" \in events'[s] <=> "Response" \in events[s]
         /\ \/ loc'[s] = loc[s]
            \/ call[s] = None /\ loc[s] # "handle" /\ loc'[s] # "handle"

\* Such a step leaves messages and calls as they are.
LEMMA CallFrameKeeps ==
    ASSUME TypeInv, CallsInv, CallFrame
    PROVE  CallsInv'
  <1> USE DEF CallsInv, CallFrame
  <1>1. MailInv'
    BY DEF MailInv
  <1>2. CallInv'
    BY DEF CallInv
  <1>3. ReplyInv' /\ PendingInv'
    BY DEF ReplyInv, PendingInv
  <1> QED
    BY <1>1, <1>2, <1>3

\* Wait_Locked returns: a call is over only when its message is done.
LEMMA ReturnKeepsCalls ==
    ASSUME TypeInv, CallsInv, NEW s \in Services, Return(s), waitUnchanged,
           \A r \in Services : r # s => events'[r] = events[r],
           events'[s] \subseteq events[s],
           call[s] # None =>
               "Response" \in events[s] /\ "Response" \notin events'[s]
    PROVE  CallsInv'
  <1>1. /\ mask' = [mask EXCEPT ![s] = {}]
        /\ call' = [call EXCEPT ![s] = None]
        /\ UNCHANGED <<loc, msg, msg_queue, mstate, reply>>
    BY DEF Return, waitUnchanged, msgVars
  <1>2. /\ \A r \in Services : r # s => mask'[r] = mask[r] /\ call'[r] = call[r]
        /\ mask'[s] = {} /\ call'[s] = None
    BY <1>1, MailTypes
  <1>3. MailInv'
    BY <1>1 DEF CallsInv, MailInv
  <1>4. CallInv'
    BY <1>1, <1>2 DEF CallsInv, CallInv
  <1>5. ReplyInv'
    BY <1>1, <1>2, MailTypes DEF CallsInv, CallInv, ReplyInv
  <1>6. PendingInv'
    BY <1>1, <1>2 DEF CallsInv, PendingInv
  <1> QED
    BY <1>3, <1>4, <1>5, <1>6 DEF CallsInv

\* A service blocks in CallMethod on kResponse, elsewhere on other events.
LEMMA BlockKeepsCalls ==
    ASSUME TypeInv, CallsInv, NEW t \in Threads, NEW s \in Services, NEW es,
           IF call[s] # None THEN es = {"Response"} ELSE "Response" \notin es,
           Block(t, s, es), waitUnchanged
    PROVE  CallsInv'
  <1>1. /\ mask' = [mask EXCEPT ![s] = es]
        /\ UNCHANGED <<events, call, loc, msg, msg_queue, mstate, reply>>
    BY DEF Block, waitUnchanged, msgVars
  <1>2. \A r \in Services : mask'[r] = IF r = s THEN es ELSE mask[r]
    BY <1>1, MailTypes
  <1>3. MailInv' /\ ReplyInv' /\ PendingInv'
    BY <1>1 DEF CallsInv, MailInv, ReplyInv, PendingInv
  <1>4. CallInv'
    BY <1>1, <1>2 DEF CallsInv, CallInv
  <1> QED
    BY <1>3, <1>4 DEF CallsInv

\* Hence Wait_Locked keeps the calls, whichever of its branches is taken.
LEMMA WaitKeepsCalls ==
    ASSUME TypeInv, CallsInv, NEW t \in Threads, NEW s \in Services, NEW es,
           IF call[s] # None THEN es = {"Response"} ELSE "Response" \notin es,
           Wait_Locked(t, s, es), waitUnchanged
    PROVE  CallsInv'
  <1>1. CASE /\ stopping[s] /\ "ServiceStop" \in es
             /\ Return(s) /\ UNCHANGED events
    BY <1>1, ReturnKeepsCalls
  <1>2. CASE /\ es \cap events[s] # {}
             /\ events' = [events EXCEPT ![s] = @ \ es]
             /\ Return(s)
    <2>1. /\ \A r \in Services : r # s => events'[r] = events[r]
          /\ events'[s] = events[s] \ es
      BY <1>2, MailTypes
    <2>2. call[s] # None => "Response" \in events[s] /\ "Response" \notin events'[s]
      BY <1>2, <2>1
    <2> QED
      BY <1>2, <2>1, <2>2, ReturnKeepsCalls
  <1>3. CASE Block(t, s, es)
    BY <1>3, BlockKeepsCalls
  <1> QED
    BY <1>1, <1>2, <1>3 DEF Wait_Locked

\* What SendMessage does to the mail: all events but kMessage stay.
LEMMA SendEffect ==
    ASSUME TypeInv, NEW m \in Msgs, NEW d \in Services, SendMessage(m, d)
    PROVE  /\ \A s \in Services :
                "Response" \in events'[s] <=> "Response" \in events[s]
           /\ \/ /\ mstate' = [mstate EXCEPT ![m] = "rejected"]
                 /\ stopping[d] \/ status[d] = "Created"
                 /\ UNCHANGED <<ctxVars, run_queue>>
              \/ /\ mstate' = [mstate EXCEPT ![m] = "queued"]
                 /\ msg_queue' = [msg_queue EXCEPT ![d] = Append(msg_queue[d], m)]
                 /\ ~stopping[d] /\ status[d] # "Created"
                 /\ UNCHANGED <<stopping, is_swaping_out, wait_events>>
  <1>1. CASE stopping[d] \/ status[d] = "Created"
    BY <1>1 DEF SendMessage, ctxVars
  <1>2. CASE ~(stopping[d] \/ status[d] = "Created")
    <2>1. \/ events' = events
          \/ events' = [events EXCEPT ![d] = events[d] \cup {"Message"}]
      BY <1>2 DEF SendMessage, Wakeup_Locked
    <2>2. \A s \in Services :
            events'[s] = events[s] \/ events'[s] = events[s] \cup {"Message"}
      BY <2>1, MailTypes
    <2>3. \A s \in Services :
            "Response" \in events'[s] <=> "Response" \in events[s]
      BY <2>2
    <2> QED
      BY <1>2, <2>3 DEF SendMessage
  <1> QED
    BY <1>1, <1>2

\* An accepted message is in the queue of its destination and nowhere else,
\* a rejected one nowhere.
LEMMA SendKeepsMail ==
    ASSUME TypeInv, MailInv, NEW m \in Msgs, NEW d \in Services,
           mstate[m] = "unsent", SendMessage(m, d), UNCHANGED <<loc, msg>>
    PROVE  MailInv'
  <1>1. \A s \in Services :
          /\ msg[s] # m
          /\ \A i \in DOMAIN msg_queue[s] : msg_queue[s][i] # m
    BY NoneAssumption DEF MailInv
  <1>2. CASE UNCHANGED msg_queue
    <2>1. \A x \in Msgs : x # m => mstate'[x] = mstate[x]
      BY MailTypes, SendEffect
    <2>2. \A s \in Services :
            /\ msg[s] # None => mstate'[msg[s]] = mstate[msg[s]]
            /\ \A i \in DOMAIN msg_queue[s] : mstate'[msg_queue[s][i]] = mstate[msg_queue[s][i]]
      BY <1>1, <2>1, MailTypes
    <2> QED
      BY <1>2, <2>2 DEF MailInv
  <1>3. CASE /\ mstate' = [mstate EXCEPT ![m] = "queued"]
             /\ msg_queue' = [msg_queue EXCEPT ![d] = Append(msg_queue[d], m)]
    <2>1. /\ mstate'[m] = "queued"
          /\ \A x \in Msgs : x # m => mstate'[x] = mstate[x]
      BY <1>3, MailTypes
    <2>2. /\ \A s \in Services : s # d => msg_queue'[s] = msg_queue[s]
          /\ DOMAIN msg_queue'[d] = 1..(Len(msg_queue[d]) + 1)
          /\ msg_queue'[d][Len(msg_queue[d]) + 1] = m
          /\ \A i \in 1..Len(msg_queue[d]) : msg_queue'[d][i] = msg_queue[d][i]
      BY <1>3, MailTypes
    <2>3. \A s \in Services : \A i \in DOMAIN msg_queue'[s] :
            \/ i \in DOMAIN msg_queue[s] /\ msg_queue'[s][i] = msg_queue[s][i]
            \/ /\ s = d /\ i = Len(msg_queue[d]) + 1
               /\ msg_queue'[s][i] = m
      <3> SUFFICES ASSUME NEW s \in Services, NEW i \in DOMAIN msg_queue'[s]
                   PROVE  \/ /\ i \in DOMAIN msg_queue[s]
                             /\ msg_queue'[s][i] = msg_queue[s][i]
                          \/ /\ s = d /\ i = Len(msg_queue[d]) + 1
                             /\ msg_queue'[s][i] = m
        OBVIOUS
      <3>1. CASE s # d
        BY <2>2, <3>1
      <3>2. CASE s = d
        <4>1. i \in 1..(Len(msg_queue[d]) + 1) /\ Len(msg_queue[d]) \in Nat
          BY <2>2, <3>2, MailTypes
        <4>2. i \in 1..Len(msg_queue[d]) \/ i = Len(msg_queue[d]) + 1
          BY <4>1
        <4> QED
          BY <2>2, <3>2, <4>2, MailTypes
      <3> QED
        BY <3>1, <3>2
    <2>4. \A s \in Services :
            /\ loc'[s] = "handle" <=> msg'[s] # None
            /\ msg'[s] # None => mstate'[msg'[s]] = "handling"
            /\ \A i \in DOMAIN msg_queue'[s] : mstate'[msg_queue'[s][i]] = "queued"
      <3> SUFFICES ASSUME NEW s \in Services
                   PROVE  /\ loc[s] = "handle" <=> msg[s] # None
                          /\ msg[s] # None => mstate'[msg[s]] = "handling"
                          /\ \A i \in DOMAIN msg_queue'[s] :
                               mstate'[msg_queue'[s][i]] = "queued"
        OBVIOUS
      <3>1. msg[s] # None => msg[s] \in Msgs /\ msg[s] # m
        BY <1>1, MailTypes
      <3>2. \A i \in DOMAIN msg_queue[s] : msg_queue[s][i] \in Msgs
        BY MailTypes
      <3> QED
        BY <2>1, <2>3, <3>1, <3>2 DEF MailInv
    <2>5. \A r, s \in Services :
            \A i \in DOMAIN msg_queue'[r], j \in DOMAIN msg_queue'[s] :
                msg_queue'[r][i] = msg_queue'[s][j] => r = s /\ i = j
      BY <1>1, <2>3 DEF MailInv
    <2> QED
      BY <2>4, <2>5 DEF MailInv
  <1> QED
    BY <1>2, <1>3, SendEffect DEF ctxVars

\* SendMessage keeps what is in the queues.
LEMMA SendGrows ==
    ASSUME TypeInv, NEW m \in Msgs, NEW d \in Services, SendMessage(m, d)
    PROVE  \A s \in Services : \A i \in DOMAIN msg_queue[s] :
             i \in DOMAIN msg_queue'[s] /\ msg_queue'[s][i] = msg_queue[s][i]
  <1>1. CASE UNCHANGED msg_queue
    BY <1>1
  <1>2. CASE msg_queue' = [msg_queue EXCEPT ![d] = Append(msg_queue[d], m)]
    <2>1. \A s \in Services : s # d => msg_queue'[s] = msg_queue[s]
      BY <1>2, MailTypes
    <2>2. /\ DOMAIN msg_queue'[d] = 1..(Len(msg_queue[d]) + 1)
          /\ \A i \in 1..Len(msg_queue[d]) : msg_queue'[d][i] = msg_queue[d][i]
      BY <1>2, MailTypes
    <2>3. \A i \in DOMAIN msg_queue[d] : i \in 1..(Len(msg_queue[d]) + 1)
      BY MailTypes
    <2> QED
      BY <2>1, <2>2, <2>3, MailTypes
  <1> QED
    BY <1>1, <1>2, SendEffect DEF ctxVars

\* A message that is sent without a call leaves the calls alone.
LEMMA AsyncCallKeepsCalls ==
    ASSUME TypeInv, CallsInv, NEW m \in Msgs, NEW d \in Services,
           AsyncCallMethod(m, d)
    PROVE  CallsInv'
  <1>1. /\ mstate[m] = "unsent" /\ SendMessage(m, d)
        /\ UNCHANGED <<loc, mask, msg, call, reply>>
    BY DEF AsyncCallMethod, codeVars
  <1>2. MailInv'
    BY <1>1, SendKeepsMail DEF CallsInv
  <1>3. \A x \in Msgs : x # m => mstate'[x] = mstate[x]
    BY <1>1, SendEffect, MailTypes
  <1>4. /\ \A s \in Services : call[s] # m
        /\ reply[m] = None
    BY <1>1, NoneAssumption DEF CallsInv, CallInv, ReplyInv
  <1>5. \A s \in Services : call[s] # None => mstate'[call[s]] = mstate[call[s]]
    BY <1>3, <1>4, MailTypes
  <1>6. CallInv'
    BY <1>1, <1>5, SendEffect DEF CallsInv, CallInv
  <1>7. ReplyInv'
    BY <1>1, <1>3, <1>4 DEF CallsInv, ReplyInv
  <1>8. PendingInv'
    <2> SUFFICES ASSUME NEW r \in Services, call[r] # None,
                        mstate'[call[r]] # "done"
                 PROVE  \E e \in Services :
                          /\ <<r, e>> \in CallGraph
                          /\ \/ msg[e] = call[r]
                             \/ \E i \in DOMAIN msg_queue'[e] :
                                  msg_queue'[e][i] = call[r]
      BY <1>1 DEF PendingInv
    <2>1. mstate[call[r]] # "done"
      BY <1>5
    <2> QED
      BY <1>1, <2>1, SendGrows DEF CallsInv, PendingInv
  <1> QED
    BY <1>2, <1>6, <1>7, <1>8 DEF CallsInv

\* An accepted call is pending with its destination; its caller has no
\* kResponse of an earlier call.
LEMMA CallMethodKeepsCalls ==
    ASSUME TypeInv, CallsInv, NEW t \in Threads, NEW m \in Msgs,
           NEW d \in Services, CallMethod(t, m, d)
    PROVE  CallsInv'
  <1> DEFINE s == current[t]
  <1>1. /\ s \in Services /\ loc[s] \in {"handle", "main"} /\ mask[s] = {}
        /\ call[s] = None /\ <<s, d>> \in CallGraph
        /\ mstate[m] = "unsent" /\ SendMessage(m, d)
        /\ UNCHANGED <<loc, mask, msg>>
        /\ IF mstate'[m] = "queued"
             THEN /\ call' = [call EXCEPT ![s] = m]
                  /\ reply' = [reply EXCEPT ![m] = s]
             ELSE UNCHANGED <<call, reply>>
    BY DEF CallMethod, InUserCode, TypeInv, NamesInv
  <1>2. MailInv'
    BY <1>1, SendKeepsMail DEF CallsInv
  <1>3. \A x \in Msgs : x # m => mstate'[x] = mstate[x]
    BY <1>1, SendEffect, MailTypes
  <1>4. /\ \A r \in Services : call[r] # m
        /\ reply[m] = None /\ m # None
    BY <1>1, NoneAssumption DEF CallsInv, CallInv, ReplyInv
  <1>5. \A r \in Services : call[r] # None =>
          /\ call[r] \in Msgs /\ call[r] # m
          /\ mstate'[call[r]] = mstate[call[r]]
    BY <1>3, <1>4, MailTypes
  <1>6. \A r \in Services : \A i \in DOMAIN msg_queue[r] :
          i \in DOMAIN msg_queue'[r] /\ msg_queue'[r][i] = msg_queue[r][i]
    BY <1>1, SendGrows
  <1> HIDE DEF s
  <1>7. CASE mstate'[m] # "queued"
    <2>1. UNCHANGED <<call, reply>>
      BY <1>1, <1>7
    <2>2. CallInv'
      BY <1>1, <1>5, <2>1, SendEffect DEF CallsInv, CallInv
    <2>3. ReplyInv'
      BY <1>3, <1>4, <2>1 DEF CallsInv, ReplyInv
    <2>4. PendingInv'
      <3> SUFFICES ASSUME NEW r \in Services, call[r] # None,
                          mstate'[call[r]] # "done"
                   PROVE  \E e \in Services :
                            /\ <<r, e>> \in CallGraph
                            /\ \/ msg[e] = call[r]
                               \/ \E i \in DOMAIN msg_queue'[e] :
                                    msg_queue'[e][i] = call[r]
        BY <1>1, <2>1 DEF PendingInv
      <3>1. mstate[call[r]] # "done"
        BY <1>5
      <3>2. PICK e \in Services :
              /\ <<r, e>> \in CallGraph
              /\ \/ msg[e] = call[r]
                 \/ \E i \in DOMAIN msg_queue[e] : msg_queue[e][i] = call[r]
        BY <3>1 DEF CallsInv, PendingInv
      <3> QED
        BY <1>6, <3>2
    <2> QED
      BY <1>2, <2>2, <2>3, <2>4 DEF CallsInv
  <1>8. CASE mstate'[m] = "queued"
    <2>1. /\ call'[s] = m
          /\ \A r \in Services : r # s => call'[r] = call[r]
          /\ reply'[m] = s
          /\ \A x \in Msgs : x # m => reply'[x] = reply[x]
      BY <1>1, <1>8, MailTypes
    <2>2. \E i \in DOMAIN msg_queue'[d] : msg_queue'[d][i] = m
      <3>1. msg_queue' = [msg_queue EXCEPT ![d] = Append(msg_queue[d], m)]
        BY <1>1, <1>8, SendEffect, MailTypes
      <3>2. Len(msg_queue[d]) + 1 \in DOMAIN msg_queue'[d]
        BY <3>1, MailTypes
      <3>3. msg_queue'[d][Len(msg_queue[d]) + 1] = m
        BY <3>1, MailTypes
      <3> QED
        BY <3>2, <3>3
    <2>3. CallInv'
      <3> SUFFICES ASSUME NEW r \in Services
                   PROVE  /\ call'[r] # None =>
                               /\ reply'[call'[r]] = r
                               /\ loc'[r] \in {"handle", "main"}
                               /\ mask'[r] \in {{}, {"Response"}}
                               /\ mstate'[call'[r]] \in {"queued", "handling", "done"}
                               /\ "Response" \in events'[r] <=> mstate'[call'[r]] = "done"
                          /\ call'[r] = None => "Response" \notin events'[r] \cup mask'[r]
        BY DEF CallInv
      <3>1. CASE r = s
        <4>1. "Response" \notin events'[s]
          BY <1>1, SendEffect DEF CallsInv, CallInv
        <4> QED
          BY <1>1, <1>4, <1>8, <2>1, <3>1, <4>1
      <3>2. CASE r # s
        BY <1>1, <1>5, <2>1, <3>2, SendEffect DEF CallsInv, CallInv
      <3> QED
        BY <3>1, <3>2
    <2>4. ReplyInv'
      <3> SUFFICES ASSUME NEW x \in Msgs, reply'[x] # None
                   PROVE  /\ mstate'[x] \in {"queued", "handling", "done"}
                          /\ mstate'[x] # "done" => call'[reply'[x]] = x
        BY DEF ReplyInv
      <3>1. CASE x = m
        BY <1>8, <2>1, <3>1
      <3>2. CASE x # m
        <4>1. reply'[x] = reply[x] /\ mstate'[x] = mstate[x]
          BY <1>3, <2>1, <3>2
        <4>2. mstate[x] # "done" => reply[x] # s /\ reply[x] \in Services
          BY <1>1, <4>1, NoneAssumption, MailTypes DEF CallsInv, ReplyInv
        <4> QED
          BY <2>1, <4>1, <4>2 DEF CallsInv, ReplyInv
      <3> QED
        BY <3>1, <3>2
    <2>5. PendingInv'
      <3> SUFFICES ASSUME NEW r \in Services, call'[r] # None,
                          mstate'[call'[r]] # "done"
                   PROVE  \E e \in Services :
                            /\ <<r, e>> \in CallGraph
                            /\ \/ msg[e] = call'[r]
                               \/ \E i \in DOMAIN msg_queue'[e] :
                                    msg_queue'[e][i] = call'[r]
        BY <1>1 DEF PendingInv
      <3>1. CASE r = s
        BY <1>1, <2>1, <2>2, <3>1
      <3>2. CASE r # s
        BY <1>5, <1>6, <2>1, <3>2 DEF CallsInv, PendingInv
      <3> QED
        BY <3>1, <3>2
    <2> QED
      BY <1>2, <2>3, <2>4, <2>5 DEF CallsInv
  <1> QED
    BY <1>7, <1>8

\* The message that is popped has left its queue for good.
LEMMA PopMessageKeepsCalls ==
    ASSUME TypeInv, CallsInv, NEW t \in Threads, PopMessage(t)
    PROVE  CallsInv'
  <1> DEFINE s == current[t]
             h == Head(msg_queue[s])
  <1>1. /\ s \in Services /\ loc[s] = "loop" /\ msg_queue[s] # <<>>
        /\ msg' = [msg EXCEPT ![s] = h]
        /\ msg_queue' = [msg_queue EXCEPT ![s] = Tail(msg_queue[s])]
        /\ mstate' = [mstate EXCEPT ![h] = "handling"]
        /\ loc' = [loc EXCEPT ![s] = "handle"]
        /\ UNCHANGED <<events, mask, call, reply>>
    BY DEF PopMessage, TypeInv, NamesInv
  <1>2. /\ h \in Msgs /\ h = msg_queue[s][1] /\ h # None
        /\ Len(msg_queue[s]) \in Nat /\ Len(msg_queue[s]) > 0
        /\ DOMAIN msg_queue[s] = 1..Len(msg_queue[s])
        /\ DOMAIN Tail(msg_queue[s]) = 1..(Len(msg_queue[s]) - 1)
        /\ \A i \in DOMAIN Tail(msg_queue[s]) :
             /\ Tail(msg_queue[s])[i] = msg_queue[s][i + 1]
             /\ i + 1 \in DOMAIN msg_queue[s]
    <2>1. msg_queue[s] \in Seq(Msgs)
      BY <1>1, MailTypes
    <2> QED
      BY <1>1, <2>1, HeadTail, NoneAssumption
  <1> HIDE DEF s, h
  <1>3. mstate[h] = "queued"
    <2>1. 1 \in DOMAIN msg_queue[s]
      BY <1>2
    <2> QED
      BY <1>1, <1>2, <2>1 DEF CallsInv, MailInv
  <1>4. /\ \A r \in Services : r # s =>
             /\ msg'[r] = msg[r] /\ loc'[r] = loc[r] /\ msg_queue'[r] = msg_queue[r]
        /\ msg'[s] = h /\ loc'[s] = "handle"
        /\ msg_queue'[s] = Tail(msg_queue[s])
        /\ mstate'[h] = "handling"
        /\ \A x \in Msgs : x # h => mstate'[x] = mstate[x]
    BY <1>1, <1>2, MailTypes
  <1>5. \A r \in Services : msg[r] # h
    BY <1>2, <1>3 DEF CallsInv, MailInv
  <1>6. \A r \in Services : \A i \in DOMAIN msg_queue'[r] :
          \E j \in DOMAIN msg_queue[r] :
            /\ msg_queue'[r][i] = msg_queue[r][j] /\ msg_queue[r][j] # h
            /\ j = IF r = s THEN i + 1 ELSE i
    <2> SUFFICES ASSUME NEW r \in Services, NEW i \in DOMAIN msg_queue'[r]
                 PROVE  \E j \in DOMAIN msg_queue[r] :
                          /\ msg_queue'[r][i] = msg_queue[r][j]
                          /\ msg_queue[r][j] # h
                          /\ j = IF r = s THEN i + 1 ELSE i
      OBVIOUS
    <2>1. 1 \in DOMAIN msg_queue[s]
      BY <1>2
    <2>2. CASE r = s
      <3>1. /\ i + 1 \in DOMAIN msg_queue[s] /\ i \in 1..(Len(msg_queue[s]) - 1)
            /\ msg_queue'[s][i] = msg_queue[s][i + 1]
        BY <1>2, <1>4, <2>2
      <3>2. i + 1 # 1
        BY <1>2, <3>1
      <3>3. msg_queue[s][i + 1] # h
        BY <1>1, <1>2, <2>1, <3>1, <3>2 DEF CallsInv, MailInv
      <3> QED
        BY <2>2, <3>1, <3>3
    <2>3. CASE r # s
      <3>1. i \in DOMAIN msg_queue[r] /\ msg_queue'[r][i] = msg_queue[r][i]
        BY <1>4, <2>3
      <3>2. msg_queue[r][i] # h
        BY <1>1, <1>2, <2>1, <2>3, <3>1 DEF CallsInv, MailInv
      <3> QED
        BY <2>3, <3>1, <3>2
    <2> QED
      BY <2>2, <2>3
  <1>7. MailInv'
    <2>1. ASSUME NEW r \in Services
          PROVE  /\ loc'[r] = "handle" <=> msg'[r] # None
                 /\ msg'[r] # None => mstate'[msg'[r]] = "handling"
                 /\ \A i \in DOMAIN msg_queue'[r] :
                      mstate'[msg_queue'[r][i]] = "queued"
      <3>1. \A i \in DOMAIN msg_queue'[r] : mstate'[msg_queue'[r][i]] = "queued"
        <4> SUFFICES ASSUME NEW i \in DOMAIN msg_queue'[r]
                     PROVE  mstate'[msg_queue'[r][i]] = "queued"
          OBVIOUS
        <4>1. PICK j \in DOMAIN msg_queue[r] :
                msg_queue'[r][i] = msg_queue[r][j] /\ msg_queue[r][j] # h
          BY <1>6
        <4>2. msg_queue[r][j] \in Msgs /\ mstate[msg_queue[r][j]] = "queued"
          BY MailTypes DEF CallsInv, MailInv
        <4> QED
          BY <1>4, <4>1, <4>2
      <3>2. msg[r] # None => msg[r] \in Msgs
        BY MailTypes
      <3> QED
        BY <1>2, <1>4, <1>5, <3>1, <3>2 DEF CallsInv, MailInv
    <2>2. ASSUME NEW q \in Services, NEW r \in Services
          PROVE  /\ msg'[q] = msg'[r] /\ msg'[q] # None => q = r
                 /\ \A i \in DOMAIN msg_queue'[q], j \in DOMAIN msg_queue'[r] :
                      msg_queue'[q][i] = msg_queue'[r][j] => q = r /\ i = j
      <3>1. msg'[q] = msg'[r] /\ msg'[q] # None => q = r
        BY <1>4, <1>5 DEF CallsInv, MailInv
      <3>2. ASSUME NEW i \in DOMAIN msg_queue'[q], NEW j \in DOMAIN msg_queue'[r],
                   msg_queue'[q][i] = msg_queue'[r][j]
            PROVE  q = r /\ i = j
        <4>1. PICK a \in DOMAIN msg_queue[q] :
                /\ msg_queue'[q][i] = msg_queue[q][a]
                /\ a = IF q = s THEN i + 1 ELSE i
          BY <1>6
        <4>2. PICK b \in DOMAIN msg_queue[r] :
                /\ msg_queue'[r][j] = msg_queue[r][b]
                /\ b = IF r = s THEN j + 1 ELSE j
          BY <1>6
        <4>3. msg_queue[q][a] = msg_queue[r][b]
          BY <3>2, <4>1, <4>2
        <4>4. q = r /\ a = b
          BY <4>3 DEF CallsInv, MailInv
        <4>5. CASE q = s
          <5>1. DOMAIN msg_queue'[s] = 1..(Len(msg_queue[s]) - 1)
            BY <1>2, <1>4
          <5>2. i \in Int /\ j \in Int
            BY <1>2, <4>4, <4>5, <5>1
          <5> QED
            BY <4>1, <4>2, <4>4, <4>5, <5>2
        <4> QED
          BY <4>1, <4>2, <4>4, <4>5
      <3> QED
        BY <3>1, <3>2
    <2> QED
      BY <2>1, <2>2 DEF MailInv
  <1>8. CallInv'
    <2> SUFFICES ASSUME NEW r \in Services
                 PROVE  /\ call[r] # None =>
                             /\ reply[call[r]] = r
                             /\ loc'[r] \in {"handle", "main"}
                             /\ mask[r] \in {{}, {"Response"}}
                             /\ mstate'[call[r]] \in {"queued", "handling", "done"}
                             /\ "Response" \in events[r] <=> mstate'[call[r]] = "done"
                        /\ call[r] = None => "Response" \notin events[r] \cup mask[r]
      BY <1>1 DEF CallInv
    <2>1. call[r] # None =>
            /\ call[r] \in Msgs
            /\ call[r] = h \/ mstate'[call[r]] = mstate[call[r]]
      BY <1>4, MailTypes
    <2> QED
      BY <1>3, <1>4, <2>1 DEF CallsInv, CallInv
  <1>9. ReplyInv'
    BY <1>1, <1>3, <1>4 DEF CallsInv, ReplyInv
  <1>10. PendingInv'
    <2> SUFFICES ASSUME NEW r \in Services, call[r] # None,
                        mstate'[call[r]] # "done"
                 PROVE  \E e \in Services :
                          /\ <<r, e>> \in CallGraph
                          /\ \/ msg'[e] = call[r]
                             \/ \E i \in DOMAIN msg_queue'[e] :
                                  msg_queue'[e][i] = call[r]
      <3>1. call' = call
        BY <1>1
      <3> QED
        BY <3>1 DEF PendingInv
    <2>1. call[r] \in Msgs /\ mstate[call[r]] # "done"
      BY <1>3, <1>4, MailTypes
    <2>2. PICK e \in Services :
            /\ <<r, e>> \in CallGraph
            /\ \/ msg[e] = call[r]
               \/ \E i \in DOMAIN msg_queue[e] : msg_queue[e][i] = call[r]
      BY <2>1 DEF CallsInv, PendingInv
    <2>3. CASE e # s
      BY <1>4, <2>2, <2>3
    <2>4. CASE e = s /\ call[r] = h
      BY <1>4, <2>2, <2>4
    <2>5. CASE e = s /\ call[r] # h
      <3>1. msg[s] = None
        BY <1>1 DEF CallsInv, MailInv
      <3>2. PICK i \in DOMAIN msg_queue[s] : msg_queue[s][i] = call[r]
        BY <2>2, <2>5, <3>1
      <3>3. i \in 1..Len(msg_queue[s]) /\ i # 1
        BY <1>2, <2>5, <3>2
      <3>4. i - 1 \in 1..(Len(msg_queue[s]) - 1) /\ (i - 1) + 1 = i
        BY <1>2, <3>3
      <3>5. i - 1 \in DOMAIN msg_queue'[s] /\ msg_queue'[s][i - 1] = call[r]
        BY <1>2, <1>4, <3>2, <3>4
      <3> QED
        BY <2>2, <2>5, <3>5
    <2> QED
      BY <2>3, <2>4, <2>5
  <1> QED
    BY <1>7, <1>8, <1>9, <1>10 DEF CallsInv

\* Done wakes the service whose call the message is, and no other.
LEMMA HandlerReturnsKeepsCalls ==
    ASSUME TypeInv, CallsInv, NEW t \in Threads, HandlerReturns(t)
    PROVE  CallsInv'
  <1> DEFINE s == current[t]
             m == msg[s]
  <1>1. /\ s \in Services /\ loc[s] = "handle" /\ call[s] = None
        /\ loc' = [loc EXCEPT ![s] = "loop"]
        /\ msg' = [msg EXCEPT ![s] = None]
        /\ mstate' = [mstate EXCEPT ![m] = "done"]
        /\ IF reply[m] # None THEN Wakeup_Locked(reply[m], "Response")
                              ELSE UNCHANGED events
        /\ UNCHANGED <<msg_queue, mask, call, reply>>
    BY DEF HandlerReturns, InUserCode, TypeInv, NamesInv
  <1> HIDE DEF s
  <1>2. m \in Msgs /\ m # None /\ mstate[m] = "handling"
    BY <1>1, MailTypes DEF CallsInv, MailInv
  <1> HIDE DEF m
  <1>3. /\ \A r \in Services : r # s => msg'[r] = msg[r] /\ loc'[r] = loc[r]
        /\ msg'[s] = None /\ loc'[s] = "loop"
        /\ mstate'[m] = "done"
        /\ \A x \in Msgs : x # m => mstate'[x] = mstate[x]
    BY <1>1, <1>2, MailTypes
  <1>4. \A r \in Services : r # s => msg[r] # m
    BY <1>1, <1>2 DEF CallsInv, MailInv, m
  <1>5. \A r \in Services : \A i \in DOMAIN msg_queue[r] : msg_queue[r][i] # m
    BY <1>2 DEF CallsInv, MailInv
  <1>6. \A r \in Services : "Response" \in events'[r] <=>
          "Response" \in events[r] \/ r = reply[m]
    <2>1. CASE reply[m] = None
      BY <1>1, <2>1, NoneAssumption
    <2>2. CASE reply[m] # None
      <3>1. reply[m] \in Services /\ "Response" \in Events
        BY <1>2, <2>2, MailTypes DEF Events
      <3>2. events' = [events EXCEPT ![reply[m]] = events[reply[m]] \cup {"Response"}]
        BY <1>1, <2>2, <3>1, WakeupEffect
      <3> QED
        BY <3>1, <3>2, MailTypes
    <2> QED
      BY <2>1, <2>2
  <1>7. \A r \in Services : call[r] = m <=> r = reply[m]
    <2>1. \A r \in Services : call[r] = m => r = reply[m]
      BY <1>2 DEF CallsInv, CallInv
    <2>2. reply[m] # None => call[reply[m]] = m
      BY <1>2 DEF CallsInv, ReplyInv
    <2> QED
      BY <2>1, <2>2, NoneAssumption
  <1>8. MailInv'
    <2>1. ASSUME NEW r \in Services
          PROVE  /\ loc'[r] = "handle" <=> msg'[r] # None
                 /\ msg'[r] # None => mstate'[msg'[r]] = "handling"
                 /\ \A i \in DOMAIN msg_queue[r] : mstate'[msg_queue[r][i]] = "queued"
      <3>1. msg[r] # None => msg[r] \in Msgs
        BY MailTypes
      <3>2. \A i \in DOMAIN msg_queue[r] : msg_queue[r][i] \in Msgs
        BY MailTypes
      <3> QED
        BY <1>3, <1>4, <1>5, <3>1, <3>2 DEF CallsInv, MailInv
    <2>2. \A q, r \in Services : msg'[q] = msg'[r] /\ msg'[q] # None => q = r
      BY <1>3 DEF CallsInv, MailInv
    <2>3. msg_queue' = msg_queue
      BY <1>1
    <2> QED
      BY <2>1, <2>2, <2>3 DEF CallsInv, MailInv
  <1>9. CallInv'
    <2> SUFFICES ASSUME NEW r \in Services
                 PROVE  /\ call[r] # None =>
                             /\ reply[call[r]] = r
                             /\ loc'[r] \in {"handle", "main"}
                             /\ mask[r] \in {{}, {"Response"}}
                             /\ mstate'[call[r]] \in {"queued", "handling", "done"}
                             /\ "Response" \in events'[r] <=> mstate'[call[r]] = "done"
                        /\ call[r] = None => "Response" \notin events'[r] \cup mask[r]
      BY <1>1 DEF CallInv
    <2>1. CASE call[r] = None
      BY <1>2, <1>6, <1>7, <2>1 DEF CallsInv, CallInv
    <2>2. CASE call[r] = m
      <3>1. r # s /\ r = reply[m]
        BY <1>1, <1>2, <1>7, <2>2
      <3> QED
        BY <1>2, <1>3, <1>6, <2>2, <3>1 DEF CallsInv, CallInv
    <2>3. CASE call[r] \notin {m, None}
      <3>1. call[r] \in Msgs /\ r # s /\ r # reply[m]
        BY <1>1, <1>7, <2>3, MailTypes
      <3> QED
        BY <1>3, <1>6, <2>3, <3>1 DEF CallsInv, CallInv
    <2> QED
      BY <2>1, <2>2, <2>3
  <1>10. ReplyInv'
    BY <1>1, <1>3 DEF CallsInv, ReplyInv
  <1>11. PendingInv'
    <2> SUFFICES ASSUME NEW r \in Services, call[r] # None,
                        mstate'[call[r]] # "done"
                 PROVE  \E e \in Services :
                          /\ <<r, e>> \in CallGraph
                          /\ \/ msg'[e] = call[r]
                             \/ \E i \in DOMAIN msg_queue[e] :
                                  msg_queue[e][i] = call[r]
      <3>1. call' = call /\ msg_queue' = msg_queue
        BY <1>1
      <3> QED
        BY <3>1 DEF PendingInv
    <2>1. call[r] \in Msgs /\ call[r] # m /\ mstate[call[r]] # "done"
      BY <1>3, MailTypes
    <2>2. PICK e \in Services :
            /\ <<r, e>> \in CallGraph
            /\ \/ msg[e] = call[r]
               \/ \E i \in DOMAIN msg_queue[e] : msg_queue[e][i] = call[r]
      BY <2>1 DEF CallsInv, PendingInv
    <2>3. msg[e] = call[r] => msg'[e] = call[r]
      BY <1>3, <2>1 DEF m
    <2> QED
      BY <2>2, <2>3
  <1> QED
    BY <1>8, <1>9, <1>10, <1>11 DEF CallsInv

\* Waking a service with another event than kResponse touches no call.
LEMMA OtherWakeupKeepsCalls ==
    ASSUME TypeInv, CallsInv, NEW d \in Services, NEW e \in Events,
           e # "Response", Wakeup_Locked(d, e) \/ UNCHANGED events,
           UNCHANGED <<loc, mask, msg, call, msg_queue, mstate, reply>>
    PROVE  CallsInv'
  <1>1. \/ events' = events
        \/ events' = [events EXCEPT ![d] = events[d] \cup {e}]
    BY DEF Wakeup_Locked
  <1>2. \A s \in Services :
          events'[s] = events[s] \/ events'[s] = events[s] \cup {e}
    BY <1>1, MailTypes
  <1>3. CallFrame
    BY <1>2 DEF CallFrame
  <1> QED
    BY <1>3, CallFrameKeeps

\* Steps of the library on a worker thread keep messages and calls in order.
LEMMA CallsLibraryStep ==
    ASSUME TypeInv, SchedInv, CallsInv, NEW t \in Threads, LibraryStep(t)
    PROVE  CallsInv'
  <1> DEFINE s == current[t]
  <1>0. pc[t] = "service" =>
          /\ s \in Services /\ ~wakeup_signal[s]
          /\ mask[s] # {} => mask[s] \cap events[s] # {}
    BY RunningIsHeld DEF SchedInv, MaskInv
  <1>1. CASE WaitResponse(t)
    BY <1>0, <1>1, WaitKeepsCalls DEF WaitResponse
  <1>2. CASE WaitResumed(t)
    <2>1. /\ s \in Services /\ mask[s] \cap events[s] # {}
          /\ Return(s) /\ waitUnchanged
          /\ events' = [events EXCEPT ![s] = events[s] \ mask[s]]
      BY <1>0, <1>2 DEF WaitResumed
    <2>2. call[s] # None => mask[s] = {"Response"}
      BY <2>1 DEF CallsInv, CallInv
    <2>3. /\ \A r \in Services : r # s => events'[r] = events[r]
          /\ events'[s] = events[s] \ mask[s]
      BY <2>1, MailTypes
    <2> HIDE DEF s
    <2>4. call[s] # None => "Response" \in events[s] /\ "Response" \notin events'[s]
      BY <2>1, <2>2, <2>3
    <2>5. events'[s] \subseteq events[s]
      BY <2>3
    <2> QED
      BY <2>1, <2>3, <2>4, <2>5, ReturnKeepsCalls
  <1>3. CASE LoopWait(t)
    <2>1. /\ s \in Services /\ loc[s] = "loop"
          /\ Wait_Locked(t, s, LoopEvents) /\ waitUnchanged
      BY <1>0, <1>3 DEF LoopWait
    <2>2. call[s] = None /\ "Response" \notin LoopEvents
      BY <2>1 DEF CallsInv, CallInv, LoopEvents
    <2> QED
      BY <2>1, <2>2, WaitKeepsCalls
  <1>4. CASE LoopExit(t)
    <2>1. /\ s \in Services /\ loc[s] = "loop"
          /\ loc' = [loc EXCEPT ![s] = "dead"]
          /\ UNCHANGED <<events, mask, msg, call, msg_queue, mstate, reply>>
      BY <1>0, <1>4 DEF LoopExit, Die, msgVars
    <2>2. call[s] = None
      BY <2>1 DEF CallsInv, CallInv
    <2>3. CallFrame
      BY <2>1, <2>2, MailTypes DEF CallFrame
    <2> QED
      BY <2>3, CallFrameKeeps
  <1>5. CASE ResumeCur(t)
    <2>1. /\ UNCHANGED <<events, mask, msg, call, msg_queue, mstate, reply>>
          /\ \/ loc' = loc
             \/ /\ s \in Services
                /\ loc' = [loc EXCEPT ![s] =
                             IF @ # "start" THEN @
                             ELSE IF s \in MessageDriven THEN "loop" ELSE "main"]
      BY <1>5, SwitchTypes DEF ResumeCur, msgVars
    <2>2. \A r \in Services :
            \/ loc'[r] = loc[r]
            \/ loc[r] = "start" /\ loc'[r] # "handle"
      BY <2>1, MailTypes
    <2>3. \A r \in Services : loc[r] = "start" => call[r] = None
      BY DEF CallsInv, CallInv
    <2>4. CallFrame
      BY <2>1, <2>2, <2>3 DEF CallFrame
    <2> QED
      BY <2>4, CallFrameKeeps
  <1>6. CASE Schedule(t) \/ IdleSchedule(t) \/ IdleExit(t) \/ ResumePrev(t)
    <2>1. UNCHANGED <<loc, events, mask, msg, call, msg_queue, mstate, reply>>
      BY <1>6 DEF Schedule, IdleSchedule, IdleExit, ResumePrev, ctxVars,
                  codeVars, msgVars
    <2>2. CallFrame
      BY <2>1 DEF CallFrame
    <2> QED
      BY <2>2, CallFrameKeeps
  <1> QED
    BY <1>1, <1>2, <1>3, <1>4, <1>5, <1>6, PopMessageKeepsCalls DEF LibraryStep

\* Steps of the code of a service do.
LEMMA CallsUserStep ==
    ASSUME TypeInv, SchedInv, CallsInv, NEW t \in Threads, UserStep(t)
    PROVE  CallsInv'
  <1> DEFINE s == current[t]
  <1>1. CASE WaitSignal(t)
    <2>1. s \in Services /\ call[s] = None
      BY <1>1, SwitchTypes DEF WaitSignal, InUserCode
    <2>2. "Response" \notin SignalEvents
      BY DEF SignalEvents
    <2> QED
      BY <1>1, <2>1, <2>2, WaitKeepsCalls DEF WaitSignal
  <1>2. CASE MainReturns(t)
    <2>1. /\ s \in Services /\ loc[s] = "main" /\ call[s] = None
          /\ loc' = [loc EXCEPT ![s] = "dead"]
          /\ UNCHANGED <<events, mask, msg, call, msg_queue, mstate, reply>>
      BY <1>2, SwitchTypes DEF MainReturns, InUserCode, Die, msgVars
    <2>2. CallFrame
      BY <2>1, MailTypes DEF CallFrame
    <2> QED
      BY <2>2, CallFrameKeeps
  <1>3. CASE Yield(t)
    <2>1. UNCHANGED <<loc, events, mask, msg, call, msg_queue, mstate, reply>>
      BY <1>3 DEF Yield, ctxVars, codeVars, msgVars
    <2>2. CallFrame
      BY <2>1 DEF CallFrame
    <2> QED
      BY <2>2, CallFrameKeeps
  <1> QED
    BY <1>1, <1>2, <1>3, HandlerReturnsKeepsCalls, CallMethodKeepsCalls DEF UserStep

\* So do calls from anywhere, and the steps of Stop.
LEMMA CallsOtherStep ==
    ASSUME TypeInv, CallsInv, CallerStep \/ StopStep
    PROVE  CallsInv'
  <1>0. /\ "Signal" \in Events /\ "Interrupt" \in Events
        /\ "ServiceStop" \in Events /\ "ServiceStart" \in Events
    BY DEF Events
  <1>1. ASSUME NEW d \in Services, Signal(d) \/ InterruptService(d)
        PROVE  CallsInv'
    <2>1. /\ Wakeup_Locked(d, "Signal") \/ Wakeup_Locked(d, "Interrupt")
          /\ UNCHANGED <<loc, mask, msg, call, msg_queue, mstate, reply>>
      BY <1>1 DEF Signal, InterruptService, WakeUp, codeVars, msgVars
    <2> QED
      BY <1>0, <2>1, OtherWakeupKeepsCalls
  <1>2. ASSUME NEW d \in Services, StopService(d) \/ StopNext(d)
        PROVE  CallsInv'
    <2>1. /\ Wakeup_Locked(d, "ServiceStop") \/ UNCHANGED events
          /\ UNCHANGED <<loc, mask, msg, call, msg_queue, mstate, reply>>
      BY <1>2 DEF StopService, StopNext, StopOne, stopUnchanged, ctxVars,
                  codeVars, msgVars
    <2> QED
      BY <1>0, <2>1, OtherWakeupKeepsCalls
  <1>3. ASSUME NEW d \in Services, LaunchCheck(d) \/ LaunchAdd(d)
        PROVE  CallsInv'
    <2>1. /\ \/ events' = events
             \/ events' = [events EXCEPT ![d] = events[d] \cup {"ServiceStart"}]
          /\ UNCHANGED <<loc, mask, msg, call, msg_queue, mstate, reply>>
      BY <1>3 DEF LaunchCheck, LaunchAdd, ctxVars, codeVars, msgVars
    <2>2. \A r \in Services : \/ events'[r] = events[r]
                              \/ events'[r] = events[r] \cup {"ServiceStart"}
      BY <2>1, MailTypes
    <2>3. CallFrame
      BY <2>1, <2>2 DEF CallFrame
    <2> QED
      BY <2>3, CallFrameKeeps
  <1>4. CASE StopBegin \/ StopSnapshot \/ StopJoin
             \/ \E t \in Threads : StopInterrupt(t)
    <2>1. UNCHANGED <<loc, events, mask, msg, call, msg_queue, mstate, reply>>
      BY <1>4 DEF StopBegin, StopSnapshot, StopJoin, StopInterrupt,
         stopUnchanged, ctxVars, codeVars, msgVars
    <2>2. CallFrame
      BY <2>1 DEF CallFrame
    <2> QED
      BY <2>2, CallFrameKeeps
  <1> QED
    BY <1>1, <1>2, <1>3, <1>4, AsyncCallKeepsCalls, SetsAssumption
    DEF CallerStep, StopStep

\* Messages and calls stay in order, whatever is called, signalled or stopped.
THEOREM CallsInvariant == Spec => []CallsInv
  <1>1. Init => CallsInv
    <2> SUFFICES ASSUME Init PROVE CallsInv
      OBVIOUS
    <2>1. \A s \in Services : DOMAIN msg_queue[s] = {}
      <3>1. \A s \in Services : msg_queue[s] = <<>>
        BY DEF Init
      <3>2. DOMAIN <<>> = {}
        OBVIOUS
      <3> QED
        BY <3>1, <3>2, Zenon
    <2>2. MailInv
      BY <2>1 DEF Init, MailInv
    <2> QED
      BY <2>2 DEF Init, CallsInv, CallInv, ReplyInv, PendingInv
  <1>2. TypeInv /\ SchedInv /\ CallsInv /\ [Next]_vars => CallsInv'
    <2> SUFFICES ASSUME TypeInv, SchedInv, CallsInv, [Next]_vars PROVE CallsInv'
      OBVIOUS
    <2>1. CASE UNCHANGED vars
      <3>1. UNCHANGED <<loc, events, mask, msg, call, msg_queue, mstate, reply>>
        BY <2>1 DEF vars, ctxVars, codeVars, msgVars
      <3>2. CallFrame
        BY <3>1 DEF CallFrame
      <3> QED
        BY <3>2, CallFrameKeeps
    <2> QED
      BY <2>1, CallsLibraryStep, CallsUserStep, CallsOtherStep DEF Next
  <1> QED
    BY <1>1, <1>2, TypeCorrect, SchedulingInvariant, PTL DEF Spec

\* A service never returns from CallMethod on the response to another call:
\* kResponse is latched only for the call in progress, once it is handled.
THEOREM ResponsesMatchCalls == Spec => []ResponseMatchesCall
  <1>1. CallsInv => ResponseMatchesCall
    BY DEF CallsInv, CallInv, ResponseMatchesCall
  <1> QED
    BY <1>1, CallsInvariant, PTL

-----------------------------------------------------------------------------
(* The life of a service                                                   *)

\* A step that neither creates nor ends a service, nor moves its code.
LifeFrame ==
    \A s \in Services :
        /\ loc'[s] = loc[s]
        /\ status'[s] = "Dead" <=> status[s] = "Dead"
        /\ status'[s] = "Created" => status[s] = "Created"
        /\ stopping[s] => stopping'[s]
        /\ stopping[s] /\ msg_queue[s] = <<>> => msg_queue'[s] = <<>>

\* Such a step leaves every service in the main function of its kind.
LEMMA LifeFrameKeeps ==
    ASSUME LifeInv, LifeFrame
    PROVE  LifeInv'
  BY DEF LifeInv, LifeFrame

\* A wakeup moves a service between states of its life, not out of it.
LEMMA WakeupLife ==
    ASSUME TypeInv, NEW d \in Services, NEW e \in Events, Wakeup_Locked(d, e)
    PROVE  \A s \in Services :
             \/ status'[s] = status[s]
             \/ status[s] = "Blocked" /\ status'[s] = "Ready"
  BY WakeupEffect, SwitchTypes DEF Woken

\* Neither does SendMessage, which adds to the queue of a service that is not
\* stopping.
LEMMA SendLife ==
    ASSUME TypeInv, NEW m \in Msgs, NEW d \in Services, SendMessage(m, d)
    PROVE  /\ \A s \in Services :
                /\ \/ status'[s] = status[s]
                   \/ status[s] = "Blocked" /\ status'[s] = "Ready"
                /\ s # d \/ stopping[s] => msg_queue'[s] = msg_queue[s]
           /\ UNCHANGED stopping
  <1>1. CASE stopping[d] \/ status[d] = "Created"
    BY <1>1 DEF SendMessage, ctxVars
  <1>2. CASE ~(stopping[d] \/ status[d] = "Created")
    <2>1. /\ msg_queue' = [msg_queue EXCEPT ![d] = Append(msg_queue[d], m)]
          /\ UNCHANGED stopping
          /\ Wakeup_Locked(d, "Message") \/ UNCHANGED status
      BY <1>2 DEF SendMessage
    <2>2. "Message" \in Events
      BY DEF Events
    <2>3. \A s \in Services : s # d => msg_queue'[s] = msg_queue[s]
      BY <2>1, MailTypes
    <2> QED
      BY <1>2, <2>1, <2>2, <2>3, WakeupLife
  <1> QED
    BY <1>1, <1>2

\* Nor does StopOne, which sets the flag of the service it wakes.
LEMMA StopOneLife ==
    ASSUME TypeInv, NEW d \in Services, StopOne(d)
    PROVE  /\ \A s \in Services :
                /\ \/ status'[s] = status[s]
                   \/ status[s] = "Blocked" /\ status'[s] = "Ready"
                /\ stopping'[s] = (stopping[s] \/ s = d)
           /\ UNCHANGED msg_queue
  <1>1. CASE stopping[d]
    BY <1>1, SwitchTypes DEF StopOne, ctxVars
  <1>2. CASE ~stopping[d]
    <2>1. /\ stopping' = [stopping EXCEPT ![d] = TRUE]
          /\ Wakeup_Locked(d, "ServiceStop") /\ "ServiceStop" \in Events
          /\ UNCHANGED msg_queue
      BY <1>2 DEF StopOne, Events
    <2>2. \A s \in Services : stopping'[s] = (stopping[s] \/ s = d)
      BY <2>1, SwitchTypes
    <2> QED
      BY <2>1, <2>2, WakeupLife
  <1> QED
    BY <1>1, <1>2

\* A wait moves a running service to blocked at most.
LEMMA WaitLife ==
    ASSUME TypeInv, SchedInv, NEW t \in Threads, pc[t] = "service", NEW es,
           Wait_Locked(t, current[t], es) \/ Block(t, current[t], es)
               \/ Return(current[t]),
           waitUnchanged
    PROVE  /\ \A s \in Services :
                \/ status'[s] = status[s]
                \/ status[s] = "Running" /\ status'[s] = "Blocked"
           /\ UNCHANGED <<loc, msg, msg_queue, stopping, mstate>>
  <1>1. /\ \/ status' = status
           \/ status' = [status EXCEPT ![current[t]] = "Blocked"]
        /\ UNCHANGED <<loc, msg, msg_queue, stopping, mstate>>
    BY DEF Wait_Locked, Block, Return, waitUnchanged, msgVars
  <1>2. current[t] \in Services /\ status[current[t]] = "Running"
    BY RunningIsHeld
  <1> QED
    BY <1>1, <1>2, SwitchTypes

\* Scheduling steps move services between blocked, ready and running.
LEMMA SwitchLife ==
    ASSUME TypeInv, SchedInv, NEW t \in Threads,
           \/ Schedule(t) \/ IdleSchedule(t) \/ IdleExit(t)
           \/ ResumePrev(t) \/ Yield(t)
    PROVE  /\ \A s \in Services :
                \/ status'[s] = status[s]
                \/ status[s] = "Blocked" /\ status'[s] = "Ready"
           /\ UNCHANGED <<loc, msg, msg_queue, stopping, mstate>>
  <1>1. /\ \/ status' = status
           \/ /\ prev[t] \in Services /\ status[prev[t]] = "Blocked"
              /\ status' = [status EXCEPT ![prev[t]] = "Ready"]
        /\ UNCHANGED <<loc, msg, msg_queue, stopping, mstate>>
    BY SwitchTypes DEF Schedule, IdleSchedule, IdleExit, ResumePrev, Yield,
                       ctxVars, codeVars, msgVars
  <1> QED
    BY <1>1, SwitchTypes

\* A step that callers of a service do not see: no service is created or ends,
\* and no message moves.
Calm ==
    /\ \A s \in Services :
         \/ status'[s] = status[s]
         \/ {status[s], status'[s]} \subseteq {"Blocked", "Ready", "Running"}
    /\ UNCHANGED <<loc, msg, msg_queue, stopping, mstate>>

\* A message goes to a service that may be sent one.
Sends(m, d) ==
    /\ mstate[m] = "unsent" /\ status[d] # "Created"
    /\ SendMessage(m, d)
    /\ UNCHANGED <<loc, msg>>
    /\ d \in Destinations \/ \E s \in Services : <<s, d>> \in CallGraph

\* A registered service is told to stop.
Stops(d) ==
    StopOne(d) /\ status[d] # "Created" /\ UNCHANGED <<loc, msg, mstate>>

\* The steps of a worker thread that a service's life and mail consist of.
Works(t) ==
    \/ PopMessage(t) \/ HandlerReturns(t) \/ LoopExit(t) \/ MainReturns(t)
    \/ ResumeCur(t)

\* Every step is a step in a service's life, of its mail, or a calm one.
LEMMA StepKinds ==
    ASSUME TypeInv, SchedInv, [Next]_vars
    PROVE  \/ Calm
           \/ \E t \in Threads : Works(t)
           \/ \E s \in Services : LaunchAdd(s) \/ Stops(s)
           \/ \E m \in Msgs, d \in Services : Sends(m, d)
  <1>1. ASSUME NEW t \in Threads, LibraryStep(t)
        PROVE  Calm \/ Works(t)
    <2>1. CASE WaitResponse(t) \/ WaitResumed(t) \/ LoopWait(t)
      <3>1. /\ pc[t] = "service" /\ current[t] \in Services
            /\ ~wakeup_signal[current[t]]
        BY <2>1, RunningIsHeld DEF WaitResponse, WaitResumed, LoopWait
      <3>2. /\ waitUnchanged
            /\ \/ \E es : \/ Wait_Locked(t, current[t], es)
                          \/ Block(t, current[t], es)
               \/ Return(current[t])
        BY <2>1, <3>1 DEF WaitResponse, WaitResumed, LoopWait
      <3> QED
        BY <3>1, <3>2, WaitLife DEF Calm
    <2>2. CASE Schedule(t) \/ IdleSchedule(t) \/ IdleExit(t) \/ ResumePrev(t)
      BY <2>2, SwitchLife DEF Calm
    <2> QED
      BY <1>1, <2>1, <2>2 DEF LibraryStep, Works
  <1>2. ASSUME NEW t \in Threads, UserStep(t)
        PROVE  Calm \/ Works(t) \/ \E m \in Msgs, d \in Services : Sends(m, d)
    <2>1. CASE WaitSignal(t)
      BY <2>1, WaitLife DEF WaitSignal, InUserCode, Calm
    <2>2. CASE Yield(t)
      BY <2>2, SwitchLife DEF Calm
    <2>3. ASSUME NEW m \in Msgs, NEW d \in Services, CallMethod(t, m, d)
          PROVE  Sends(m, d)
      BY <2>3, SwitchTypes DEF CallMethod, InUserCode, Sends, GrabService
    <2> QED
      BY <1>2, <2>1, <2>2, <2>3 DEF UserStep, Works
  <1>3. ASSUME NEW d \in Services,
               \/ Signal(d) \/ InterruptService(d) \/ LaunchCheck(d)
               \/ StopService(d) \/ StopNext(d)
        PROVE  Calm \/ Stops(d)
    <2>1. CASE Signal(d) \/ InterruptService(d)
      <3>1. /\ \/ Wakeup_Locked(d, "Signal") \/ Wakeup_Locked(d, "Interrupt")
            /\ UNCHANGED <<loc, msg, msg_queue, stopping, mstate>>
        BY <2>1 DEF Signal, InterruptService, WakeUp, codeVars, msgVars
      <3>2. "Signal" \in Events /\ "Interrupt" \in Events
        BY DEF Events
      <3> QED
        BY <3>1, <3>2, WakeupLife DEF Calm
    <2>2. CASE LaunchCheck(d)
      BY <2>2 DEF LaunchCheck, Calm, ctxVars, codeVars, msgVars
    <2>3. CASE StopService(d) \/ StopNext(d)
      BY <2>3 DEF StopService, StopNext, Stops, GrabService, stopUnchanged,
                  codeVars, msgVars, SchedInv, FreshInv
    <2> QED
      BY <1>3, <2>1, <2>2, <2>3
  <1>4. CASE StopBegin \/ StopSnapshot \/ StopJoin
             \/ \E t \in Threads : StopInterrupt(t)
    BY <1>4 DEF StopBegin, StopSnapshot, StopJoin, StopInterrupt, stopUnchanged,
                ctxVars, codeVars, msgVars, Calm
  <1>5. ASSUME NEW m \in Msgs, NEW d \in Destinations, AsyncCallMethod(m, d)
        PROVE  Sends(m, d) /\ d \in Services
    BY <1>5, SetsAssumption DEF AsyncCallMethod, Sends, GrabService, codeVars
  <1>6. CASE UNCHANGED vars
    BY <1>6 DEF vars, ctxVars, codeVars, msgVars, Calm
  <1>7. CASE CallerStep \/ StopStep
    BY <1>3, <1>4, <1>5, <1>7, SetsAssumption DEF CallerStep, StopStep
  <1> QED
    BY <1>1, <1>2, <1>6, <1>7 DEF Next

\* Every service stays in the main function of its kind, and ends stopping.
LEMMA LifeNext ==
    ASSUME TypeInv, SchedInv, CallsInv, LifeInv, [Next]_vars
    PROVE  LifeInv'
  <1>1. CASE Calm
    <2>1. LifeFrame
      BY <1>1 DEF Calm, LifeFrame
    <2> QED
      BY <2>1, LifeFrameKeeps
  <1>2. ASSUME NEW d \in Services, Stops(d)
        PROVE  LifeInv'
    <2>1. LifeFrame
      BY <1>2, StopOneLife DEF Stops, LifeFrame
    <2> QED
      BY <2>1, LifeFrameKeeps
  <1>3. ASSUME NEW m \in Msgs, NEW d \in Services, Sends(m, d)
        PROVE  LifeInv'
    <2>1. LifeFrame
      BY <1>3, SendLife DEF Sends, LifeFrame
    <2> QED
      BY <2>1, LifeFrameKeeps
  <1>4. ASSUME NEW s \in Services, LaunchAdd(s)
        PROVE  LifeInv'
    <2>1. /\ status[s] = "Created"
          /\ \/ status' = [status EXCEPT ![s] = "Blocked"]
             \/ status' = [status EXCEPT ![s] = "Ready"]
          /\ UNCHANGED <<loc, msg_queue, stopping>>
      BY <1>4 DEF LaunchAdd, codeVars, SchedInv, FreshInv
    <2>2. LifeFrame
      BY <2>1, SwitchTypes DEF LifeFrame
    <2> QED
      BY <2>2, LifeFrameKeeps
  <1>5. ASSUME NEW t \in Threads, Works(t)
        PROVE  LifeInv'
    <2> DEFINE s == current[t]
    <2>1. CASE PopMessage(t)
      <3>1. /\ s \in Services /\ status[s] = "Running" /\ loc[s] = "loop"
            /\ loc' = [loc EXCEPT ![s] = "handle"]
            /\ msg_queue' = [msg_queue EXCEPT ![s] = Tail(msg_queue[s])]
            /\ UNCHANGED <<status, stopping>>
        BY <2>1, RunningIsHeld DEF PopMessage
      <3> QED
        BY <3>1, MailTypes DEF LifeInv
    <2>2. CASE HandlerReturns(t)
      <3>1. /\ s \in Services /\ status[s] = "Running" /\ loc[s] = "handle"
            /\ loc' = [loc EXCEPT ![s] = "loop"]
            /\ UNCHANGED <<msg_queue, stopping>>
        BY <2>2, RunningIsHeld DEF HandlerReturns, InUserCode
      <3>2. \A r \in Services :
              \/ status'[r] = status[r]
              \/ status[r] = "Blocked" /\ status'[r] = "Ready"
        <4>1. \/ status' = status
              \/ /\ reply[msg[s]] # None
                 /\ Wakeup_Locked(reply[msg[s]], "Response")
          BY <2>2 DEF HandlerReturns
        <4>2. reply[msg[s]] # None => reply[msg[s]] \in Services
          BY <3>1, MailTypes DEF TypeInv, NamesInv
        <4>3. "Response" \in Events
          BY DEF Events
        <4> QED
          BY <4>1, <4>2, <4>3, WakeupLife
      <3> QED
        BY <3>1, <3>2, MailTypes DEF LifeInv
    <2>3. CASE LoopExit(t)
      <3>1. /\ s \in Services /\ status[s] = "Running" /\ stopping[s]
            /\ loc[s] = "loop" /\ msg_queue[s] = <<>>
            /\ loc' = [loc EXCEPT ![s] = "dead"]
            /\ status' = [status EXCEPT ![s] = "Dead"]
            /\ UNCHANGED <<msg_queue, stopping>>
        BY <2>3, RunningIsHeld DEF LoopExit, Die
      <3> QED
        BY <3>1, MailTypes, SwitchTypes DEF LifeInv
    <2>4. CASE MainReturns(t)
      <3>1. /\ s \in Services /\ status[s] = "Running" /\ loc[s] = "main"
            /\ loc' = [loc EXCEPT ![s] = "dead"]
            /\ status' = [status EXCEPT ![s] = "Dead"]
            /\ stopping' = [stopping EXCEPT ![s] = TRUE]
            /\ UNCHANGED msg_queue
        BY <2>4, RunningIsHeld DEF MainReturns, InUserCode, Die
      <3> QED
        BY <3>1, MailTypes, SwitchTypes DEF LifeInv
    <2>5. CASE ResumeCur(t)
      <3>1. CASE s = Idle
        <4>1. UNCHANGED <<loc, status, stopping, msg_queue>>
          BY <2>5, <3>1 DEF ResumeCur
        <4> QED
          BY <4>1 DEF LifeInv
      <3>2. CASE s # Idle
        <4>1. /\ s \in Services /\ status[s] = "Ready"
              /\ status' = [status EXCEPT ![s] = "Running"]
              /\ loc' = [loc EXCEPT ![s] =
                           IF @ # "start" THEN @
                           ELSE IF s \in MessageDriven THEN "loop" ELSE "main"]
              /\ UNCHANGED <<stopping, msg_queue>>
          BY <2>5, <3>2, SwitchTypes DEF ResumeCur, SchedInv, ThreadInv, ThreadOK
        <4> QED
          BY <4>1, MailTypes, SwitchTypes DEF LifeInv
      <3> QED
        BY <3>1, <3>2
    <2> QED
      BY <1>5, <2>1, <2>2, <2>3, <2>4, <2>5 DEF Works
  <1> QED
    BY <1>1, <1>2, <1>3, <1>4, <1>5, StepKinds

\* Services live and die as LifeInv says.
THEOREM LifeInvariant == Spec => []LifeInv
  <1>1. Init => LifeInv
    BY DEF Init, LifeInv
  <1> QED
    BY <1>1, LifeNext, TypeCorrect, SchedulingInvariant, CallsInvariant, PTL
    DEF Spec

-----------------------------------------------------------------------------
(* Message-driven services are actors                                      *)

\* Only message-driven services are sent messages.
ActorsAreCalled ==
    /\ Destinations \subseteq MessageDriven
    /\ CallGraph \subseteq Services \X MessageDriven

\* The life of an actor, before and after a step.
LEMMA LifeIs ==
    ASSUME NEW s
    PROVE  /\ Life(s) = IF status[s] = "Created" THEN "absent"
                        ELSE IF status[s] = "Dead" THEN "dead" ELSE "alive"
           /\ Life(s)' = IF status'[s] = "Created" THEN "absent"
                         ELSE IF status'[s] = "Dead" THEN "dead" ELSE "alive"
  BY DEF Life

\* What no message-driven service's caller sees is no step of an actor.
LEMMA UnseenStutters ==
    ASSUME \A s \in MessageDriven :
               /\ status'[s] = "Created" <=> status[s] = "Created"
               /\ status'[s] = "Dead" <=> status[s] = "Dead"
               /\ stopping'[s] = stopping[s]
               /\ msg_queue'[s] = msg_queue[s]
               /\ msg'[s] = msg[s],
           UNCHANGED mstate
    PROVE  UNCHANGED Mailbox!vars
  <1>1. \A s \in MessageDriven : Life(s)' = Life(s)
    BY LifeIs
  <1> QED
    BY <1>1 DEF Mailbox!vars

\* A message that is sent is accepted or rejected.
LEMMA SendIsAnActorsStep ==
    ASSUME TypeInv, LifeInv, ActorsAreCalled, NEW m \in Msgs,
           NEW d \in Services, Sends(m, d)
    PROVE  Mailbox!Next
  <1>1. d \in MessageDriven
    BY DEF Sends, ActorsAreCalled
  <1>2. \A s \in MessageDriven : s \in Services
    BY SetsAssumption
  <1>3. \A s \in MessageDriven : Life(s)' = Life(s)
    BY <1>2, SendLife, LifeIs DEF Sends
  <1>4. UNCHANGED <<stopping, msg>>
    BY SendLife DEF Sends
  <1>5. CASE stopping[d]
    <2>1. UNCHANGED msg_queue /\ mstate' = [mstate EXCEPT ![m] = "rejected"]
      BY <1>5, SendEffect DEF Sends, ctxVars
    <2>2. Mailbox!Reject(m, d)
      BY <1>1, <1>3, <1>4, <1>5, <2>1 DEF Mailbox!Reject, Sends
    <2> QED
      BY <1>1, <2>2 DEF Mailbox!Next
  <1>6. CASE ~stopping[d]
    <2>1. /\ msg_queue' = [msg_queue EXCEPT ![d] = Append(msg_queue[d], m)]
          /\ mstate' = [mstate EXCEPT ![m] = "queued"]
      BY <1>6, SendEffect DEF Sends, ctxVars
    <2>2. Life(d) = "alive"
      BY <1>6, LifeIs DEF LifeInv, Sends
    <2>3. Mailbox!Accept(m, d)
      BY <1>1, <1>2, <1>3, <1>4, <1>6, <2>1, <2>2, MailTypes
      DEF Mailbox!Accept, Sends
    <2> QED
      BY <1>1, <2>3 DEF Mailbox!Next
  <1> QED
    BY <1>5, <1>6

\* A first stop closes an actor; of another service, or again, nobody sees it.
LEMMA StopIsAnActorsStep ==
    ASSUME TypeInv, LifeInv, NEW d \in Services, Stops(d)
    PROVE  Mailbox!Next \/ UNCHANGED Mailbox!vars
  <1>1. \A s \in MessageDriven : s \in Services
    BY SetsAssumption
  <1>2. UNCHANGED <<msg_queue, msg, mstate>>
    BY StopOneLife DEF Stops
  <1>3. \A s \in Services :
          /\ status'[s] = "Created" <=> status[s] = "Created"
          /\ status'[s] = "Dead" <=> status[s] = "Dead"
          /\ stopping'[s] = (stopping[s] \/ s = d)
    BY StopOneLife DEF Stops
  <1>4. CASE stopping[d] \/ d \notin MessageDriven
    <2>1. \A s \in MessageDriven : stopping'[s] = stopping[s]
      BY <1>1, <1>3, <1>4, SwitchTypes
    <2> QED
      BY <1>1, <1>2, <1>3, <2>1, UnseenStutters
  <1>5. CASE ~stopping[d] /\ d \in MessageDriven
    <2>1. Life(d) = "alive"
      BY <1>5, LifeIs DEF LifeInv, Stops
    <2>2. \A s \in MessageDriven : Life(s)' = Life(s)
      BY <1>1, <1>3, LifeIs
    <2>3. \A s \in MessageDriven :
            stopping'[s] = IF s = d THEN TRUE ELSE stopping[s]
      BY <1>1, <1>3, SwitchTypes
    <2>4. Mailbox!Close(d)
      BY <1>2, <1>5, <2>1, <2>2, <2>3 DEF Mailbox!Close
    <2> QED
      BY <1>5, <2>4 DEF Mailbox!Next
  <1> QED
    BY <1>4, <1>5

\* LaunchService makes an actor of a message-driven service.
LEMMA LaunchIsAnActorsStep ==
    ASSUME TypeInv, SchedInv, NEW d \in Services, LaunchAdd(d)
    PROVE  Mailbox!Next \/ UNCHANGED Mailbox!vars
  <1>1. \A s \in MessageDriven : s \in Services
    BY SetsAssumption
  <1>2. /\ status[d] = "Created"
        /\ \/ status' = [status EXCEPT ![d] = "Blocked"]
           \/ status' = [status EXCEPT ![d] = "Ready"]
        /\ UNCHANGED <<stopping, msg_queue, msg, mstate>>
    BY DEF LaunchAdd, codeVars, msgVars, SchedInv, FreshInv
  <1>3. /\ \A s \in Services : s # d => status'[s] = status[s]
        /\ status'[d] \in {"Blocked", "Ready"}
    BY <1>2, SwitchTypes
  <1>4. CASE d \notin MessageDriven
    BY <1>1, <1>2, <1>3, <1>4, UnseenStutters
  <1>5. CASE d \in MessageDriven
    <2>1. /\ Life(d) = "absent"
          /\ \A s \in MessageDriven :
               Life(s)' = IF s = d THEN "alive" ELSE Life(s)
      BY <1>1, <1>2, <1>3, LifeIs
    <2>2. Mailbox!Launch(d)
      BY <1>2, <1>5, <2>1 DEF Mailbox!Launch
    <2> QED
      BY <1>5, <2>2 DEF Mailbox!Next
  <1> QED
    BY <1>4, <1>5

\* The steps an actor takes of itself are steps of the mailboxes.
LEMMA ActorsOwnStep ==
    ASSUME NEW a \in MessageDriven,
           Mailbox!Begin(a) \/ Mailbox!Finish(a) \/ Mailbox!Retire(a)
    PROVE  Mailbox!Next
  BY DEF Mailbox!Next

\* The main loop of a message-driven service takes the steps of its actor.
LEMMA WorkIsAnActorsStep ==
    ASSUME TypeInv, SchedInv, CallsInv, LifeInv, NEW t \in Threads, Works(t)
    PROVE  Mailbox!Next \/ UNCHANGED Mailbox!vars
  <1>0. PICK s \in Services \cup {Idle} : s = current[t]
    BY SwitchTypes
  <1>1. \A r \in MessageDriven : r \in Services
    BY SetsAssumption
  <1>2. CASE PopMessage(t)
    <2>1. /\ s \in Services /\ status[s] = "Running" /\ loc[s] = "loop"
          /\ msg_queue[s] # <<>>
          /\ msg' = [msg EXCEPT ![s] = Head(msg_queue[s])]
          /\ msg_queue' = [msg_queue EXCEPT ![s] = Tail(msg_queue[s])]
          /\ mstate' = [mstate EXCEPT ![Head(msg_queue[s])] = "handling"]
          /\ UNCHANGED <<status, stopping>>
      BY <1>0, <1>2, RunningIsHeld DEF PopMessage
    <2>2. s \in MessageDriven /\ msg[s] = None
      BY <2>1 DEF LifeInv, CallsInv, MailInv
    <2>3. Life(s) = "alive" /\ \A r \in MessageDriven : Life(r)' = Life(r)
      BY <2>1, LifeIs
    <2>4. Mailbox!Begin(s)
      BY <1>1, <2>1, <2>2, <2>3, MailTypes DEF Mailbox!Begin
    <2> QED
      BY <2>2, <2>4, ActorsOwnStep
  <1>3. CASE HandlerReturns(t)
    <2>1. /\ s \in Services /\ loc[s] = "handle"
          /\ msg' = [msg EXCEPT ![s] = None]
          /\ mstate' = [mstate EXCEPT ![msg[s]] = "done"]
          /\ UNCHANGED <<msg_queue, stopping>>
      BY <1>0, <1>3, RunningIsHeld DEF HandlerReturns, InUserCode
    <2>2. s \in MessageDriven /\ msg[s] # None
      BY <2>1 DEF LifeInv, CallsInv, MailInv
    <2>3. \A r \in MessageDriven : Life(r)' = Life(r)
      <3>1. \/ status' = status
            \/ /\ reply[msg[s]] # None
               /\ Wakeup_Locked(reply[msg[s]], "Response")
        BY <1>0, <1>3 DEF HandlerReturns
      <3>2. reply[msg[s]] # None => reply[msg[s]] \in Services
        BY <2>1, MailTypes DEF TypeInv, NamesInv
      <3>3. "Response" \in Events
        BY DEF Events
      <3>4. \A r \in Services :
              \/ status'[r] = status[r]
              \/ status[r] = "Blocked" /\ status'[r] = "Ready"
        BY <3>1, <3>2, <3>3, WakeupLife
      <3> QED
        BY <1>1, <3>4, LifeIs
    <2>4. Mailbox!Finish(s)
      BY <1>1, <2>1, <2>2, <2>3, MailTypes DEF Mailbox!Finish
    <2> QED
      BY <2>2, <2>4, ActorsOwnStep
  <1>4. CASE LoopExit(t)
    <2>1. /\ s \in Services /\ status[s] = "Running" /\ stopping[s]
          /\ loc[s] = "loop" /\ msg_queue[s] = <<>>
          /\ status' = [status EXCEPT ![s] = "Dead"]
          /\ UNCHANGED <<msg_queue, stopping, msg, mstate>>
      BY <1>0, <1>4, RunningIsHeld DEF LoopExit, Die, msgVars
    <2>2. s \in MessageDriven /\ msg[s] = None
      BY <2>1 DEF LifeInv, CallsInv, MailInv
    <2>3. /\ Life(s) = "alive"
          /\ \A r \in MessageDriven : Life(r)' = IF r = s THEN "dead" ELSE Life(r)
      BY <1>1, <2>1, LifeIs, SwitchTypes
    <2>4. Mailbox!Retire(s)
      BY <2>1, <2>2, <2>3 DEF Mailbox!Retire
    <2> QED
      BY <2>2, <2>4, ActorsOwnStep
  <1>5. CASE MainReturns(t)
    <2>1. /\ s \in Services /\ loc[s] = "main"
          /\ status' = [status EXCEPT ![s] = "Dead"]
          /\ stopping' = [stopping EXCEPT ![s] = TRUE]
          /\ UNCHANGED <<msg_queue, msg, mstate>>
      BY <1>0, <1>5, RunningIsHeld DEF MainReturns, InUserCode, Die, msgVars
    <2>2. s \notin MessageDriven
      BY <2>1 DEF LifeInv
    <2>3. \A r \in MessageDriven : status'[r] = status[r] /\ stopping'[r] = stopping[r]
      BY <1>1, <2>1, <2>2, SwitchTypes
    <2> QED
      BY <2>1, <2>3, UnseenStutters
  <1>6. CASE ResumeCur(t)
    <2>1. /\ \/ status' = status
             \/ /\ s \in Services /\ status[s] = "Ready"
                /\ status' = [status EXCEPT ![s] = "Running"]
          /\ UNCHANGED <<stopping, msg_queue, msg, mstate>>
      BY <1>0, <1>6, SwitchTypes
      DEF ResumeCur, SchedInv, ThreadInv, ThreadOK, msgVars
    <2>2. \A r \in MessageDriven :
            /\ status'[r] = "Created" <=> status[r] = "Created"
            /\ status'[r] = "Dead" <=> status[r] = "Dead"
      BY <1>1, <2>1, SwitchTypes
    <2> QED
      BY <2>1, <2>2, UnseenStutters
  <1> QED
    BY <1>2, <1>3, <1>4, <1>5, <1>6 DEF Works

\* The scheduler implements the actors of ActorMailbox: with threads, a run
\* queue, wakeups and switches, every accepted message is still handled once,
\* alone and in its turn, and a stopped service handles what it has accepted
\* before it ends.
THEOREM ServicesAreActors ==
    ASSUME ActorsAreCalled
    PROVE  Spec => ImplementsMailbox
  <1>1. Init => Mailbox!Init
    <2> SUFFICES ASSUME Init PROVE Mailbox!Init
      OBVIOUS
    <2>1. \A s \in MessageDriven : s \in Services /\ Life(s) = "absent"
      BY LifeIs, SetsAssumption DEF Init
    <2> QED
      BY <2>1 DEF Init, Mailbox!Init
  <1>2. TypeInv /\ SchedInv /\ CallsInv /\ LifeInv /\ [Next]_vars
          => [Mailbox!Next]_(Mailbox!vars)
    <2> SUFFICES ASSUME TypeInv, SchedInv, CallsInv, LifeInv, [Next]_vars
                 PROVE  Mailbox!Next \/ UNCHANGED Mailbox!vars
      OBVIOUS
    <2>1. CASE Calm
      <3>1. \A s \in MessageDriven : s \in Services
        BY SetsAssumption
      <3> QED
        BY <2>1, <3>1, UnseenStutters DEF Calm
    <2> QED
      BY <2>1, StepKinds, WorkIsAnActorsStep, LaunchIsAnActorsStep,
         StopIsAnActorsStep, SendIsAnActorsStep
  <1> QED
    BY <1>1, <1>2, TypeCorrect, SchedulingInvariant, CallsInvariant,
       LifeInvariant, PTL
    DEF Spec, ImplementsMailbox, Mailbox!Spec

-----------------------------------------------------------------------------
(* Blocked and leaving services                                            *)

\* A step that blocks nobody and switches nobody out.
WaitFrame ==
    /\ \A s \in Services :
         /\ status'[s] = "Blocked" =>
              /\ status[s] = "Blocked" /\ wait_events'[s] = wait_events[s]
              /\ call[s] # None => call'[s] # None
         /\ is_swaping_out'[s] => is_swaping_out[s]
    /\ UNCHANGED <<current, prev>>
    /\ \A t \in Threads : pc[t] = "schedule" => pc'[t] = "schedule"

\* Such a step keeps what blocked and leaving services are waiting for.
LEMMA WaitFrameKeeps ==
    ASSUME BlockInv, SwapInv, WaitFrame
    PROVE  BlockInv' /\ SwapInv'
  <1>1. BlockInv'
    BY DEF BlockInv, WaitFrame
  <1>2. SwapInv'
    BY DEF SwapInv, WaitFrame
  <1> QED
    BY <1>1, <1>2

\* A service that blocks is marked, and its thread is about to leave it.
LEMMA BlockKeepsWaits ==
    ASSUME TypeInv, SchedInv, BlockInv, SwapInv, NEW t \in Threads, NEW es,
           pc[t] = "service", Block(t, current[t], es), waitUnchanged,
           \/ "ServiceStop" \in es
           \/ "Response" \in es /\ call[current[t]] # None
    PROVE  BlockInv' /\ SwapInv'
  <1>1. PICK s \in Services : s = current[t]
    BY SwitchTypes
  <1>2. /\ status' = [status EXCEPT ![s] = "Blocked"]
        /\ is_swaping_out' = [is_swaping_out EXCEPT ![s] = TRUE]
        /\ wait_events' = [wait_events EXCEPT ![s] = es]
        /\ pc' = [pc EXCEPT ![t] = "schedule"]
        /\ UNCHANGED <<call, current, prev>>
    BY <1>1 DEF Block, waitUnchanged
  <1>3. \A r \in Services :
          /\ r # s => status'[r] = status[r] /\ wait_events'[r] = wait_events[r]
          /\ wait_events'[s] = es
    BY <1>2, SwitchTypes
  <1>4. BlockInv'
    BY <1>1, <1>2, <1>3 DEF BlockInv
  <1>5. SwapInv'
    <2> SUFFICES ASSUME NEW r \in Services, is_swaping_out'[r]
                 PROVE  \E u \in Threads : \/ prev[u] = r
                                           \/ current[u] = r /\ pc'[u] = "schedule"
      BY <1>2 DEF SwapInv
    <2>1. CASE r = s
      BY <1>1, <1>2, <2>1, SwitchTypes
    <2>2. CASE r # s
      <3>1. is_swaping_out[r]
        BY <1>2, <2>2, SwitchTypes
      <3>2. \A u \in Threads : pc[u] = "schedule" => pc'[u] = "schedule"
        BY <1>2, SwitchTypes
      <3> QED
        BY <3>1, <3>2 DEF SwapInv
    <2> QED
      BY <2>1, <2>2
  <1> QED
    BY <1>4, <1>5

\* Wait_Locked returns to a running service.
LEMMA ReturnKeepsWaits ==
    ASSUME TypeInv, SchedInv, BlockInv, SwapInv, NEW t \in Threads,
           pc[t] = "service", Return(current[t]), waitUnchanged,
           \/ wait_events' = wait_events
           \/ wait_events' = [wait_events EXCEPT ![current[t]] = {}]
    PROVE  BlockInv' /\ SwapInv'
  <1>1. PICK s \in Services : s = current[t] /\ status[s] = "Running"
    BY RunningIsHeld
  <1>2. /\ call' = [call EXCEPT ![s] = None]
        /\ UNCHANGED <<status, is_swaping_out, pc, current, prev>>
    BY <1>1 DEF Return, waitUnchanged
  <1>3. \A r \in Services : r # s =>
          call'[r] = call[r] /\ wait_events'[r] = wait_events[r]
    BY <1>1, <1>2, MailTypes, SwitchTypes
  <1>4. WaitFrame
    BY <1>1, <1>2, <1>3 DEF WaitFrame
  <1> QED
    BY <1>4, WaitFrameKeeps

\* A thread that switches takes the service it leaves along as `prev'.
LEMMA SwitchKeepsWaits ==
    ASSUME TypeInv, SchedInv, BlockInv, SwapInv, NEW t \in Threads,
           Schedule(t) \/ IdleSchedule(t)
    PROVE  BlockInv' /\ SwapInv'
  <1>1. PICK s \in Services \cup {Idle} : s = current[t]
    BY SwitchTypes
  <1>2. /\ is_swaping_out' = IF s = Idle THEN is_swaping_out
                             ELSE [is_swaping_out EXCEPT ![s] = TRUE]
        /\ \E n : current' = [current EXCEPT ![t] = n]
        /\ prev' = [prev EXCEPT ![t] = s]
        /\ pc' = [pc EXCEPT ![t] = "resume_prev"]
        /\ pc[t] \in {"schedule", "idle"}
        /\ UNCHANGED <<status, wait_events, call>>
    BY <1>1 DEF Schedule, IdleSchedule, SwitchTo, codeVars
  <1>3. BlockInv'
    BY <1>2 DEF BlockInv
  <1>4. SwapInv'
    <2> SUFFICES ASSUME NEW r \in Services, is_swaping_out'[r]
                 PROVE  \E u \in Threads : \/ prev'[u] = r
                                           \/ current'[u] = r /\ pc'[u] = "schedule"
      BY DEF SwapInv
    <2>1. CASE r = s
      <3>1. prev'[t] = r
        BY <1>2, <2>1, SwitchTypes
      <3> QED
        BY <3>1
    <2>2. CASE r # s
      <3>1. is_swaping_out[r]
        BY <1>2, <2>2, SwitchTypes
      <3>2. PICK u \in Threads : \/ prev[u] = r
                                 \/ current[u] = r /\ pc[u] = "schedule"
        BY <3>1 DEF SwapInv
      <3>3. prev[t] = None /\ r # None
        BY <1>2, LeavingFacts, NoneAssumption
      <3>4. u # t
        BY <1>1, <2>2, <3>2, <3>3
      <3>5. prev'[u] = prev[u] /\ current'[u] = current[u] /\ pc'[u] = pc[u]
        BY <1>2, <3>4, SwitchTypes
      <3> QED
        BY <3>2, <3>5
    <2> QED
      BY <2>1, <2>2
  <1> QED
    BY <1>3, <1>4

\* OnResume clears the mark of the service its thread has left.
LEMMA ResumePrevKeepsWaits ==
    ASSUME TypeInv, SchedInv, BlockInv, SwapInv, NEW t \in Threads, ResumePrev(t)
    PROVE  BlockInv' /\ SwapInv'
  <1>1. PICK p \in Services \cup {Idle} : p = prev[t]
    BY SwitchTypes DEF ResumePrev
  <1>2. /\ is_swaping_out' = IF p = Idle THEN is_swaping_out
                             ELSE [is_swaping_out EXCEPT ![p] = FALSE]
        /\ status' = status \/ status' = [status EXCEPT ![p] = "Ready"]
        /\ prev' = [prev EXCEPT ![t] = None]
        /\ pc' = [pc EXCEPT ![t] = "resume_cur"]
        /\ pc[t] = "resume_prev"
        /\ UNCHANGED <<wait_events, call, current>>
    BY <1>1 DEF ResumePrev, codeVars
  <1>3. BlockInv'
    <2>1. \A r \in Services : status'[r] = "Blocked" => status[r] = "Blocked"
      BY <1>2, SwitchTypes
    <2> QED
      BY <1>2, <2>1 DEF BlockInv
  <1>4. SwapInv'
    <2> SUFFICES ASSUME NEW r \in Services, is_swaping_out'[r]
                 PROVE  \E u \in Threads : \/ prev'[u] = r
                                           \/ current[u] = r /\ pc'[u] = "schedule"
      BY <1>2 DEF SwapInv
    <2>1. is_swaping_out[r] /\ r # p
      BY <1>2, SwitchTypes, IdleAssumption
    <2>2. PICK u \in Threads : \/ prev[u] = r
                               \/ current[u] = r /\ pc[u] = "schedule"
      BY <2>1 DEF SwapInv
    <2>3. u # t
      BY <1>1, <1>2, <2>1, <2>2
    <2>4. prev'[u] = prev[u] /\ pc'[u] = pc[u]
      BY <1>2, <2>3, SwitchTypes
    <2> QED
      BY <2>2, <2>4
  <1> QED
    BY <1>3, <1>4

\* Every step keeps what blocked and leaving services are waiting for.
LEMMA WaitsNext ==
    ASSUME TypeInv, SchedInv, BlockInv, SwapInv, [Next]_vars
    PROVE  BlockInv' /\ SwapInv'
  <1>1. ASSUME NEW t \in Threads, NEW es, pc[t] = "service",
               Wait_Locked(t, current[t], es), waitUnchanged,
               \/ "ServiceStop" \in es
               \/ "Response" \in es /\ call[current[t]] # None
        PROVE  BlockInv' /\ SwapInv'
    <2>1. CASE /\ Return(current[t])
               /\ wait_events' = [wait_events EXCEPT ![current[t]] = {}]
      BY <1>1, <2>1, ReturnKeepsWaits
    <2>2. CASE Block(t, current[t], es)
      BY <1>1, <2>2, BlockKeepsWaits
    <2> QED
      BY <1>1, <2>1, <2>2 DEF Wait_Locked
  <1>2. ASSUME NEW t \in Threads, LibraryStep(t)
        PROVE  BlockInv' /\ SwapInv'
    <2>0. pc[t] = "service" =>
            /\ ~wakeup_signal[current[t]]
            /\ mask[current[t]] # {} => mask[current[t]] \cap events[current[t]] # {}
      BY RunningIsHeld DEF SchedInv, MaskInv
    <2>1. CASE WaitResponse(t)
      BY <1>1, <2>1 DEF WaitResponse
    <2>2. CASE LoopWait(t)
      <3>1. "ServiceStop" \in LoopEvents
        BY DEF LoopEvents
      <3> QED
        BY <1>1, <2>0, <2>2, <3>1 DEF LoopWait
    <2>3. CASE WaitResumed(t)
      BY <2>0, <2>3, ReturnKeepsWaits DEF WaitResumed
    <2>4. CASE PopMessage(t) \/ IdleExit(t)
      <3>1. /\ UNCHANGED <<status, wait_events, call, is_swaping_out, current, prev>>
            /\ pc' = pc \/ (pc[t] = "idle" /\ pc' = [pc EXCEPT ![t] = "exited"])
        BY <2>4 DEF PopMessage, IdleExit, ctxVars, codeVars, threadVars
      <3>2. WaitFrame
        BY <3>1, SwitchTypes DEF WaitFrame
      <3> QED
        BY <3>2, WaitFrameKeeps
    <2>5. CASE LoopExit(t)
      <3>1. PICK s \in Services : s = current[t]
        BY <2>5, SwitchTypes DEF LoopExit
      <3>2. /\ UNCHANGED <<wait_events, call, is_swaping_out, current, prev>>
            /\ status' = [status EXCEPT ![s] = "Dead"]
            /\ pc' = [pc EXCEPT ![t] = "schedule"]
        BY <2>5, <3>1 DEF LoopExit, Die
      <3>3. WaitFrame
        BY <3>2, SwitchTypes DEF WaitFrame
      <3> QED
        BY <3>3, WaitFrameKeeps
    <2>6. CASE ResumeCur(t)
      <3>1. PICK s \in Services \cup {Idle} : s = current[t]
        BY SwitchTypes
      <3>2. /\ UNCHANGED <<call, is_swaping_out, current, prev>>
            /\ \/ /\ status' = [status EXCEPT ![s] = "Running"]
                  /\ wait_events' = [wait_events EXCEPT ![s] = {}]
               \/ UNCHANGED <<status, wait_events>>
            /\ pc[t] = "resume_cur" /\ \E n : pc' = [pc EXCEPT ![t] = n]
        BY <2>6, <3>1 DEF ResumeCur
      <3>3. /\ \A r \in Services : status'[r] = "Blocked" =>
                 status[r] = "Blocked" /\ wait_events'[r] = wait_events[r]
            /\ \A u \in Threads : pc[u] = "schedule" => pc'[u] = "schedule"
        BY <3>2, SwitchTypes
      <3>4. WaitFrame
        BY <3>2, <3>3 DEF WaitFrame
      <3> QED
        BY <3>4, WaitFrameKeeps
    <2> QED
      BY <1>2, <2>1, <2>2, <2>3, <2>4, <2>5, <2>6, SwitchKeepsWaits,
         ResumePrevKeepsWaits DEF LibraryStep
  <1>3. ASSUME NEW m \in Msgs, NEW d \in Services, SendMessage(m, d),
               UNCHANGED <<current, prev, pc>>,
               \A s \in Services : call[s] # None => call'[s] # None
        PROVE  BlockInv' /\ SwapInv'
    <2>1. UNCHANGED <<wait_events, is_swaping_out>>
      BY <1>3 DEF SendMessage, ctxVars
    <2>2. WaitFrame
      BY <1>3, <2>1, SendLife DEF WaitFrame
    <2> QED
      BY <2>2, WaitFrameKeeps
  <1>4. ASSUME NEW t \in Threads, UserStep(t)
        PROVE  BlockInv' /\ SwapInv'
    <2>1. CASE WaitSignal(t)
      <3>1. "ServiceStop" \in SignalEvents
        BY DEF SignalEvents
      <3> QED
        BY <1>1, <2>1, <3>1 DEF WaitSignal, InUserCode
    <2>2. CASE MainReturns(t)
      <3>1. PICK s \in Services : s = current[t]
        BY <2>2, SwitchTypes DEF MainReturns, InUserCode
      <3>2. /\ UNCHANGED <<wait_events, call, is_swaping_out, current, prev>>
            /\ status' = [status EXCEPT ![s] = "Dead"]
            /\ pc' = [pc EXCEPT ![t] = "schedule"]
        BY <2>2, <3>1 DEF MainReturns, Die
      <3>3. WaitFrame
        BY <3>2, SwitchTypes DEF WaitFrame
      <3> QED
        BY <3>3, WaitFrameKeeps
    <2>3. CASE Yield(t)
      <3>1. /\ UNCHANGED <<status, wait_events, call, is_swaping_out, current, prev>>
            /\ pc' = [pc EXCEPT ![t] = "schedule"]
        BY <2>3 DEF Yield, ctxVars, codeVars
      <3>2. WaitFrame
        BY <3>1, SwitchTypes DEF WaitFrame
      <3> QED
        BY <3>2, WaitFrameKeeps
    <2>4. CASE HandlerReturns(t)
      <3>1. PICK s \in Services : s = current[t] /\ loc[s] = "handle"
        BY <2>4, SwitchTypes DEF HandlerReturns, InUserCode
      <3>2. /\ UNCHANGED <<wait_events, call, is_swaping_out, current, prev, pc>>
            /\ \/ status' = status
               \/ /\ reply[msg[s]] # None
                  /\ Wakeup_Locked(reply[msg[s]], "Response")
        BY <2>4, <3>1 DEF HandlerReturns, threadVars
      <3>3. reply[msg[s]] # None => reply[msg[s]] \in Services
        BY <3>1, MailTypes DEF TypeInv, NamesInv
      <3>4. "Response" \in Events
        BY DEF Events
      <3>5. \A r \in Services : status'[r] = "Blocked" => status[r] = "Blocked"
        BY <3>2, <3>3, <3>4, WakeupLife
      <3>6. WaitFrame
        BY <3>2, <3>5 DEF WaitFrame
      <3> QED
        BY <3>6, WaitFrameKeeps
    <2>5. ASSUME NEW m \in Msgs, NEW d \in Services, CallMethod(t, m, d)
          PROVE  BlockInv' /\ SwapInv'
      <3>1. /\ SendMessage(m, d) /\ UNCHANGED <<current, prev, pc>>
            /\ call' = call \/ call' = [call EXCEPT ![current[t]] = m]
        BY <2>5 DEF CallMethod, threadVars
      <3>2. \A s \in Services : call[s] # None => call'[s] # None
        BY <3>1, MailTypes, NoneAssumption
      <3> QED
        BY <1>3, <3>1, <3>2
    <2> QED
      BY <1>4, <2>1, <2>2, <2>3, <2>4, <2>5 DEF UserStep
  <1>5. ASSUME NEW d \in Services,
               \/ Signal(d) \/ InterruptService(d) \/ LaunchCheck(d)
               \/ StopService(d) \/ StopNext(d)
        PROVE  BlockInv' /\ SwapInv'
    <2>1. UNCHANGED <<wait_events, is_swaping_out, call, current, prev, pc>>
      BY <1>5 DEF Signal, InterruptService, WakeUp, LaunchCheck, StopService,
         StopNext, StopOne, stopUnchanged, ctxVars, codeVars, threadVars
    <2>2. \/ UNCHANGED status
          \/ \E e \in {"Signal", "Interrupt", "ServiceStop"} : Wakeup_Locked(d, e)
      BY <1>5 DEF Signal, InterruptService, WakeUp, LaunchCheck, StopService,
         StopNext, StopOne, ctxVars
    <2>3. {"Signal", "Interrupt", "ServiceStop"} \subseteq Events
      BY DEF Events
    <2>4. \A r \in Services : status'[r] = "Blocked" => status[r] = "Blocked"
      BY <2>2, <2>3, WakeupLife
    <2>5. WaitFrame
      BY <2>1, <2>4 DEF WaitFrame
    <2> QED
      BY <2>5, WaitFrameKeeps
  <1>6. ASSUME NEW d \in Services, LaunchAdd(d)
        PROVE  BlockInv' /\ SwapInv'
    <2>1. /\ UNCHANGED <<is_swaping_out, call, current, prev, pc>>
          /\ \/ /\ status' = [status EXCEPT ![d] = "Blocked"]
                /\ wait_events' = [wait_events EXCEPT ![d] = LoopEvents]
             \/ /\ status' = [status EXCEPT ![d] = "Ready"]
                /\ wait_events' = [wait_events EXCEPT ![d] = {"ServiceStart"}]
      BY <1>6 DEF LaunchAdd, codeVars, threadVars
    <2>2. BlockInv'
      <3>1. \A r \in Services : r # d => status'[r] = status[r] /\ wait_events'[r] = wait_events[r]
        BY <2>1, SwitchTypes
      <3>2. status'[d] = "Blocked" => "ServiceStop" \in wait_events'[d]
        BY <2>1, SwitchTypes DEF LoopEvents
      <3> QED
        BY <2>1, <3>1, <3>2 DEF BlockInv
    <2>3. SwapInv'
      BY <2>1 DEF SwapInv
    <2> QED
      BY <2>2, <2>3
  <1>7. ASSUME NEW m \in Msgs, NEW d \in Destinations, AsyncCallMethod(m, d)
        PROVE  BlockInv' /\ SwapInv'
    BY <1>3, <1>7, SetsAssumption DEF AsyncCallMethod, codeVars, threadVars
  <1>8. CASE \/ StopBegin \/ StopSnapshot \/ StopJoin \/ UNCHANGED vars
             \/ \E t \in Threads : StopInterrupt(t)
    <2>1. UNCHANGED <<status, wait_events, is_swaping_out, call, current, prev, pc>>
      BY <1>8 DEF StopBegin, StopSnapshot, StopJoin, StopInterrupt, vars,
         stopUnchanged, ctxVars, codeVars, threadVars
    <2>2. WaitFrame
      BY <2>1 DEF WaitFrame
    <2> QED
      BY <2>2, WaitFrameKeeps
  <1>9. CASE CallerStep \/ StopStep
    BY <1>5, <1>6, <1>7, <1>8, <1>9, SetsAssumption DEF CallerStep, StopStep
  <1> QED
    BY <1>2, <1>4, <1>8, <1>9 DEF Next

\* What blocked and leaving services wait for, in every state.
THEOREM WaitsInvariant == Spec => [](BlockInv /\ SwapInv)
  <1>1. Init => BlockInv /\ SwapInv
    BY DEF Init, BlockInv, SwapInv
  <1> QED
    BY <1>1, WaitsNext, TypeCorrect, SchedulingInvariant, PTL DEF Spec

-----------------------------------------------------------------------------
(* Stop                                                                    *)

\* No chain of synchronous calls goes on for ever; for finitely many services,
\* no service calls itself through others.
CallsEnd ==
    IsWellFoundedOn({<<p[2], p[1]>> : p \in CallGraph}, Services)

\* How the system is used in this section: it has a worker, nothing is launched
\* beside Stop, nobody yields, and actors are called without cycles.
OrderlyUse ==
    /\ Threads # {}
    /\ ~LaunchDuringStop
    /\ Yielders = {}
    /\ ActorsAreCalled
    /\ CallsEnd

\* When no worker has anything to do and every service is told to stop, every
\* service has ended: one that had not would be blocked in a call, on a service
\* that has not ended either.
LEMMA IdleIsTheEnd ==
    ASSUME OrderlyUse, TypeInv, SchedInv, CallsInv, LifeInv, BlockInv, SwapInv,
           \A t \in Threads : pc[t] \in {"idle", "exited"},
           run_queue = <<>>,
           \A s \in Services : status[s] # "Created" => stopping[s]
    PROVE  \A s \in Services : status[s] \in {"Created", "Dead"}
  <1> DEFINE Left == {s \in Services : status[s] \notin {"Created", "Dead"}}
             Rel == {<<p[2], p[1]>> : p \in CallGraph}
  <1>1. \A t \in Threads : current[t] = Idle /\ prev[t] = None
    BY DEF SchedInv, ThreadInv, ThreadOK
  <1>2. ASSUME NEW s \in Left
        PROVE  \E d \in Left : <<s, d>> \in CallGraph
    <2>1. s \in Services /\ s # Idle /\ s # None /\ stopping[s]
      BY IdleAssumption, NoneAssumption
    <2>2. status[s] = "Blocked"
      <3>1. status[s] \in Statuses
        BY <2>1, SwitchTypes
      <3>2. \A i \in DOMAIN run_queue : FALSE
        OBVIOUS
      <3>3. status[s] # "Ready" /\ status[s] # "Running"
        BY <1>1, <2>1, <3>2 DEF SchedInv, PlaceInv, OrderlyUse
      <3> QED
        BY <3>1, <3>3 DEF Statuses
    <2>3. ~is_swaping_out[s]
      BY <1>1, <2>1 DEF SwapInv
    <2>4. wait_events[s] \cap events[s] = {} /\ "ServiceStop" \notin wait_events[s]
      BY <2>1, <2>2, <2>3 DEF SchedInv, NoLostWakeup
    <2>5. "Response" \in wait_events[s] /\ call[s] # None
      BY <2>1, <2>2, <2>4 DEF BlockInv
    <2>6. mstate[call[s]] # "done"
      BY <2>1, <2>4, <2>5 DEF CallsInv, CallInv
    <2>7. PICK d \in Services :
            /\ <<s, d>> \in CallGraph
            /\ \/ msg[d] = call[s]
               \/ \E i \in DOMAIN msg_queue[d] : msg_queue[d][i] = call[s]
      BY <2>1, <2>5, <2>6 DEF CallsInv, PendingInv
    <2>8. d \in MessageDriven
      BY <2>7 DEF OrderlyUse, ActorsAreCalled
    <2>9. msg[d] = call[s] => status[d] \notin {"Created", "Dead"}
      BY <2>5 DEF CallsInv, MailInv, LifeInv
    <2>10. msg_queue[d] # <<>> => status[d] \notin {"Created", "Dead"}
      BY <2>8 DEF SchedInv, FreshInv, LifeInv
    <2>11. (\E i \in DOMAIN msg_queue[d] : msg_queue[d][i] = call[s])
             => msg_queue[d] # <<>>
      OBVIOUS
    <2> QED
      BY <2>7, <2>9, <2>10, <2>11
  <1>3. SUFFICES ASSUME Left # {} PROVE FALSE
    OBVIOUS
  <1>4. PICK x \in Left : \A y \in Left : ~(<<y, x>> \in Rel)
    <2>1. IsWellFoundedOn(Rel, Services) /\ Left \subseteq Services
      BY DEF OrderlyUse, CallsEnd
    <2> HIDE DEF Left, Rel
    <2> QED
      BY <1>3, <2>1, WFMin
  <1>5. PICK y \in Left : <<x, y>> \in CallGraph
    BY <1>2
  <1>6. <<y, x>> \in Rel
    BY <1>5
  <1> QED
    BY <1>4, <1>6

\* No step but LaunchService registers a service, and none takes a stop back.
LEMMA OnlyLaunchCreates ==
    ASSUME TypeInv, SchedInv, [Next]_vars,
           ~ \E s \in Services : LaunchAdd(s)
    PROVE  \A s \in Services :
             /\ status'[s] = "Created" <=> status[s] = "Created"
             /\ stopping[s] => stopping'[s]
  <1>1. CASE Calm
    BY <1>1 DEF Calm
  <1>2. ASSUME NEW d \in Services, Stops(d)
        PROVE  \A s \in Services :
                 /\ status'[s] = "Created" <=> status[s] = "Created"
                 /\ stopping[s] => stopping'[s]
    BY <1>2, StopOneLife DEF Stops
  <1>3. ASSUME NEW m \in Msgs, NEW d \in Services, Sends(m, d)
        PROVE  \A s \in Services :
                 /\ status'[s] = "Created" <=> status[s] = "Created"
                 /\ stopping[s] => stopping'[s]
    BY <1>3, SendLife DEF Sends
  <1>4. ASSUME NEW t \in Threads, Works(t)
        PROVE  \A s \in Services :
                 /\ status'[s] = "Created" <=> status[s] = "Created"
                 /\ stopping[s] => stopping'[s]
    <2>1. PICK s \in Services \cup {Idle} : s = current[t]
      BY SwitchTypes
    <2>2. CASE PopMessage(t)
      BY <2>2 DEF PopMessage
    <2>3. CASE HandlerReturns(t)
      <3>1. s \in Services /\ loc[s] = "handle"
        BY <2>1, <2>3, SwitchTypes DEF HandlerReturns, InUserCode
      <3>2. /\ UNCHANGED stopping
            /\ \/ status' = status
               \/ /\ reply[msg[s]] # None
                  /\ Wakeup_Locked(reply[msg[s]], "Response")
        BY <2>1, <2>3 DEF HandlerReturns
      <3>3. reply[msg[s]] # None => reply[msg[s]] \in Services
        BY <3>1, MailTypes DEF TypeInv, NamesInv
      <3>4. "Response" \in Events
        BY DEF Events
      <3> QED
        BY <3>2, <3>3, <3>4, WakeupLife
    <2>4. CASE LoopExit(t) \/ MainReturns(t)
      <3>1. /\ s \in Services /\ status[s] = "Running"
            /\ status' = [status EXCEPT ![s] = "Dead"]
            /\ stopping' = stopping \/ stopping' = [stopping EXCEPT ![s] = TRUE]
        BY <2>1, <2>4, RunningIsHeld DEF LoopExit, MainReturns, InUserCode, Die
      <3> QED
        BY <3>1, SwitchTypes
    <2>5. CASE ResumeCur(t)
      <3>1. /\ \/ status' = status
               \/ /\ s \in Services /\ status[s] = "Ready"
                  /\ status' = [status EXCEPT ![s] = "Running"]
            /\ UNCHANGED stopping
        BY <2>1, <2>5, SwitchTypes DEF ResumeCur, SchedInv, ThreadInv, ThreadOK
      <3> QED
        BY <3>1, SwitchTypes
    <2> QED
      BY <1>4, <2>2, <2>3, <2>4, <2>5 DEF Works
  <1> QED
    BY <1>1, <1>2, <1>3, <1>4, StepKinds

\* A worker thread's step is not a step of Stop, and only an idle thread exits.
LEMMA ThreadStepIsNoStop ==
    ASSUME TypeInv, NEW t \in Threads, LibraryStep(t) \/ UserStep(t)
    PROVE  /\ UNCHANGED stopVars
           /\ pc[t] # "exited"
           /\ \A u \in Threads : u # t => pc'[u] = pc[u]
           /\ IdleExit(t) \/ pc'[t] # "exited"
  <1>1. /\ UNCHANGED stopVars
        /\ pc[t] # "exited"
    BY DEF LibraryStep, UserStep, WaitResponse, WaitResumed, PopMessage, LoopWait,
       LoopExit, Die, Schedule, IdleSchedule, IdleExit, ResumePrev, ResumeCur,
       HandlerReturns, MainReturns, WaitSignal, Yield, CallMethod, InUserCode,
       waitUnchanged, stopVars
  <1>2. \/ IdleExit(t)
        \/ pc' = pc
        \/ \E n \in {"schedule", "resume_prev", "resume_cur", "service", "idle"} :
             pc' = [pc EXCEPT ![t] = n]
    BY DEF LibraryStep, UserStep, WaitResponse, WaitResumed, PopMessage, LoopWait,
       LoopExit, Die, Schedule, IdleSchedule, SwitchTo, ResumePrev, ResumeCur,
       HandlerReturns, MainReturns, WaitSignal, Yield, CallMethod, Wait_Locked,
       Block, Return, waitUnchanged, threadVars
  <1>3. IdleExit(t) => pc' = [pc EXCEPT ![t] = "exited"]
    BY DEF IdleExit
  <1> QED
    BY <1>1, <1>2, <1>3, SwitchTypes

\* All workers have left.
AllExited == \A t \in Threads : pc[t] = "exited"

\* Steps of the workers keep the order of Stop: the last worker leaves when
\* every service has ended.
LEMMA StopThreadStep ==
    ASSUME OrderlyUse, TypeInv, SchedInv, CallsInv, LifeInv, BlockInv, SwapInv,
           StopInv, NEW t \in Threads, LibraryStep(t) \/ UserStep(t), [Next]_vars
    PROVE  StopInv'
  <1>1. /\ UNCHANGED <<launching, stopper, snapshot, interrupted>>
        /\ pc[t] # "exited"
        /\ \A u \in Threads : u # t => pc'[u] = pc[u]
        /\ IdleExit(t) \/ pc'[t] # "exited"
    BY ThreadStepIsNoStop DEF stopVars
  <1>2. \A s \in Services :
          /\ status'[s] = "Created" <=> status[s] = "Created"
          /\ stopping[s] => stopping'[s]
    <2>1. ASSUME NEW s \in Services, LaunchAdd(s) PROVE FALSE
      <3>1. s \in launching /\ launching' = launching \ {s}
        BY <2>1 DEF LaunchAdd
      <3> QED
        BY <1>1, <3>1
    <2> QED
      BY <2>1, OnlyLaunchCreates
  <1>3. IdleExit(t) =>
          /\ t \in interrupted /\ pc[t] = "idle" /\ run_queue = <<>>
          /\ UNCHANGED <<status, run_queue>>
    BY DEF IdleExit, ctxVars
  <1>4. \A u \in Threads : pc'[u] = "exited" => u \in interrupted
    BY <1>1, <1>3 DEF StopInv
  <1>5. stopper # "down"
    BY <1>1 DEF StopInv
  <1>6. ASSUME \A u \in Threads : pc'[u] = "exited"
        PROVE  /\ run_queue' = <<>>
               /\ \A s \in Services : status'[s] \in {"Created", "Dead"}
    <2>1. IdleExit(t)
      BY <1>1, <1>6
    <2>2. \A u \in Threads : pc[u] \in {"idle", "exited"}
      BY <1>1, <1>3, <1>6, <2>1
    <2>3. stopper \in {"services", "down"} /\ snapshot = {}
      BY <1>3, <2>1 DEF StopInv
    <2>4. \A s \in Services : status[s] # "Created" => stopping[s]
      BY <2>3 DEF StopInv
    <2> QED
      BY <1>3, <2>1, <2>2, <2>4, IdleIsTheEnd
  <1>7. /\ stopper' # "up" => launching' = {}
        /\ stopper' \in {"services", "down"} =>
             \A s \in Services : status'[s] # "Created" => stopping'[s] \/ s \in snapshot'
        /\ interrupted' # {} => stopper' \in {"services", "down"} /\ snapshot' = {}
    BY <1>1, <1>2 DEF StopInv
  <1> QED
    BY <1>1, <1>4, <1>5, <1>6, <1>7 DEF StopInv

\* A wakeup finds nobody to queue once all services have ended.
LEMMA NobodyToWake ==
    ASSUME NEW d \in Services, NEW e, Wakeup_Locked(d, e),
           status[d] \in {"Created", "Dead"}
    PROVE  UNCHANGED <<status, run_queue>>
  BY DEF Wakeup_Locked

\* Calls from outside keep it: nothing is launched any more, and there is
\* nobody to wake once the workers have left.
LEMMA StopCallerStep ==
    ASSUME OrderlyUse, TypeInv, SchedInv, StopInv, CallerStep, [Next]_vars
    PROVE  StopInv'
  <1>1. UNCHANGED <<stopper, snapshot, interrupted, pc>>
    BY DEF CallerStep, Signal, InterruptService, WakeUp, StopService, LaunchCheck,
       LaunchAdd, AsyncCallMethod, stopVars, threadVars
  <1>2. stopper # "up" => launching' = {}
    BY <1>1 DEF StopInv, CallerStep, Signal, InterruptService, WakeUp,
       StopService, LaunchCheck, LaunchAdd, AsyncCallMethod, stopVars
  <1>3. stopper # "up" => ~ \E s \in Services : LaunchAdd(s)
    BY DEF StopInv, LaunchAdd
  <1>4. stopper # "up" => \A s \in Services :
          /\ status'[s] = "Created" <=> status[s] = "Created"
          /\ stopping[s] => stopping'[s]
    BY <1>3, OnlyLaunchCreates
  <1>5. ASSUME \A t \in Threads : pc[t] = "exited"
        PROVE  UNCHANGED <<status, run_queue>>
    <2>1. \A s \in Services : status[s] \in {"Created", "Dead"}
      BY <1>5 DEF StopInv
    <2>2. stopper # "up"
      BY <1>5 DEF StopInv, OrderlyUse
    <2>3. ASSUME NEW d \in Services,
                 Signal(d) \/ InterruptService(d) \/ StopService(d)
          PROVE  UNCHANGED <<status, run_queue>>
      BY <2>1, <2>3, NobodyToWake
      DEF Signal, InterruptService, WakeUp, StopService, StopOne, ctxVars
    <2>4. ASSUME NEW m \in Msgs, NEW d \in Services, AsyncCallMethod(m, d)
          PROVE  UNCHANGED <<status, run_queue>>
      BY <2>1, <2>4, NobodyToWake DEF AsyncCallMethod, SendMessage, ctxVars
    <2>5. ASSUME NEW d \in Services, LaunchCheck(d)
          PROVE  UNCHANGED <<status, run_queue>>
      BY <2>5 DEF LaunchCheck, ctxVars
    <2> QED
      BY <1>3, <2>2, <2>3, <2>4, <2>5, SetsAssumption DEF CallerStep
  <1>6. /\ stopper' # "up" => launching' = {}
        /\ stopper' \in {"services", "down"} =>
             \A s \in Services : status'[s] # "Created" => stopping'[s] \/ s \in snapshot'
    BY <1>1, <1>2, <1>4 DEF StopInv
  <1>7. (\A t \in Threads : pc'[t] = "exited") =>
          /\ run_queue' = <<>>
          /\ \A s \in Services : status'[s] \in {"Created", "Dead"}
    BY <1>1, <1>5 DEF StopInv
  <1> QED
    BY <1>1, <1>6, <1>7 DEF StopInv

\* So does Stop itself: it interrupts the workers after it has told everybody.
LEMMA StopStopStep ==
    ASSUME OrderlyUse, TypeInv, SchedInv, LifeInv, StopInv, StopStep, [Next]_vars
    PROVE  StopInv'
  <1>1. UNCHANGED <<launching, pc>>
    BY DEF StopStep, StopBegin, StopSnapshot, StopNext, StopInterrupt, StopJoin,
       stopUnchanged, threadVars
  <1>2. CASE StopBegin \/ StopSnapshot \/ StopJoin
             \/ \E t \in Threads : StopInterrupt(t)
    <2>1. UNCHANGED <<status, stopping, run_queue>>
      BY <1>2 DEF StopBegin, StopSnapshot, StopJoin, StopInterrupt, ctxVars
    <2>2. CASE StopBegin
      <3>1. /\ stopper = "up" /\ stopper' = "snapshot" /\ launching = {}
            /\ UNCHANGED <<snapshot, interrupted>>
        BY <2>2 DEF StopBegin, OrderlyUse
      <3> QED
        BY <1>1, <2>1, <3>1 DEF StopInv
    <2>3. CASE StopSnapshot
      <3>1. /\ stopper = "snapshot" /\ stopper' = "services"
            /\ snapshot' = Registered /\ UNCHANGED interrupted
        BY <2>3 DEF StopSnapshot
      <3>2. \A s \in Services :
              status[s] # "Created" => stopping[s] \/ s \in Registered
        BY DEF Registered, LifeInv
      <3>3. interrupted = {}
        BY <3>1 DEF StopInv
      <3> QED
        BY <1>1, <2>1, <3>1, <3>2, <3>3 DEF StopInv
    <2>4. CASE StopJoin
      <3>1. /\ stopper = "services" /\ stopper' = "down"
            /\ \A t \in Threads : pc[t] = "exited"
            /\ UNCHANGED <<snapshot, interrupted>>
        BY <2>4 DEF StopJoin
      <3> QED
        BY <1>1, <2>1, <3>1 DEF StopInv
    <2>5. ASSUME NEW t \in Threads, StopInterrupt(t)
          PROVE  StopInv'
      <3>1. /\ stopper = "services" /\ snapshot = {}
            /\ interrupted' = interrupted \cup {t}
            /\ UNCHANGED <<stopper, snapshot>>
        BY <2>5 DEF StopInterrupt
      <3> QED
        BY <1>1, <2>1, <3>1 DEF StopInv
    <2> QED
      BY <1>2, <2>2, <2>3, <2>4, <2>5
  <1>3. ASSUME NEW d \in Services, StopNext(d)
        PROVE  StopInv'
    <2>1. /\ stopper = "services" /\ d \in snapshot /\ snapshot' = snapshot \ {d}
          /\ StopOne(d) /\ UNCHANGED <<stopper, interrupted>>
      BY <1>3 DEF StopNext
    <2>2. interrupted = {} /\ ~AllExited
      BY <2>1 DEF StopInv, OrderlyUse, AllExited
    <2>3. \A s \in Services :
            /\ status'[s] = "Created" <=> status[s] = "Created"
            /\ stopping'[s] = (stopping[s] \/ s = d)
      BY <2>1, StopOneLife
    <2>4. \A s \in Services : status'[s] # "Created" => stopping'[s] \/ s \in snapshot'
      BY <2>1, <2>3 DEF StopInv
    <2> QED
      BY <1>1, <2>1, <2>2, <2>4 DEF StopInv, AllExited
  <1> QED
    BY <1>2, <1>3 DEF StopStep

\* Stop retires every service before the workers leave, and the run queue is
\* empty when it has joined them, if nothing is launched beside it, nobody
\* yields and no services wait for each other in a circle of calls.
THEOREM StopLeavesNothing ==
    ASSUME OrderlyUse
    PROVE  Spec => []StopRetiresAll
  <1>1. Init => StopInv
    BY DEF Init, StopInv, OrderlyUse
  <1>2. TypeInv /\ SchedInv /\ CallsInv /\ LifeInv /\ (BlockInv /\ SwapInv) /\ StopInv
          /\ [Next]_vars => StopInv'
    <2> SUFFICES ASSUME TypeInv, SchedInv, CallsInv, LifeInv, BlockInv, SwapInv,
                        StopInv, [Next]_vars
                 PROVE  StopInv'
      OBVIOUS
    <2>1. CASE UNCHANGED vars
      BY <2>1 DEF vars, ctxVars, threadVars, stopVars, StopInv
    <2> QED
      BY <2>1, StopThreadStep, StopCallerStep, StopStopStep DEF Next
  <1>3. StopInv => StopRetiresAll
    BY DEF StopInv, StopRetiresAll
  <1> QED
    BY <1>1, <1>2, <1>3, TypeCorrect, SchedulingInvariant, CallsInvariant,
       LifeInvariant, WaitsInvariant, PTL
    DEF Spec
=============================================================================
