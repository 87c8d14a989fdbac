-------------------------- MODULE IOService_proofs --------------------------
(***************************************************************************)
(* No readiness is lost between epoll and a service blocked in WaitIO,     *)
(* whatever is interrupted, stopped or broken, for any number of services  *)
(* and sockets; and the read of a service that nobody disturbs does not    *)
(* fail.                                                                   *)
(***************************************************************************)
EXTENDS IOService, TLAPS

\* Entries, descriptors and events in hand belong to the service they name;
\* a service about to wait, waiting or about to leave knows its descriptor.
OwnInv ==
    /\ \A f \in FDs : registered[f] # None => f \in Uses[registered[f]]
    /\ \A s \in Services : fd[s] # None => fd[s] \in Uses[s]
    /\ \A s \in Services : code[s] \in {"blocked", "remove"} => fd[s] # None
    /\ \A s \in Services : code[s] = "again" => arg[s] \in Uses[s]
    /\ \A e \in batch : fd[e.srv] # None
    /\ \A f \in FDs : registered[f] # None => fd[registered[f]] # None
    /\ io \in {"del", "notify"} => target.srv # None /\ target.fd \in Uses[target.srv]
    /\ io \in {"wait", "stopped"} => batch = {}

\* A stopping service does not stay blocked; epoll ends after all are told.
StopInv ==
    /\ \A s \in Services :
         code[s] = "blocked" /\ stopping[s] => "ServiceStop" \in events[s]
    /\ exit => \A s \in Services : stopping[s]

IOInv == TypeOK /\ OwnInv /\ StopInv /\ NoLostReadiness /\ NoStaleReadiness

-----------------------------------------------------------------------------
\* Data arrives, or a connection breaks: what changes in a registered socket goes on the ready list.
LEMMA SocketChangesKeeps ==
    ASSUME IOInv, NEW f \in FDs, NEW c \in {"data", "broken"}, SocketChanges(f, c)
    PROVE  IOInv'
  <1> USE UsesAssumption, NoneIsNoService
  <1> USE DEF IOInv, SocketChanges, kernelVars, serviceVars, threadVars
  <1>1. TypeOK'
    BY DEF TypeOK, OwnInv, IOEvents, NoTarget, Mask
  <1>2. OwnInv'
    BY DEF TypeOK, OwnInv, IOEvents, NoTarget, Mask
  <1>3. StopInv'
    BY DEF TypeOK, StopInv, Mask
  <1>4. NoLostReadiness'
    BY DEF TypeOK, OwnInv, StopInv, NoLostReadiness, InHand, IOEvents, NoTarget, Mask
  <1>5. NoStaleReadiness'
    BY DEF TypeOK, NoStaleReadiness, Mask
  <1> QED
    BY <1>1, <1>2, <1>3, <1>4, <1>5

\* Reading a socket empties it; the reader is not blocked.
LEMMA RecvKeeps ==
    ASSUME IOInv, NEW s \in Services, NEW f \in FDs, Recv(s, f)
    PROVE  IOInv'
  <1> USE UsesAssumption, NoneIsNoService
  <1> USE DEF IOInv, Recv, kernelVars, serviceVars, threadVars
  <1>1. TypeOK'
    BY DEF TypeOK, OwnInv, IOEvents, NoTarget, Mask
  <1>2. OwnInv'
    BY DEF TypeOK, OwnInv, IOEvents, NoTarget, Mask
  <1>3. StopInv'
    BY DEF TypeOK, StopInv, Mask
  <1>4. NoLostReadiness'
    BY DEF TypeOK, OwnInv, StopInv, NoLostReadiness, InHand, IOEvents, NoTarget, Mask
  <1>5. NoStaleReadiness'
    BY DEF TypeOK, NoStaleReadiness, Mask
  <1> QED
    BY <1>1, <1>2, <1>3, <1>4, <1>5

\* A service that is told EAGAIN keeps the descriptor it will wait for.
LEMMA RecvAgainKeeps ==
    ASSUME IOInv, NEW s \in Services, NEW f \in FDs, RecvAgain(s, f)
    PROVE  IOInv'
  <1> USE UsesAssumption, NoneIsNoService
  <1> USE DEF IOInv, RecvAgain, kernelVars, serviceVars, threadVars
  <1>1. TypeOK'
    BY DEF TypeOK, OwnInv, IOEvents, NoTarget, Mask
  <1>2. OwnInv'
    BY DEF TypeOK, OwnInv, IOEvents, NoTarget, Mask
  <1>3. StopInv'
    BY DEF TypeOK, StopInv, Mask
  <1>4. NoLostReadiness'
    BY DEF TypeOK, OwnInv, StopInv, NoLostReadiness, InHand, IOEvents, NoTarget, Mask
  <1>5. NoStaleReadiness'
    BY DEF TypeOK, NoStaleReadiness, Mask
  <1> QED
    BY <1>1, <1>2, <1>3, <1>4, <1>5

\* A service blocks only with an entry of its own in epoll, on the ready list when its socket is ready already.
LEMMA WaitIOKeeps ==
    ASSUME IOInv, NEW s \in Services, WaitIO(s)
    PROVE  IOInv'
  <1> USE UsesAssumption, NoneIsNoService
  <1> DEFINE f == arg[s]
  <1>1. f \in Uses[s] /\ f \in FDs /\ f # None /\ code[s] = "again"
    <2>1. code[s] = "again"
      BY DEF WaitIO
    <2>2. arg[s] \in Uses[s]
      BY <2>1 DEF IOInv, OwnInv
    <2>3. Uses[s] \subseteq FDs
      OBVIOUS
    <2> QED
      BY <2>1, <2>2, <2>3
  <1>2. /\ fd' = [fd EXCEPT ![s] = f]
        /\ arg' = [arg EXCEPT ![s] = None]
        /\ condition' = condition /\ stopping' = stopping
        /\ io' = io /\ batch' = batch /\ target' = target /\ exit' = exit
    BY DEF WaitIO, SetServiceFD, threadVars
  <1>3. CASE registered[f] # None
    <2>1. /\ code' = [code EXCEPT ![s] = "user"]
          /\ UNCHANGED <<registered, pending, events>>
      BY <1>3 DEF WaitIO
    <2> HIDE DEF f
    <2>2. TypeOK'
      BY <1>1, <1>2, <2>1 DEF IOInv, TypeOK
    <2>3. OwnInv'
      BY <1>1, <1>2, <2>1 DEF IOInv, TypeOK, OwnInv, IOEvents
    <2>4. StopInv'
      BY <1>1, <1>2, <2>1 DEF IOInv, TypeOK, StopInv
    <2>5. NoLostReadiness' /\ NoStaleReadiness'
      BY <1>1, <1>2, <2>1 DEF IOInv, TypeOK, NoLostReadiness, NoStaleReadiness, InHand
    <2> QED
      BY <2>2, <2>3, <2>4, <2>5 DEF IOInv
  <1>4. CASE registered[f] = None
    <2>1. /\ registered' = [registered EXCEPT ![f] = s]
          /\ pending' = IF condition[f] # "empty" THEN pending \cup {f} ELSE pending
      BY <1>4 DEF WaitIO, EpollAdd
    <2>2. \/ /\ stopping[s]
             /\ code' = [code EXCEPT ![s] = "remove"]
             /\ UNCHANGED events
          \/ /\ ~stopping[s]
             /\ code' = [code EXCEPT ![s] = "remove"]
             /\ events' = [events EXCEPT ![s] = @ \ Mask]
          \/ /\ ~stopping[s]
             /\ code' = [code EXCEPT ![s] = "blocked"]
             /\ UNCHANGED events
      <3>1. Woken(events[s]) = "remove"
        BY <1>1 DEF IOInv, NoStaleReadiness, Woken
      <3> QED
        BY <1>4, <3>1 DEF WaitIO
    <2> HIDE DEF f
    <2>3. TypeOK'
      <3>1. /\ registered' \in [FDs -> Services \cup {None}]
            /\ pending' \subseteq {g \in FDs : registered'[g] # None}
        BY <1>1, <2>1 DEF IOInv, TypeOK
      <3>2. /\ code' \in [Services -> {"user", "again", "blocked", "remove", "dead"}]
            /\ events' \in [Services -> SUBSET Mask]
        BY <2>2 DEF IOInv, TypeOK
      <3> QED
        BY <1>1, <1>2, <3>1, <3>2 DEF IOInv, TypeOK
    <2>4. OwnInv'
      <3>2. \A r \in Services :
              /\ code'[r] = "again" => r # s /\ code[r] = "again"
              /\ code'[r] \in {"blocked", "remove"} =>
                   r = s \/ code[r] \in {"blocked", "remove"}
        BY <2>2 DEF IOInv, TypeOK
      <3>3. \A g \in FDs : registered'[g] # None =>
              IF g = f THEN registered'[g] = s ELSE registered'[g] = registered[g]
        BY <1>1, <2>1 DEF IOInv, TypeOK
      <3>4. \A r \in Services : fd[r] # None => fd'[r] # None /\ fd'[r] \in Uses[r]
        BY <1>1, <1>2 DEF IOInv, TypeOK, OwnInv
      <3>5. fd'[s] = f
        BY <1>2 DEF IOInv, TypeOK
      <3>6. \A g \in FDs : registered'[g] # None =>
              /\ g \in Uses[registered'[g]]
              /\ fd'[registered'[g]] # None
        BY <1>1, <3>3, <3>4, <3>5 DEF IOInv, TypeOK, OwnInv
      <3>7. \A r \in Services :
              /\ fd'[r] # None => fd'[r] \in Uses[r]
              /\ code'[r] \in {"blocked", "remove"} => fd'[r] # None
              /\ code'[r] = "again" => arg'[r] \in Uses[r]
        BY <1>1, <1>2, <3>2, <3>4, <3>5 DEF IOInv, TypeOK, OwnInv
      <3>8. \A e \in batch' : fd'[e.srv] # None
        BY <1>2, <3>4 DEF IOInv, TypeOK, OwnInv, IOEvents
      <3> QED
        BY <1>2, <3>6, <3>7, <3>8 DEF IOInv, OwnInv
    <2>5. StopInv'
      BY <1>2, <2>2 DEF IOInv, TypeOK, StopInv, Mask
    <2>6. NoLostReadiness'
      <3> SUFFICES ASSUME NEW r \in Services, code'[r] = "blocked", events'[r] = {},
                          ~InHand(r)'
                   PROVE  /\ registered'[fd'[r]] = r
                          /\ condition'[fd'[r]] # "empty" => fd'[r] \in pending'
        BY DEF NoLostReadiness
      <3>1. CASE r = s
        BY <1>1, <1>2, <2>1, <3>1 DEF IOInv, TypeOK
      <3>2. CASE r # s
        <4>1. code[r] = "blocked" /\ events[r] = {} /\ fd'[r] = fd[r]
          BY <1>2, <2>2, <3>2 DEF IOInv, TypeOK
        <4>2. ~InHand(r)
          BY <1>2 DEF InHand
        <4>3. fd[r] \in FDs /\ fd[r] # f
          BY <1>1, <3>2, <4>1 DEF IOInv, TypeOK, OwnInv
        <4> QED
          BY <1>2, <2>1, <4>1, <4>2, <4>3 DEF IOInv, TypeOK, NoLostReadiness
      <3> QED
        BY <3>1, <3>2
    <2>7. NoStaleReadiness'
      <3> SUFFICES ASSUME NEW r \in Services, "IO_Operation" \in events'[r]
                   PROVE  code'[r] = "blocked"
        BY DEF NoStaleReadiness
      <3>1. "IO_Operation" \in events[r]
        BY <2>2 DEF IOInv, TypeOK
      <3>2. code[r] = "blocked" /\ r # s
        BY <1>1, <3>1 DEF IOInv, NoStaleReadiness
      <3> QED
        BY <2>2, <3>2 DEF IOInv, TypeOK
    <2> QED
      BY <2>3, <2>4, <2>5, <2>6, <2>7 DEF IOInv
  <1> QED
    BY <1>3, <1>4

\* A resumed service takes all events of the wait with it.
LEMMA WaitIOResumedKeeps ==
    ASSUME IOInv, NEW s \in Services, WaitIOResumed(s)
    PROVE  IOInv'
  <1> USE UsesAssumption, NoneIsNoService
  <1> USE DEF IOInv, WaitIOResumed, Woken, kernelVars, serviceVars, threadVars
  <1>1. TypeOK'
    BY DEF TypeOK, OwnInv, IOEvents, NoTarget, Mask
  <1>2. OwnInv'
    BY DEF TypeOK, OwnInv, IOEvents, NoTarget, Mask
  <1>3. StopInv'
    BY DEF TypeOK, StopInv, Mask
  <1>4. NoLostReadiness'
    BY DEF TypeOK, OwnInv, StopInv, NoLostReadiness, InHand, IOEvents, NoTarget, Mask
  <1>5. NoStaleReadiness'
    BY DEF TypeOK, NoStaleReadiness, Mask
  <1> QED
    BY <1>1, <1>2, <1>3, <1>4, <1>5

\* An interrupted service removes the entry of its own descriptor only.
LEMMA RemoveKeeps ==
    ASSUME IOInv, NEW s \in Services, Remove(s)
    PROVE  IOInv'
  <1> USE UsesAssumption, NoneIsNoService
  <1> USE DEF IOInv, Remove, EpollDel, kernelVars, serviceVars, threadVars
  <1>1. TypeOK'
    BY DEF TypeOK, OwnInv, IOEvents, NoTarget, Mask
  <1>2. OwnInv'
    BY DEF TypeOK, OwnInv, IOEvents, NoTarget, Mask
  <1>3. StopInv'
    BY DEF TypeOK, StopInv, Mask
  <1>4. NoLostReadiness'
    BY DEF TypeOK, OwnInv, StopInv, NoLostReadiness, InHand, IOEvents, NoTarget, Mask
  <1>5. NoStaleReadiness'
    BY DEF TypeOK, NoStaleReadiness, Mask
  <1> QED
    BY <1>1, <1>2, <1>3, <1>4, <1>5

\* An interrupt wakes a blocked service.
LEMMA InterruptKeeps ==
    ASSUME IOInv, NEW s \in Services, Interrupt(s)
    PROVE  IOInv'
  <1> USE UsesAssumption, NoneIsNoService
  <1> USE DEF IOInv, Interrupt, kernelVars, serviceVars, threadVars
  <1>1. TypeOK'
    BY DEF TypeOK, OwnInv, IOEvents, NoTarget, Mask
  <1>2. OwnInv'
    BY DEF TypeOK, OwnInv, IOEvents, NoTarget, Mask
  <1>3. StopInv'
    BY DEF TypeOK, StopInv, Mask
  <1>4. NoLostReadiness'
    BY DEF TypeOK, OwnInv, StopInv, NoLostReadiness, InHand, IOEvents, NoTarget, Mask
  <1>5. NoStaleReadiness'
    BY DEF TypeOK, NoStaleReadiness, Mask
  <1> QED
    BY <1>1, <1>2, <1>3, <1>4, <1>5

\* A stop wakes a blocked service.
LEMMA StopServiceKeeps ==
    ASSUME IOInv, NEW s \in Services, StopService(s)
    PROVE  IOInv'
  <1> USE UsesAssumption, NoneIsNoService
  <1> USE DEF IOInv, StopService, kernelVars, serviceVars, threadVars
  <1>1. TypeOK'
    BY DEF TypeOK, OwnInv, IOEvents, NoTarget, Mask
  <1>2. OwnInv'
    BY DEF TypeOK, OwnInv, IOEvents, NoTarget, Mask
  <1>3. StopInv'
    BY DEF TypeOK, StopInv, Mask
  <1>4. NoLostReadiness'
    BY DEF TypeOK, OwnInv, StopInv, NoLostReadiness, InHand, IOEvents, NoTarget, Mask
  <1>5. NoStaleReadiness'
    BY DEF TypeOK, NoStaleReadiness, Mask
  <1> QED
    BY <1>1, <1>2, <1>3, <1>4, <1>5

\* A dying service closes its own descriptors.
LEMMA DiesKeeps ==
    ASSUME IOInv, NEW s \in Services, Dies(s)
    PROVE  IOInv'
  <1> USE UsesAssumption, NoneIsNoService
  <1> USE DEF IOInv, Dies, EpollDel, kernelVars, serviceVars, threadVars
  <1>1. TypeOK'
    BY DEF TypeOK, OwnInv, IOEvents, NoTarget, Mask
  <1>2. OwnInv'
    BY DEF TypeOK, OwnInv, IOEvents, NoTarget, Mask
  <1>3. StopInv'
    BY DEF TypeOK, StopInv, Mask
  <1>4. NoLostReadiness'
    BY DEF TypeOK, OwnInv, StopInv, NoLostReadiness, InHand, IOEvents, NoTarget, Mask
  <1>5. NoStaleReadiness'
    BY DEF TypeOK, NoStaleReadiness, Mask
  <1> QED
    BY <1>1, <1>2, <1>3, <1>4, <1>5

\* What leaves the ready list is in the epoll thread's hand.
LEMMA EpollWaitKeeps ==
    ASSUME IOInv, EpollWait
    PROVE  IOInv'
  <1> USE UsesAssumption, NoneIsNoService
  <1> USE DEF IOInv, EpollWait, kernelVars, serviceVars, threadVars
  <1>1. TypeOK'
    BY DEF TypeOK, OwnInv, IOEvents, NoTarget, Mask
  <1>2. OwnInv'
    BY DEF TypeOK, OwnInv, IOEvents, NoTarget, Mask
  <1>3. StopInv'
    BY DEF TypeOK, StopInv, Mask
  <1>4. NoLostReadiness'
    <2> SUFFICES ASSUME NEW s \in Services, code[s] = "blocked", events[s] = {},
                        ~InHand(s)'
                 PROVE  /\ registered[fd[s]] = s
                        /\ condition[fd[s]] # "empty" => fd[s] \in pending'
      BY DEF NoLostReadiness, InHand
    <2>1. ~InHand(s)
      BY DEF InHand, OwnInv
    <2>2. /\ registered[fd[s]] = s
          /\ condition[fd[s]] # "empty" => fd[s] \in pending
      BY <2>1 DEF NoLostReadiness
    <2>3. fd[s] \notin {f \in pending : condition[f] # "empty"}
      <3>1. SUFFICES ASSUME fd[s] \in pending, condition[fd[s]] # "empty"
                     PROVE  FALSE
        OBVIOUS
      <3>2. [srv |-> registered[fd[s]], fd |-> fd[s]] \in batch'
        BY <3>1
      <3> QED
        BY <2>2, <3>2 DEF InHand
    <2> QED
      BY <2>2, <2>3
  <1>5. NoStaleReadiness'
    BY DEF TypeOK, NoStaleReadiness, Mask
  <1> QED
    BY <1>1, <1>2, <1>3, <1>4, <1>5

\* An event in hand stays in hand; only a dead service's is dropped.
LEMMA GrabServiceKeeps ==
    ASSUME IOInv, NEW e \in batch, GrabService(e)
    PROVE  IOInv'
  <1> USE UsesAssumption, NoneIsNoService
  <1> USE DEF IOInv, GrabService, kernelVars, serviceVars, threadVars
  <1>1. TypeOK'
    BY DEF TypeOK, OwnInv, IOEvents, NoTarget, Mask
  <1>2. OwnInv'
    BY DEF TypeOK, OwnInv, IOEvents, NoTarget, Mask
  <1>3. StopInv'
    BY DEF TypeOK, StopInv, Mask
  <1>4. NoLostReadiness'
    BY DEF TypeOK, OwnInv, StopInv, NoLostReadiness, InHand, IOEvents, NoTarget, Mask
  <1>5. NoStaleReadiness'
    BY DEF TypeOK, NoStaleReadiness, Mask
  <1> QED
    BY <1>1, <1>2, <1>3, <1>4, <1>5

\* The entry the epoll thread removes is of the service it is about to wake.
LEMMA DelKeeps ==
    ASSUME IOInv, Del
    PROVE  IOInv'
  <1> USE UsesAssumption, NoneIsNoService
  <1> USE DEF IOInv, Del, EpollDel, kernelVars, serviceVars, threadVars
  <1>1. TypeOK'
    BY DEF TypeOK, OwnInv, IOEvents, NoTarget, Mask
  <1>2. OwnInv'
    BY DEF TypeOK, OwnInv, IOEvents, NoTarget, Mask
  <1>3. StopInv'
    BY DEF TypeOK, StopInv, Mask
  <1>4. NoLostReadiness'
    BY DEF TypeOK, OwnInv, StopInv, NoLostReadiness, InHand, IOEvents, NoTarget, Mask
  <1>5. NoStaleReadiness'
    BY DEF TypeOK, NoStaleReadiness, Mask
  <1> QED
    BY <1>1, <1>2, <1>3, <1>4, <1>5

\* The service of the event in hand is woken, if it is blocked.
LEMMA OnIOReadyKeeps ==
    ASSUME IOInv, OnIOReady
    PROVE  IOInv'
  <1> USE UsesAssumption, NoneIsNoService
  <1> USE DEF IOInv, OnIOReady, kernelVars, serviceVars, threadVars
  <1>1. TypeOK'
    BY DEF TypeOK, OwnInv, IOEvents, NoTarget, Mask
  <1>2. OwnInv'
    BY DEF TypeOK, OwnInv, IOEvents, NoTarget, Mask
  <1>3. StopInv'
    BY DEF TypeOK, StopInv, Mask
  <1>4. NoLostReadiness'
    <2> SUFFICES ASSUME NEW s \in Services, code[s] = "blocked", events'[s] = {}
                 PROVE  \/ InHand(s)'
                        \/ /\ registered[fd[s]] = s
                           /\ condition[fd[s]] # "empty" => fd[s] \in pending
      BY DEF NoLostReadiness, InHand
    <2>1. s # target.srv /\ events[s] = {}
      BY DEF TypeOK
    <2>2. InHand(s) => InHand(s)'
      BY <2>1 DEF InHand
    <2> QED
      BY <2>1, <2>2 DEF NoLostReadiness
  <1>5. NoStaleReadiness'
    BY DEF TypeOK, NoStaleReadiness, Mask
  <1> QED
    BY <1>1, <1>2, <1>3, <1>4, <1>5

\* An empty batch holds nobody's event.
LEMMA BatchDoneKeeps ==
    ASSUME IOInv, BatchDone
    PROVE  IOInv'
  <1> USE UsesAssumption, NoneIsNoService
  <1> USE DEF IOInv, BatchDone, kernelVars, serviceVars, threadVars
  <1>1. TypeOK'
    BY DEF TypeOK, OwnInv, IOEvents, NoTarget, Mask
  <1>2. OwnInv'
    BY DEF TypeOK, OwnInv, IOEvents, NoTarget, Mask
  <1>3. StopInv'
    BY DEF TypeOK, StopInv, Mask
  <1>4. NoLostReadiness'
    BY DEF TypeOK, OwnInv, StopInv, NoLostReadiness, InHand, IOEvents, NoTarget, Mask
  <1>5. NoStaleReadiness'
    BY DEF TypeOK, NoStaleReadiness, Mask
  <1> QED
    BY <1>1, <1>2, <1>3, <1>4, <1>5

\* The pipe is written after every service was told to stop.
LEMMA StopKeeps ==
    ASSUME IOInv, Stop
    PROVE  IOInv'
  <1> USE UsesAssumption, NoneIsNoService
  <1> USE DEF IOInv, Stop, kernelVars, serviceVars, threadVars
  <1>1. TypeOK'
    BY DEF TypeOK, OwnInv, IOEvents, NoTarget, Mask
  <1>2. OwnInv'
    BY DEF TypeOK, OwnInv, IOEvents, NoTarget, Mask
  <1>3. StopInv'
    BY DEF TypeOK, StopInv, Mask
  <1>4. NoLostReadiness'
    BY DEF TypeOK, OwnInv, StopInv, NoLostReadiness, InHand, IOEvents, NoTarget, Mask
  <1>5. NoStaleReadiness'
    BY DEF TypeOK, NoStaleReadiness, Mask
  <1> QED
    BY <1>1, <1>2, <1>3, <1>4, <1>5

\* What the epoll thread drops at its end is of services that are told to stop.
LEMMA RunEndsKeeps ==
    ASSUME IOInv, RunEnds
    PROVE  IOInv'
  <1> USE UsesAssumption, NoneIsNoService
  <1> USE DEF IOInv, RunEnds, kernelVars, serviceVars, threadVars
  <1>1. TypeOK'
    BY DEF TypeOK, OwnInv, IOEvents, NoTarget, Mask
  <1>2. OwnInv'
    BY DEF TypeOK, OwnInv, IOEvents, NoTarget, Mask
  <1>3. StopInv'
    BY DEF TypeOK, StopInv, Mask
  <1>4. NoLostReadiness'
    BY DEF TypeOK, OwnInv, StopInv, NoLostReadiness, InHand, IOEvents, NoTarget, Mask
  <1>5. NoStaleReadiness'
    BY DEF TypeOK, NoStaleReadiness, Mask
  <1> QED
    BY <1>1, <1>2, <1>3, <1>4, <1>5
-----------------------------------------------------------------------------
\* Every step keeps the invariant.
LEMMA IONext ==
    ASSUME IOInv, [Next]_vars
    PROVE  IOInv'
  <1>1. CASE RunStep
    BY <1>1, EpollWaitKeeps, DelKeeps, OnIOReadyKeeps, BatchDoneKeeps,
       RunEndsKeeps, GrabServiceKeeps DEF RunStep
  <1>2. CASE Stop
    BY <1>2, StopKeeps
  <1>3. ASSUME NEW s \in Services,
               \/ ReadStep(s) \/ StopService(s) \/ Dies(s)
               \/ \E f \in FDs : Recv(s, f) \/ RecvAgain(s, f)
        PROVE  IOInv'
    BY <1>3, WaitIOKeeps, WaitIOResumedKeeps, RemoveKeeps, StopServiceKeeps,
       DiesKeeps, RecvKeeps, RecvAgainKeeps DEF ReadStep
  <1>4. ASSUME NEW s \in Interruptible, Interrupt(s)
        PROVE  IOInv'
    BY <1>4, InterruptKeeps, UsesAssumption
  <1>5. ASSUME NEW f \in FDs, NEW c \in {"data", "broken"}, SocketChanges(f, c)
        PROVE  IOInv'
    BY <1>5, SocketChangesKeeps
  <1>6. CASE UNCHANGED vars
    BY <1>6 DEF vars, kernelVars, serviceVars, threadVars, IOInv, TypeOK, OwnInv,
                StopInv, NoLostReadiness, NoStaleReadiness, InHand
  <1> QED
    BY <1>1, <1>2, <1>3, <1>4, <1>5, <1>6 DEF Next

\* The invariant holds at the start.
LEMMA IOStart == Init => IOInv
  <1> SUFFICES ASSUME Init PROVE IOInv
    OBVIOUS
  <1> USE UsesAssumption, NoneIsNoService DEF Init
  <1>1. TypeOK
    BY DEF TypeOK, Mask
  <1>2. OwnInv /\ StopInv
    BY DEF OwnInv, StopInv
  <1>3. NoLostReadiness /\ NoStaleReadiness
    BY DEF NoLostReadiness, NoStaleReadiness
  <1> QED
    BY <1>1, <1>2, <1>3 DEF IOInv

\* The inductive invariant of IOService holds of every reachable state.
THEOREM IOInvariant == Spec => []IOInv
  BY IOStart, IONext, PTL DEF Spec

\* No wait for a socket is forgotten: a service blocked in WaitIO has its
\* entry in epoll, or the epoll thread is about to wake it.
THEOREM ReadinessIsNotLost == Spec => []NoLostReadiness
  <1>1. IOInv => NoLostReadiness
    BY DEF IOInv
  <1> QED
    BY <1>1, IOInvariant, PTL

\* kIO_Operation is never left over for a later wait.
THEOREM ReadinessIsNotStale == Spec => []NoStaleReadiness
  <1>1. IOInv => NoStaleReadiness
    BY DEF IOInv
  <1> QED
    BY <1>1, IOInvariant, PTL

-----------------------------------------------------------------------------
(* Quiet services: those that nobody interrupts.                           *)

\* A service that nobody interrupts leaves WaitIO early only to stop.
EndInv ==
    \A s \in Services \ Interruptible :
        /\ "Interrupt" \notin events[s]
        /\ "ServiceStop" \in events[s] => stopping[s]
        /\ code[s] = "remove" => stopping[s]

\* It has an entry in epoll only for the descriptor it waits for, and none
\* once it has been told that its socket is ready, which it is.
EntryInv ==
    \A s \in Services \ Interruptible :
        /\ \A f \in Uses[s] : registered[f] # None =>
             code[s] \in {"blocked", "remove"} /\ f = fd[s]
        /\ code[s] = "blocked" /\ "IO_Operation" \in events[s] =>
             registered[fd[s]] = None /\ condition[fd[s]] # "empty"

\* The epoll thread holds one event of it at most, of the wait it is in.
HandInv ==
    \A s \in Services \ Interruptible :
        /\ code[s] = "blocked" /\ InHand(s) => condition[fd[s]] # "empty"
        /\ ~ stopping[s] /\ InHand(s) =>
             code[s] = "blocked" /\ "IO_Operation" \notin events[s]
        /\ ~ stopping[s] => \A e \in batch : e.srv = s =>
             /\ \A d \in batch : d.srv = s => d = e
             /\ ~(io \in {"del", "notify"} /\ target.srv = s)
        /\ io \in {"del", "notify"} /\ target.srv = s /\ code[s] = "blocked" =>
             target.fd = fd[s] /\ (io = "notify" => registered[fd[s]] = None)

QuietInv == EndInv /\ EntryInv /\ HandInv

\* A socket that has become ready stays so until its service reads.
LEMMA SocketChangesStaysQuiet ==
    ASSUME IOInv, QuietInv, NEW f \in FDs, NEW c \in {"data", "broken"}, SocketChanges(f, c)
    PROVE  QuietInv'
  <1> USE UsesAssumption, NoneIsNoService
  <1> USE DEF QuietInv, IOInv, SocketChanges, kernelVars, serviceVars, threadVars
  <1>1. EndInv'
    BY DEF EndInv, TypeOK
  <1>2. EntryInv'
    BY DEF EntryInv, EndInv, TypeOK, OwnInv, NoStaleReadiness
  <1>3. HandInv'
    BY DEF HandInv, EntryInv, EndInv, InHand, TypeOK, OwnInv, StopInv, NoStaleReadiness, IOEvents, NoTarget
  <1> QED
    BY <1>1, <1>2, <1>3

\* The reader of a socket is not in WaitIO, and nobody else reads it.
LEMMA RecvStaysQuiet ==
    ASSUME IOInv, QuietInv, NEW s \in Services, NEW f \in FDs, Recv(s, f)
    PROVE  QuietInv'
  <1> USE UsesAssumption, NoneIsNoService
  <1> USE DEF QuietInv, IOInv, Recv, kernelVars, serviceVars, threadVars
  <1>1. EndInv'
    BY DEF EndInv, TypeOK
  <1>2. EntryInv'
    BY DEF EntryInv, EndInv, TypeOK, OwnInv, NoStaleReadiness
  <1>3. HandInv'
    BY DEF HandInv, EntryInv, EndInv, InHand, TypeOK, OwnInv, StopInv, NoStaleReadiness, IOEvents, NoTarget
  <1> QED
    BY <1>1, <1>2, <1>3

\* A service about to wait has no entry and no event in hand.
LEMMA RecvAgainStaysQuiet ==
    ASSUME IOInv, QuietInv, NEW s \in Services, NEW f \in FDs, RecvAgain(s, f)
    PROVE  QuietInv'
  <1> USE UsesAssumption, NoneIsNoService
  <1> USE DEF QuietInv, IOInv, RecvAgain, kernelVars, serviceVars, threadVars
  <1>1. EndInv'
    BY DEF EndInv, TypeOK
  <1>2. EntryInv'
    BY DEF EntryInv, EndInv, TypeOK, OwnInv, NoStaleReadiness
  <1>3. HandInv'
    BY DEF HandInv, EntryInv, EndInv, InHand, TypeOK, OwnInv, StopInv, NoStaleReadiness, IOEvents, NoTarget
  <1> QED
    BY <1>1, <1>2, <1>3

\* The entry a service makes is of the descriptor it waits for.
LEMMA WaitIOStaysQuiet ==
    ASSUME IOInv, QuietInv, NEW s \in Services, WaitIO(s)
    PROVE  QuietInv'
  <1> USE UsesAssumption, NoneIsNoService
  <1> USE DEF QuietInv, IOInv, WaitIO, EpollAdd, SetServiceFD, Woken, Mask, kernelVars, serviceVars, threadVars
  <1>1. EndInv'
    BY DEF EndInv, TypeOK
  <1>2. EntryInv'
    <2> SUFFICES ASSUME NEW r \in Services \ Interruptible
                 PROVE  /\ \A f \in Uses[r] : registered'[f] # None =>
                             code'[r] \in {"blocked", "remove"} /\ f = fd'[r]
                        /\ code'[r] = "blocked" /\ "IO_Operation" \in events'[r] =>
                             registered'[fd'[r]] = None /\ condition[fd'[r]] # "empty"
      BY DEF EntryInv
    <2>1. arg[s] \in Uses[s] /\ "IO_Operation" \notin events[s]
      BY DEF OwnInv, NoStaleReadiness
    <2>2. \A f \in FDs : f # arg[s] => registered'[f] = registered[f]
      BY DEF TypeOK
    <2>3. \A q \in Services : Uses[q] \subseteq FDs
      OBVIOUS
    <2>4. CASE r = s
      <3>1. registered[arg[s]] = None
        BY <2>1, <2>4 DEF EntryInv
      <3>2. \A f \in Uses[r] : f # arg[s] => registered'[f] = None
        BY <2>2, <2>3, <2>4 DEF EntryInv
      <3>3. code'[r] \in {"blocked", "remove"} /\ fd'[r] = arg[s]
        BY <2>1, <2>4, <3>1 DEF TypeOK
      <3>4. "IO_Operation" \notin events'[r]
        BY <2>1, <2>4, <3>1 DEF TypeOK
      <3> QED
        BY <3>2, <3>3, <3>4
    <2>5. CASE r # s
      <3>1. code'[r] = code[r] /\ fd'[r] = fd[r] /\ events'[r] = events[r]
        BY <2>5 DEF TypeOK
      <3>2. \A f \in Uses[r] : registered'[f] = registered[f]
        <4>1. arg[s] \notin Uses[r]
          BY <2>1, <2>5
        <4> QED
          BY <2>2, <2>3, <4>1
      <3>3. code[r] = "blocked" => fd[r] \in Uses[r]
        BY DEF TypeOK, OwnInv
      <3> QED
        BY <3>1, <3>2, <3>3 DEF EntryInv
    <2> QED
      BY <2>4, <2>5
  <1>3. HandInv'
    BY DEF HandInv, EntryInv, EndInv, InHand, TypeOK, OwnInv, StopInv, NoStaleReadiness, IOEvents, NoTarget
  <1> QED
    BY <1>1, <1>2, <1>3

\* A service leaves with its entry removed, or to stop.
LEMMA WaitIOResumedStaysQuiet ==
    ASSUME IOInv, QuietInv, NEW s \in Services, WaitIOResumed(s)
    PROVE  QuietInv'
  <1> USE UsesAssumption, NoneIsNoService
  <1> USE DEF QuietInv, IOInv, WaitIOResumed, Woken, Mask, kernelVars, serviceVars, threadVars
  <1>1. EndInv'
    BY DEF EndInv, TypeOK
  <1>2. EntryInv'
    BY DEF EntryInv, EndInv, TypeOK, OwnInv, NoStaleReadiness
  <1>3. HandInv'
    BY DEF HandInv, EntryInv, EndInv, InHand, TypeOK, OwnInv, StopInv, NoStaleReadiness, IOEvents, NoTarget
  <1> QED
    BY <1>1, <1>2, <1>3

\* A stopping service removes its entry itself.
LEMMA RemoveStaysQuiet ==
    ASSUME IOInv, QuietInv, NEW s \in Services, Remove(s)
    PROVE  QuietInv'
  <1> USE UsesAssumption, NoneIsNoService
  <1> USE DEF QuietInv, IOInv, Remove, EpollDel, kernelVars, serviceVars, threadVars
  <1>1. EndInv'
    BY DEF EndInv, TypeOK
  <1>2. EntryInv'
    <2> SUFFICES ASSUME NEW r \in Services \ Interruptible
                 PROVE  /\ \A f \in Uses[r] : registered'[f] # None =>
                             code'[r] \in {"blocked", "remove"} /\ f = fd[r]
                        /\ code'[r] = "blocked" /\ "IO_Operation" \in events[r] =>
                             registered'[fd[r]] = None /\ condition[fd[r]] # "empty"
      BY DEF EntryInv
    <2>1. CASE r = s
      <3>1. \A f \in Uses[s] : f # fd[s] => registered[f] = None
        BY <2>1 DEF EntryInv
      <3>2. Uses[s] \subseteq FDs /\ code'[s] = "user"
        BY DEF TypeOK
      <3>3. \A f \in Uses[s] : registered'[f] = None
        BY <3>1, <3>2
      <3> QED
        BY <2>1, <3>2, <3>3
    <2>2. CASE r # s
      <3>1. code'[r] = code[r] /\ Uses[r] \subseteq FDs
        BY <2>2 DEF TypeOK
      <3>2. \A f \in FDs : registered'[f] = registered[f] \/ registered'[f] = None
        OBVIOUS
      <3>3. code[r] = "blocked" => fd[r] \in FDs
        BY DEF TypeOK, OwnInv
      <3> QED
        BY <3>1, <3>2, <3>3 DEF EntryInv
    <2> QED
      BY <2>1, <2>2
  <1>3. HandInv'
    BY DEF HandInv, EntryInv, EndInv, InHand, TypeOK, OwnInv, StopInv, NoStaleReadiness, IOEvents, NoTarget
  <1> QED
    BY <1>1, <1>2, <1>3

\* An interrupt is of no concern to the others.
LEMMA InterruptStaysQuiet ==
    ASSUME IOInv, QuietInv, NEW s \in Interruptible, Interrupt(s)
    PROVE  QuietInv'
  <1> USE UsesAssumption, NoneIsNoService
  <1> USE DEF QuietInv, IOInv, Interrupt, kernelVars, serviceVars, threadVars
  <1>1. EndInv'
    BY DEF EndInv, TypeOK
  <1>2. EntryInv'
    BY DEF EntryInv, EndInv, TypeOK, OwnInv, NoStaleReadiness
  <1>3. HandInv'
    BY DEF HandInv, EntryInv, EndInv, InHand, TypeOK, OwnInv, StopInv, NoStaleReadiness, IOEvents, NoTarget
  <1> QED
    BY <1>1, <1>2, <1>3

\* A service that is told to stop is stopping.
LEMMA StopServiceStaysQuiet ==
    ASSUME IOInv, QuietInv, NEW s \in Services, StopService(s)
    PROVE  QuietInv'
  <1> USE UsesAssumption, NoneIsNoService
  <1> USE DEF QuietInv, IOInv, StopService, kernelVars, serviceVars, threadVars
  <1>1. EndInv'
    BY DEF EndInv, TypeOK
  <1>2. EntryInv'
    BY DEF EntryInv, EndInv, TypeOK, OwnInv, NoStaleReadiness
  <1>3. HandInv'
    BY DEF HandInv, EntryInv, EndInv, InHand, TypeOK, OwnInv, StopInv, NoStaleReadiness, IOEvents, NoTarget
  <1> QED
    BY <1>1, <1>2, <1>3

\* A dying service closes its own descriptors.
LEMMA DiesStaysQuiet ==
    ASSUME IOInv, QuietInv, NEW s \in Services, Dies(s)
    PROVE  QuietInv'
  <1> USE UsesAssumption, NoneIsNoService
  <1> USE DEF QuietInv, IOInv, Dies, EpollDel, kernelVars, serviceVars, threadVars
  <1>1. EndInv'
    BY DEF EndInv, TypeOK
  <1>2. EntryInv'
    <2> SUFFICES ASSUME NEW r \in Services \ Interruptible
                 PROVE  /\ \A f \in Uses[r] : registered'[f] # None =>
                             code'[r] \in {"blocked", "remove"} /\ f = fd[r]
                        /\ code'[r] = "blocked" /\ "IO_Operation" \in events[r] =>
                             registered'[fd[r]] = None /\ condition[fd[r]] # "empty"
      BY DEF EntryInv
    <2>1. CASE r = s
      BY <2>1 DEF EntryInv, TypeOK, OwnInv
    <2>2. CASE r # s
      <3>1. code'[r] = code[r] /\ Uses[r] \subseteq FDs
        BY <2>2 DEF TypeOK
      <3>2. \A f \in FDs : registered'[f] = registered[f] \/ registered'[f] = None
        OBVIOUS
      <3>3. code[r] = "blocked" => fd[r] \in FDs
        BY DEF TypeOK, OwnInv
      <3> QED
        BY <3>1, <3>2, <3>3 DEF EntryInv
    <2> QED
      BY <2>1, <2>2
  <1>3. HandInv'
    BY DEF HandInv, EntryInv, EndInv, InHand, TypeOK, OwnInv, StopInv, NoStaleReadiness, IOEvents, NoTarget
  <1> QED
    BY <1>1, <1>2, <1>3

\* What is ready has one event, of the service that waits for it.
LEMMA EpollWaitStaysQuiet ==
    ASSUME IOInv, QuietInv, EpollWait
    PROVE  QuietInv'
  <1> USE UsesAssumption, NoneIsNoService
  <1> USE DEF QuietInv, IOInv, EpollWait, kernelVars, serviceVars, threadVars
  <1>1. EndInv'
    BY DEF EndInv, TypeOK
  <1>2. EntryInv'
    BY DEF EntryInv, EndInv, TypeOK, OwnInv, NoStaleReadiness
  <1>3. HandInv'
    BY DEF HandInv, EntryInv, EndInv, InHand, TypeOK, OwnInv, StopInv, NoStaleReadiness, IOEvents, NoTarget
  <1> QED
    BY <1>1, <1>2, <1>3

\* The descriptor of a service that waits is the one its event is about.
LEMMA GrabServiceStaysQuiet ==
    ASSUME IOInv, QuietInv, NEW e \in batch, GrabService(e)
    PROVE  QuietInv'
  <1> USE UsesAssumption, NoneIsNoService
  <1> USE DEF QuietInv, IOInv, GrabService, kernelVars, serviceVars, threadVars
  <1>1. EndInv'
    BY DEF EndInv, TypeOK
  <1>2. EntryInv'
    BY DEF EntryInv, EndInv, TypeOK, OwnInv, NoStaleReadiness
  <1>3. HandInv'
    BY DEF HandInv, EntryInv, EndInv, InHand, TypeOK, OwnInv, StopInv, NoStaleReadiness, IOEvents, NoTarget
  <1> QED
    BY <1>1, <1>2, <1>3

\* The entry removed is the only one of the service in work.
LEMMA DelStaysQuiet ==
    ASSUME IOInv, QuietInv, Del
    PROVE  QuietInv'
  <1> USE UsesAssumption, NoneIsNoService
  <1> USE DEF QuietInv, IOInv, Del, EpollDel, kernelVars, serviceVars, threadVars
  <1>1. EndInv'
    BY DEF EndInv, TypeOK
  <1>2. EntryInv'
    BY DEF EntryInv, EndInv, TypeOK, OwnInv, NoStaleReadiness
  <1>3. HandInv'
    BY DEF HandInv, EntryInv, EndInv, InHand, TypeOK, OwnInv, StopInv, NoStaleReadiness, IOEvents, NoTarget
  <1> QED
    BY <1>1, <1>2, <1>3

\* A service is woken once its entry is gone and its socket ready.
LEMMA OnIOReadyStaysQuiet ==
    ASSUME IOInv, QuietInv, OnIOReady
    PROVE  QuietInv'
  <1> USE UsesAssumption, NoneIsNoService
  <1> USE DEF QuietInv, IOInv, OnIOReady, kernelVars, serviceVars, threadVars
  <1>1. EndInv'
    BY DEF EndInv, TypeOK
  <1>2. EntryInv'
    BY DEF EntryInv, HandInv, InHand, TypeOK, OwnInv, IOEvents, NoTarget
  <1>3. HandInv'
    BY DEF HandInv, EntryInv, EndInv, InHand, TypeOK, OwnInv, StopInv, NoStaleReadiness, IOEvents, NoTarget
  <1> QED
    BY <1>1, <1>2, <1>3

\* An empty batch holds nobody's event.
LEMMA BatchDoneStaysQuiet ==
    ASSUME IOInv, QuietInv, BatchDone
    PROVE  QuietInv'
  <1> USE UsesAssumption, NoneIsNoService
  <1> USE DEF QuietInv, IOInv, BatchDone, kernelVars, serviceVars, threadVars
  <1>1. EndInv'
    BY DEF EndInv, TypeOK
  <1>2. EntryInv'
    BY DEF EntryInv, EndInv, TypeOK, OwnInv, NoStaleReadiness
  <1>3. HandInv'
    BY DEF HandInv, EntryInv, EndInv, InHand, TypeOK, OwnInv, StopInv, NoStaleReadiness, IOEvents, NoTarget
  <1> QED
    BY <1>1, <1>2, <1>3

\* The pipe is of no concern to the services.
LEMMA StopStaysQuiet ==
    ASSUME IOInv, QuietInv, Stop
    PROVE  QuietInv'
  <1> USE UsesAssumption, NoneIsNoService
  <1> USE DEF QuietInv, IOInv, Stop, kernelVars, serviceVars, threadVars
  <1>1. EndInv'
    BY DEF EndInv, TypeOK
  <1>2. EntryInv'
    BY DEF EntryInv, EndInv, TypeOK, OwnInv, NoStaleReadiness
  <1>3. HandInv'
    BY DEF HandInv, EntryInv, EndInv, InHand, TypeOK, OwnInv, StopInv, NoStaleReadiness, IOEvents, NoTarget
  <1> QED
    BY <1>1, <1>2, <1>3

\* The epoll thread ends with nothing in hand.
LEMMA RunEndsStaysQuiet ==
    ASSUME IOInv, QuietInv, RunEnds
    PROVE  QuietInv'
  <1> USE UsesAssumption, NoneIsNoService
  <1> USE DEF QuietInv, IOInv, RunEnds, kernelVars, serviceVars, threadVars
  <1>1. EndInv'
    BY DEF EndInv, TypeOK
  <1>2. EntryInv'
    BY DEF EntryInv, EndInv, TypeOK, OwnInv, NoStaleReadiness
  <1>3. HandInv'
    BY DEF HandInv, EntryInv, EndInv, InHand, TypeOK, OwnInv, StopInv, NoStaleReadiness, IOEvents, NoTarget
  <1> QED
    BY <1>1, <1>2, <1>3

\* Every step keeps quiet services quiet.
LEMMA QuietNext ==
    ASSUME IOInv, QuietInv, [Next]_vars
    PROVE  QuietInv'
  <1>1. CASE RunStep
    BY <1>1, EpollWaitStaysQuiet, DelStaysQuiet, OnIOReadyStaysQuiet,
       BatchDoneStaysQuiet, RunEndsStaysQuiet, GrabServiceStaysQuiet DEF RunStep
  <1>2. CASE Stop
    BY <1>2, StopStaysQuiet
  <1>3. ASSUME NEW s \in Services,
               \/ ReadStep(s) \/ StopService(s) \/ Dies(s)
               \/ \E f \in FDs : Recv(s, f) \/ RecvAgain(s, f)
        PROVE  QuietInv'
    BY <1>3, WaitIOStaysQuiet, WaitIOResumedStaysQuiet, RemoveStaysQuiet,
       StopServiceStaysQuiet, DiesStaysQuiet, RecvStaysQuiet, RecvAgainStaysQuiet
       DEF ReadStep
  <1>4. ASSUME NEW s \in Interruptible, Interrupt(s)
        PROVE  QuietInv'
    BY <1>4, InterruptStaysQuiet
  <1>5. ASSUME NEW f \in FDs, NEW c \in {"data", "broken"}, SocketChanges(f, c)
        PROVE  QuietInv'
    BY <1>5, SocketChangesStaysQuiet
  <1>6. CASE UNCHANGED vars
    BY <1>6 DEF vars, kernelVars, serviceVars, threadVars, QuietInv, EndInv,
                EntryInv, HandInv, InHand
  <1> QED
    BY <1>1, <1>2, <1>3, <1>4, <1>5, <1>6 DEF Next

\* What nobody interrupts reads undisturbed: it finds no old entry of its
\* descriptor in epoll and is not woken for an empty socket, whatever the
\* other services, the epoll thread and a stop do meanwhile.
THEOREM UninterruptedReadsHold == Spec => []UninterruptedReads
  <1>1. Init => QuietInv
    BY UsesAssumption DEF Init, QuietInv, EndInv, EntryInv, HandInv, InHand
  <1>2. IOInv /\ QuietInv => UninterruptedReads
    BY UsesAssumption
       DEF IOInv, OwnInv, QuietInv, EntryInv, UninterruptedReads
  <1> QED
    BY <1>1, <1>2, IOInvariant, QuietNext, PTL DEF Spec
=============================================================================
