-------------------------- MODULE Services_proofs --------------------------
(***************************************************************************)
(* What is built on the scheduler, for any number of threads, descriptors  *)
(* and clients: no step of a TCP server or connector, failing ones         *)
(* included, leaks a descriptor or closes one that it does not own;        *)
(* services live within the life of the workers that run them; and a sleep *)
(* that nobody cuts short lasts its time.                                  *)
(***************************************************************************)
EXTENDS LifeCycle, TcpServer, WakeupService, FiniteSetTheorems, TLAPS

-----------------------------------------------------------------------------
(* TcpServer                                                               *)

TcpTypeOK ==
    /\ open \in SUBSET Fds
    /\ backlog \in Nat
    /\ startAt \in {"out", "socket", "acceptor"}
    /\ startFd \in Fds \cup {NoFd}
    /\ acceptorAt \in {"none", "loop", "wait", "new"}
    /\ acceptorFd \in Fds \cup {NoFd}
    /\ acceptorStopping \in BOOLEAN
    /\ newFd \in Fds \cup {NoFd}
    /\ handle \in BOOLEAN
    /\ connFds \in SUBSET Fds
    /\ clientAt \in [Clients -> {"idle", "socket", "wait", "connected"}]
    /\ clientFd \in [Clients -> Fds \cup {NoFd}]
    /\ systemStopped \in BOOLEAN

\* Who is to have a descriptor where it is has one; no second descriptor
\* listens while an Acceptor is handed over.
HoldsInv ==
    /\ startFd # NoFd <=> startAt # "out"
    /\ acceptorFd # NoFd <=> acceptorAt # "none"
    /\ newFd # NoFd <=> acceptorAt = "new"
    /\ startAt = "acceptor" => acceptorFd = NoFd
    /\ \A c \in Clients : clientFd[c] # NoFd <=> clientAt[c] # "idle"

\* What somebody holds is open, and nobody else holds it.
DistinctInv ==
    /\ startFd # NoFd =>
         /\ startFd \in open \ connFds
         /\ startFd # acceptorFd /\ startFd # newFd
         /\ \A c \in Clients : clientFd[c] # startFd
    /\ acceptorFd # NoFd =>
         /\ acceptorFd \in open \ connFds
         /\ acceptorFd # newFd
         /\ \A c \in Clients : clientFd[c] # acceptorFd
    /\ newFd # NoFd =>
         /\ newFd \in open \ connFds
         /\ \A c \in Clients : clientFd[c] # newFd
    /\ connFds \subseteq open
    /\ \A c \in Clients : clientFd[c] # NoFd =>
         /\ clientFd[c] \in open \ connFds
         /\ \A d \in Clients : clientFd[d] = clientFd[c] => d = c

\* What is open somebody holds.
HeldInv ==
    \A fd \in open :
        \/ fd \in {startFd, acceptorFd, newFd} \cup connFds
        \/ \E c \in Clients : clientFd[c] = fd

TcpInv == TcpTypeOK /\ HoldsInv /\ DistinctInv /\ HeldInv

LEMMA TcpInvImplies == TcpInv => FdsHaveOneOwner
<1> SUFFICES ASSUME TcpInv, NEW fd \in Fds
             PROVE  Cardinality(Owners(fd)) = (IF fd \in open THEN 1 ELSE 0)
  BY DEF FdsHaveOneOwner
<1> USE FdsAssumption DEF TcpInv
<1>1. \A o : o \in Owners(fd) <=>
        \/ o = "start" /\ startFd = fd
        \/ o = "acceptor" /\ acceptorFd = fd
        \/ o = "new" /\ newFd = fd
        \/ o = "service" /\ fd \in connFds
        \/ o \in Clients /\ clientFd[o] = fd
  BY DEF Owners
<1>2. CASE fd \notin open
  <2>1. Owners(fd) = {}
    BY <1>1, <1>2 DEF DistinctInv
  <2> QED
    BY <1>2, <2>1, FS_EmptySet
<1>3. CASE fd \in open
  <2>1. \E o : Owners(fd) = {o}
    <3>1. CASE fd = startFd
      <4>1. Owners(fd) = {"start"}
        BY <1>1, <3>1 DEF DistinctInv
      <4> QED
        BY <4>1
    <3>2. CASE fd = acceptorFd
      <4>1. Owners(fd) = {"acceptor"}
        BY <1>1, <3>2 DEF DistinctInv
      <4> QED
        BY <4>1
    <3>3. CASE fd = newFd
      <4>1. Owners(fd) = {"new"}
        BY <1>1, <3>3 DEF DistinctInv
      <4> QED
        BY <4>1
    <3>4. CASE fd \in connFds
      <4>1. Owners(fd) = {"service"}
        BY <1>1, <3>4 DEF DistinctInv
      <4> QED
        BY <4>1
    <3>5. ASSUME NEW c \in Clients, clientFd[c] = fd
          PROVE  \E o : Owners(fd) = {o}
      <4>1. Owners(fd) = {c}
        BY <1>1, <3>5 DEF DistinctInv
      <4> QED
        BY <4>1
    <3> QED
      BY <1>3, <3>1, <3>2, <3>3, <3>4, <3>5 DEF HeldInv
  <2> QED
    BY <1>3, <2>1, FS_Singleton
<1> QED
  BY <1>2, <1>3

LEMMA ServerSocketKeeps ==
    ASSUME TcpInv, NEW fd \in Fds, ServerSocket(fd)
    PROVE  TcpInv'
<1> USE FdsAssumption DEF TcpInv, startVars, acceptorVars, clientVars
<1>1. TcpTypeOK'
  BY DEF ServerSocket, Opens, TcpTypeOK
<1>2. HoldsInv'
  BY DEF ServerSocket, Opens, HoldsInv, TcpTypeOK
<1>3. DistinctInv'
  BY DEF ServerSocket, Opens, DistinctInv, HoldsInv, TcpTypeOK
<1>4. HeldInv'
  BY DEF ServerSocket, Opens, HeldInv, HoldsInv, DistinctInv, TcpTypeOK
<1> QED
  BY <1>1, <1>2, <1>3, <1>4

LEMMA InitializeFailsKeeps ==
    ASSUME TcpInv, InitializeFails
    PROVE  TcpInv'
<1> USE FdsAssumption DEF TcpInv, startVars, acceptorVars, clientVars
<1>1. TcpTypeOK'
  BY DEF InitializeFails, GuardCloses, StopsAcceptor, TcpTypeOK
<1>2. HoldsInv'
  BY DEF InitializeFails, GuardCloses, StopsAcceptor, HoldsInv, TcpTypeOK
<1>3. DistinctInv'
  BY DEF InitializeFails, GuardCloses, StopsAcceptor, DistinctInv, HoldsInv, TcpTypeOK
<1>4. HeldInv'
  BY DEF InitializeFails, GuardCloses, StopsAcceptor, HeldInv, HoldsInv, DistinctInv, TcpTypeOK
<1> QED
  BY <1>1, <1>2, <1>3, <1>4

LEMMA InitializeSucceedsKeeps ==
    ASSUME TcpInv, InitializeSucceeds
    PROVE  TcpInv'
<1> USE FdsAssumption DEF TcpInv, startVars, acceptorVars, clientVars
<1>1. TcpTypeOK'
  BY DEF InitializeSucceeds, TcpTypeOK
<1>2. HoldsInv'
  BY DEF InitializeSucceeds, HoldsInv, TcpTypeOK
<1>3. DistinctInv'
  BY DEF InitializeSucceeds, DistinctInv, HoldsInv, TcpTypeOK
<1>4. HeldInv'
  BY DEF InitializeSucceeds, HeldInv, HoldsInv, DistinctInv, TcpTypeOK
<1> QED
  BY <1>1, <1>2, <1>3, <1>4

LEMMA LaunchAcceptorKeeps ==
    ASSUME TcpInv, LaunchAcceptor
    PROVE  TcpInv'
<1> USE FdsAssumption DEF TcpInv, startVars, acceptorVars, clientVars
<1>1. TcpTypeOK'
  <2>1. handle' \in BOOLEAN /\ acceptorStopping' \in BOOLEAN /\ UNCHANGED systemStopped
    BY Zenon DEF LaunchAcceptor
  <2> QED
    BY <2>1 DEF LaunchAcceptor, TcpTypeOK
<1>2. HoldsInv'
  BY DEF LaunchAcceptor, HoldsInv, TcpTypeOK
<1>3. DistinctInv'
  BY DEF LaunchAcceptor, DistinctInv, HoldsInv, TcpTypeOK
<1>4. HeldInv'
  BY DEF LaunchAcceptor, HeldInv, HoldsInv, DistinctInv, TcpTypeOK
<1> QED
  BY <1>1, <1>2, <1>3, <1>4

LEMMA StopKeeps ==
    ASSUME TcpInv, StopServer \/ StopSystem
    PROVE  TcpInv'
<1> USE FdsAssumption DEF TcpInv, startVars, acceptorVars, clientVars
<1>1. TcpTypeOK'
  BY DEF StopServer, StopsAcceptor, StopSystem, TcpTypeOK
<1>2. HoldsInv'
  BY DEF StopServer, StopsAcceptor, StopSystem, HoldsInv, TcpTypeOK
<1>3. DistinctInv'
  BY DEF StopServer, StopsAcceptor, StopSystem, DistinctInv, HoldsInv, TcpTypeOK
<1>4. HeldInv'
  BY DEF StopServer, StopsAcceptor, StopSystem, HeldInv, HoldsInv, DistinctInv, TcpTypeOK
<1> QED
  BY <1>1, <1>2, <1>3, <1>4

LEMMA AcceptsKeeps ==
    ASSUME TcpInv, NEW fd \in Fds, Accepts(fd)
    PROVE  TcpInv'
<1> USE FdsAssumption DEF TcpInv, startVars, acceptorVars, clientVars
<1>1. TcpTypeOK'
  BY DEF Accepts, Opens, TcpTypeOK
<1>2. HoldsInv'
  BY DEF Accepts, Opens, HoldsInv, TcpTypeOK
<1>3. DistinctInv'
  BY DEF Accepts, Opens, DistinctInv, HoldsInv, TcpTypeOK
<1>4. HeldInv'
  BY DEF Accepts, Opens, HeldInv, HoldsInv, DistinctInv, TcpTypeOK
<1> QED
  BY <1>1, <1>2, <1>3, <1>4

LEMMA AcceptsLaterKeeps ==
    ASSUME TcpInv, AcceptsLater
    PROVE  TcpInv'
<1> USE FdsAssumption DEF TcpInv, startVars, acceptorVars, clientVars
<1>1. TcpTypeOK'
  BY DEF AcceptsLater, TcpTypeOK
<1>2. HoldsInv'
  BY DEF AcceptsLater, HoldsInv, TcpTypeOK
<1>3. DistinctInv'
  BY DEF AcceptsLater, DistinctInv, HoldsInv, TcpTypeOK
<1>4. HeldInv'
  BY DEF AcceptsLater, HeldInv, HoldsInv, DistinctInv, TcpTypeOK
<1> QED
  BY <1>1, <1>2, <1>3, <1>4

LEMMA AcceptorEndsKeeps ==
    ASSUME TcpInv, AcceptorEnds, acceptorAt \in {"loop", "wait"}, UNCHANGED <<startVars, clientVars, systemStopped>>
    PROVE  TcpInv'
<1> USE FdsAssumption DEF TcpInv, startVars, acceptorVars, clientVars
<1>1. TcpTypeOK'
  BY DEF AcceptorEnds, TcpTypeOK
<1>2. HoldsInv'
  BY DEF AcceptorEnds, HoldsInv, TcpTypeOK
<1>3. DistinctInv'
  BY DEF AcceptorEnds, DistinctInv, HoldsInv, TcpTypeOK
<1>4. HeldInv'
  BY DEF AcceptorEnds, HeldInv, HoldsInv, DistinctInv, TcpTypeOK
<1> QED
  BY <1>1, <1>2, <1>3, <1>4

LEMMA WaitInputReturnsKeeps ==
    ASSUME TcpInv, WaitInputReturns
    PROVE  TcpInv'
<1>1. CASE acceptorStopping
  BY <1>1, AcceptorEndsKeeps DEF WaitInputReturns
<1>2. CASE ~ acceptorStopping
  BY <1>2 DEF WaitInputReturns, TcpInv, TcpTypeOK, HoldsInv, DistinctInv, HeldInv,
              startVars, clientVars
<1> QED
  BY <1>1, <1>2

LEMMA OnNewConnectionKeeps ==
    ASSUME TcpInv, NEW launched \in BOOLEAN, OnNewConnection(launched)
    PROVE  TcpInv'
<1> USE FdsAssumption DEF TcpInv, startVars, acceptorVars, clientVars
<1>1. TcpTypeOK'
  BY DEF OnNewConnection, TcpTypeOK, HoldsInv
<1>2. HoldsInv'
  BY DEF OnNewConnection, HoldsInv, TcpTypeOK
<1>3. DistinctInv'
  BY DEF OnNewConnection, DistinctInv, HoldsInv, TcpTypeOK
<1>4. HeldInv'
  BY DEF OnNewConnection, HeldInv, HoldsInv, DistinctInv, TcpTypeOK
<1> QED
  BY <1>1, <1>2, <1>3, <1>4

LEMMA ConnectionEndsKeeps ==
    ASSUME TcpInv, NEW fd \in Fds, ConnectionEnds(fd)
    PROVE  TcpInv'
<1> USE FdsAssumption DEF TcpInv, startVars, acceptorVars, clientVars
<1>1. TcpTypeOK'
  BY DEF ConnectionEnds, TcpTypeOK
<1>2. HoldsInv'
  BY DEF ConnectionEnds, HoldsInv, TcpTypeOK
<1>3. DistinctInv'
  BY DEF ConnectionEnds, DistinctInv, HoldsInv, TcpTypeOK
<1>4. HeldInv'
  BY DEF ConnectionEnds, HeldInv, HoldsInv, DistinctInv, TcpTypeOK
<1> QED
  BY <1>1, <1>2, <1>3, <1>4

LEMMA ClientSocketKeeps ==
    ASSUME TcpInv, NEW c \in Clients, NEW fd \in Fds, ClientSocket(c, fd)
    PROVE  TcpInv'
<1> USE FdsAssumption DEF TcpInv, startVars, acceptorVars, clientVars
<1>1. TcpTypeOK'
  BY DEF ClientSocket, ClientStep, Opens, TcpTypeOK
<1>2. HoldsInv'
  BY DEF ClientSocket, ClientStep, Opens, HoldsInv, TcpTypeOK
<1>3. DistinctInv'
  BY DEF ClientSocket, ClientStep, Opens, DistinctInv, HoldsInv, TcpTypeOK
<1>4. HeldInv'
  BY DEF ClientSocket, ClientStep, Opens, HeldInv, HoldsInv, DistinctInv, TcpTypeOK
<1> QED
  BY <1>1, <1>2, <1>3, <1>4

LEMMA ClientConnectsKeeps ==
    ASSUME TcpInv, NEW c \in Clients,
           ClientConnects(c) \/ ClientRefused(c) \/ ClientWaited(c)
    PROVE  TcpInv'
<1> USE FdsAssumption DEF TcpInv, startVars, acceptorVars, clientVars
<1>1. TcpTypeOK'
  BY DEF ClientConnects, ClientRefused, ClientWaited, ClientStep, TcpTypeOK
<1>2. HoldsInv'
  BY DEF ClientConnects, ClientRefused, ClientWaited, ClientStep, HoldsInv, TcpTypeOK
<1>3. DistinctInv'
  BY DEF ClientConnects, ClientRefused, ClientWaited, ClientStep, DistinctInv, HoldsInv, TcpTypeOK
<1>4. HeldInv'
  BY DEF ClientConnects, ClientRefused, ClientWaited, ClientStep, HeldInv, HoldsInv, DistinctInv, TcpTypeOK
<1> QED
  BY <1>1, <1>2, <1>3, <1>4

LEMMA ClientClosesKeeps ==
    ASSUME TcpInv, NEW c \in Clients, ClientCloses(c)
    PROVE  TcpInv'
<1> USE FdsAssumption DEF TcpInv, startVars, acceptorVars, clientVars
<1>1. TcpTypeOK'
  BY DEF ClientCloses, ClientStep, TcpTypeOK
<1>2. HoldsInv'
  BY DEF ClientCloses, ClientStep, HoldsInv, TcpTypeOK
<1>3. DistinctInv'
  BY DEF ClientCloses, ClientStep, DistinctInv, HoldsInv, TcpTypeOK
<1>4. HeldInv'
  BY DEF ClientCloses, ClientStep, HeldInv, HoldsInv, DistinctInv, TcpTypeOK
<1> QED
  BY <1>1, <1>2, <1>3, <1>4

LEMMA TcpStep == TcpInv /\ [TcpNext]_tcpVars => TcpInv'
<1> SUFFICES ASSUME TcpInv, [TcpNext]_tcpVars
             PROVE  TcpInv'
  OBVIOUS
<1>1. CASE UNCHANGED tcpVars
  BY <1>1 DEF TcpInv, TcpTypeOK, HoldsInv, DistinctInv, HeldInv, tcpVars
<1>2. CASE AcceptorRuns
  BY <1>2, AcceptsKeeps, AcceptsLaterKeeps, WaitInputReturnsKeeps, AcceptorEndsKeeps,
     OnNewConnectionKeeps DEF AcceptorRuns, AcceptFails, AcceptorStops
<1> QED
  BY <1>1, <1>2, ServerSocketKeeps, ConnectionEndsKeeps, InitializeFailsKeeps,
     InitializeSucceedsKeeps, LaunchAcceptorKeeps, StopKeeps, ClientSocketKeeps,
     ClientConnectsKeeps, ClientClosesKeeps DEF TcpNext

\* TcpServer, Acceptor and TcpConnector: in every order of starts, failures,
\* stops and connections an open descriptor has exactly one owner, who will
\* close it, and a closed one none.
THEOREM DescriptorsHaveOneOwner == TcpSpec => []FdsHaveOneOwner
<1>1. TcpInit => TcpInv
  <2> SUFFICES ASSUME TcpInit PROVE TcpInv
    OBVIOUS
  <2>1. TcpTypeOK
    BY DEF TcpInit, TcpTypeOK
  <2>2. HoldsInv /\ DistinctInv /\ HeldInv
    BY DEF TcpInit, HoldsInv, DistinctInv, HeldInv
  <2> QED
    BY <2>1, <2>2 DEF TcpInv
<1> QED
  BY <1>1, TcpStep, TcpInvImplies, PTL DEF TcpSpec

-----------------------------------------------------------------------------
(* LifeCycle                                                               *)

LifeTypeOK ==
    /\ stopped \in BOOLEAN
    /\ holder \in Callers \cup {NoCaller}
    /\ callerAt \in [Callers -> {"out", "start", "initialize", "launch", "call", "stop",
                                 "interrupt", "join", "relock", "wait"}]
    /\ threadAt \in [WorkerIds -> {"none", "created", "loop", "ended"}]
    /\ worker_init_num \in Nat
    /\ threadsInterrupted \in BOOLEAN
    /\ wakeupSrv \in {"none", "ready", "idle", "dead"}
    /\ lives \in Nat

\* mutex_ is with the one caller that is inside Start or Stop.
HolderInv ==
    \A c \in Callers :
        /\ holder = c <=> callerAt[c] \in {"initialize", "launch", "call", "interrupt", "join"}
        /\ callerAt[c] \in {"start", "initialize", "launch", "call"} => c = Main

\* What Start and Stop find and leave: Start makes threads for a stopped
\* system and runs it; who is in Stop has stopped it, and its service has
\* ended or is about to.
StartStopInv ==
    /\ callerAt[Main] \in {"start", "initialize"} => stopped
    /\ callerAt[Main] \in {"launch", "call"} => ~ stopped
    /\ callerAt[Main] = "initialize" =>
         /\ ~ threadsInterrupted /\ wakeupSrv \in {"none", "dead"}
         /\ \A w \in WorkerIds : threadAt[w] \in {"created", "loop"}
    /\ \A c \in Callers : callerAt[c] \in {"interrupt", "join"} =>
         stopped /\ wakeupSrv # "idle"

\* A thread ends because it was told to, with nothing left to schedule.
EndedInv ==
    /\ ~ stopped => ~ threadsInterrupted
    /\ \A w \in WorkerIds : threadAt[w] = "ended" =>
         threadsInterrupted /\ wakeupSrv # "ready"

Looping == {w \in WorkerIds : threadAt[w] = "loop"}

\* In the first life worker_init_num_ counts the workers that have reached
\* their loop.
FirstLifeInv ==
    /\ lives = 0 =>
         /\ stopped /\ holder = NoCaller /\ worker_init_num = 0
         /\ callerAt[Main] # "start"
    /\ lives = 1 =>
         /\ callerAt[Main] = "start" => worker_init_num = 0 /\ holder = NoCaller
         /\ callerAt[Main] = "initialize" => worker_init_num = Cardinality(Looping)

LifeInv ==
    /\ LifeTypeOK
    /\ HolderInv
    /\ StartStopInv
    /\ EndedInv
    /\ FirstLifeInv
    /\ WorkersEncloseServices

LEMMA LoopingFacts ==
    /\ IsFiniteSet(WorkerIds) /\ Cardinality(WorkerIds) = WorkerNum
    /\ Looping \subseteq WorkerIds
    /\ Cardinality(Looping) = WorkerNum => Looping = WorkerIds
    /\ \A w \in WorkerIds : w \notin Looping =>
         Cardinality(Looping \cup {w}) = Cardinality(Looping) + 1
<1>1. IsFiniteSet(WorkerIds) /\ Cardinality(WorkerIds) = WorkerNum
  BY LifeCycleAssumption, FS_Interval DEF WorkerIds
<1>2. Looping \in SUBSET WorkerIds
  BY DEF Looping
<1>3. /\ IsFiniteSet(Looping)
      /\ Cardinality(WorkerIds) = Cardinality(Looping) => WorkerIds = Looping
  BY <1>1, <1>2, FS_Subset
<1> QED
  BY <1>1, <1>2, <1>3, FS_AddElement

LEMMA StartCallKeeps ==
    ASSUME LifeInv, StartCall
    PROVE  LifeInv'
<1> USE LifeCycleAssumption, NoCallerAssumption DEF LifeInv
<1>1. LifeTypeOK'
  BY DEF StartCall, CallerStep, LifeTypeOK
<1>2. HolderInv'
  BY DEF StartCall, CallerStep, HolderInv, LifeTypeOK
<1>3. StartStopInv'
  BY DEF StartCall, CallerStep, StartStopInv, HolderInv, LifeTypeOK
<1>4. EndedInv'
  BY DEF StartCall, CallerStep, EndedInv, StartStopInv, HolderInv, LifeTypeOK
<1>5. FirstLifeInv'
  BY DEF StartCall, CallerStep, FirstLifeInv, HolderInv, StartStopInv, LifeTypeOK
<1>6. WorkersEncloseServices'
  BY DEF StartCall, CallerStep, WorkersEncloseServices, WorkersBeforeServices,
         StoppedMeansGone, HolderInv, StartStopInv, EndedInv, LifeTypeOK
<1> QED
  BY <1>1, <1>2, <1>3, <1>4, <1>5, <1>6

LEMMA StartThreadsKeeps ==
    ASSUME LifeInv, StartThreads
    PROVE  LifeInv'
<1> USE LifeCycleAssumption, NoCallerAssumption DEF LifeInv
<1>1. LifeTypeOK'
  BY DEF StartThreads, CallerStep, LifeTypeOK
<1>2. HolderInv'
  BY DEF StartThreads, CallerStep, HolderInv, LifeTypeOK
<1>3. StartStopInv'
  BY DEF StartThreads, CallerStep, StartStopInv, HolderInv, LifeTypeOK,
         WorkersEncloseServices, StoppedMeansGone
<1>4. EndedInv'
  BY DEF StartThreads, CallerStep, EndedInv, StartStopInv, HolderInv, LifeTypeOK
<1>5. FirstLifeInv'
  <2>1. Looping' = {}
    BY DEF StartThreads, Looping
  <2>2. lives' = lives /\ worker_init_num' = worker_init_num /\ callerAt[Main] = "start"
    BY DEF StartThreads, CallerStep
  <2>3. callerAt'[Main] = "initialize"
    BY DEF StartThreads, CallerStep, LifeTypeOK
  <2> QED
    BY <2>1, <2>2, <2>3, FS_EmptySet DEF FirstLifeInv
<1>6. WorkersEncloseServices'
  BY DEF StartThreads, CallerStep, WorkersEncloseServices, WorkersBeforeServices,
         StoppedMeansGone, HolderInv, StartStopInv, EndedInv, LifeTypeOK
<1> QED
  BY <1>1, <1>2, <1>3, <1>4, <1>5, <1>6

LEMMA StartFailsKeeps ==
    ASSUME LifeInv, StartFails
    PROVE  LifeInv'
<1> USE LifeCycleAssumption, NoCallerAssumption DEF LifeInv
<1>1. LifeTypeOK'
  BY DEF StartFails, CallerStep, LifeTypeOK
<1>2. HolderInv'
  BY DEF StartFails, CallerStep, HolderInv, LifeTypeOK
<1>3. StartStopInv'
  BY DEF StartFails, CallerStep, StartStopInv, HolderInv, LifeTypeOK
<1>4. EndedInv'
  BY DEF StartFails, CallerStep, EndedInv, StartStopInv, HolderInv, LifeTypeOK
<1>5. FirstLifeInv'
  BY DEF StartFails, CallerStep, FirstLifeInv, HolderInv, StartStopInv, LifeTypeOK
<1>6. WorkersEncloseServices'
  BY DEF StartFails, CallerStep, WorkersEncloseServices, WorkersBeforeServices,
         StoppedMeansGone, HolderInv, StartStopInv, EndedInv, LifeTypeOK
<1> QED
  BY <1>1, <1>2, <1>3, <1>4, <1>5, <1>6

LEMMA WorkersInitializedKeeps ==
    ASSUME LifeInv, WorkersInitialized
    PROVE  LifeInv'
<1> USE LifeCycleAssumption, NoCallerAssumption DEF LifeInv
<1>1. LifeTypeOK'
  BY DEF WorkersInitialized, CallerStep, LifeTypeOK
<1>2. HolderInv'
  BY DEF WorkersInitialized, CallerStep, HolderInv, LifeTypeOK
<1>3. StartStopInv'
  BY DEF WorkersInitialized, CallerStep, StartStopInv, HolderInv, LifeTypeOK
<1>4. EndedInv'
  BY DEF WorkersInitialized, CallerStep, EndedInv, StartStopInv, HolderInv, LifeTypeOK
<1>5. FirstLifeInv'
  BY DEF WorkersInitialized, CallerStep, FirstLifeInv, HolderInv, StartStopInv,
         LifeTypeOK
<1>6. WorkersEncloseServices'
  <2>1. lives = 1 => Looping = WorkerIds
    BY LoopingFacts DEF WorkersInitialized, CallerStep, Initialized, FirstLifeInv
  <2>2. ~ stopped' /\ UNCHANGED <<threadAt, lives>>
    BY DEF WorkersInitialized
  <2> QED
    BY <2>1, <2>2 DEF Looping, WorkersEncloseServices, WorkersBeforeServices, StoppedMeansGone
<1> QED
  BY <1>1, <1>2, <1>3, <1>4, <1>5, <1>6

LEMMA StartBuitinServicesKeeps ==
    ASSUME LifeInv, StartBuitinServices
    PROVE  LifeInv'
<1> USE LifeCycleAssumption, NoCallerAssumption DEF LifeInv
<1>1. LifeTypeOK'
  BY DEF StartBuitinServices, CallerStep, LifeTypeOK
<1>2. HolderInv'
  BY DEF StartBuitinServices, CallerStep, HolderInv, LifeTypeOK
<1>3. StartStopInv'
  BY DEF StartBuitinServices, CallerStep, StartStopInv, HolderInv, LifeTypeOK
<1>4. EndedInv'
  BY DEF StartBuitinServices, CallerStep, EndedInv, StartStopInv, HolderInv, LifeTypeOK
<1>5. FirstLifeInv'
  BY DEF StartBuitinServices, CallerStep, FirstLifeInv, HolderInv, StartStopInv,
         LifeTypeOK
<1>6. WorkersEncloseServices'
  BY DEF StartBuitinServices, CallerStep, WorkersEncloseServices,
         WorkersBeforeServices, StoppedMeansGone, HolderInv, StartStopInv, EndedInv, LifeTypeOK
<1> QED
  BY <1>1, <1>2, <1>3, <1>4, <1>5, <1>6

LEMMA StartEndsKeeps ==
    ASSUME LifeInv, BuitinServicesFail \/ StartReturns
    PROVE  LifeInv'
<1> USE LifeCycleAssumption, NoCallerAssumption DEF LifeInv
<1>1. LifeTypeOK'
  BY DEF BuitinServicesFail, StartReturns, CallerStep, LifeTypeOK
<1>2. HolderInv'
  BY DEF BuitinServicesFail, StartReturns, CallerStep, HolderInv, LifeTypeOK
<1>3. StartStopInv'
  BY DEF BuitinServicesFail, StartReturns, CallerStep, StartStopInv, HolderInv,
         LifeTypeOK
<1>4. EndedInv'
  BY DEF BuitinServicesFail, StartReturns, CallerStep, EndedInv, StartStopInv,
         HolderInv, LifeTypeOK
<1>5. FirstLifeInv'
  BY DEF BuitinServicesFail, StartReturns, CallerStep, FirstLifeInv, HolderInv,
         StartStopInv, LifeTypeOK
<1>6. WorkersEncloseServices'
  BY DEF BuitinServicesFail, StartReturns, CallerStep, WorkersEncloseServices,
         WorkersBeforeServices, StoppedMeansGone, HolderInv, StartStopInv, EndedInv, LifeTypeOK
<1> QED
  BY <1>1, <1>2, <1>3, <1>4, <1>5, <1>6

LEMMA CallKeeps ==
    ASSUME LifeInv, NEW c \in Callers,
           StopCall(c) \/ WaitStopCall(c) \/ WaitStopLooks(c)
    PROVE  LifeInv'
<1> USE LifeCycleAssumption, NoCallerAssumption DEF LifeInv
<1>1. LifeTypeOK'
  BY DEF StopCall, WaitStopCall, WaitStopLooks, CallerStep, LifeTypeOK
<1>2. HolderInv'
  BY DEF StopCall, WaitStopCall, WaitStopLooks, CallerStep, HolderInv, LifeTypeOK
<1>3. StartStopInv'
  BY DEF StopCall, WaitStopCall, WaitStopLooks, CallerStep, StartStopInv,
         HolderInv, LifeTypeOK
<1>4. EndedInv'
  BY DEF StopCall, WaitStopCall, WaitStopLooks, CallerStep, EndedInv, StartStopInv,
         HolderInv, LifeTypeOK
<1>5. FirstLifeInv'
  BY DEF StopCall, WaitStopCall, WaitStopLooks, CallerStep, FirstLifeInv, Looping,
         HolderInv, StartStopInv, LifeTypeOK
<1>6. WorkersEncloseServices'
  BY DEF StopCall, WaitStopCall, WaitStopLooks, CallerStep, WorkersEncloseServices,
         WorkersBeforeServices, StoppedMeansGone, HolderInv, StartStopInv, EndedInv, LifeTypeOK
<1> QED
  BY <1>1, <1>2, <1>3, <1>4, <1>5, <1>6

LEMMA StopServicesKeeps ==
    ASSUME LifeInv, NEW c \in Callers, StopServices(c)
    PROVE  LifeInv'
<1> USE LifeCycleAssumption, NoCallerAssumption DEF LifeInv
<1>1. LifeTypeOK'
  BY DEF StopServices, CallerStep, LifeTypeOK
<1>2. HolderInv'
  BY DEF StopServices, CallerStep, HolderInv, LifeTypeOK
<1>3. StartStopInv'
  BY DEF StopServices, CallerStep, StartStopInv, HolderInv, LifeTypeOK
<1>4. EndedInv'
  BY DEF StopServices, CallerStep, EndedInv, StartStopInv, HolderInv, LifeTypeOK
<1>5. FirstLifeInv'
  BY DEF StopServices, CallerStep, FirstLifeInv, HolderInv, StartStopInv, LifeTypeOK
<1>6. WorkersEncloseServices'
  BY DEF StopServices, CallerStep, WorkersEncloseServices, WorkersBeforeServices,
         StoppedMeansGone, HolderInv, StartStopInv, EndedInv, LifeTypeOK
<1> QED
  BY <1>1, <1>2, <1>3, <1>4, <1>5, <1>6

LEMMA StopInterruptsKeeps ==
    ASSUME LifeInv, NEW c \in Callers, StopInterrupts(c)
    PROVE  LifeInv'
<1> USE LifeCycleAssumption, NoCallerAssumption DEF LifeInv
<1>1. LifeTypeOK'
  BY DEF StopInterrupts, CallerStep, LifeTypeOK
<1>2. HolderInv'
  BY DEF StopInterrupts, CallerStep, HolderInv, LifeTypeOK
<1>3. StartStopInv'
  BY DEF StopInterrupts, CallerStep, StartStopInv, HolderInv, LifeTypeOK
<1>4. EndedInv'
  BY DEF StopInterrupts, CallerStep, EndedInv, StartStopInv, HolderInv, LifeTypeOK
<1>5. FirstLifeInv'
  BY DEF StopInterrupts, CallerStep, FirstLifeInv, HolderInv, StartStopInv, LifeTypeOK
<1>6. WorkersEncloseServices'
  BY DEF StopInterrupts, CallerStep, WorkersEncloseServices, WorkersBeforeServices,
         StoppedMeansGone, HolderInv, StartStopInv, EndedInv, LifeTypeOK
<1> QED
  BY <1>1, <1>2, <1>3, <1>4, <1>5, <1>6

LEMMA StopJoinsKeeps ==
    ASSUME LifeInv, NEW c \in Callers, StopJoins(c)
    PROVE  LifeInv'
<1> USE LifeCycleAssumption, NoCallerAssumption DEF LifeInv
<1>1. LifeTypeOK'
  BY DEF StopJoins, WokenByStop, LifeTypeOK
<1>2. HolderInv'
  BY DEF StopJoins, WokenByStop, HolderInv, LifeTypeOK
<1>3. StartStopInv'
  BY DEF StopJoins, WokenByStop, StartStopInv, HolderInv, LifeTypeOK
<1>4. EndedInv'
  BY DEF StopJoins, WokenByStop, EndedInv, StartStopInv, HolderInv, LifeTypeOK
<1>5. FirstLifeInv'
  BY DEF StopJoins, WokenByStop, FirstLifeInv, HolderInv, StartStopInv, LifeTypeOK
<1>6. WorkersEncloseServices'
  <2>1. 1 \in WorkerIds
    BY DEF WorkerIds
  <2>2. stopped /\ wakeupSrv \in {"none", "dead"}
    BY <2>1 DEF StopJoins, StartStopInv, EndedInv, LifeTypeOK
  <2> QED
    BY <2>2 DEF StopJoins, WorkersEncloseServices, WorkersBeforeServices, StoppedMeansGone
<1> QED
  BY <1>1, <1>2, <1>3, <1>4, <1>5, <1>6

LEMMA WorkerInitializesKeeps ==
    ASSUME LifeInv, NEW w \in WorkerIds, WorkerInitializes(w)
    PROVE  LifeInv'
<1> USE LifeCycleAssumption, NoCallerAssumption DEF LifeInv
<1>1. LifeTypeOK'
  BY DEF WorkerInitializes, WorkerStep, LifeTypeOK
<1>2. HolderInv'
  BY DEF WorkerInitializes, WorkerStep, HolderInv, LifeTypeOK
<1>3. StartStopInv'
  BY DEF WorkerInitializes, WorkerStep, StartStopInv, HolderInv, LifeTypeOK
<1>4. EndedInv'
  BY DEF WorkerInitializes, WorkerStep, EndedInv, StartStopInv, HolderInv, LifeTypeOK
<1>5. FirstLifeInv'
  <2>1. Looping' = Looping \cup {w} /\ w \notin Looping
    BY DEF WorkerInitializes, WorkerStep, Looping, LifeTypeOK
  <2>2. worker_init_num' = worker_init_num + 1 /\ UNCHANGED <<stopped, holder, callerAt, lives>>
    BY DEF WorkerInitializes
  <2>3. lives # 0 /\ ~(lives = 1 /\ callerAt[Main] = "start")
    BY DEF WorkerInitializes, WorkerStep, FirstLifeInv, StartStopInv,
           WorkersEncloseServices, StoppedMeansGone
  <2> QED
    BY <2>1, <2>2, <2>3, LoopingFacts DEF FirstLifeInv
<1>6. WorkersEncloseServices'
  BY DEF WorkerInitializes, WorkerStep, WorkersEncloseServices,
         WorkersBeforeServices, StoppedMeansGone, HolderInv, StartStopInv, EndedInv, LifeTypeOK
<1> QED
  BY <1>1, <1>2, <1>3, <1>4, <1>5, <1>6

LEMMA WorkerSchedulesKeeps ==
    ASSUME LifeInv, NEW w \in WorkerIds, WorkerSchedules(w)
    PROVE  LifeInv'
<1> USE LifeCycleAssumption, NoCallerAssumption DEF LifeInv
<1>1. LifeTypeOK'
  BY DEF WorkerSchedules, LifeTypeOK
<1>2. HolderInv'
  BY DEF WorkerSchedules, HolderInv, LifeTypeOK
<1>3. StartStopInv'
  BY DEF WorkerSchedules, StartStopInv, HolderInv, LifeTypeOK
<1>4. EndedInv'
  BY DEF WorkerSchedules, EndedInv, StartStopInv, HolderInv, LifeTypeOK
<1>5. FirstLifeInv'
  BY DEF WorkerSchedules, FirstLifeInv, HolderInv, StartStopInv, LifeTypeOK
<1>6. WorkersEncloseServices'
  BY DEF WorkerSchedules, WorkersEncloseServices, WorkersBeforeServices,
         StoppedMeansGone, HolderInv, StartStopInv, EndedInv, LifeTypeOK
<1> QED
  BY <1>1, <1>2, <1>3, <1>4, <1>5, <1>6

LEMMA WorkerEndsKeeps ==
    ASSUME LifeInv, NEW w \in WorkerIds, WorkerEnds(w)
    PROVE  LifeInv'
<1> USE LifeCycleAssumption, NoCallerAssumption DEF LifeInv
<1>1. LifeTypeOK'
  BY DEF WorkerEnds, WorkerStep, IdleEnds, LifeTypeOK
<1>2. HolderInv'
  BY DEF WorkerEnds, WorkerStep, IdleEnds, HolderInv, LifeTypeOK
<1>3. StartStopInv'
  BY DEF WorkerEnds, WorkerStep, IdleEnds, StartStopInv, HolderInv, LifeTypeOK
<1>4. EndedInv'
  BY DEF WorkerEnds, WorkerStep, IdleEnds, EndedInv, StartStopInv, HolderInv, LifeTypeOK
<1>5. FirstLifeInv'
  BY DEF WorkerEnds, WorkerStep, IdleEnds, FirstLifeInv, HolderInv, StartStopInv,
         LifeTypeOK
<1>6. WorkersEncloseServices'
  BY DEF WorkerEnds, WorkerStep, IdleEnds, WorkersEncloseServices,
         WorkersBeforeServices, StoppedMeansGone, HolderInv, StartStopInv, EndedInv, LifeTypeOK
<1> QED
  BY <1>1, <1>2, <1>3, <1>4, <1>5, <1>6

LEMMA LifeStep == LifeInv /\ [LifeNext]_lifeVars => LifeInv'
<1> SUFFICES ASSUME LifeInv, [LifeNext]_lifeVars
             PROVE  LifeInv'
  OBVIOUS
<1>1. CASE UNCHANGED lifeVars
  BY <1>1 DEF LifeInv, LifeTypeOK, HolderInv, StartStopInv, EndedInv, FirstLifeInv, Looping,
       WorkersEncloseServices, WorkersBeforeServices, StoppedMeansGone, lifeVars
<1>2. CASE StartCall \/ StartFails \/ BuitinServicesFail \/ Starting
  BY <1>2, StartCallKeeps, StartFailsKeeps, StartEndsKeeps, StartThreadsKeeps,
     WorkersInitializedKeeps, StartBuitinServicesKeeps DEF Starting
<1>3. ASSUME NEW c \in Callers, StopCall(c) \/ WaitStopCall(c) \/ Stopping(c)
      PROVE  LifeInv'
  BY <1>3, CallKeeps, StopServicesKeeps, StopInterruptsKeeps, StopJoinsKeeps DEF Stopping
<1>4. ASSUME NEW w \in WorkerIds, WorkerRuns(w)
      PROVE  LifeInv'
  BY <1>4, WorkerInitializesKeeps, WorkerSchedulesKeeps, WorkerEndsKeeps DEF WorkerRuns
<1> QED
  BY <1>1, <1>2, <1>3, <1>4 DEF LifeNext

\* System::Start and Stop, called by any threads in any order: in the first
\* life no service runs before every worker is in its loop; and who finds the
\* system stopped under the mutex finds neither a thread nor a service.
THEOREM LifeOfServicesIsEnclosed == LifeSpec => []WorkersEncloseServices
<1>1. LifeInit => LifeInv
  <2> SUFFICES ASSUME LifeInit PROVE LifeInv
    OBVIOUS
  <2>1. LifeTypeOK
    BY DEF LifeInit, LifeTypeOK
  <2>2. HolderInv /\ StartStopInv /\ EndedInv
    BY LifeCycleAssumption, NoCallerAssumption DEF LifeInit, HolderInv, StartStopInv, EndedInv
  <2>3. FirstLifeInv /\ WorkersEncloseServices
    BY LifeCycleAssumption DEF LifeInit, FirstLifeInv, WorkersEncloseServices,
       WorkersBeforeServices, StoppedMeansGone
  <2> QED
    BY <2>1, <2>2, <2>3 DEF LifeInv
<1>2. LifeInv => WorkersEncloseServices
  BY DEF LifeInv
<1> QED
  BY <1>1, <1>2, LifeStep, PTL DEF LifeSpec

-----------------------------------------------------------------------------
(* SleepService                                                            *)

SleepTypeOK ==
    /\ sat \in [Sleepers -> {"run", "leaving", "out", "ready", "stuck", "dead"}]
    /\ waitsIn \in [Sleepers -> {"none", "Sleep", "WaitSignal"}]
    /\ DOMAIN sevents = Sleepers
    /\ DOMAIN armed = Sleepers
    /\ DOMAIN late = Sleepers
    /\ owed \in [Sleepers -> 0 .. MaxLeft]
    /\ brief \in [Sleepers -> BOOLEAN]
    /\ disturbed \in [Sleepers -> BOOLEAN]

\* The timers of a service that has one, with left ticks to go, or none.
OneTimer(left) == [k \in 1 .. MaxLeft |-> IF k = left THEN 1 ELSE 0]

\* A service whose sleeps were never cut short has one timer at most, that of
\* the sleep it is in: in a list, or on its way to be called, or called with
\* its kSleep latched.
TimerInv ==
    \A s \in Sleepers : ~ disturbed[s] =>
        /\ armed[s] = OneTimer(owed[s])
        /\ owed[s] # 0 => waitsIn[s] = "Sleep" /\ late[s] = 0 /\ "kSleep" \notin sevents[s]
        /\ "kSleep" \in sevents[s] => waitsIn[s] = "Sleep" /\ late[s] = 0
        /\ late[s] # 0 => waitsIn[s] = "Sleep" /\ late[s] = 1

SleepInv ==
    /\ SleepTypeOK
    /\ \A s \in Sleepers : sat[s] \in {"run", "stuck", "dead"} => waitsIn[s] = "none"
    /\ TimerInv
    /\ SleepsWhole

\* An event other than kSleep changes nothing of the timers.
LEMMA OtherWakeup ==
    ASSUME SleepInv, NEW x, NEW e, e # "kSleep", WakeUp(x, e),
           UNCHANGED <<waitsIn, armed, late, owed, brief, disturbed>>
    PROVE  SleepInv'
  <1>1. /\ sevents' = [sevents EXCEPT ![x] = Latched(x, e)]
        /\ sat' = [sat EXCEPT ![x] =
                     IF @ = "out" /\ e \in WaitedFor(waitsIn[x]) THEN "ready" ELSE @]
    BY DEF WakeUp
  <1>2. \A s \in Sleepers : "kSleep" \in sevents'[s] <=> "kSleep" \in sevents[s]
    <2> TAKE s \in Sleepers
    <2>1. CASE s = x
      BY <1>1, <2>1 DEF SleepInv, SleepTypeOK, Latched
    <2>2. CASE s # x
      BY <1>1, <2>2 DEF SleepInv, SleepTypeOK
    <2> QED
      BY <2>1, <2>2
  <1>3. \A s \in Sleepers : sat'[s] = sat[s] \/ (sat[s] = "out" /\ sat'[s] = "ready")
    BY <1>1 DEF SleepInv, SleepTypeOK
  <1>4. SleepTypeOK'
    <2>1. sat' \in [Sleepers -> {"run", "leaving", "out", "ready", "stuck", "dead"}]
      BY <1>1 DEF SleepInv, SleepTypeOK
    <2>2. DOMAIN sevents' = Sleepers
      BY <1>1 DEF SleepInv, SleepTypeOK
    <2> QED
      BY <2>1, <2>2 DEF SleepInv, SleepTypeOK
  <1>5. \A s \in Sleepers : sat'[s] \in {"run", "stuck", "dead"} => waitsIn'[s] = "none"
    BY <1>3 DEF SleepInv
  <1>6. TimerInv'
    BY <1>2 DEF SleepInv, TimerInv
  <1>7. SleepsWhole'
    BY DEF SleepInv, SleepsWhole
  <1> QED
    BY <1>4, <1>5, <1>6, <1>7 DEF SleepInv

LEMMA CallbackKeeps ==
    ASSUME SleepInv, NEW s \in Sleepers, SleepCallback(s)
    PROVE  SleepInv'
  <1>1. /\ late[s] > 0 /\ late' = [late EXCEPT ![s] = @ - 1]
        /\ UNCHANGED <<waitsIn, armed, owed, brief, disturbed>>
    BY DEF SleepCallback
  <1>2. /\ DOMAIN late' = Sleepers
        /\ late'[s] = late[s] - 1 /\ \A r \in Sleepers : r # s => late'[r] = late[r]
    BY <1>1 DEF SleepInv, SleepTypeOK
  <1>3. /\ sat' \in [Sleepers -> {"run", "leaving", "out", "ready", "stuck", "dead"}]
        /\ DOMAIN sevents' = Sleepers
        /\ \A r \in Sleepers : sat'[r] = sat[r] \/ (sat[r] = "out" /\ sat'[r] = "ready")
        /\ \A r \in Sleepers : r # s => sevents'[r] = sevents[r]
    <2>1. CASE sat[s] = "dead"
      <3>1. UNCHANGED <<sat, sevents>>
        BY <2>1 DEF SleepCallback
      <3> QED
        BY <3>1 DEF SleepInv, SleepTypeOK
    <2>2. CASE sat[s] # "dead"
      <3>1. /\ sevents' = [sevents EXCEPT ![s] = Latched(s, "kSleep")]
            /\ sat' = [sat EXCEPT ![s] = IF @ = "out" /\ "kSleep" \in WaitedFor(waitsIn[s])
                                           THEN "ready" ELSE @]
        BY <2>2 DEF SleepCallback, WakeUp
      <3> QED
        BY <3>1 DEF SleepInv, SleepTypeOK
    <2> QED
      BY <2>1, <2>2
  <1>4. SleepTypeOK'
    BY <1>1, <1>2, <1>3 DEF SleepInv, SleepTypeOK
  <1>5. \A r \in Sleepers : sat'[r] \in {"run", "stuck", "dead"} => waitsIn'[r] = "none"
    BY <1>1, <1>3 DEF SleepInv
  <1>6. TimerInv'
    <2> SUFFICES ASSUME NEW r \in Sleepers, ~ disturbed[r]
                 PROVE  /\ armed[r] = OneTimer(owed[r])
                        /\ owed[r] # 0 => /\ waitsIn[r] = "Sleep" /\ late'[r] = 0
                                          /\ "kSleep" \notin sevents'[r]
                        /\ "kSleep" \in sevents'[r] => waitsIn[r] = "Sleep" /\ late'[r] = 0
                        /\ late'[r] # 0 => waitsIn[r] = "Sleep" /\ late'[r] = 1
      BY <1>1 DEF TimerInv
    <2>1. CASE r # s
      BY <1>2, <1>3, <2>1 DEF SleepInv, TimerInv
    <2>2. CASE r = s
      <3>1. late[s] # 0
        BY <1>1
      <3>2. late[s] = 1 /\ waitsIn[s] = "Sleep" /\ owed[s] = 0 /\ armed[s] = OneTimer(owed[s])
        BY <2>2, <3>1 DEF SleepInv, TimerInv
      <3>3. late'[s] = 0
        BY <1>2, <3>2
      <3> QED
        BY <2>2, <3>2, <3>3
    <2> QED
      BY <2>1, <2>2
  <1>7. SleepsWhole'
    BY <1>1 DEF SleepInv, SleepsWhole
  <1> QED
    BY <1>4, <1>5, <1>6, <1>7 DEF SleepInv

\* A wait that returns: by kSleep only when the service's own timer is gone.
LEMMA ReturnKeeps ==
    ASSUME SleepInv, NEW s \in Sleepers, NEW call \in {"none", "Sleep", "WaitSignal"},
           NEW revents, NEW timers, NEW left,
           Returns(s, call, revents, timers, left),
           UNCHANGED late, DOMAIN sevents' = Sleepers,
           \A r \in Sleepers : r # s => sevents'[r] = sevents[r],
           "kSleep" \in sevents'[s] => "kSleep" \in sevents[s],
           ~ disturbed[s] /\ call = "Sleep" /\ "kSleep" \in revents =>
               left = 0 /\ "kSleep" \notin sevents'[s] /\ late[s] = 0
                 /\ timers = OneTimer(0),
           ~ disturbed[s] /\ call # "Sleep" =>
               timers = OneTimer(0) /\ late[s] = 0 /\ "kSleep" \notin sevents[s]
    PROVE  SleepInv'
  <1> DEFINE slept == call = "Sleep" /\ "kSleep" \in revents
             cut == call = "Sleep" /\ "kSleep" \notin revents
             after == IF cut THEN TimerDeleted(timers, left) ELSE timers
  <1>1. /\ sat' = [sat EXCEPT ![s] = "run"]
        /\ waitsIn' = [waitsIn EXCEPT ![s] = "none"]
        /\ armed' = [armed EXCEPT ![s] = after]
        /\ owed' = [owed EXCEPT ![s] = 0]
        /\ brief' = [brief EXCEPT ![s] = @ \/ (slept /\ left > 0 /\ ~ disturbed[s])]
        /\ disturbed' = [disturbed EXCEPT ![s] = @ \/ cut]
    BY DEF Returns
  <1>2. /\ sat'[s] = "run" /\ waitsIn'[s] = "none" /\ armed'[s] = after /\ owed'[s] = 0
        /\ \A r \in Sleepers : r # s =>
             /\ sat'[r] = sat[r] /\ waitsIn'[r] = waitsIn[r] /\ armed'[r] = armed[r]
             /\ owed'[r] = owed[r] /\ brief'[r] = brief[r] /\ disturbed'[r] = disturbed[r]
    BY <1>1 DEF SleepInv, SleepTypeOK
  <1>3. (disturbed'[s] <=> disturbed[s] \/ cut) /\ disturbed' \in [Sleepers -> BOOLEAN]
    BY <1>1, Zenon DEF SleepInv, SleepTypeOK
  <1>4. (brief'[s] <=> brief[s] \/ (slept /\ left > 0 /\ ~ disturbed[s]))
        /\ brief' \in [Sleepers -> BOOLEAN]
    BY <1>1, Zenon DEF SleepInv, SleepTypeOK
  <1>5. ~ disturbed'[s] => after = OneTimer(0) /\ late[s] = 0 /\ "kSleep" \notin sevents'[s]
    BY <1>3
  <1> HIDE DEF after
  <1>6. SleepTypeOK'
    <2>1. /\ sat' \in [Sleepers -> {"run", "leaving", "out", "ready", "stuck", "dead"}]
          /\ waitsIn' \in [Sleepers -> {"none", "Sleep", "WaitSignal"}]
          /\ DOMAIN armed' = Sleepers
      BY <1>1 DEF SleepInv, SleepTypeOK
    <2>2. owed' \in [Sleepers -> 0 .. MaxLeft]
      BY <1>1, SleepAssumption DEF SleepInv, SleepTypeOK
    <2> QED
      BY <1>3, <1>4, <2>1, <2>2 DEF SleepInv, SleepTypeOK
  <1>7. \A r \in Sleepers : sat'[r] \in {"run", "stuck", "dead"} => waitsIn'[r] = "none"
    BY <1>2 DEF SleepInv
  <1>8. TimerInv'
    <2> SUFFICES ASSUME NEW r \in Sleepers, ~ disturbed'[r]
                 PROVE  /\ armed'[r] = OneTimer(owed'[r])
                        /\ owed'[r] # 0 => /\ waitsIn'[r] = "Sleep" /\ late'[r] = 0
                                           /\ "kSleep" \notin sevents'[r]
                        /\ "kSleep" \in sevents'[r] => waitsIn'[r] = "Sleep" /\ late'[r] = 0
                        /\ late'[r] # 0 => waitsIn'[r] = "Sleep" /\ late'[r] = 1
      BY DEF TimerInv
    <2>1. CASE r = s
      BY <1>2, <1>5, <2>1
    <2>2. CASE r # s
      <3>1. ~ disturbed[r]
        BY <1>2, <2>2
      <3> QED
        BY <1>2, <2>2, <3>1 DEF SleepInv, TimerInv
    <2> QED
      BY <2>1, <2>2
  <1>9. SleepsWhole'
    <2>1. ~ brief'[s]
      BY <1>4 DEF SleepInv, SleepsWhole
    <2> QED
      BY <1>2, <2>1 DEF SleepInv, SleepsWhole
  <1> QED
    BY <1>6, <1>7, <1>8, <1>9 DEF SleepInv

LEMMA WaitKeeps ==
    ASSUME SleepInv, NEW s \in Sleepers, NEW call \in {"Sleep", "WaitSignal"},
           sat[s] = "run", NEW left \in 0 .. MaxLeft, NEW timers,
           WaitLocked(s, call, timers, left),
           call = "Sleep" <=> left # 0,
           ~ disturbed[s] => timers = OneTimer(left)
    PROVE  SleepInv'
  <1> DEFINE revents == sevents[s] \cap WaitedFor(call)
  <1>1. UNCHANGED late
    BY DEF WaitLocked
  <1>2. waitsIn[s] = "none"
    BY DEF SleepInv
  <1>3. ~ disturbed[s] => late[s] = 0 /\ "kSleep" \notin sevents[s]
    BY <1>2 DEF SleepInv, TimerInv
  <1>4. CASE sstopping[s]
    <2>1. Returns(s, call, {"kServiceStop"}, timers, left) /\ UNCHANGED sevents
      BY <1>4 DEF WaitLocked
    <2>2. DOMAIN sevents' = Sleepers
      BY <2>1 DEF SleepInv, SleepTypeOK
    <2> QED
      BY <1>1, <1>3, <2>1, <2>2, ReturnKeeps
  <1>5. CASE ~ sstopping[s] /\ revents # {}
    <2>1. /\ Returns(s, call, revents, timers, left)
          /\ sevents' = [sevents EXCEPT ![s] = EventsAfter(s, call)]
      BY <1>5 DEF WaitLocked
    <2>2. /\ DOMAIN sevents' = Sleepers
          /\ \A r \in Sleepers : r # s => sevents'[r] = sevents[r]
          /\ "kSleep" \in sevents'[s] => "kSleep" \in sevents[s]
      BY <2>1 DEF SleepInv, SleepTypeOK, EventsAfter
    <2> QED
      BY <1>1, <1>3, <2>1, <2>2, ReturnKeeps
  <1>6. CASE ~ sstopping[s] /\ revents = {}
    <2>1. /\ sat' = [sat EXCEPT ![s] = "leaving"]
          /\ waitsIn' = [waitsIn EXCEPT ![s] = call]
          /\ armed' = [armed EXCEPT ![s] = timers]
          /\ owed' = [owed EXCEPT ![s] = left]
          /\ UNCHANGED <<sevents, brief, disturbed>>
      BY <1>6 DEF WaitLocked
    <2>2. SleepTypeOK'
      BY <1>1, <2>1 DEF SleepInv, SleepTypeOK
    <2>3. /\ sat'[s] = "leaving" /\ waitsIn'[s] = call /\ armed'[s] = timers /\ owed'[s] = left
          /\ \A r \in Sleepers : r # s =>
               /\ sat'[r] = sat[r] /\ waitsIn'[r] = waitsIn[r] /\ armed'[r] = armed[r]
               /\ owed'[r] = owed[r]
      BY <2>1 DEF SleepInv, SleepTypeOK
    <2>4. \A r \in Sleepers : sat'[r] \in {"run", "stuck", "dead"} => waitsIn'[r] = "none"
      BY <2>3 DEF SleepInv
    <2>5. TimerInv'
      BY <1>1, <1>3, <2>1, <2>3 DEF SleepInv, TimerInv
    <2>6. SleepsWhole'
      BY <2>1 DEF SleepInv, SleepsWhole
    <2> QED
      BY <2>2, <2>4, <2>5, <2>6 DEF SleepInv
  <1> QED
    BY <1>4, <1>5, <1>6

LEMMA SleeperKeeps ==
    ASSUME SleepInv, NEW s \in Sleepers, SleeperNext(s)
    PROVE  SleepInv'
  <1>1. ASSUME NEW ms \in SleepTimes, Sleep(s, ms) PROVE SleepInv'
    <2> DEFINE left == TimeoutTicks(ms) + 1
    <2>1. left \in 1 .. MaxLeft /\ MaxLeft \in Nat /\ sat[s] = "run"
      BY <1>1, SleepAssumption DEF Sleep
    <2>2. CASE left = 1
      <3>1. /\ sat' = [sat EXCEPT ![s] = "stuck"]
            /\ UNCHANGED <<waitsIn, sevents, armed, late, owed, brief, disturbed>>
        BY <1>1, <2>2 DEF Sleep
      <3>2. SleepTypeOK'
        BY <3>1 DEF SleepInv, SleepTypeOK
      <3>3. \A r \in Sleepers : sat'[r] \in {"run", "stuck", "dead"} => waitsIn'[r] = "none"
        BY <2>1, <3>1 DEF SleepInv, SleepTypeOK
      <3>4. TimerInv' /\ SleepsWhole'
        BY <3>1 DEF SleepInv, TimerInv, SleepsWhole
      <3> QED
        BY <3>2, <3>3, <3>4 DEF SleepInv
    <2>3. CASE left # 1
      <3>1. WaitLocked(s, "Sleep", TimerAdded(armed[s], left), left)
        BY <1>1, <2>3 DEF Sleep
      <3>2. ASSUME ~ disturbed[s] PROVE TimerAdded(armed[s], left) = OneTimer(left)
        <4>1. waitsIn[s] = "none"
          BY <2>1 DEF SleepInv
        <4>2. armed[s] = OneTimer(owed[s]) /\ owed[s] = 0
          BY <3>2, <4>1 DEF SleepInv, TimerInv
        <4> HIDE DEF left
        <4> QED
          BY <2>1, <4>2 DEF TimerAdded, OneTimer
      <3>3. left # 0 /\ left \in 0 .. MaxLeft
        BY <2>1
      <3> HIDE DEF left
      <3> QED
        BY <2>1, <3>1, <3>2, <3>3, WaitKeeps
    <2> QED
      BY <2>2, <2>3
  <1>2. CASE WaitSignal(s)
    <2>1. sat[s] = "run" /\ WaitLocked(s, "WaitSignal", armed[s], 0)
      BY <1>2 DEF WaitSignal
    <2>2. ~ disturbed[s] => armed[s] = OneTimer(0)
      BY <2>1 DEF SleepInv, TimerInv
    <2>3. 0 \in 0 .. MaxLeft
      BY SleepAssumption
    <2> QED
      BY <2>1, <2>2, <2>3, WaitKeeps
  <1>3. CASE SwapOut(s)
    <2>1. /\ sat[s] = "leaving" /\ sat' = [sat EXCEPT ![s] = AfterSwap(s)]
          /\ UNCHANGED <<waitsIn, sevents, armed, late, owed, brief, disturbed>>
      BY <1>3 DEF SwapOut
    <2>2. AfterSwap(s) \in {"ready", "out"}
      BY DEF AfterSwap
    <2>3. SleepTypeOK'
      BY <2>1, <2>2 DEF SleepInv, SleepTypeOK
    <2>4. \A r \in Sleepers : sat'[r] \in {"run", "stuck", "dead"} => waitsIn'[r] = "none"
      BY <2>1, <2>2 DEF SleepInv, SleepTypeOK
    <2>5. TimerInv' /\ SleepsWhole'
      BY <2>1 DEF SleepInv, TimerInv, SleepsWhole
    <2> QED
      BY <2>3, <2>4, <2>5 DEF SleepInv
  <1>4. CASE Resume(s)
    <2> DEFINE call == waitsIn[s]
    <2>1. /\ sevents' = [sevents EXCEPT ![s] = EventsAfter(s, call)]
          /\ Returns(s, call, sevents[s] \cap WaitedFor(call), armed[s], owed[s])
          /\ UNCHANGED late
      BY <1>4 DEF Resume
    <2>2. /\ DOMAIN sevents' = Sleepers
          /\ \A r \in Sleepers : r # s => sevents'[r] = sevents[r]
          /\ sevents'[s] = sevents[s] \ WaitedFor(call)
      BY <2>1 DEF SleepInv, SleepTypeOK, EventsAfter
    <2>3. call \in {"none", "Sleep", "WaitSignal"}
      BY DEF SleepInv, SleepTypeOK
    <2>4. "kSleep" \in sevents'[s] => "kSleep" \in sevents[s]
      BY <2>2
    <2>5. ~ disturbed[s] /\ call = "Sleep" /\ "kSleep" \in sevents[s] \cap WaitedFor(call) =>
            owed[s] = 0 /\ "kSleep" \notin sevents'[s] /\ late[s] = 0 /\ armed[s] = OneTimer(0)
      BY <2>2 DEF SleepInv, TimerInv
    <2>6. ~ disturbed[s] /\ call # "Sleep" =>
            armed[s] = OneTimer(0) /\ late[s] = 0 /\ "kSleep" \notin sevents[s]
      BY DEF SleepInv, TimerInv
    <2> QED
      BY <2>1, <2>2, <2>3, <2>4, <2>5, <2>6, ReturnKeeps
  <1>5. CASE SleeperEnds(s)
    <2>1. /\ sat[s] = "run" /\ sat' = [sat EXCEPT ![s] = "dead"]
          /\ UNCHANGED <<waitsIn, sevents, armed, late, owed, brief, disturbed>>
      BY <1>5 DEF SleeperEnds
    <2>2. SleepTypeOK'
      BY <2>1 DEF SleepInv, SleepTypeOK
    <2>3. \A r \in Sleepers : sat'[r] \in {"run", "stuck", "dead"} => waitsIn'[r] = "none"
      BY <2>1 DEF SleepInv, SleepTypeOK
    <2>4. TimerInv' /\ SleepsWhole'
      BY <2>1 DEF SleepInv, TimerInv, SleepsWhole
    <2> QED
      BY <2>2, <2>3, <2>4 DEF SleepInv
  <1> QED
    BY <1>1, <1>2, <1>3, <1>4, <1>5 DEF SleeperNext

LEMMA SleepTickKeeps ==
    ASSUME SleepInv, SleepTick
    PROVE  SleepInv'
  <1>1. /\ armed' = [s \in Sleepers |-> Shift(armed[s])]
        /\ late' = [s \in Sleepers |-> armed[s][1]]
        /\ owed' = [s \in Sleepers |-> IF owed[s] = 0 THEN 0 ELSE owed[s] - 1]
        /\ UNCHANGED <<sat, waitsIn, sevents, brief, disturbed>>
    BY DEF SleepTick
  <1>2. MaxLeft \in Nat \ {0}
    BY SleepAssumption
  <1>3. SleepTypeOK'
    <2>1. owed' \in [Sleepers -> 0 .. MaxLeft]
      BY <1>1, <1>2 DEF SleepInv, SleepTypeOK
    <2> QED
      BY <1>1, <2>1 DEF SleepInv, SleepTypeOK
  <1>4. ASSUME NEW s \in Sleepers, ~ disturbed[s]
        PROVE  /\ armed'[s] = OneTimer(owed'[s])
               /\ late'[s] = IF owed[s] = 1 THEN 1 ELSE 0
    <2>1. armed[s] = OneTimer(owed[s]) /\ owed[s] \in 0 .. MaxLeft
      BY <1>4 DEF SleepInv, TimerInv, SleepTypeOK
    <2>2. OneTimer(owed[s])[1] = IF owed[s] = 1 THEN 1 ELSE 0
      BY <1>2, <2>1 DEF OneTimer
    <2>3. ASSUME NEW n \in 0 .. MaxLeft
          PROVE  Shift(OneTimer(n)) = OneTimer(IF n = 0 THEN 0 ELSE n - 1)
      <3> DEFINE m == IF n = 0 THEN 0 ELSE n - 1
      <3>1. \A k \in 1 .. MaxLeft : k # MaxLeft =>
              OneTimer(n)[k + 1] = IF k + 1 = n THEN 1 ELSE 0
        BY <1>2 DEF OneTimer
      <3>2. \A k \in 1 .. MaxLeft :
              (IF k = MaxLeft THEN 0 ELSE OneTimer(n)[k + 1]) = IF k = m THEN 1 ELSE 0
        BY <1>2, <2>3, <3>1
      <3> HIDE DEF m
      <3>3. Shift(OneTimer(n)) = OneTimer(m)
        BY <3>2 DEF Shift, OneTimer
      <3> QED
        BY <3>3 DEF m
    <2> QED
      BY <1>1, <2>1, <2>2, <2>3
  <1>5. TimerInv'
    <2> SUFFICES ASSUME NEW s \in Sleepers, ~ disturbed[s]
                 PROVE  /\ armed'[s] = OneTimer(owed'[s])
                        /\ owed'[s] # 0 => /\ waitsIn[s] = "Sleep" /\ late'[s] = 0
                                           /\ "kSleep" \notin sevents[s]
                        /\ "kSleep" \in sevents[s] => waitsIn[s] = "Sleep" /\ late'[s] = 0
                        /\ late'[s] # 0 => waitsIn[s] = "Sleep" /\ late'[s] = 1
      BY <1>1 DEF TimerInv
    <2>1. owed'[s] = (IF owed[s] = 0 THEN 0 ELSE owed[s] - 1) /\ owed[s] \in 0 .. MaxLeft
      BY <1>1 DEF SleepInv, SleepTypeOK
    <2>2. /\ owed[s] # 0 => waitsIn[s] = "Sleep" /\ late[s] = 0 /\ "kSleep" \notin sevents[s]
          /\ "kSleep" \in sevents[s] => waitsIn[s] = "Sleep" /\ late[s] = 0
      BY DEF SleepInv, TimerInv
    <2>3. owed'[s] # 0 => owed[s] # 0 /\ owed[s] # 1
      BY <2>1
    <2> QED
      BY <1>4, <2>2, <2>3
  <1>6. SleepsWhole'
    BY <1>1 DEF SleepInv, SleepsWhole
  <1> QED
    BY <1>1, <1>3, <1>5, <1>6 DEF SleepInv

LEMMA SleepStep == SleepInv /\ [WakeupNext]_wakeupVars => SleepInv'
  <1> SUFFICES ASSUME SleepInv, [WakeupNext]_wakeupVars PROVE SleepInv'
    OBVIOUS
  <1>1. ASSUME UNCHANGED sleepVars PROVE SleepInv'
    BY <1>1 DEF sleepVars, SleepInv, SleepTypeOK, TimerInv, SleepsWhole
  <1>2. ASSUME NEW s \in Sleepers, SleeperNext(s) PROVE SleepInv'
    BY <1>2, SleeperKeeps
  <1>3. ASSUME NEW s \in Sleepers, OthersNext(s) PROVE SleepInv'
    <2>1. \E e \in {"kSignal", "kInterrupt", "kServiceStop"} :
            WakeUp(s, e) /\ UNCHANGED <<waitsIn, armed, late, owed, brief, disturbed>>
      BY <1>3 DEF OthersNext, Signal, InterruptService, StopSleeper
    <2> QED
      BY <2>1, OtherWakeup
  <1>4. ASSUME NEW s \in Sleepers, SleepCallback(s) PROVE SleepInv'
    BY <1>4, CallbackKeeps
  <1>5. CASE UpdateWakes
    <2>1. PICK x : x = conn_srvs[cursor].srv
      OBVIOUS
    <2>2. WakeUp(x, "kInterrupt") /\ UNCHANGED <<waitsIn, armed, late, owed, brief, disturbed>>
      BY <1>5, <2>1 DEF UpdateWakes
    <2> QED
      BY <2>2, OtherWakeup
  <1>6. CASE Tick
    BY <1>6, SleepTickKeeps DEF Tick
  <1>7. CASE AddService \/ UpdateBegins \/ UpdateLooks \/ UpdateEnds \/ WakeupCallback
             \/ StopWakeup \/ TickEnds
    <2>1. UNCHANGED sleepVars
      BY <1>7 DEF AddService, UpdateBegins, UpdateLooks, UpdateEnds, WakeupCallback,
                  StopWakeup, TickEnds
    <2> QED
      BY <1>1, <2>1
  <1>8. ASSUME NEW s \in Sleepers, NEW ms \in IdleTimes, WakeupIfWaitTimeout(s, ms)
        PROVE  SleepInv'
    BY <1>1, <1>8 DEF WakeupIfWaitTimeout
  <1>9. CASE UNCHANGED wakeupVars
    BY <1>1, <1>9 DEF wakeupVars
  <1> QED
    BY <1>2, <1>3, <1>4, <1>5, <1>6, <1>7, <1>8, <1>9 DEF WakeupNext, Update, InSleep

\* A service that was never interrupted, stopped or woken out of a sleep does
\* not return from SleepService before its timer has run, whatever the timer
\* thread, WakeupService and the callers of Signal do meanwhile.
THEOREM SleepsLastTheirTime == WakeupSystem => []SleepsWhole
  <1>1. WakeupInit => SleepInv
    <2> SUFFICES ASSUME WakeupInit PROVE SleepInv
      OBVIOUS
    <2>1. SleepTypeOK
      BY SleepAssumption DEF WakeupInit, SleepInit, SleepTypeOK
    <2>2. NoTimers = OneTimer(0)
      BY SleepAssumption DEF NoTimers, OneTimer
    <2>3. TimerInv /\ SleepsWhole
      BY <2>2 DEF WakeupInit, SleepInit, TimerInv, SleepsWhole
    <2>4. \A s \in Sleepers : waitsIn[s] = "none"
      BY DEF WakeupInit, SleepInit
    <2> QED
      BY <2>1, <2>3, <2>4 DEF SleepInv
  <1>2. SleepInv => SleepsWhole
    BY DEF SleepInv
  <1> QED
    BY <1>1, <1>2, SleepStep, PTL DEF WakeupSystem
=============================================================================
