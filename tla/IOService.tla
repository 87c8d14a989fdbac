----------------------------- MODULE IOService -----------------------------
(***************************************************************************)
(* Blocking reads on non-blocking sockets: TcpConnection's read loop, the  *)
(* wait of System::WaitIO and the epoll thread of mcast::IOService.        *)
(*                                                                         *)
(* An epoll event names the service, not the descriptor; the thread asks   *)
(* the service for its current descriptor, removes that from epoll and     *)
(* then wakes the service.  These three steps interleave with a service    *)
(* that is interrupted and waits again.  Scheduling is abstracted to its   *)
(* result (module Scheduler): a blocked service that has been sent an      *)
(* event it waits for resumes some time later and finds it.                *)
(***************************************************************************)
CONSTANTS
    Services,
    FDs,             \* socket descriptors
    Uses,            \* the descriptors each service reads from
    Fragile,         \* the descriptors whose connection may break
    Interruptible,   \* services that are sent kInterrupt
    None

ASSUME UsesAssumption ==
    /\ Uses \in [Services -> SUBSET FDs]
    /\ \A r, s \in Services : r # s => Uses[r] \cap Uses[s] = {}
    /\ Interruptible \subseteq Services
    /\ Fragile \subseteq FDs
ASSUME NoneIsNoService == None \notin Services \cup FDs

VARIABLES
    \* the kernel
    condition,     \* of each socket: "empty", "data" or "broken"
    registered,    \* the service in each descriptor's epoll entry, or None
    pending,       \* descriptors on epoll's ready list
    \* the services
    code,          \* where the code of a service is
    arg,           \* the descriptor it passes to WaitIO
    fd,            \* ServiceContext::fd
    events, stopping,
    \* the epoll thread
    io,            \* where Run is
    batch,         \* events returned by epoll_wait and not handled yet
    target,        \* the event in work and the descriptor of its service
    exit           \* has IOService::Stop written to the pipe?

kernelVars == <<condition, registered, pending>>
serviceVars == <<code, arg, fd, events, stopping>>
threadVars == <<io, batch, target, exit>>
vars == <<kernelVars, serviceVars, threadVars>>

\* The events WaitIO waits for.
Mask == {"IO_Operation", "ServiceStop", "Interrupt"}
NoTarget == [srv |-> None, fd |-> None]

Init ==
    /\ condition = [f \in FDs |-> "empty"]
    /\ registered = [f \in FDs |-> None]
    /\ pending = {}
    /\ code = [s \in Services |-> "user"]
    /\ arg = [s \in Services |-> None]
    /\ fd = [s \in Services |-> None]
    /\ events = [s \in Services |-> {}]
    /\ stopping = [s \in Services |-> FALSE]
    /\ io = "wait"
    /\ batch = {}
    /\ target = NoTarget
    /\ exit = FALSE

-----------------------------------------------------------------------------
(* Sockets, and epoll as the code uses it: one entry per descriptor, edge  *)
(* triggered, reporting what is ready when an entry is added.              *)

\* Data arrives (the first or more), or the connection breaks.
SocketChanges(f, c) ==
    /\ condition[f] # "broken"
    /\ c = "broken" => f \in Fragile
    /\ condition' = [condition EXCEPT ![f] = c]
    /\ pending' = IF registered[f] # None THEN pending \cup {f} ELSE pending
    /\ UNCHANGED <<registered, serviceVars, threadVars>>

EpollAdd(f, s) ==
    /\ registered' = [registered EXCEPT ![f] = s]
    /\ pending' = IF condition[f] # "empty" THEN pending \cup {f} ELSE pending

EpollDel(fs) ==
    /\ registered' = [f \in FDs |-> IF f \in fs THEN None ELSE registered[f]]
    /\ pending' = pending \ fs

-----------------------------------------------------------------------------
(* Services                                                                *)

\* Recv gets bytes.
Recv(s, f) ==
    /\ code[s] = "user"
    /\ f \in Uses[s]
    /\ condition[f] = "data"
    /\ condition' = [condition EXCEPT ![f] = "empty"]
    /\ UNCHANGED <<registered, pending, serviceVars, threadVars>>

\* Recv gets EAGAIN: Read calls WaitInput.
RecvAgain(s, f) ==
    /\ code[s] = "user"
    /\ f \in Uses[s]
    /\ condition[f] = "empty"
    /\ code' = [code EXCEPT ![s] = "again"]
    /\ arg' = [arg EXCEPT ![s] = f]
    /\ UNCHANGED <<kernelVars, fd, events, stopping, threadVars>>

\* Mutant: the context keeps its first descriptor.
SetServiceFDOnce(s, f) == [fd EXCEPT ![s] = IF @ = None THEN f ELSE @]

SetServiceFD(s, f) == [fd EXCEPT ![s] = f]

\* With kIO_Operation WaitIO returns to its caller (telling it whether the
\* socket is ready or broken); without, it still has the entry to remove.
Woken(es) == IF "IO_Operation" \in es THEN "user" ELSE "remove"

\* WaitIO up to the switch, with the context's mutex held: IOService::Add,
\* then Wait_Locked, which returns at once for a stop or a latched event.
\* An entry that is still there makes Add, and the read, fail.
WaitIO(s) ==
    LET f == arg[s] IN
    /\ code[s] = "again"
    /\ fd' = SetServiceFD(s, f)
    /\ IF registered[f] # None
         THEN /\ code' = [code EXCEPT ![s] = "user"]
              /\ UNCHANGED <<registered, pending, events>>
         ELSE /\ EpollAdd(f, s)
              /\ \/ /\ stopping[s]
                    /\ code' = [code EXCEPT ![s] = "remove"]
                    /\ UNCHANGED events
                 \/ /\ ~stopping[s]
                    /\ events[s] \cap Mask # {}
                    /\ code' = [code EXCEPT ![s] = Woken(events[s])]
                    /\ events' = [events EXCEPT ![s] = @ \ Mask]
                 \/ /\ ~stopping[s]
                    /\ events[s] \cap Mask = {}
                    /\ code' = [code EXCEPT ![s] = "blocked"]
                    /\ UNCHANGED events
    /\ arg' = [arg EXCEPT ![s] = None]
    /\ UNCHANGED <<condition, stopping, threadVars>>

\* WaitIO after the switch.
WaitIOResumed(s) ==
    /\ code[s] = "blocked"
    /\ events[s] \cap Mask # {}
    /\ code' = [code EXCEPT ![s] = Woken(events[s])]
    /\ events' = [events EXCEPT ![s] = @ \ Mask]
    /\ UNCHANGED <<kernelVars, arg, fd, stopping, threadVars>>

\* Mutant: leaves the entry in epoll.
RemoveForgets(s) ==
    /\ code[s] = "remove"
    /\ code' = [code EXCEPT ![s] = "user"]
    /\ UNCHANGED <<kernelVars, arg, fd, events, stopping,
                   threadVars>>

\* IOService::Remove, without the context's mutex; WaitIO returns kInterrupt.
Remove(s) ==
    /\ code[s] = "remove"
    /\ EpollDel({fd[s]})
    /\ code' = [code EXCEPT ![s] = "user"]
    /\ UNCHANGED <<condition, arg, fd, events, stopping, threadVars>>

\* kInterrupt from WakeupService or InterruptService.
Interrupt(s) ==
    /\ code[s] # "dead"
    /\ events' = [events EXCEPT ![s] = @ \cup {"Interrupt"}]
    /\ UNCHANGED <<kernelVars, code, arg, fd, stopping, threadVars>>

StopService(s) ==
    /\ ~stopping[s]
    /\ stopping' = [stopping EXCEPT ![s] = TRUE]
    /\ events' = [events EXCEPT ![s] = @ \cup {"ServiceStop"}]
    /\ UNCHANGED <<kernelVars, code, arg, fd, threadVars>>

\* A service ends, which marks it stopping; its connections close, which
\* empties epoll of their descriptors.
Dies(s) ==
    /\ code[s] = "user"
    /\ code' = [code EXCEPT ![s] = "dead"]
    /\ stopping' = [stopping EXCEPT ![s] = TRUE]
    /\ EpollDel(Uses[s])
    /\ UNCHANGED <<condition, arg, fd, events, threadVars>>

-----------------------------------------------------------------------------
(* IOService::Run                                                          *)

\* epoll_wait returns an event for each descriptor that is ready (fewer than
\* the 32 it has room for).
EpollWait ==
    LET ready == {f \in pending : condition[f] # "empty"} IN
    /\ io = "wait"
    /\ ready # {}
    /\ batch' = {[srv |-> registered[f], fd |-> f] : f \in ready}
    /\ pending' = pending \ ready
    /\ io' = "event"
    /\ UNCHANGED <<condition, registered, serviceVars, target, exit>>

\* Mutant: gives up the rest of the batch when a service is gone.
GrabServiceOrReturn(e) ==
    /\ io = "event"
    /\ e \in batch
    /\ IF code[e.srv] # "dead"
         THEN /\ batch' = batch \ {e}
              /\ target' = [e EXCEPT !.fd = fd[e.srv]]
              /\ io' = "del"
         ELSE /\ batch' = {}
              /\ io' = "stopped"
              /\ UNCHANGED target
    /\ UNCHANGED <<kernelVars, serviceVars, exit>>

\* The next event: GrabService by its handle, then the service's descriptor,
\* read without the context's mutex.
GrabService(e) ==
    /\ io = "event"
    /\ e \in batch
    /\ batch' = batch \ {e}
    /\ IF code[e.srv] # "dead"
         THEN /\ target' = [e EXCEPT !.fd = fd[e.srv]]
              /\ io' = "del"
         ELSE UNCHANGED <<target, io>>
    /\ UNCHANGED <<kernelVars, serviceVars, exit>>

\* epoll_ctl(EPOLL_CTL_DEL) of that descriptor, whose entry need not be the
\* one the event came from.
Del ==
    /\ io = "del"
    /\ EpollDel({target.fd})
    /\ io' = "notify"
    /\ UNCHANGED <<condition, serviceVars, batch, target, exit>>

\* Mutant: wakes the service whether it waits for its socket or not.
OnIOReadyAlways ==
    LET s == target.srv IN
    /\ io = "notify"
    /\ events' = [events EXCEPT ![s] = @ \cup {"IO_Operation"}]
    /\ io' = "event"
    /\ target' = NoTarget
    /\ UNCHANGED <<kernelVars, code, arg, fd, stopping, batch, exit>>

\* OnIOReady, with the context's mutex: wakes a service inside WaitIO.
OnIOReady ==
    LET s == target.srv IN
    /\ io = "notify"
    /\ IF code[s] = "blocked"
         THEN events' = [events EXCEPT ![s] = @ \cup {"IO_Operation"}]
         ELSE UNCHANGED events
    /\ io' = "event"
    /\ target' = NoTarget
    /\ UNCHANGED <<kernelVars, code, arg, fd, stopping, batch, exit>>

BatchDone ==
    /\ io = "event"
    /\ batch = {}
    /\ io' = "wait"
    /\ UNCHANGED <<kernelVars, serviceVars, batch, target, exit>>

\* System::Stop stops every service, then writes to the pipe.
Stop ==
    /\ \A s \in Services : stopping[s]
    /\ ~exit
    /\ exit' = TRUE
    /\ UNCHANGED <<kernelVars, serviceVars, io, batch, target>>

\* Run finds the pipe among the events and returns.
RunEnds ==
    /\ exit
    /\ io \in {"wait", "event"}
    /\ io' = "stopped"
    /\ batch' = {}
    /\ UNCHANGED <<kernelVars, serviceVars, target, exit>>

RunStep ==
    \/ EpollWait \/ Del \/ OnIOReady \/ BatchDone \/ RunEnds
    \/ \E e \in batch : GrabService(e)

\* What the library does for a service inside Read.
ReadStep(s) == WaitIO(s) \/ WaitIOResumed(s) \/ Remove(s)

Next ==
    \/ RunStep \/ Stop
    \/ \E s \in Services :
         \/ ReadStep(s) \/ StopService(s) \/ Dies(s)
         \/ \E f \in FDs : Recv(s, f) \/ RecvAgain(s, f)
    \/ \E s \in Interruptible : Interrupt(s)
    \/ \E f \in FDs, c \in {"data", "broken"} : SocketChanges(f, c)

Spec == Init /\ [][Next]_vars

-----------------------------------------------------------------------------
(* Properties                                                              *)

IOEvents == [srv : Services, fd : FDs]

\* Every variable keeps its type, the epoll thread never asks about an invalid
\* descriptor (CHECK_GE(fd, 0) in Run), and only entries can be ready.
TypeOK ==
    /\ condition \in [FDs -> {"empty", "data", "broken"}]
    /\ registered \in [FDs -> Services \cup {None}]
    /\ pending \subseteq {f \in FDs : registered[f] # None}
    /\ code \in [Services -> {"user", "again", "blocked", "remove", "dead"}]
    /\ arg \in [Services -> FDs \cup {None}]
    /\ fd \in [Services -> FDs \cup {None}]
    /\ events \in [Services -> SUBSET Mask]
    /\ stopping \in [Services -> BOOLEAN]
    /\ io \in {"wait", "event", "del", "notify", "stopped"}
    /\ batch \subseteq IOEvents
    /\ target \in IOEvents \cup {NoTarget}
    /\ exit \in BOOLEAN

\* The epoll thread holds an event of service s.
InHand(s) ==
    \/ \E e \in batch : e.srv = s
    \/ io \in {"del", "notify"} /\ target.srv = s

\* A service blocked in WaitIO that nothing has woken will hear of its socket:
\* the epoll thread has an event for it, or its entry is in epoll and, when
\* the socket is ready, on the ready list.
NoLostReadiness ==
    \A s \in Services : code[s] = "blocked" /\ events[s] = {} =>
        \/ InHand(s)
        \/ /\ registered[fd[s]] = s
           /\ condition[fd[s]] # "empty" => fd[s] \in pending

\* kIO_Operation never outlives the wait it is for: a service outside WaitIO
\* has none latched that would end its next wait before its socket is ready.
NoStaleReadiness ==
    \A s \in Services : "IO_Operation" \in events[s] => code[s] = "blocked"

\* A service that nobody interrupts finds no old entry of its descriptor in
\* epoll, so Add does not fail, and is not told to read an empty socket.
UninterruptedReads ==
    \A s \in Services \ Interruptible :
        /\ code[s] = "again" => registered[arg[s]] = None
        /\ code[s] = "blocked" /\ "IO_Operation" \in events[s] =>
             condition[fd[s]] # "empty"

\* A service blocked on a socket that has become ready returns from WaitIO.
ReadinessIsDelivered ==
    \A s \in Services :
        code[s] = "blocked" /\ condition[fd[s]] # "empty" ~> code[s] # "blocked"
=============================================================================
