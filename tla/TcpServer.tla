----------------------------- MODULE TcpServer -----------------------------
(***************************************************************************)
(* Who owns which descriptor: TcpServer with its Acceptor, the services of *)
(* accepted connections, and TcpConnector on the other side.  The kernel   *)
(* is represented by its open descriptors and by the backlog of the one    *)
(* that listens; it has few descriptors, so that accept and socket fail    *)
(* when they run out.  All servers use one port.                           *)
(***************************************************************************)
EXTENDS Naturals, FiniteSets

CONSTANTS
    Fds,       \* descriptors
    Clients,   \* services that connect
    Backlog,   \* the limit that Listen sets
    NoFd       \* -1

ASSUME FdsAssumption == NoFd \notin Fds

VARIABLES
    open,              \* the open descriptors
    backlog,           \* how many connections wait to be accepted
    startAt,           \* TcpServer::Start: "out", "socket" or "acceptor"
    startFd,           \* sockfd_ of the Acceptor it makes
    acceptorAt,        \* AcceptorService: "none", "loop", "wait" or "new"
    acceptorFd,        \* sockfd_ of its Acceptor
    acceptorStopping,
    newFd,             \* the connfd it has just accepted
    handle,            \* is acceptor_handle_ that service?
    connFds,           \* descriptors of TcpConnectionServices
    clientAt,          \* TcpConnector: "idle", "socket", "wait" or "connected"
    clientFd,          \* the descriptor of its connection
    systemStopped

tcpVars == <<open, backlog, startAt, startFd, acceptorAt, acceptorFd,
             acceptorStopping, newFd, handle, connFds, clientAt, clientFd, systemStopped>>

TcpInit ==
    /\ open = {} /\ backlog = 0 /\ connFds = {}
    /\ startAt = "out" /\ startFd = NoFd
    /\ acceptorAt = "none" /\ acceptorFd = NoFd /\ acceptorStopping = FALSE
    /\ newFd = NoFd /\ handle = FALSE
    /\ clientAt = [c \in Clients |-> "idle"]
    /\ clientFd = [c \in Clients |-> NoFd]
    /\ systemStopped = FALSE

acceptorVars == <<acceptorAt, acceptorFd, acceptorStopping, newFd, connFds>>
startVars == <<startAt, startFd, handle>>
clientVars == <<clientAt, clientFd>>

\* socket() or accept(): a descriptor, or EMFILE.
Opens(fd) == fd \in Fds \ open /\ open' = open \cup {fd}

-----------------------------------------------------------------------------
(* TcpServer                                                               *)

\* TcpServer::Stop.
StopsAcceptor == acceptorStopping' = (acceptorStopping \/ (handle /\ acceptorAt # "none"))

ServerSocket(fd) ==
    /\ startAt = "out"
    /\ Opens(fd)
    /\ startAt' = "socket" /\ startFd' = fd
    /\ UNCHANGED <<backlog, handle, acceptorVars, clientVars, systemStopped>>

\* Mutant: the guard is released on the way.
GuardClosesNothing == open

\* ~FDGuard
GuardCloses == open \ {startFd}

\* An option, the address, bind or listen fails; Start stops the server it
\* may have started before.
InitializeFails ==
    /\ startAt = "socket"
    /\ open' = GuardCloses
    /\ startAt' = "out" /\ startFd' = NoFd
    /\ StopsAcceptor
    /\ UNCHANGED <<backlog, handle, acceptorAt, acceptorFd, newFd, connFds, clientVars,
                   systemStopped>>

\* Only one descriptor can listen on the port.
InitializeSucceeds ==
    /\ startAt = "socket" /\ acceptorFd = NoFd
    /\ startAt' = "acceptor"
    /\ UNCHANGED <<open, backlog, startFd, handle, acceptorVars, clientVars, systemStopped>>

\* The service owns the Acceptor, or the Acceptor is destroyed with it.
LaunchAcceptor ==
    /\ startAt = "acceptor"
    /\ startAt' = "out" /\ startFd' = NoFd
    /\ handle' = ~ systemStopped
    /\ IF systemStopped
       THEN open' = open \ {startFd} /\ backlog' = 0 /\ UNCHANGED <<acceptorAt, acceptorFd>>
       ELSE acceptorAt' = "loop" /\ acceptorFd' = startFd /\ UNCHANGED <<open, backlog>>
    /\ acceptorStopping' = FALSE
    /\ UNCHANGED <<newFd, connFds, clientVars, systemStopped>>

StopServer ==
    /\ startAt = "out" /\ handle
    /\ StopsAcceptor
    /\ UNCHANGED <<open, backlog, acceptorAt, acceptorFd, newFd, connFds, startVars,
                   clientVars, systemStopped>>

\* System::Stop stops the services and launches no other.
StopSystem ==
    /\ systemStopped' = TRUE
    /\ acceptorStopping' = (acceptorStopping \/ acceptorAt # "none")
    /\ UNCHANGED <<open, backlog, acceptorAt, acceptorFd, newFd, connFds, startVars, clientVars>>

-----------------------------------------------------------------------------
(* Acceptor                                                                *)

\* Main returns and the service is destroyed, with its Acceptor.
AcceptorEnds ==
    /\ acceptorAt' = "none" /\ acceptorFd' = NoFd /\ acceptorStopping' = FALSE
    /\ open' = open \ {acceptorFd}
    /\ backlog' = 0
    /\ UNCHANGED <<newFd, connFds>>

Accepts(fd) ==
    /\ acceptorAt = "loop" /\ ~ acceptorStopping
    /\ backlog > 0 /\ backlog' = backlog - 1
    /\ Opens(fd)
    /\ acceptorAt' = "new" /\ newFd' = fd
    /\ UNCHANGED <<acceptorFd, acceptorStopping, connFds, startVars, clientVars, systemStopped>>

\* kAgain: WaitInput, which does not wait when the service is to stop.
AcceptsLater ==
    /\ acceptorAt = "loop" /\ ~ acceptorStopping /\ backlog = 0
    /\ acceptorAt' = "wait"
    /\ UNCHANGED <<open, backlog, acceptorFd, acceptorStopping, newFd, connFds, startVars,
                   clientVars, systemStopped>>

\* Mutant: a connection does not.
WaitInputEndsOnStop == acceptorStopping

WaitInputEnds == backlog > 0 \/ acceptorStopping

WaitInputReturns ==
    /\ acceptorAt = "wait" /\ WaitInputEnds
    /\ IF acceptorStopping THEN AcceptorEnds
       ELSE acceptorAt' = "loop" /\ UNCHANGED <<open, backlog, acceptorFd, acceptorStopping,
                                               newFd, connFds>>
    /\ UNCHANGED <<startVars, clientVars, systemStopped>>

\* Any other error of accept ends the service: the client is gone again, or
\* there are no descriptors.
AcceptFails ==
    /\ acceptorAt = "loop" /\ ~ acceptorStopping
    /\ backlog > 0 \/ open = Fds
    /\ AcceptorEnds
    /\ UNCHANGED <<startVars, clientVars, systemStopped>>

AcceptorStops ==
    /\ acceptorAt = "loop" /\ acceptorStopping
    /\ AcceptorEnds
    /\ UNCHANGED <<startVars, clientVars, systemStopped>>

\* The callback: a service owns the descriptor.  When SetNonBlocking fails or
\* the service is not launched it is destroyed, which closes it.
OnNewConnection(launched) ==
    /\ acceptorAt = "new" /\ (launched => ~ systemStopped)
    /\ acceptorAt' = "loop" /\ newFd' = NoFd
    /\ IF launched
       THEN connFds' = connFds \cup {newFd} /\ UNCHANGED open
       ELSE open' = open \ {newFd} /\ UNCHANGED connFds
    /\ UNCHANGED <<backlog, acceptorFd, acceptorStopping, startVars, clientVars, systemStopped>>

ConnectionEnds(fd) ==
    /\ fd \in connFds
    /\ connFds' = connFds \ {fd} /\ open' = open \ {fd}
    /\ UNCHANGED <<backlog, acceptorAt, acceptorFd, acceptorStopping, newFd, startVars,
                   clientVars, systemStopped>>

-----------------------------------------------------------------------------
(* TcpConnector                                                            *)

ClientStep(c, here, there) ==
    /\ clientAt[c] = here
    /\ clientAt' = [clientAt EXCEPT ![c] = there]
    /\ UNCHANGED <<startVars, acceptorVars, systemStopped>>

ClientSocket(c, fd) ==
    /\ ClientStep(c, "idle", "socket")
    /\ Opens(fd)
    /\ clientFd' = [clientFd EXCEPT ![c] = fd]
    /\ UNCHANGED backlog

\* connect(): the kernel connects it to who listens; without that it is
\* refused, which the caller learns after the wait if at all.
ClientConnects(c) ==
    /\ \E there \in {"connected", "wait"} : ClientStep(c, "socket", there)
    /\ acceptorFd # NoFd \/ startAt = "acceptor"
    /\ backlog < Backlog /\ backlog' = backlog + 1
    /\ UNCHANGED <<open, clientFd>>

ClientRefused(c) ==
    /\ ClientStep(c, "socket", "wait")
    /\ acceptorFd = NoFd /\ startAt # "acceptor"
    /\ UNCHANGED <<open, backlog, clientFd>>

\* EPOLLOUT comes in either case.
ClientWaited(c) ==
    /\ ClientStep(c, "wait", "connected")
    /\ UNCHANGED <<open, backlog, clientFd>>

\* Connect fails (SetNonBlocking, the address, connect, WaitIO), or the
\* connection it returned is dropped: the connection's destructor closes.
ClientCloses(c) ==
    /\ \E here \in {"socket", "wait", "connected"} : ClientStep(c, here, "idle")
    /\ open' = open \ {clientFd[c]}
    /\ clientFd' = [clientFd EXCEPT ![c] = NoFd]
    /\ UNCHANGED backlog

AcceptorRuns ==
    \/ \E fd \in Fds : Accepts(fd)
    \/ AcceptsLater \/ WaitInputReturns \/ AcceptFails \/ AcceptorStops
    \/ \E launched \in BOOLEAN : OnNewConnection(launched)

TcpNext ==
    \/ \E fd \in Fds : ServerSocket(fd) \/ ConnectionEnds(fd)
    \/ InitializeFails \/ InitializeSucceeds \/ LaunchAcceptor \/ StopServer
    \/ StopSystem
    \/ AcceptorRuns
    \/ \E c \in Clients :
         \/ \E fd \in Fds : ClientSocket(c, fd)
         \/ ClientConnects(c) \/ ClientRefused(c) \/ ClientWaited(c) \/ ClientCloses(c)

TcpSpec == TcpInit /\ [][TcpNext]_tcpVars

-----------------------------------------------------------------------------
\* Who would close fd.
Owners(fd) ==
    {o \in {"start", "acceptor", "new", "service"} :
        CASE o = "start" -> startFd = fd
          [] o = "acceptor" -> acceptorFd = fd
          [] o = "new" -> newFd = fd
          [] o = "service" -> fd \in connFds}
    \cup {c \in Clients : clientFd[c] = fd}

\* Whatever fails on the way, an open descriptor has one owner and a closed
\* one has none: none is leaked, closed twice, or closed after it was given
\* to someone else.
FdsHaveOneOwner ==
    \A fd \in Fds : Cardinality(Owners(fd)) = (IF fd \in open THEN 1 ELSE 0)

\* Connections do not lie in the backlog of a server that accepts no longer:
\* the next one is accepted, or all are turned away.
BacklogIsServed == (backlog > 0) ~> (acceptorAt = "new" \/ backlog = 0)

\* Stopping the server gives the port free.
StopFreesPort == acceptorStopping ~> (acceptorFd = NoFd)

\* The acceptor goes on with what it has to do, and ends when it is told to.
AcceptorMakesProgress == BacklogIsServed /\ StopFreesPort
=============================================================================
