---------------------------- MODULE MCServices ----------------------------
(***************************************************************************)
(* What is built on the scheduler: the life of the system, the TCP server  *)
(* and remote calls.  They share no state at this level, so one instance   *)
(* checks all three: part is the one that moves, the others stay in their  *)
(* initial states.                                                         *)
(***************************************************************************)
EXTENDS LifeCycle, TcpServer, Rpc

CONSTANTS c1, c2, c3, k1, k2, k3, k4

\* The texts of all calls differ.
Texts ==
    [c \in RpcClients |-> [n \in 1 .. MaxCalls |-> IF c = c1 THEN <<n>> ELSE <<10 + n>>]]

\* A text that makes a request of more than 255 bytes.
LongTexts == [c \in RpcClients |-> [n \in 1 .. MaxCalls |-> [i \in 1 .. 250 |-> 7]]]

VARIABLE part
servicesVars == <<part, lifeVars, tcpVars, rpcVars>>

ServicesInit ==
    /\ LifeInit /\ TcpInit /\ RpcInit
    /\ part \in {"life", "tcp", "rpc"}

InLife(A) == part = "life" /\ A /\ UNCHANGED <<part, tcpVars, rpcVars>>
InTcp(A) == part = "tcp" /\ A /\ UNCHANGED <<part, lifeVars, rpcVars>>
InRpc(A) == part = "rpc" /\ A /\ UNCHANGED <<part, lifeVars, tcpVars>>

ServicesNext == InLife(LifeNext) \/ InTcp(TcpNext) \/ InRpc(RpcNext)

\* Threads run and get a mutex they keep asking for, services that can go on
\* do, and sockets bring what was sent.  Nobody has to call Start, Stop or
\* CallMethod, and nothing has to fail.
ServicesFairness ==
    /\ WF_servicesVars(InLife(Starting))
    /\ \A c \in Callers : SF_servicesVars(InLife(Stopping(c)))
    /\ \A w \in WorkerIds : WF_servicesVars(InLife(WorkerRuns(w)))
    /\ WF_servicesVars(InTcp(LaunchAcceptor))
    /\ WF_servicesVars(InTcp(AcceptorRuns))
    /\ \A c \in RpcClients : WF_servicesVars(InRpc(ClientRuns(c)))
    /\ \A k \in Conns : WF_servicesVars(InRpc(ServerRuns(k)))
    /\ WF_servicesVars(InRpc(HandleCall))

ServicesSpec == ServicesInit /\ [][ServicesNext]_servicesVars /\ ServicesFairness

\* Remote calls alone.
RpcOnlySpec == ServicesInit /\ part = "rpc" /\ [][InRpc(RpcNext)]_servicesVars
=============================================================================
