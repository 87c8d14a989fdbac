-------------------------------- MODULE Rpc --------------------------------
(***************************************************************************)
(* RpcChannel on the clients' side, RpcServer with its codec and           *)
(* InternalRpcService on the other, and the byte streams between them.     *)
(*                                                                         *)
(* A service runs on any worker, so a step is one call of recv or send or  *)
(* what lies between two of them.  Each channel has a codec; the server    *)
(* has one for all its connections, whose buffer_ is therefore shared.     *)
(* A client is a service (or a thread) with one channel and one call at a  *)
(* time; the echo service answers with the text it was sent.               *)
(***************************************************************************)
EXTENDS Protobuf

CONSTANTS
    RpcClients,
    Conns,       \* connections that can be there at a time
    NoConn,
    MaxCalls,    \* bound on the calls of a client
    CutAt,       \* where the first send of a message may stop short
    TextOf       \* the text of each call, by client and number

ASSUME RpcAssumption == MaxCalls \in Nat /\ CutAt \in Nat /\ NoConn \notin Conns

\* A message of 0xFFFF bytes stops the program (CHECK_LT in WriteMessage).
ASSUME TextAssumption ==
    \A c \in RpcClients : \A n \in 1 .. MaxCalls :
        TextOf[c][n] \in Seq(0 .. 255) /\ Len(TextOf[c][n]) < 65535

kRequest == 1
KResponse == 2
EchoService == <<69>>
Echo == <<101>>

-----------------------------------------------------------------------------
(* DefaultRpcCodec                                                         *)

\* The three bytes before a message, and the message.
WriteMessage(type, bytes) ==
    <<type, Len(bytes) % 256, (Len(bytes) \div 65536) % 256>> \o bytes

\* (head >> 8) & 0xFFFF
PackLen(head) == head[2] + 256 * head[3]

WriteRequestMessage(m) == WriteMessage(kRequest, RpcRequestBytes(m))
WriteResponeMessage(m) == WriteMessage(KResponse, RpcResponseBytes(m))

\* The type and the length of what follows, or an error.
HeadIsGood(head, type) == head[1] = type /\ PackLen(head) # 0

-----------------------------------------------------------------------------
VARIABLES
    up, down,     \* bytes on their way to the server and back
    cli,          \* each client's call, see Client below
    srv,          \* the service of each connection, see Connection below
    buffer,       \* buffer_ of the server's codec
    rpcQueue,     \* the mailbox of InternalRpcService: whose call
    registered,   \* is the echo service in rpc_services_?
    serving,      \* are connections accepted?
    overlapped    \* history: has a service resized buffer_ while another
                  \* one was using it?

rpcVars == <<up, down, cli, srv, buffer, rpcQueue, registered, serving, overlapped>>

\* at: "idle", "write", "head" or "body"; conn: conn_; data: what is to be
\* sent, or was received; text and result: of the last call.
Client(at, conn, data, n, calls, result) ==
    [at |-> at, conn |-> conn, data |-> data, n |-> n, calls |-> calls, result |-> result]

\* at: "none", "head", "body", "parse", "call", "called", "write" or
\* "closed"; head: local; done and n: bytes read or written, of how many;
\* arg: the argument, then the answer.
Connection(at, head, done, n, arg) ==
    [at |-> at, head |-> head, done |-> done, n |-> n, arg |-> arg]

NoConnection == Connection("none", <<>>, 0, 0, <<>>)
AwaitsRequest == Connection("head", <<>>, 0, 0, <<>>)
Closed == Connection("closed", <<>>, 0, 0, <<>>)

RpcInit ==
    /\ up = [k \in Conns |-> <<>>] /\ down = [k \in Conns |-> <<>>]
    /\ cli = [c \in RpcClients |-> Client("idle", NoConn, <<>>, 0, 0, "none")]
    /\ srv = [k \in Conns |-> NoConnection]
    /\ buffer = <<>> /\ rpcQueue = <<>>
    /\ registered = FALSE /\ serving = TRUE /\ overlapped = FALSE

\* The first n bytes of s, and the others.
First(s, n) == SubSeq(s, 1, n)
Rest(s, n) == SubSeq(s, n + 1, Len(s))
Least(a, b) == IF a < b THEN a ELSE b

\* How much a send takes: all, or less of a message that it begins.
SendSizes(left, begins) ==
    {left} \cup (IF begins /\ CutAt < left THEN {CutAt} ELSE {})

-----------------------------------------------------------------------------
(* RpcChannel                                                              *)

ToClient(c, r) == cli' = [cli EXCEPT ![c] = r]
serverSide == <<buffer, rpcQueue, registered, serving, overlapped>>

\* Is the connection's client gone?
Abandoned(k) == \A c \in RpcClients : cli[c].conn # k

\* A connection both sides are done with can be another one.
FreeConn(k) == srv[k].at \in {"none", "closed"} /\ Abandoned(k)

RequestOf(c) ==
    WriteRequestMessage(RpcRequestOf(EchoService, Echo,
        EchoRequestBytes(EchoRequestOf(TextOf[c][cli[c].calls + 1]))))

\* CallMethod with the connection of the call before.
CallMethod(c) ==
    /\ cli[c].at = "idle" /\ cli[c].conn # NoConn /\ cli[c].calls < MaxCalls
    /\ ToClient(c, Client("write", cli[c].conn, RequestOf(c), 0, cli[c].calls + 1, "none"))
    /\ UNCHANGED <<up, down, srv, serverSide>>

\* CallMethod with a new one: the server has accepted it, or will never.
CallMethodConnects(c, k) ==
    /\ cli[c].at = "idle" /\ cli[c].conn = NoConn /\ cli[c].calls < MaxCalls
    /\ FreeConn(k)
    /\ ToClient(c, Client("write", k, RequestOf(c), 0, cli[c].calls + 1, "none"))
    /\ srv' = [srv EXCEPT ![k] = IF serving THEN AwaitsRequest ELSE Closed]
    /\ up' = [up EXCEPT ![k] = <<>>] /\ down' = [down EXCEPT ![k] = <<>>]
    /\ UNCHANGED serverSide

CallMethodRefused(c) ==
    /\ cli[c].at = "idle" /\ cli[c].conn = NoConn /\ cli[c].calls < MaxCalls
    /\ ToClient(c, Client("idle", NoConn, <<>>, 0, cli[c].calls + 1, "failed"))
    /\ UNCHANGED <<up, down, srv, serverSide>>

ClientSends(c) ==
    LET k == cli[c].conn IN
    /\ cli[c].at = "write"
    /\ \E n \in SendSizes(Len(cli[c].data), cli[c].n = 0) :
         /\ up' = [up EXCEPT ![k] = @ \o First(cli[c].data, n)]
         /\ ToClient(c, [cli[c] EXCEPT
              !.at = IF n = Len(cli[c].data) THEN "head" ELSE "write",
              !.data = Rest(@, n), !.n = 1])
    /\ UNCHANGED <<down, srv, serverSide>>

\* Mutant: the channel keeps a connection whose call has failed.
ConnAfterFailureKept(c) == cli[c].conn

\* conn_.reset()
ConnAfterFailure(c) == NoConn

FailedCall(c) ==
    Client("idle", ConnAfterFailure(c), <<>>, 0, cli[c].calls, "failed")

ClientReceivesHead(c) ==
    LET k == cli[c].conn
        n == Least(3 - Len(cli[c].data), Len(down[k]))
        head == cli[c].data \o First(down[k], n)
    IN  /\ cli[c].at = "head" /\ n > 0
        /\ down' = [down EXCEPT ![k] = Rest(@, n)]
        /\ ToClient(c,
             IF Len(head) < 3 THEN [cli[c] EXCEPT !.data = head]
             ELSE IF HeadIsGood(head, KResponse)
             THEN [cli[c] EXCEPT !.at = "body", !.data = <<>>, !.n = PackLen(head)]
             ELSE FailedCall(c))
        /\ UNCHANGED <<up, srv, serverSide>>

\* What the caller finds in its EchoResponse.
ResultOf(c, rpcRes, res) ==
    IF ~ rpcRes.ok \/ ~ res.ok THEN FailedCall(c)
    ELSE Client("idle", cli[c].conn, <<>>, 0, cli[c].calls,
                IF Field(res.m, 1) = TextOf[c][cli[c].calls] THEN "own" ELSE "other")

ClientReceivesBody(c) ==
    LET k == cli[c].conn
        n == Least(cli[c].n - Len(cli[c].data), Len(down[k]))
        bytes == cli[c].data \o First(down[k], n)
    IN  /\ cli[c].at = "body" /\ n > 0
        /\ down' = [down EXCEPT ![k] = Rest(@, n)]
        /\ \/ /\ Len(bytes) < cli[c].n
              /\ ToClient(c, [cli[c] EXCEPT !.data = bytes])
           \/ /\ Len(bytes) = cli[c].n
              /\ \E rpcRes \in {ParseRpcResponse(bytes)} :
                 \E res \in {ParseEchoResponse(Field(rpcRes.m, 1))} :
                    ToClient(c, ResultOf(c, rpcRes, res))
        /\ UNCHANGED <<up, srv, serverSide>>

\* Eof, or a send after the server closed.
ClientFindsClosed(c) ==
    /\ cli[c].at \in {"write", "head", "body"} /\ srv[cli[c].conn].at = "closed"
    /\ cli[c].at = "write" \/ down[cli[c].conn] = <<>>
    /\ ToClient(c, FailedCall(c))
    /\ UNCHANGED <<up, down, srv, serverSide>>

\* A wait of the client's service is interrupted.
ClientInterrupted(c) ==
    /\ cli[c].at \in {"write", "head", "body"}
    /\ ToClient(c, FailedCall(c))
    /\ UNCHANGED <<up, down, srv, serverSide>>

-----------------------------------------------------------------------------
(* RpcServer                                                               *)

ToServer(k, r) == srv' = [srv EXCEPT ![k] = r]

UsesBuffer(k) == srv[k].at \in {"body", "parse", "write"}

Overlaps(k) == overlapped' = (overlapped \/ \E j \in Conns \ {k} : UsesBuffer(j))

\* buffer_.resize(n)
Resized(n) == [i \in 1 .. n |-> IF i <= Len(buffer) THEN buffer[i] ELSE 0]

ReceiveHead(k) ==
    LET n == Least(3 - Len(srv[k].head), Len(up[k]))
        head == srv[k].head \o First(up[k], n)
    IN  /\ srv[k].at = "head" /\ n > 0
        /\ up' = [up EXCEPT ![k] = Rest(@, n)]
        /\ IF Len(head) = 3 /\ HeadIsGood(head, kRequest)
           THEN /\ ToServer(k, Connection("body", <<>>, 0, PackLen(head), <<>>))
                /\ buffer' = Resized(PackLen(head))
                /\ Overlaps(k)
           ELSE /\ ToServer(k, IF Len(head) = 3 THEN Closed ELSE [srv[k] EXCEPT !.head = head])
                /\ UNCHANGED <<buffer, overlapped>>
        /\ UNCHANGED <<down, cli, rpcQueue, registered, serving>>

\* recv writes to where buffer_ was when Read was called; what lies outside
\* of it by now is lost.
ReceiveBody(k) ==
    LET n == Least(srv[k].n - srv[k].done, Len(up[k]))
        done == srv[k].done
    IN  /\ srv[k].at = "body" /\ n > 0
        /\ up' = [up EXCEPT ![k] = Rest(@, n)]
        /\ buffer' = [i \in DOMAIN buffer |->
                        IF i \in done + 1 .. done + n THEN up[k][i - done] ELSE buffer[i]]
        /\ ToServer(k, [srv[k] EXCEPT !.done = @ + n,
                                      !.at = IF done + n = srv[k].n THEN "parse" ELSE "body"])
        /\ UNCHANGED <<down, cli, rpcQueue, registered, serving, overlapped>>

\* Mutant: the service goes on with the next request.
AfterFailedCallGoesOn(k) == AwaitsRequest

\* Main returns and the connection is closed.
AfterFailedCall(k) == Closed

\* GetRpcServiceItem and FindMethodByName.
Known(req) == registered /\ Field(req, 1) = EchoService /\ Field(req, 2) = Echo

\* ParseFromArray of what is in buffer_, and CallServiceMethod up to the call.
ParseRequest(k) ==
    /\ srv[k].at = "parse"
    /\ \E req \in {ParseRpcRequest(buffer)} :
       \E arg \in {ParseEchoRequest(Field(req.m, 3))} :
         ToServer(k, IF ~ req.ok THEN Closed
                     ELSE IF ~ Known(req.m) \/ ~ arg.ok THEN AfterFailedCall(k)
                     ELSE Connection("call", <<>>, 0, 0, Field(arg.m, 1)))
    /\ UNCHANGED <<up, down, cli, serverSide>>

\* CallMethodWithClosure: the message is refused by a service that stops.
CallServiceMethod(k, sent) ==
    /\ srv[k].at = "call"
    /\ ToServer(k, IF sent THEN [srv[k] EXCEPT !.at = "called"] ELSE AfterFailedCall(k))
    /\ rpcQueue' = IF sent THEN Append(rpcQueue, k) ELSE rpcQueue
    /\ UNCHANGED <<up, down, cli, buffer, registered, serving, overlapped>>

\* InternalRpcService calls the method, which sets the text and runs the
\* closure.  The connection's service wakes up and writes.
HandleCall ==
    LET k == Head(rpcQueue)
        answer == EchoResponseBytes(SetEchoText(NewEchoResponse, srv[k].arg))
        frame == WriteResponeMessage(RpcResponseOf(answer))
    IN  /\ rpcQueue # <<>>
        /\ rpcQueue' = Tail(rpcQueue)
        /\ buffer' = frame
        /\ ToServer(k, Connection("write", <<>>, 0, Len(frame), <<>>))
        /\ Overlaps(k)
        /\ UNCHANGED <<up, down, cli, registered, serving>>

\* send takes what is in buffer_ now.
ServerSends(k) ==
    LET done == srv[k].done
        byte(i) == IF i \in DOMAIN buffer THEN buffer[i] ELSE 0
    IN  /\ srv[k].at = "write"
        /\ \E n \in SendSizes(srv[k].n - done, done = 0) :
             /\ down' = [down EXCEPT ![k] = IF Abandoned(k) THEN @
                           ELSE @ \o [i \in 1 .. n |-> byte(done + i)]]
             /\ ToServer(k, IF done + n = srv[k].n THEN AwaitsRequest
                            ELSE [srv[k] EXCEPT !.done = @ + n])
        /\ UNCHANGED <<up, cli, serverSide>>

\* Eof from a client that is gone, or a send to it.
ServerFindsClosed(k) ==
    /\ Abandoned(k)
    /\ (srv[k].at \in {"head", "body"} /\ up[k] = <<>>) \/ srv[k].at = "write"
    /\ ToServer(k, Closed)
    /\ UNCHANGED <<up, down, cli, serverSide>>

\* The service is stopped, or was idle for too long, while it waits.
ServerInterrupted(k) ==
    /\ srv[k].at \in {"head", "body", "write"}
    /\ ToServer(k, Closed)
    /\ UNCHANGED <<up, down, cli, serverSide>>

AddRpcService ==
    /\ registered' = TRUE
    /\ UNCHANGED <<up, down, cli, srv, buffer, rpcQueue, serving, overlapped>>

StopRpcServer ==
    /\ serving' = FALSE
    /\ UNCHANGED <<up, down, cli, srv, buffer, rpcQueue, registered, overlapped>>

ClientRuns(c) ==
    ClientSends(c) \/ ClientReceivesHead(c) \/ ClientReceivesBody(c) \/ ClientFindsClosed(c)

ServerRuns(k) ==
    \/ ReceiveHead(k) \/ ReceiveBody(k) \/ ParseRequest(k)
    \/ \E sent \in BOOLEAN : CallServiceMethod(k, sent)
    \/ ServerSends(k) \/ ServerFindsClosed(k)

RpcNext ==
    \/ \E c \in RpcClients :
         \/ CallMethod(c) \/ CallMethodRefused(c)
         \/ \E k \in Conns : CallMethodConnects(c, k)
         \/ ClientRuns(c) \/ ClientInterrupted(c)
    \/ \E k \in Conns : ServerRuns(k) \/ ServerInterrupted(k)
    \/ HandleCall \/ AddRpcService \/ StopRpcServer

RpcSpec == RpcInit /\ [][RpcNext]_rpcVars

-----------------------------------------------------------------------------
\* A call that does not fail brings back the text that it sent
\* (RpcServerTest compares the two).
AnswerIsOwn == \A c \in RpcClients : cli[c].result # "other"

\* That is so as long as the connections take turns with the server's
\* buffer_: through short reads and writes, failed calls, interrupted
\* services and connections that are kept for the next call.
AnswerIsOwnInTurn == overlapped \/ AnswerIsOwn

\* The length in front of a message is read as it was written, for all
\* messages that WriteMessage lets pass (CHECK_LT(pack_len, 0xFFFF)).
FrameTellsLength ==
    \A c \in RpcClients :
        (cli[c].at = "write" /\ cli[c].n = 0) => PackLen(cli[c].data) = Len(cli[c].data) - 3

\* A call returns, if the connections take turns.
CallReturns ==
    \A c \in RpcClients : (cli[c].at # "idle") ~> (cli[c].at = "idle" \/ overlapped)
=============================================================================
