-------------------------- MODULE CollectorProofs --------------------------
(***************************************************************************)
(* Theorems about Collector.  Its steps are steps of TsceServer, so what   *)
(* is proved of the server alone holds here; the invariant SInv says who   *)
(* owns a connection, whom its receiver serves and whose turn it is.       *)
(***************************************************************************)
EXTENDS Collector, TsceServerProofs

\* No connection is called "none".
LEMMA NoneIsNoConnection == "none" \notin Collectors /\ Collectors \subseteq Conns
BY ServerConstants DEF Conns

\* The initial states are well typed.
LEMMA SysInitType == SysInit => SysTypeOK
<1>1. \A S : <<>> \in Seq(S)
  OBVIOUS
<1>2. 1 \in Nodes /\ 0 \in 0..MaxSamples /\ 0 \in 0..MaxFaults
  BY ServerConstants, CollectorConstants DEF Nodes
<1>3. NewChan \in Connections
  BY <1>1 DEF NewChan, Connections
<1>4. QED
  BY <1>2, <1>3 DEF SysInit, SysTypeOK, AllNodes, NotConnected

\* Messages put on and taken off a connection keep its type.
LEMMA MessageTypes ==
  ASSUME SysTypeOK, NEW c \in Collectors
  PROVE  /\ \A m \in Messages : ToServer(c, m) \in Seq(Messages)
         /\ \A m \in Answers : ToDaemon(c, m) \in Seq(Answers)
         /\ chan[c].up # <<>> => Tail(chan[c].up) \in Seq(Messages)
         /\ chan[c].down # <<>> => Tail(chan[c].down) \in Seq(Answers)
BY DEF SysTypeOK, Connections, ToServer, ToDaemon

\* The names of the messages.
LEMMA MessageNames ==
  {"hello", "sample", "rest"} \subseteq Messages /\ {"ok", "ack"} \subseteq Answers
BY DEF Messages, Answers

\* What a recv takes: it ends at the end of a message, or the rest of one stays.
LEMMA RecvTakes ==
  ASSUME SysTypeOK, NEW c \in Collectors, SysRecvData(c)
  PROVE  \E u \in Seq(Messages), s \in Nat :
            /\ chan[c].up # <<>>
            /\ chan' = [chan EXCEPT ![c].up = u, ![c].down = ToDaemon(c, "ack"), ![c].splits = s]
            /\ Len(u) + 1 + chan[c].splits <= Len(chan[c].up) + s
<1>1. PICK k \in 0..Len(chan[c].up), part \in BOOLEAN :
        LET left == SubSeq(chan[c].up, k + 1, Len(chan[c].up))
        IN /\ IF part THEN left # <<>> ELSE k > 0
           /\ chan' = [chan EXCEPT ![c].up = IF part THEN <<"rest">> \o Tail(left) ELSE left,
                                   ![c].down = ToDaemon(c, "ack"),
                                   ![c].splits = IF part THEN @ + 1 ELSE @]
  BY DEF SysRecvData
<1> DEFINE up == chan[c].up
           left == SubSeq(up, k + 1, Len(up))
<1>2. up \in Seq(Messages) /\ chan[c].splits \in Nat
  BY DEF SysTypeOK, Connections
<1>3. left \in Seq(Messages) /\ Len(left) = Len(up) - k
  BY <1>2
<1> HIDE DEF left
<1>4. CASE part
  <2>1. /\ left # <<>> /\ up # <<>>
        /\ chan' = [chan EXCEPT ![c].up = <<"rest">> \o Tail(left),
                                ![c].down = ToDaemon(c, "ack"), ![c].splits = chan[c].splits + 1]
    <3>1. /\ left # <<>>
          /\ chan' = [chan EXCEPT ![c].up = <<"rest">> \o Tail(left),
                                  ![c].down = ToDaemon(c, "ack"), ![c].splits = @ + 1]
      BY <1>1, <1>4 DEF left
    <3>2. up # <<>>
      BY <1>2, <1>3, <3>1
    <3>3. QED BY <3>1, <3>2 DEF SysTypeOK
  <2>2. /\ <<"rest">> \o Tail(left) \in Seq(Messages)
        /\ Len(<<"rest">> \o Tail(left)) = Len(up) - k
    BY <1>3, <2>1, MessageNames
  <2>3. Len(<<"rest">> \o Tail(left)) + 1 + chan[c].splits <= Len(up) + (chan[c].splits + 1)
    BY <1>2, <2>2
  <2> DEFINE u == <<"rest">> \o Tail(left)
             s == chan[c].splits + 1
  <2>4. /\ u \in Seq(Messages) /\ s \in Nat /\ up # <<>>
        /\ chan' = [chan EXCEPT ![c].up = u, ![c].down = ToDaemon(c, "ack"), ![c].splits = s]
        /\ Len(u) + 1 + chan[c].splits <= Len(up) + s
    BY <1>2, <2>1, <2>2, <2>3
  <2> HIDE DEF u, s
  <2>5. QED BY <2>4
<1>5. CASE ~part
  <2>1. /\ k > 0
        /\ chan' = [chan EXCEPT ![c].up = left, ![c].down = ToDaemon(c, "ack"),
                                ![c].splits = chan[c].splits]
    BY <1>1, <1>5 DEF left, SysTypeOK
  <2>2. up # <<>> /\ Len(left) + 1 + chan[c].splits <= Len(up) + chan[c].splits
    BY <1>2, <1>3, <2>1
  <2>3. QED BY <1>2, <1>3, <2>1, <2>2
<1>6. QED BY <1>4, <1>5

\* A step of a daemon.
LEMMA DaemonType == ASSUME SysTypeOK, NEW n \in Nodes, Daemon(n) PROVE SysTypeOK'
<1>1. sock[n] # "none" => sock[n] \in Collectors
  BY DEF SysTypeOK
<1>2. dpc[n] \notin {"connect", "exit"} => sock[n] \in Collectors
  BY <1>1 DEF SysTypeOK
<1>3. "none" \notin Collectors
  BY NoneIsNoConnection
<1>4. CASE Connect(n)
  <2>1. PICK c \in Collectors : /\ sock' = [sock EXCEPT ![n] = c]
                                /\ chan' = [chan EXCEPT ![c].node = n]
    BY <1>4 DEF Connect
  <2>2. [chan[c] EXCEPT !.node = n] \in Connections
    BY DEF SysTypeOK, Connections
  <2>3. chan' \in [Collectors -> Connections]
    BY <2>1, <2>2 DEF SysTypeOK
  <2>4. QED BY <1>3, <1>4, <2>1, <2>3 DEF Connect, SysTypeOK
<1>5. CASE SendHello(n)
  BY <1>2, <1>5, MessageTypes, MessageNames DEF SendHello, SysTypeOK, Connections
<1>6. CASE HandshakeSuccess(n)
  BY <1>2, <1>6, MessageTypes DEF HandshakeSuccess, SysTypeOK, Connections
<1>7. CASE HandshakeFails(n)
  BY <1>2, <1>7 DEF HandshakeFails, FINISH_PROCESS, SysTypeOK, Connections
<1>8. CASE SendSample(n)
  <2>1. sent' \in 0..MaxSamples
    BY <1>8, CollectorConstants DEF SendSample, SysTypeOK
  <2>2. QED BY <1>2, <1>8, <2>1, MessageTypes, MessageNames DEF SendSample, SysTypeOK, Connections
<1>9. CASE SendFails(n)
  <2>1. sock[n] \in Collectors /\ chan[sock[n]] \in Connections
    BY <1>2, <1>9 DEF SendFails, SysTypeOK
  <2>2. [chan[sock[n]] EXCEPT !.closed = TRUE] \in Connections
    BY <2>1 DEF Connections
  <2>3. QED BY <1>9, <2>1, <2>2 DEF SendFails, RECONNECT, SysTypeOK
<1>10. CASE RecvAck(n)
  BY <1>2, <1>10, MessageTypes DEF RecvAck, SysTypeOK, Connections
<1>11. CASE AckFails(n)
  BY <1>2, <1>11 DEF AckFails, RECONNECT, SysTypeOK, Connections
<1>12. CASE AckEof(n)
  BY <1>2, <1>12 DEF AckEof, SysTypeOK
<1>13. CASE Ends(n)
  <2>1. faults' \in 0..MaxFaults
    BY <1>13, CollectorConstants DEF Ends, SysTypeOK
  <2>2. QED BY <1>2, <1>13, <2>1 DEF Ends, FINISH_PROCESS, SysTypeOK, Connections
<1>14. CASE DaemonStarts(n)
  BY <1>14 DEF DaemonStarts, SysTypeOK
<1>15. QED
  BY <1>4, <1>5, <1>6, <1>7, <1>8, <1>9, <1>10, <1>11, <1>12, <1>13, <1>14 DEF Daemon

\* A step of the server or of the network.
LEMMA ConnectionType ==
  ASSUME SysTypeOK, NEW c \in Collectors, UNCHANGED <<dpc, sock, sent>>,
         \/ Break(c) \/ SysAccept(c) \/ SysAcceptAborted(c) \/ SysHelloTimeout(c)
         \/ SysHandshake(c) \/ SysRecvData(c) \/ SysRecvWait(c) \/ SysRecvEof(c)
         \/ SysRecvRuns(c)
  PROVE  SysTypeOK'
<1>1. ASSUME UNCHANGED daemonvars PROVE SysTypeOK'
  BY <1>1 DEF daemonvars, SysTypeOK
<1>2. CASE Break(c)
  <2>0. <<>> \in Seq(Messages) /\ <<>> \in Seq(Answers)
    OBVIOUS
  <2>1. [chan[c] EXCEPT !.broken = TRUE, !.up = <<>>, !.down = <<>>] \in Connections
    BY <2>0 DEF SysTypeOK, Connections
  <2>2. faults' \in 0..MaxFaults
    BY <1>2, CollectorConstants DEF Break, SysTypeOK
  <2>3. QED BY <1>2, <2>1, <2>2 DEF Break, SysTypeOK
<1>3. CASE SysAcceptAborted(c)
  BY <1>3 DEF SysAcceptAborted, SysTypeOK, Connections
<1>4. CASE SysHandshake(c)
  <2> DEFINE h == HelloRead(c)
             refuse == h.type = "post" /\ status[h.node] = "ACTIVE"
             up == IF chan[c].up = <<>> THEN chan[c].up ELSE Tail(chan[c].up)
             answer == IF h.type = "post" /\ ~refuse THEN ToDaemon(c, "ok") ELSE chan[c].down
  <2>0. /\ chan[c].up \in Seq(Messages)
        /\ chan[c].down \in Seq(Answers)
        /\ ToDaemon(c, "ok") \in Seq(Answers)
        /\ chan[c].up # <<>> => Tail(chan[c].up) \in Seq(Messages)
    BY MessageTypes, MessageNames DEF SysTypeOK, Connections
  <2>1. up \in Seq(Messages) /\ answer \in Seq(Answers)
    BY <2>0, Zenon
  <2>2. refuse \in BOOLEAN /\ h.node \in Nodes \cup {0}
    BY DEF HelloRead, SysTypeOK, Connections
  <2>3. /\ chan' = [chan EXCEPT ![c].up = up, ![c].down = answer, ![c].refused = refuse]
        /\ recv_buf' = IF refuse THEN h.node ELSE 0
        /\ UNCHANGED faults
    BY <1>4 DEF SysHandshake
  <2> HIDE DEF h, refuse, up, answer
  <2>4. [chan[c] EXCEPT !.up = up, !.down = answer, !.refused = refuse] \in Connections
    BY <2>1, <2>2 DEF SysTypeOK, Connections
  <2>5. chan' \in [Collectors -> Connections]
    BY <2>3, <2>4 DEF SysTypeOK
  <2>6. recv_buf' \in Nodes \cup {0}
    BY <2>2, <2>3
  <2>7. QED BY <2>3, <2>5, <2>6 DEF SysTypeOK
<1>5. CASE SysRecvData(c)
  <2>1. PICK u \in Seq(Messages), s \in Nat :
          chan' = [chan EXCEPT ![c].up = u, ![c].down = ToDaemon(c, "ack"), ![c].splits = s]
    BY <1>5, RecvTakes
  <2>2. ToDaemon(c, "ack") \in Seq(Answers)
    BY MessageTypes, MessageNames
  <2>3. [chan[c] EXCEPT !.up = u, !.down = ToDaemon(c, "ack"), !.splits = s] \in Connections
    BY <2>2 DEF SysTypeOK, Connections
  <2>4. chan' = [chan EXCEPT ![c] = [chan[c] EXCEPT !.up = u, !.down = ToDaemon(c, "ack"),
                                                    !.splits = s]]
    BY <2>1 DEF SysTypeOK
  <2>5. chan' \in [Collectors -> Connections]
    BY <2>3, <2>4 DEF SysTypeOK
  <2>6. QED BY <1>5, <2>5 DEF SysRecvData, SysTypeOK
<1>6. QED
  BY <1>1, <1>2, <1>3, <1>4, <1>5 DEF SysAccept, SysHelloTimeout, SysRecvWait, SysRecvEof, SysRecvRuns

\* A step of the whole system keeps the types.
LEMMA SysNextType == SysTypeOK /\ [SysNext]_sysvars => SysTypeOK'
<1> SUFFICES ASSUME SysTypeOK, [SysNext]_sysvars PROVE SysTypeOK'
  OBVIOUS
<1>1. ASSUME NEW n \in Nodes, Daemon(n) PROVE SysTypeOK'
  BY <1>1, DaemonType
<1>2. ASSUME NEW c \in Collectors,
             \/ Break(c) \/ SysAccept(c) \/ SysAcceptAborted(c) \/ SysHelloTimeout(c)
             \/ SysHandshake(c) \/ SysRecvData(c) \/ SysRecvWait(c) \/ SysRecvEof(c)
             \/ SysRecvRuns(c)
      PROVE  SysTypeOK'
  <2>1. UNCHANGED <<dpc, sock, sent>>
    BY <1>2 DEF Break, SysAccept, SysAcceptAborted, SysHelloTimeout, SysHandshake, SysRecvData,
                SysRecvWait, SysRecvEof, SysRecvRuns, daemonvars
  <2>2. QED BY <1>2, <2>1, ConnectionType
<1>3. CASE SysServerExits
  <2>1. faults' \in 0..MaxFaults
    BY <1>3, CollectorConstants DEF SysServerExits, SysTypeOK
  <2>2. \A c \in Collectors : [chan[c] EXCEPT !.reset = TRUE] \in Connections
    BY DEF SysTypeOK, Connections
  <2>3. QED BY <1>3, <2>1, <2>2 DEF SysServerExits, SysTypeOK
<1>4. CASE SysRestart
  BY <1>4 DEF SysRestart, SysTypeOK
<1>5. CASE SysAcceptFails
  <2>1. faults' \in 0..MaxFaults
    BY <1>5, CollectorConstants DEF SysAcceptFails, SysTypeOK
  <2>2. QED BY <1>5, <2>1 DEF SysAcceptFails, SysTypeOK
<1>6. CASE UNCHANGED sysvars
  BY <1>6 DEF sysvars, daemonvars, SysTypeOK
<1>7. QED BY <1>1, <1>2, <1>3, <1>4, <1>5, <1>6 DEF SysNext

\* The daemons, their sockets and the connections keep their types: every path
\* of clr.c leaves a daemon with a socket exactly when it is connected.
THEOREM SysTypeCorrect == SysSpec => []SysTypeOK
BY SysInitType, SysNextType, PTL DEF SysSpec

-----------------------------------------------------------------------------
(* Every behaviour of the composition is one of the server.                 *)

\* Every step is a step of the server, or leaves it as it is.
LEMMA ServerStepOf == SysTypeOK /\ [SysNext]_sysvars => [Next]_vars
<1> SUFFICES ASSUME SysTypeOK, [SysNext]_sysvars PROVE [Next]_vars
  OBVIOUS
<1>1. ASSUME NEW n \in Nodes, Daemon(n) PROVE UNCHANGED vars
  BY <1>1 DEF Daemon, Connect, SendHello, HandshakeSuccess, HandshakeFails, FINISH_PROCESS,
              SendSample, SendFails, RECONNECT, RecvAck, AckFails, AckEof, Ends, DaemonStarts
<1>2. ASSUME NEW c \in Collectors PROVE c \in Conns
  BY <1>2, NoneIsNoConnection
<1>3. ASSUME NEW c \in Collectors,
             \/ Break(c) \/ SysAccept(c) \/ SysAcceptAborted(c) \/ SysHelloTimeout(c)
             \/ SysHandshake(c) \/ SysRecvData(c) \/ SysRecvWait(c) \/ SysRecvEof(c)
             \/ SysRecvRuns(c)
      PROVE  [Next]_vars
  <2>1. CASE Break(c)
    BY <2>1 DEF Break
  <2>2. CASE SysAccept(c)
    BY <1>2, <2>2 DEF SysAccept, Next
  <2>3. CASE SysAcceptAborted(c) \/ SysHelloTimeout(c)
    BY <2>3 DEF SysAcceptAborted, SysHelloTimeout, Next
  <2>4. CASE SysHandshake(c)
    <3> DEFINE h == HelloRead(c)
    <3>1. h \in Hello(c)
      BY DEF HelloRead, Hello, SysTypeOK, Connections
    <3>2. /\ Up /\ svc.pc = "hello" /\ svc.conn = c
          /\ Rejected(c, h) \/ StartRecv(c, h) \/ StartFails(c, h) \/ UnknownHello(c, h)
          /\ UNCHANGED <<status, bufvars, notex, dbvars, envvars>>
      BY <2>4 DEF SysHandshake
    <3> HIDE DEF h
    <3>3. Handshake(c)
      BY <3>1, <3>2 DEF Handshake
    <3>4. QED BY <1>2, <3>3 DEF Next
  <2>5. CASE SysRecvData(c) \/ SysRecvWait(c) \/ SysRecvEof(c) \/ SysRecvRuns(c)
    <3>1. Recv(c)
      BY <2>5 DEF SysRecvData, SysRecvWait, SysRecvEof, SysRecvRuns, Recv
    <3>2. QED BY <1>2, <3>1 DEF Next
  <2>6. QED BY <1>3, <2>1, <2>2, <2>3, <2>4, <2>5
<1>4. CASE SysServerExits
  BY <1>4 DEF SysServerExits, Next, Db
<1>5. CASE SysRestart
  BY <1>5 DEF SysRestart, Next
<1>6. CASE SysAcceptFails
  BY <1>6 DEF SysAcceptFails, Next
<1>7. CASE UNCHANGED sysvars
  BY <1>7 DEF sysvars
<1>8. QED BY <1>1, <1>3, <1>4, <1>5, <1>6, <1>7 DEF SysNext

\* The steps of the composition are steps of the server's specification, with
\* more conditions: what is proved of the one may be cited of the other.
LEMMA ServerSpecHolds == SysSpec => Spec
<1>1. SysInit => Init
  BY DEF SysInit
<1>2. QED BY <1>1, SysTypeCorrect, ServerStepOf, PTL DEF SysSpec, Spec

\* So the buffers keep their bound and an ACTIVE node has its receiver with any
\* number of daemons, connections, failures and restarts.
THEOREM ServerInvariantsHold == SysSpec => [](BufferBound /\ ActiveHasReceiver)
BY ServerSpecHolds, BufferBounded, ActiveServed, PTL

-----------------------------------------------------------------------------
(* Who owns a connection, whom its receiver serves, whose turn it is.       *)

\* A daemon's socket is an open connection of its own node, and every open
\* connection is its daemon's socket.
Sockets ==
  /\ \A n \in Nodes : sock[n] # "none" => chan[sock[n]].node = n /\ ~chan[sock[n]].closed
  /\ \A c \in Collectors : chan[c].node # 0 /\ ~chan[c].closed => sock[chan[c].node] = c

\* A connection nobody has used is new, and only an accepted one is served.
Unused ==
  \A c \in Collectors :
    /\ chan[c].node = 0 => chan[c] = NewChan /\ fd[c] = "none"
    /\ tnode[c] # 0 => fd[c] # "none"

\* As many messages and answers are under way as recvs have ended inside a message,
\* and one more unless it is the daemon's turn to send.
Slack(ch) == Len(ch.up) + Len(ch.down) <= ch.splits
Within(ch) == Len(ch.up) + Len(ch.down) <= 1 + ch.splits
InUse(c) == fd[c] # "closed" /\ ~chan[c].reset
Sending(n) == dpc[n] \in {"greet", "collect"}
Turns ==
  \A c \in Collectors : InUse(c) =>
    /\ Within(chan[c])
    /\ \A n \in Nodes : sock[n] = c /\ Sending(n) => Slack(chan[c])

\* The connection app_service shakes hands with is open.
HelloOpen == svc.pc = "hello" => fd[svc.conn] = "open"

SInv == SysTypeOK /\ HelloOpen /\ Sockets /\ Unused /\ FiledUnderOwner /\ Turns

\* The initial states: no connection was used yet.
LEMMA SysInitSInv == SysInit => SInv
<1> SUFFICES ASSUME SysInit PROVE SInv
  OBVIOUS
<1>1. SysTypeOK
  BY SysInitType
<1>2. \A c \in Collectors : chan[c] = NewChan /\ fd[c] = "none" /\ tnode[c] = 0 /\ tpc[c] = "none"
  BY NoneIsNoConnection DEF SysInit, Init
<1>3. \A n \in Nodes : sock[n] = "none"
  BY DEF SysInit, NotConnected
<1>4. Slack(NewChan) /\ Within(NewChan)
  BY DEF NewChan, Slack, Within
<1>5. Sockets /\ Unused /\ FiledUnderOwner
  BY <1>2, <1>3 DEF Sockets, Unused, FiledUnderOwner, NewChan
<1>6. Turns
  BY <1>2, <1>4, Zenon DEF Turns
<1>7. HelloOpen
  BY DEF SysInit, Init, FreshService, HelloOpen
<1>8. QED BY <1>1, <1>5, <1>6, <1>7 DEF SInv

\* What a message put on a connection, or taken off it, does to the lengths.
LEMMA MessageMoves ==
  ASSUME SysTypeOK, NEW c \in Collectors
  PROVE  /\ Len(chan[c].up) \in Nat /\ Len(chan[c].down) \in Nat /\ chan[c].splits \in Nat
         /\ \A m : Len(ToServer(c, m)) \in 0..(Len(chan[c].up) + 1)
         /\ \A m : Len(ToDaemon(c, m)) \in 0..(Len(chan[c].down) + 1)
         /\ chan[c].up # <<>> => Len(Tail(chan[c].up)) = Len(chan[c].up) - 1
         /\ chan[c].down # <<>> => Len(Tail(chan[c].down)) = Len(chan[c].down) - 1
<1>1. chan[c].up \in Seq(Messages) /\ chan[c].down \in Seq(Answers) /\ chan[c].splits \in Nat
  BY DEF SysTypeOK, Connections
<1>2. \A S, m : \A q \in Seq(S) : Len(q) \in Nat /\ Len(Append(q, m)) = Len(q) + 1
  OBVIOUS
<1>3. /\ \A m : ToServer(c, m) \in {chan[c].up, Append(chan[c].up, m)}
      /\ \A m : ToDaemon(c, m) \in {chan[c].down, Append(chan[c].down, m)}
  BY DEF ToServer, ToDaemon
<1>4. QED BY <1>1, <1>2, <1>3

\* A connection within its turn, with the other count too.
LEMMA SlackIsWithin ==
  ASSUME NEW ch \in Connections, Slack(ch)
  PROVE  Within(ch)
<1>1. Len(ch.up) \in Nat /\ Len(ch.down) \in Nat /\ ch.splits \in Nat
  BY DEF Connections
<1>2. \A a, b, k \in Nat : a + b <= k => a + b <= 1 + k
  OBVIOUS
<1>3. QED BY <1>1, <1>2, Zenon DEF Slack, Within

\* A step that changes one connection in use by node n, without closing it, and
\* lets its daemon send only while there is slack.
LEMMA OneConnection ==
  ASSUME SInv, NEW c \in Collectors, NEW n \in Nodes, NEW ch \in Connections,
         chan[c].node = n,
         chan' = [chan EXCEPT ![c] = ch],
         ch.node = chan[c].node, ch.closed = chan[c].closed,
         sock' = sock, \A d \in Collectors \ {c} : fd'[d] = fd[d],
         dpc' = dpc \/ (sock[n] = c /\ \A p \in Nodes \ {n} : dpc'[p] = dpc[p]),
         InUse(c)' => Within(ch) /\ (sock[n] = c /\ Sending(n)' => Slack(ch))
  PROVE  Sockets' /\ Turns'
<1>1. /\ \A d \in Collectors \ {c} : chan'[d] = chan[d]
      /\ chan'[c] = ch
  BY DEF SInv, SysTypeOK
<1>2. Sockets'
  <2>1. \A d \in Collectors : chan'[d].node = chan[d].node /\ chan'[d].closed = chan[d].closed
    <3>1. TAKE d \in Collectors
    <3>2. CASE d = c
      BY <1>1, <3>2, Zenon
    <3>3. CASE d # c
      BY <1>1, <3>3, Zenon
    <3>4. QED BY <3>2, <3>3
  <2>2. \A p \in Nodes : sock[p] # "none" => sock[p] \in Collectors
    BY DEF SInv, SysTypeOK
  <2>3. ASSUME NEW p \in Nodes, sock[p] # "none"
        PROVE  chan'[sock[p]].node = p /\ ~chan'[sock[p]].closed
    <3>1. PICK d \in Collectors : d = sock[p]
      BY <2>2, <2>3
    <3>2. chan[d].node = p /\ ~chan[d].closed
      BY <2>3, <3>1, Zenon DEF SInv, Sockets
    <3>3. QED BY <2>1, <3>1, <3>2, Zenon
  <2>4. ASSUME NEW d \in Collectors, chan'[d].node # 0, ~chan'[d].closed
        PROVE  sock[chan'[d].node] = d
    <3>1. chan'[d].node = chan[d].node /\ ~chan[d].closed
      BY <2>1, <2>4, Zenon
    <3>2. sock[chan[d].node] = d
      BY <2>4, <3>1, Zenon DEF SInv, Sockets
    <3>3. QED BY <3>1, <3>2
  <2>5. /\ \A p \in Nodes : sock'[p] # "none" =>
              chan'[sock'[p]].node = p /\ ~chan'[sock'[p]].closed
        /\ \A d \in Collectors : chan'[d].node # 0 /\ ~chan'[d].closed =>
              sock'[chan'[d].node] = d
    BY <2>3, <2>4, SMT
  <2>6. QED BY <2>5, Zenon DEF Sockets
<1>3. Turns'
  <2>1. \A d \in Collectors \ {c} : InUse(d)' <=> InUse(d)
    BY <1>1, Zenon DEF InUse
  <2>2. \A p \in Nodes : sock[p] = c => p = n
    BY NoneIsNoConnection DEF SInv, Sockets
  <2>3. \A p \in Nodes : sock[p] # c => (Sending(p)' <=> Sending(p))
    BY Zenon DEF Sending
  <2>4. ASSUME NEW d \in Collectors \ {c}, InUse(d)
        PROVE  /\ Within(chan[d])
               /\ \A p \in Nodes : sock[p] = d /\ Sending(p)' => Slack(chan[d])
    <3>1. Within(chan[d]) /\ \A p \in Nodes : sock[p] = d /\ Sending(p) => Slack(chan[d])
      BY <2>4, Zenon DEF SInv, Turns
    <3>2. QED BY <2>3, <3>1, Zenon
  <2>5. ASSUME NEW d \in Collectors, InUse(d)'
        PROVE  /\ Within(chan'[d])
               /\ \A p \in Nodes : sock'[p] = d /\ Sending(p)' => Slack(chan'[d])
    <3>1. CASE d = c
      BY <1>1, <2>2, <2>5, <3>1, Zenon
    <3>2. CASE d # c
      <4>1. d \in Collectors \ {c} /\ chan'[d] = chan[d] /\ InUse(d)
        BY <1>1, <2>1, <2>5, <3>2
      <4>2. QED BY <2>4, <4>1, Zenon
    <3>3. QED BY <3>1, <3>2
  <2>6. QED BY <2>5, Zenon DEF Turns, Within, Slack
<1>4. QED BY <1>2, <1>3

\* The same for a step the server takes no part in.
LEMMA DaemonConnection ==
  ASSUME SInv, NEW c \in Collectors, NEW n \in Nodes, NEW ch \in Connections,
         chan[c].node = n,
         chan' = [chan EXCEPT ![c] = ch],
         ch.node = chan[c].node, ch.closed = chan[c].closed, ch.reset = chan[c].reset,
         sock' = sock, UNCHANGED <<fd, tpc, tnode>>,
         dpc' = dpc \/ (sock[n] = c /\ \A p \in Nodes \ {n} : dpc'[p] = dpc[p]),
         chan[c].closed => ch.up \in {<<>>, chan[c].up},
         InUse(c) => Within(ch) /\ (sock[n] = c /\ Sending(n)' => Slack(ch))
  PROVE  Sockets' /\ Turns' /\ Unused' /\ FiledUnderOwner'
<1>1. /\ \A d \in Collectors \ {c} : chan'[d] = chan[d]
      /\ chan'[c] = ch
  BY DEF SInv, SysTypeOK
<1>2. fd' = fd /\ tpc' = tpc /\ tnode' = tnode
  OBVIOUS
<1>3. InUse(c)' => InUse(c)
  BY <1>1, <1>2, Zenon DEF InUse
<1>4. Sockets' /\ Turns'
  BY <1>2, <1>3, OneConnection
<1>5. Unused'
  <2>1. n # 0
    BY ServerConstants DEF Nodes
  <2>2. QED BY <1>1, <1>2, <2>1, Zenon DEF SInv, Unused
<1>6. FiledUnderOwner'
  BY <1>1, <1>2, Zenon DEF SInv, FiledUnderOwner
<1>7. QED BY <1>4, <1>5, <1>6

\* The socket of a connected daemon is an open connection of its node.
LEMMA ConnectedDaemon ==
  ASSUME SInv, NEW n \in Nodes, dpc[n] \notin {"connect", "exit"}
  PROVE  \E c \in Collectors : sock[n] = c /\ chan[c].node = n /\ ~chan[c].closed
<1>1. sock[n] \in Collectors /\ sock[n] # "none"
  BY DEF SInv, SysTypeOK
<1>2. QED BY <1>1, Zenon DEF SInv, Sockets

\* A daemon sends on its socket, when it is its turn.
LEMMA DaemonSends ==
  ASSUME SInv, NEW n \in Nodes, SendHello(n) \/ SendSample(n)
  PROVE  Sockets' /\ Turns' /\ Unused' /\ FiledUnderOwner'
<1>0. Sending(n) /\ dpc[n] \notin {"connect", "exit"}
  BY DEF SendHello, SendSample, Sending
<1>1. PICK c \in Collectors : sock[n] = c /\ chan[c].node = n /\ ~chan[c].closed
  BY <1>0, ConnectedDaemon
<1>2. PICK m \in Messages : chan' = [chan EXCEPT ![c].up = ToServer(c, m)]
  BY <1>1, MessageNames DEF SendHello, SendSample
<1>3. dpc' \in {[dpc EXCEPT ![n] = "hello"], [dpc EXCEPT ![n] = "ack"]}
  BY DEF SendHello, SendSample
<1>4. UNCHANGED <<fd, tpc, tnode, sock>>
  BY DEF SendHello, SendSample, vars, connvars, thrvars
<1> DEFINE ch == [chan[c] EXCEPT !.up = ToServer(c, m)]
<1>6. chan' = [chan EXCEPT ![c] = ch]
  BY <1>1, <1>2 DEF SInv, SysTypeOK
<1>7. chan[c] \in Connections /\ ToServer(c, m) \in Seq(Messages)
  BY <1>1, MessageTypes DEF SInv, SysTypeOK
<1>8. /\ ch \in Connections
      /\ ch.up = ToServer(c, m) /\ ch.node = chan[c].node /\ ch.closed = chan[c].closed
      /\ ch.reset = chan[c].reset /\ ch.down = chan[c].down /\ ch.splits = chan[c].splits
  BY <1>7 DEF Connections
<1>9. \A p \in Nodes \ {n} : dpc'[p] = dpc[p]
  BY <1>3 DEF SInv, SysTypeOK
<1>10. ~Sending(n)'
  BY <1>3 DEF SInv, SysTypeOK, Sending
<1>11. InUse(c) => Slack(chan[c])
  BY <1>0, <1>1, Zenon DEF SInv, Turns
<1> HIDE DEF ch
<1>12. Slack(chan[c]) => Within(ch)
  <2>1. \A a, b, k \in Nat : \A x \in 0..(a + 1) : a + b <= k => x + b <= 1 + k
    OBVIOUS
  <2>2. QED BY <1>8, <2>1, MessageMoves, Zenon DEF Slack, Within, SInv
<1>13. QED
  BY <1>1, <1>4, <1>6, <1>8, <1>9, <1>10, <1>11, <1>12, DaemonConnection

\* A daemon reads an answer: it is its turn again.
LEMMA DaemonReads ==
  ASSUME SInv, NEW n \in Nodes, HandshakeSuccess(n) \/ RecvAck(n)
  PROVE  Sockets' /\ Turns' /\ Unused' /\ FiledUnderOwner'
<1>0. dpc[n] \notin {"connect", "exit"}
  BY DEF HandshakeSuccess, RecvAck
<1>1. PICK c \in Collectors : sock[n] = c /\ chan[c].node = n /\ ~chan[c].closed
  BY <1>0, ConnectedDaemon
<1>2. chan[c].down # <<>> /\ chan' = [chan EXCEPT ![c].down = Tail(chan[c].down)]
  BY <1>1 DEF HandshakeSuccess, RecvAck, SInv, SysTypeOK
<1>3. dpc' = [dpc EXCEPT ![n] = "collect"]
  BY DEF HandshakeSuccess, RecvAck
<1>4. UNCHANGED <<fd, tpc, tnode, sock>>
  BY DEF HandshakeSuccess, RecvAck, vars, connvars, thrvars
<1> DEFINE ch == [chan[c] EXCEPT !.down = Tail(chan[c].down)]
<1>6. chan' = [chan EXCEPT ![c] = ch]
  BY <1>1, <1>2 DEF SInv, SysTypeOK
<1>7. chan[c] \in Connections /\ Tail(chan[c].down) \in Seq(Answers)
  BY <1>1, <1>2, MessageTypes DEF SInv, SysTypeOK
<1>8. /\ ch \in Connections
      /\ ch.up = chan[c].up /\ ch.node = chan[c].node /\ ch.closed = chan[c].closed
      /\ ch.reset = chan[c].reset /\ ch.down = Tail(chan[c].down)
      /\ ch.splits = chan[c].splits
  BY <1>7 DEF Connections
<1>9. \A p \in Nodes \ {n} : dpc'[p] = dpc[p]
  BY <1>3 DEF SInv, SysTypeOK
<1>10. InUse(c) => Within(chan[c])
  BY Zenon DEF SInv, Turns
<1> HIDE DEF ch
<1>11. Within(chan[c]) => Slack(ch) /\ Within(ch)
  <2>1. \A a, b, k \in Nat : a + b <= 1 + k => a + (b - 1) <= k /\ a + (b - 1) <= 1 + k
    OBVIOUS
  <2>2. QED BY <1>2, <1>8, <2>1, MessageMoves, Zenon DEF Slack, Within, SInv
<1>12. QED
  BY <1>1, <1>4, <1>6, <1>8, <1>9, <1>10, <1>11, DaemonConnection

\* The server has closed: the daemon goes on with a connection that is not read.
LEMMA DaemonGoesOn ==
  ASSUME SInv, NEW n \in Nodes, AckEof(n)
  PROVE  Sockets' /\ Turns' /\ Unused' /\ FiledUnderOwner'
<1>0. dpc[n] \notin {"connect", "exit"}
  BY DEF AckEof
<1>1. PICK c \in Collectors : sock[n] = c /\ chan[c].node = n /\ ~chan[c].closed
  BY <1>0, ConnectedDaemon
<1>2. ~InUse(c)
  BY <1>1, Zenon DEF AckEof, DaemonSeesEof, InUse
<1>3. dpc' = [dpc EXCEPT ![n] = "collect"] /\ UNCHANGED <<fd, tpc, tnode, sock, chan>>
  BY DEF AckEof, vars, connvars, thrvars
<1>4. chan' = [chan EXCEPT ![c] = chan[c]] /\ chan[c] \in Connections
  BY <1>3 DEF SInv, SysTypeOK
<1>5. \A p \in Nodes \ {n} : dpc'[p] = dpc[p]
  BY <1>3 DEF SInv, SysTypeOK
<1>6. QED BY <1>1, <1>2, <1>3, <1>4, <1>5, DaemonConnection

\* A daemon gives its socket up and closes the connection, if it has one.
LEMMA DaemonCloses ==
  ASSUME SInv, NEW n \in Nodes, UNCHANGED vars,
         dpc' \in {[dpc EXCEPT ![n] = "connect"], [dpc EXCEPT ![n] = "exit"]},
         sock' = [sock EXCEPT ![n] = "none"],
         chan' = IF sock[n] = "none" THEN chan ELSE [chan EXCEPT ![sock[n]].closed = TRUE]
  PROVE  Sockets' /\ Turns' /\ Unused' /\ FiledUnderOwner'
<1>1. fd' = fd /\ tpc' = tpc /\ tnode' = tnode
  BY DEF vars, connvars, thrvars
<1>2. /\ sock'[n] = "none"
      /\ \A p \in Nodes \ {n} : sock'[p] = sock[p] /\ dpc'[p] = dpc[p]
  BY DEF SInv, SysTypeOK
<1>3. \A d \in Collectors : d # sock[n] => chan'[d] = chan[d]
  BY DEF SInv, SysTypeOK
<1>4. ASSUME NEW c \in Collectors, c = sock[n]
      PROVE  /\ chan'[c].closed /\ chan'[c].node = chan[c].node /\ chan[c].node = n
             /\ chan'[c].up = chan[c].up /\ chan'[c].down = chan[c].down
             /\ chan'[c].reset = chan[c].reset /\ chan'[c].splits = chan[c].splits
             /\ ~chan[c].closed
  <2>1. c # "none" /\ chan[c] \in Connections
    BY NoneIsNoConnection DEF SInv, SysTypeOK
  <2>2. chan'[c] = [chan[c] EXCEPT !.closed = TRUE]
    BY <1>4, <2>1 DEF SInv, SysTypeOK
  <2>3. chan[c].node = n /\ ~chan[c].closed
    BY <1>4, <2>1, Zenon DEF SInv, Sockets
  <2>4. QED BY <2>1, <2>2, <2>3 DEF Connections
<1>5. \A p \in Nodes \ {n} : sock[p] # "none" => sock[p] \in Collectors /\ sock[p] # sock[n]
  <2>1. TAKE p \in Nodes \ {n}
  <2>2. HAVE sock[p] # "none"
  <2>3. chan[sock[p]].node = p /\ sock[p] \in Collectors
    BY <2>2 DEF SInv, Sockets, SysTypeOK
  <2>4. QED BY <1>4, <2>3
<1>6. Sockets'
  <2>1. ASSUME NEW p \in Nodes, sock'[p] # "none"
        PROVE  chan'[sock'[p]].node = p /\ ~chan'[sock'[p]].closed
    <3>1. p \in Nodes \ {n} /\ sock'[p] = sock[p]
      BY <1>2, <2>1
    <3>2. chan'[sock[p]] = chan[sock[p]]
      BY <1>3, <1>5, <2>1, <3>1
    <3>3. chan[sock[p]].node = p /\ ~chan[sock[p]].closed
      BY <2>1, <3>1, Zenon DEF SInv, Sockets
    <3>4. QED BY <3>1, <3>2, <3>3, Zenon
  <2>2. ASSUME NEW d \in Collectors, chan'[d].node # 0, ~chan'[d].closed
        PROVE  sock'[chan'[d].node] = d
    <3>1. d # sock[n]
      BY <1>4, <2>2, Zenon
    <3>2. chan'[d] = chan[d] /\ sock[chan[d].node] = d
      BY <1>3, <2>2, <3>1, Zenon DEF SInv, Sockets
    <3>3. chan[d].node \in Nodes \ {n}
      BY <2>2, <3>1, <3>2 DEF SInv, SysTypeOK, Connections
    <3>4. QED BY <1>2, <3>2, <3>3, Zenon
  <2>3. QED BY <2>1, <2>2, Zenon DEF Sockets
<1>7. Unused'
  <2>1. n # 0
    BY ServerConstants DEF Nodes
  <2>2. QED BY <1>1, <1>3, <1>4, <2>1, Zenon DEF SInv, Unused
<1>8. FiledUnderOwner'
  BY <1>1, <1>3, <1>4, Zenon DEF SInv, FiledUnderOwner
<1>9. Turns'
  <2>1. \A d \in Collectors : chan'[d].up = chan[d].up /\ chan'[d].down = chan[d].down
                              /\ chan'[d].reset = chan[d].reset
                              /\ chan'[d].splits = chan[d].splits
    BY <1>3, <1>4, Zenon
  <2>2. \A d \in Collectors : /\ InUse(d)' => InUse(d)
                              /\ Slack(chan[d]) => Slack(chan'[d])
                              /\ Within(chan[d]) => Within(chan'[d])
    BY <1>1, <2>1, Zenon DEF InUse, Slack, Within
  <2>3. \A p \in Nodes, d \in Collectors : sock'[p] = d /\ Sending(p)' => sock[p] = d /\ Sending(p)
    BY <1>2, NoneIsNoConnection, Zenon DEF Sending
  <2>4. QED BY <2>2, <2>3, Zenon DEF SInv, Turns
<1>10. QED BY <1>6, <1>7, <1>8, <1>9

\* A daemon opens a connection nobody has used.
LEMMA DaemonConnects ==
  ASSUME SInv, NEW n \in Nodes, Connect(n)
  PROVE  Sockets' /\ Turns' /\ Unused' /\ FiledUnderOwner'
<1>1. PICK c \in Collectors : /\ chan[c].node = 0
                              /\ sock' = [sock EXCEPT ![n] = c]
                              /\ chan' = [chan EXCEPT ![c].node = n]
  BY DEF Connect
<1>2. fd' = fd /\ tpc' = tpc /\ tnode' = tnode
  BY DEF Connect, vars, connvars, thrvars
<1>3. sock[n] = "none" /\ dpc' = [dpc EXCEPT ![n] = "greet"]
  BY DEF Connect, SInv, SysTypeOK
<1>4. chan[c] = NewChan /\ fd[c] = "none" /\ tnode[c] = 0
  BY <1>1, Zenon DEF SInv, Unused
<1>5. /\ chan'[c].node = n /\ ~chan'[c].closed /\ Slack(chan'[c])
      /\ \A d \in Collectors \ {c} : chan'[d] = chan[d]
  BY <1>1, <1>4 DEF SInv, SysTypeOK, NewChan, Slack
<1>6. sock'[n] = c /\ \A p \in Nodes \ {n} : sock'[p] = sock[p] /\ dpc'[p] = dpc[p]
  BY <1>1, <1>3 DEF SInv, SysTypeOK
<1>7. n # 0
  BY ServerConstants DEF Nodes
<1>8. Sockets'
  <2>1. ASSUME NEW p \in Nodes, sock'[p] # "none"
        PROVE  chan'[sock'[p]].node = p /\ ~chan'[sock'[p]].closed
    <3>1. CASE p = n
      BY <1>5, <1>6, <3>1, Zenon
    <3>2. CASE p # n
      <4>1. sock'[p] = sock[p] /\ sock[p] \in Collectors
        BY <1>6, <2>1, <3>2 DEF SInv, SysTypeOK
      <4>2. chan[sock[p]].node = p /\ ~chan[sock[p]].closed
        BY <2>1, <4>1, Zenon DEF SInv, Sockets
      <4>3. p # 0
        BY ServerConstants DEF Nodes
      <4>4. chan'[sock[p]] = chan[sock[p]]
        BY <1>1, <1>5, <4>1, <4>2, <4>3
      <4>5. QED BY <4>1, <4>2, <4>4, Zenon
    <3>3. QED BY <3>1, <3>2
  <2>2. ASSUME NEW d \in Collectors, chan'[d].node # 0, ~chan'[d].closed
        PROVE  sock'[chan'[d].node] = d
    <3>1. CASE d = c
      BY <1>5, <1>6, <3>1, Zenon
    <3>2. CASE d # c
      <4>1. chan'[d] = chan[d] /\ sock[chan[d].node] = d
        BY <1>5, <2>2, <3>2, Zenon DEF SInv, Sockets
      <4>2. chan[d].node \in Nodes \ {n}
        BY <1>3, <2>2, <4>1, NoneIsNoConnection DEF SInv, SysTypeOK, Connections
      <4>3. QED BY <1>6, <4>1, <4>2, Zenon
    <3>3. QED BY <3>1, <3>2
  <2>3. QED BY <2>1, <2>2, Zenon DEF Sockets
<1>9. Unused'
  BY <1>2, <1>4, <1>5, <1>7, Zenon DEF SInv, Unused
<1>10. FiledUnderOwner'
  BY <1>2, <1>4, <1>5, Zenon DEF SInv, FiledUnderOwner
<1>11. Turns'
  <2>1. ASSUME NEW d \in Collectors \ {c}
        PROVE  /\ InUse(d)' => InUse(d)
               /\ chan'[d] = chan[d]
               /\ \A p \in Nodes : sock'[p] = d /\ Sending(p)' => sock[p] = d /\ Sending(p)
    BY <1>2, <1>5, <1>6, Zenon DEF InUse, Sending
  <2>2. Slack(chan'[c]) /\ Within(chan'[c])
    <3>1. chan'[c] \in Connections
      BY DaemonType DEF SInv, SysTypeOK, Daemon
    <3>2. QED BY <1>5, <3>1, SlackIsWithin
  <2>3. ASSUME NEW d \in Collectors, InUse(d)'
        PROVE  /\ Within(chan'[d])
               /\ \A p \in Nodes : sock'[p] = d /\ Sending(p)' => Slack(chan'[d])
    <3>1. CASE d = c
      BY <2>2, <3>1, Zenon
    <3>2. CASE d # c
      <4>1. d \in Collectors \ {c}
        BY <3>2
      <4>2. QED BY <2>1, <2>3, <4>1, Zenon DEF SInv, Turns
    <3>3. QED BY <3>1, <3>2
  <2>4. QED BY <2>3, Zenon DEF Turns, Within, Slack
<1>12. QED BY <1>8, <1>9, <1>10, <1>11

\* A step of a daemon keeps the invariant.
LEMMA DaemonSInv == ASSUME SInv, NEW n \in Nodes, Daemon(n) PROVE SInv'
<1>1. SysTypeOK'
  BY DaemonType DEF SInv
<1>2. UNCHANGED vars
  BY DEF Daemon, Connect, SendHello, HandshakeSuccess, HandshakeFails, FINISH_PROCESS,
         SendSample, SendFails, RECONNECT, RecvAck, AckFails, AckEof, Ends, DaemonStarts
<1>3. HelloOpen'
  BY <1>2 DEF vars, connvars, HelloOpen, SInv
<1>4. CASE Connect(n)
  BY <1>1, <1>3, <1>4, DaemonConnects DEF SInv
<1>5. CASE SendHello(n) \/ SendSample(n)
  BY <1>1, <1>3, <1>5, DaemonSends DEF SInv
<1>6. CASE HandshakeSuccess(n) \/ RecvAck(n)
  BY <1>1, <1>3, <1>6, DaemonReads DEF SInv
<1>7. CASE AckEof(n)
  BY <1>1, <1>3, <1>7, DaemonGoesOn DEF SInv
<1>8. CASE HandshakeFails(n) \/ Ends(n)
  <2>1. FINISH_PROCESS(n)
    BY <1>8 DEF HandshakeFails, Ends
  <2>2. Sockets' /\ Turns' /\ Unused' /\ FiledUnderOwner'
    BY <1>2, <2>1, DaemonCloses DEF FINISH_PROCESS
  <2>3. QED BY <1>1, <1>3, <2>2 DEF SInv
<1>9. CASE SendFails(n) \/ AckFails(n)
  <2>1. RECONNECT(n) /\ dpc[n] \notin {"connect", "exit"}
    BY <1>9 DEF SendFails, AckFails
  <2>2. sock[n] # "none"
    BY <2>1 DEF SInv, SysTypeOK
  <2>3. Sockets' /\ Turns' /\ Unused' /\ FiledUnderOwner'
    BY <1>2, <2>1, <2>2, DaemonCloses DEF RECONNECT
  <2>4. QED BY <1>1, <1>3, <2>3 DEF SInv
<1>10. CASE DaemonStarts(n)
  <2>1. /\ sock[n] = "none" /\ dpc' = [dpc EXCEPT ![n] = "connect"]
        /\ sock' = sock /\ chan' = chan
    BY <1>10 DEF DaemonStarts, SInv, SysTypeOK
  <2>2. sock' = [sock EXCEPT ![n] = "none"]
    BY <2>1 DEF SInv, SysTypeOK
  <2>3. Sockets' /\ Turns' /\ Unused' /\ FiledUnderOwner'
    BY <1>2, <2>1, <2>2, DaemonCloses
  <2>4. QED BY <1>1, <1>3, <2>3 DEF SInv
<1>11. QED
  BY <1>4, <1>5, <1>6, <1>7, <1>8, <1>9, <1>10 DEF Daemon

-----------------------------------------------------------------------------
(* Steps of the server.                                                     *)

\* A step that leaves the daemons and the connections alone, and opens nothing
\* again.
LEMMA ConnectionsKept ==
  ASSUME SInv, chan' = chan, sock' = sock, dpc' = dpc,
         \A d \in Collectors : fd'[d] # "closed" => fd[d] # "closed"
  PROVE  Sockets' /\ Turns'
<1>1. \A d \in Collectors : InUse(d)' => InUse(d)
  BY Zenon DEF InUse
<1>2. Sockets'
  BY Zenon DEF SInv, Sockets
<1>3. \A p \in Nodes : Sending(p)' <=> Sending(p)
  BY Zenon DEF Sending
<1>4. Turns'
  BY <1>1, <1>3, Zenon DEF SInv, Turns
<1>5. QED BY <1>2, <1>4

\* Of the server's state only the thread of c moves on, and its connection may
\* be closed.
LEMMA ThreadMoves ==
  ASSUME SInv, Fresh, NEW c \in Collectors, tpc[c] # "none", fd[c] # "none",
         UNCHANGED <<chan, sock, dpc, svc>>,
         \A d \in Collectors \ {c} : fd'[d] = fd[d] /\ tpc'[d] = tpc[d] /\ tnode'[d] = tnode[d],
         \A d \in Conns \ {c} : fd'[d] = fd[d],
         fd'[c] \in {fd[c], "closed"}, tnode'[c] \in {tnode[c], 0}, tpc'[c] # "store"
  PROVE  HelloOpen' /\ Sockets' /\ Turns' /\ Unused' /\ FiledUnderOwner'
<1>1. chan' = chan /\ sock' = sock /\ dpc' = dpc /\ svc' = svc
  OBVIOUS
<1>2. Sockets' /\ Turns'
  <2>1. \A d \in Collectors : fd'[d] # "closed" => fd[d] # "closed"
    OBVIOUS
  <2>2. QED BY <1>1, <2>1, ConnectionsKept
<1>3. HelloOpen'
  BY <1>1 DEF SInv, HelloOpen, Fresh
<1>4. Unused'
  BY <1>1 DEF SInv, Unused
<1>5. FiledUnderOwner'
  BY <1>1, Zenon DEF SInv, FiledUnderOwner
<1>6. QED BY <1>2, <1>3, <1>4, <1>5

\* The receiver threads, when nothing is read.
LEMMA ReceiverSInv ==
  ASSUME IInv, Fresh, SInv, NEW c \in Collectors,
         SysRecvWait(c) \/ SysRecvEof(c) \/ SysRecvRuns(c)
  PROVE  HelloOpen' /\ Sockets' /\ Turns' /\ Unused' /\ FiledUnderOwner'
<1>1. c \in Conns
  BY NoneIsNoConnection
<1>2. UNCHANGED <<chan, sock, dpc>>
  BY DEF SysRecvWait, SysRecvEof, SysRecvRuns, daemonvars
<1>3. \/ RecvTimeout(c) \/ RecvEnds(c, TRUE) \/ RecvEnds(c, FALSE)
      \/ RecvStart(c) \/ RecvStore(c) \/ RecvExit(c)
  BY DEF SysRecvWait, SysRecvEof, SysRecvRuns
<1>4. tpc[c] # "none" /\ fd[c] # "none"
  BY <1>1, <1>3 DEF RecvTimeout, RecvEnds, RecvStart, RecvStore, RecvExit, Fresh
<1>5. /\ tpc \in [Conns -> {"none", "start", "exit", "rtd", "gone"} \cup RecvLive \cup RtdLive]
      /\ tnode \in [Conns -> Nodes \cup {0}] /\ fd \in [Conns -> {"none", "open", "closed"}]
  BY DEF IInv, TypeOK, ThreadType, ServiceType
<1>6. /\ svc' = svc
      /\ \A d \in Conns \ {c} : fd'[d] = fd[d] /\ tpc'[d] = tpc[d] /\ tnode'[d] = tnode[d]
      /\ fd'[c] \in {fd[c], "closed"} /\ tnode'[c] \in {tnode[c], 0} /\ tpc'[c] # "store"
  BY <1>1, <1>3, <1>5 DEF RecvTimeout, RecvEnds, RecvStart, RecvStore, RecvExit, connvars
<1>7. \A d \in Collectors \ {c} : d \in Conns \ {c}
  BY NoneIsNoConnection
<1>8. QED BY <1>2, <1>4, <1>6, <1>7, ThreadMoves

\* A connection with a peer belongs to a node.
LEMMA Owned ==
  ASSUME SInv, NEW c \in Collectors, fd[c] # "none" \/ chan[c].up # <<>> \/ chan[c].node # 0
  PROVE  chan[c].node \in Nodes /\ chan[c] \in Connections
<1>1. chan[c].node # 0
  BY DEF SInv, Unused, NewChan
<1>2. QED BY <1>1 DEF SInv, SysTypeOK, Connections

\* What has arrived is read, in part or as a whole, and acknowledged.
LEMMA ReadSInv ==
  ASSUME IInv, Fresh, SInv, NEW c \in Collectors, SysRecvData(c)
  PROVE  HelloOpen' /\ Sockets' /\ Turns' /\ Unused' /\ FiledUnderOwner'
<1> DEFINE w == ToDaemon(c, "ack")
<1>0. PICK u \in Seq(Messages), s \in Nat :
        /\ chan[c].up # <<>>
        /\ chan' = [chan EXCEPT ![c].up = u, ![c].down = w, ![c].splits = s]
        /\ Len(u) + 1 + chan[c].splits <= Len(chan[c].up) + s
  BY RecvTakes DEF SInv
<1>1. chan[c].up # <<>> /\ tpc[c] = "recv"
  BY <1>0 DEF SysRecvData, RecvData
<1>2. /\ fd' = fd /\ tnode' = tnode /\ svc' = svc /\ sock' = sock /\ dpc' = dpc
      /\ tpc' = [tpc EXCEPT ![c] = "store"]
  BY DEF SysRecvData, RecvData, connvars
<1>3. PICK n \in Nodes : chan[c].node = n
  BY <1>1, Owned
<1>4. chan[c] \in Connections /\ w \in Seq(Answers) /\ Len(w) \in 0..(Len(chan[c].down) + 1)
  BY MessageTypes, MessageMoves, MessageNames DEF SInv, SysTypeOK
<1> HIDE DEF w
<1> DEFINE ch == [chan[c] EXCEPT !.up = u, !.down = w, !.splits = s]
<1>5. chan' = [chan EXCEPT ![c] = ch]
  BY <1>0 DEF SInv, SysTypeOK
<1>6. /\ ch \in Connections /\ ch.up = u /\ ch.down = w /\ ch.splits = s
      /\ ch.node = chan[c].node /\ ch.closed = chan[c].closed /\ ch.reset = chan[c].reset
  BY <1>4 DEF Connections
<1> HIDE DEF ch
<1>7. chan'[c] = ch /\ \A d \in Collectors \ {c} : chan'[d] = chan[d]
  BY <1>5 DEF SInv, SysTypeOK
<1>8. InUse(c)' => InUse(c)
  BY <1>2, <1>6, <1>7, Zenon DEF InUse
<1>9. ASSUME InUse(c) PROVE Within(ch) /\ (sock[n] = c /\ Sending(n) => Slack(ch))
  <2>1. Within(chan[c]) /\ (sock[n] = c /\ Sending(n) => Slack(chan[c]))
    BY <1>9, Zenon DEF SInv, Turns
  <2>2. /\ Len(chan[c].up) \in Nat /\ Len(chan[c].down) \in Nat /\ chan[c].splits \in Nat
        /\ Len(u) \in Nat
    BY MessageMoves DEF SInv
  <2> DEFINE a == Len(chan[c].up)
             b == Len(chan[c].down)
             k == chan[c].splits
             x == Len(u)
             y == Len(w)
  <2>3. /\ a \in Nat /\ b \in Nat /\ k \in Nat /\ x \in Nat /\ y \in 0..(b + 1)
        /\ x + 1 + k <= a + s
    BY <1>0, <1>4, <2>2, Zenon
  <2>4. /\ Within(chan[c]) <=> a + b <= 1 + k
        /\ Slack(chan[c]) <=> a + b <= k
        /\ Within(ch) <=> x + y <= 1 + s
        /\ Slack(ch) <=> x + y <= s
    BY <1>6, Zenon DEF Within, Slack
  <2> HIDE DEF a, b, k, x, y
  <2>5. (a + b <= 1 + k => x + y <= 1 + s) /\ (a + b <= k => x + y <= s)
    BY <2>3
  <2>6. QED BY <2>1, <2>4, <2>5, Zenon
<1>10. Sending(n)' <=> Sending(n)
  BY <1>2, Zenon DEF Sending
<1>11. Sockets' /\ Turns'
  BY <1>2, <1>3, <1>5, <1>6, <1>8, <1>9, <1>10, OneConnection
<1>12. HelloOpen'
  BY <1>2 DEF SInv, HelloOpen
<1>13. n # 0
  BY ServerConstants DEF Nodes
<1>14. Unused'
  BY <1>2, <1>3, <1>6, <1>7, <1>13, Zenon DEF SInv, Unused
<1>15. FiledUnderOwner'
  <2>1. tnode[c] \in {0, chan[c].node}
    BY <1>1, Zenon DEF SInv, FiledUnderOwner
  <2>2. \A d \in Collectors \ {c} : tpc'[d] = tpc[d]
    BY <1>2, NoneIsNoConnection DEF IInv, TypeOK, ThreadType
  <2>3. QED BY <1>2, <1>6, <1>7, <2>1, <2>2, Zenon DEF SInv, FiledUnderOwner
<1>16. QED BY <1>11, <1>12, <1>14, <1>15

\* The handshake: of a hello that was read, or at end of file of a hello left
\* behind by an earlier connection.
LEMMA HandshakeSInv ==
  ASSUME IInv, Fresh, SInv, NEW c \in Collectors, SysHandshake(c)
  PROVE  HelloOpen' /\ Sockets' /\ Turns' /\ Unused' /\ FiledUnderOwner'
<1> DEFINE h == HelloRead(c)
           refuse == h.type = "post" /\ status[h.node] = "ACTIVE"
           u == IF chan[c].up = <<>> THEN chan[c].up ELSE Tail(chan[c].up)
           w == IF h.type = "post" /\ ~refuse THEN ToDaemon(c, "ok") ELSE chan[c].down
           ch == [chan[c] EXCEPT !.up = u, !.down = w, !.refused = refuse]
<1>1. /\ svc.pc = "hello" /\ svc.conn = c /\ sock' = sock /\ dpc' = dpc
      /\ chan[c].up # <<>> \/ ServerSeesEof(c)
      /\ Rejected(c, h) \/ StartRecv(c, h) \/ StartFails(c, h) \/ UnknownHello(c, h)
  BY DEF SysHandshake
<1>2. fd[c] = "open" /\ c \in Conns
  BY <1>1, NoneIsNoConnection DEF SInv, HelloOpen
<1>3. PICK n \in Nodes : chan[c].node = n
  BY <1>2, Owned
<1>4. chan' = [chan EXCEPT ![c] = ch]
  BY DEF SysHandshake, SInv, SysTypeOK
<1>5. /\ chan[c] \in Connections /\ refuse \in BOOLEAN
      /\ u \in Seq(Messages) /\ w \in Seq(Answers)
  <2>1. chan[c] \in Connections /\ refuse \in BOOLEAN
    BY DEF SInv, SysTypeOK
  <2>2. chan[c].up \in Seq(Messages) /\ chan[c].down \in Seq(Answers)
    BY <2>1 DEF Connections
  <2>3. /\ ToDaemon(c, "ok") \in Seq(Answers)
        /\ chan[c].up # <<>> => Tail(chan[c].up) \in Seq(Messages)
    BY MessageTypes, MessageNames DEF SInv
  <2>4. QED BY <2>1, <2>2, <2>3, Zenon
<1>6. h.node = chan[c].node \/ chan[c].up = <<>>
  BY DEF HelloRead
<1> HIDE DEF h, refuse
<1>7. chan[c].up # <<>> => u = Tail(chan[c].up) /\ w \in {ToDaemon(c, "ok"), chan[c].down}
  OBVIOUS
<1>8. chan[c].up = <<>> => u = <<>> /\ w = chan[c].down /\ chan[c].closed
  <2>1. chan[c].up = <<>> => chan[c].closed
    BY <1>1, Zenon DEF ServerSeesEof
  <2>2. chan[c].closed => ToDaemon(c, "ok") = chan[c].down
    BY Zenon DEF ToDaemon
  <2>3. QED BY <2>1, <2>2, Zenon
<1> HIDE DEF u, w
<1>9. /\ ch \in Connections /\ ch.up = u /\ ch.down = w /\ ch.splits = chan[c].splits
      /\ ch.node = chan[c].node /\ ch.closed = chan[c].closed /\ ch.reset = chan[c].reset
  BY <1>5 DEF Connections
<1> HIDE DEF ch
<1>10. chan'[c] = ch /\ \A d \in Collectors \ {c} : chan'[d] = chan[d]
  BY <1>4 DEF SInv, SysTypeOK
<1>11. /\ svc'.pc = "accept" /\ fd'[c] \in {"open", "closed"}
       /\ \A d \in Collectors \ {c} : fd'[d] = fd[d]
  <2>1. NextAccept(c, "open") \/ NextAccept(c, "closed")
    BY <1>1 DEF Rejected, StartRecv, StartFails, UnknownHello
  <2>2. QED BY <1>2, <2>1, NoneIsNoConnection DEF NextAccept, IInv, TypeOK, ServiceType
<1>12. InUse(c)' => InUse(c)
  BY <1>2, <1>9, <1>10, Zenon DEF InUse
<1>13. Sending(n)' <=> Sending(n)
  BY <1>1, Zenon DEF Sending
<1>14. ASSUME InUse(c) PROVE Within(ch) /\ (sock[n] = c /\ Sending(n) => Slack(ch))
  <2>1. Within(chan[c]) /\ (sock[n] = c /\ Sending(n) => Slack(chan[c]))
    BY <1>14, Zenon DEF SInv, Turns
  <2>2. CASE chan[c].up # <<>>
    <3>1. /\ Len(u) = Len(chan[c].up) - 1 /\ Len(w) \in 0..(Len(chan[c].down) + 1)
          /\ Len(chan[c].up) \in Nat /\ Len(chan[c].down) \in Nat /\ chan[c].splits \in Nat
      BY <1>7, <2>2, MessageMoves DEF SInv
    <3> DEFINE a == Len(chan[c].up)
               b == Len(chan[c].down)
               k == chan[c].splits
               x == Len(u)
               y == Len(w)
    <3>2. a \in Nat /\ b \in Nat /\ k \in Nat /\ x = a - 1 /\ y \in 0..(b + 1)
      BY <3>1, Zenon
    <3>3. /\ Within(chan[c]) <=> a + b <= 1 + k
          /\ Slack(chan[c]) <=> a + b <= k
          /\ Within(ch) <=> x + y <= 1 + k
          /\ Slack(ch) <=> x + y <= k
      BY <1>9, Zenon DEF Within, Slack
    <3> HIDE DEF a, b, k, x, y
    <3>4. (a + b <= 1 + k => x + y <= 1 + k) /\ (a + b <= k => x + y <= k)
      BY <3>2
    <3>5. QED BY <2>1, <3>3, <3>4, Zenon
  <2>3. CASE chan[c].up = <<>>
    <3>1. ch.up = chan[c].up /\ ch.down = chan[c].down /\ ch.splits = chan[c].splits
      BY <1>8, <1>9, <2>3, Zenon
    <3>2. QED BY <2>1, <3>1, Zenon DEF Within, Slack
  <2>4. QED BY <2>2, <2>3
<1>15. Sockets' /\ Turns'
  BY <1>1, <1>3, <1>4, <1>9, <1>11, <1>12, <1>13, <1>14, OneConnection
<1>16. HelloOpen'
  BY <1>11 DEF HelloOpen
<1>17. /\ \A d \in Collectors \ {c} : tnode'[d] = tnode[d] /\ tpc'[d] = tpc[d]
       /\ tpc'[c] \in {"none", "start"} /\ tnode'[c] \in {tnode[c], h.node}
  <2>1. tpc[c] = "none"
    BY <1>1 DEF Fresh
  <2>2. CASE StartRecv(c, h)
    BY <1>2, <2>2, NoneIsNoConnection DEF StartRecv, IInv, TypeOK, ThreadType
  <2>3. CASE Rejected(c, h) \/ StartFails(c, h) \/ UnknownHello(c, h)
    BY <2>1, <2>3 DEF Rejected, StartFails, UnknownHello, thrvars
  <2>4. QED BY <1>1, <2>2, <2>3
<1>18. n # 0
  BY ServerConstants DEF Nodes
<1>19. Unused'
  <2>1. fd'[c] # "none"
    BY <1>11
  <2>2. QED BY <1>3, <1>9, <1>10, <1>11, <1>17, <1>18, <2>1, Zenon DEF SInv, Unused
<1>20. FiledUnderOwner'
  <2>1. ASSUME tnode'[c] \notin {0, chan[c].node}
        PROVE  chan[c].closed /\ u = <<>> /\ tpc'[c] # "store"
    <3>1. tnode'[c] = h.node => chan[c].closed /\ u = <<>>
      BY <1>6, <1>8, <2>1, Zenon
    <3>2. tnode'[c] = tnode[c] => chan[c].closed /\ chan[c].up = <<>>
      BY <2>1, Zenon DEF SInv, FiledUnderOwner
    <3>3. tpc'[c] # "store"
      BY <1>17
    <3>4. QED BY <1>8, <1>17, <3>1, <3>2, <3>3, Zenon
  <2>2. QED BY <1>9, <1>10, <1>17, <2>1, Zenon DEF SInv, FiledUnderOwner
<1>21. QED BY <1>15, <1>16, <1>19, <1>20

\* A connection breaks.
LEMMA BreakSInv ==
  ASSUME SInv, NEW c \in Collectors, Break(c)
  PROVE  HelloOpen' /\ Sockets' /\ Turns' /\ Unused' /\ FiledUnderOwner'
<1>1. UNCHANGED <<fd, tpc, tnode, svc>> /\ sock' = sock /\ dpc' = dpc
  BY DEF Break, vars, connvars, thrvars
<1>2. PICK n \in Nodes : chan[c].node = n
  BY Owned DEF Break
<1> DEFINE ch == [chan[c] EXCEPT !.broken = TRUE, !.up = <<>>, !.down = <<>>]
<1>3. chan' = [chan EXCEPT ![c] = ch] /\ chan[c] \in Connections
  BY DEF Break, SInv, SysTypeOK
<1>4. <<>> \in Seq(Messages) /\ <<>> \in Seq(Answers)
  OBVIOUS
<1>5. /\ ch \in Connections /\ ch.up = <<>> /\ ch.down = <<>>
      /\ ch.node = chan[c].node /\ ch.closed = chan[c].closed /\ ch.reset = chan[c].reset
  BY <1>3, <1>4 DEF Connections
<1> HIDE DEF ch
<1>6. Slack(ch) /\ Within(ch)
  <2>1. Slack(ch)
    BY <1>5 DEF Slack, Connections
  <2>2. QED BY <1>5, <2>1, SlackIsWithin
<1>7. HelloOpen'
  BY <1>1 DEF SInv, HelloOpen
<1>8. QED BY <1>1, <1>2, <1>3, <1>5, <1>6, <1>7, DaemonConnection

\* accept returns a connection, fails for one its peer has closed, or the
\* handshake times out.
LEMMA AcceptSInv ==
  ASSUME IInv, SInv, NEW c \in Collectors,
         SysAccept(c) \/ SysAcceptAborted(c) \/ SysHelloTimeout(c)
  PROVE  HelloOpen' /\ Sockets' /\ Turns' /\ Unused' /\ FiledUnderOwner'
<1>1. sock' = sock /\ dpc' = dpc /\ tpc' = tpc /\ tnode' = tnode
  BY DEF SysAccept, SysAcceptAborted, SysHelloTimeout, Accept, AcceptAborted, HelloFails,
         daemonvars, thrvars
<1>2. svc \in [pc : {"accept", "hello", "dead"}, conn : Conns \cup {"none"}, recovery : Nat]
  BY DEF IInv, TypeOK, ServiceType
<1>3. CASE SysAccept(c)
  <2>1. /\ chan' = chan /\ fd[c] = "none" /\ fd' = [fd EXCEPT ![c] = "open"]
        /\ chan[c].node # 0 /\ svc'.conn = c
    BY <1>2, <1>3 DEF SysAccept, Accept, Queued, daemonvars
  <2>2. fd'[c] = "open" /\ \A d \in Collectors \ {c} : fd'[d] = fd[d]
    BY <2>1, NoneIsNoConnection DEF IInv, TypeOK, ServiceType
  <2>3. HelloOpen'
    BY <2>1, <2>2 DEF HelloOpen
  <2>4. \A d \in Collectors : fd'[d] # "closed" => fd[d] # "closed"
    BY <2>1, <2>2
  <2>5. Sockets' /\ Turns'
    BY <1>1, <2>1, <2>4, ConnectionsKept
  <2>6. Unused'
    BY <1>1, <2>1, <2>2 DEF SInv, Unused
  <2>7. FiledUnderOwner'
    BY <1>1, <2>1, Zenon DEF SInv, FiledUnderOwner
  <2>8. QED BY <2>3, <2>5, <2>6, <2>7
<1>4. CASE SysAcceptAborted(c)
  <2>1. fd' = fd /\ svc'.pc # "hello" /\ chan[c].node # 0
    BY <1>2, <1>4 DEF SysAcceptAborted, AcceptAborted, ServiceReturns, Queued
  <2>2. PICK n \in Nodes : chan[c].node = n
    BY <2>1, Owned
  <2> DEFINE ch == [chan[c] EXCEPT !.reset = TRUE]
  <2>3. chan' = [chan EXCEPT ![c] = ch] /\ chan[c] \in Connections
    BY <1>4 DEF SysAcceptAborted, SInv, SysTypeOK
  <2>4. /\ ch \in Connections /\ ch.up = chan[c].up /\ ch.reset
        /\ ch.node = chan[c].node /\ ch.closed = chan[c].closed
    BY <2>3 DEF Connections
  <2> HIDE DEF ch
  <2>5. chan'[c] = ch /\ \A d \in Collectors \ {c} : chan'[d] = chan[d]
    BY <2>3 DEF SInv, SysTypeOK
  <2>6. ~InUse(c)'
    BY <2>4, <2>5, Zenon DEF InUse
  <2>7. Sockets' /\ Turns'
    BY <1>1, <2>1, <2>2, <2>3, <2>4, <2>6, OneConnection
  <2>8. HelloOpen'
    BY <2>1 DEF HelloOpen
  <2>9. Unused'
    BY <1>1, <2>1, <2>4, <2>5, Zenon DEF SInv, Unused
  <2>10. FiledUnderOwner'
    BY <1>1, <2>4, <2>5, Zenon DEF SInv, FiledUnderOwner
  <2>11. QED BY <2>7, <2>8, <2>9, <2>10
<1>5. CASE SysHelloTimeout(c)
  <2>1. chan' = chan /\ fd' = fd /\ svc'.pc # "hello"
    BY <1>2, <1>5 DEF SysHelloTimeout, HelloFails, ServiceReturns, daemonvars
  <2>2. Sockets' /\ Turns'
    BY <1>1, <2>1, ConnectionsKept
  <2>3. HelloOpen' /\ Unused'
    BY <1>1, <2>1 DEF SInv, HelloOpen, Unused
  <2>4. FiledUnderOwner'
    BY <1>1, <2>1, Zenon DEF SInv, FiledUnderOwner
  <2>5. QED BY <2>2, <2>3, <2>4
<1>6. QED BY <1>3, <1>4, <1>5

\* accept fails, the server's process ends, and is started again.
LEMMA ProcessSInv ==
  ASSUME IInv, SInv, SysAcceptFails \/ SysServerExits \/ SysRestart
  PROVE  HelloOpen' /\ Sockets' /\ Turns' /\ Unused' /\ FiledUnderOwner'
<1>1. sock' = sock /\ dpc' = dpc
  BY DEF SysAcceptFails, SysServerExits, SysRestart
<1>2. CASE SysServerExits
  <2>1. fd' = fd /\ tpc' = tpc /\ tnode' = tnode /\ svc' = svc
    BY <1>2 DEF SysServerExits, DbConnect, connvars, thrvars
  <2>2. ASSUME NEW d \in Collectors
        PROVE  /\ chan[d].node = 0 => chan'[d] = chan[d] /\ chan[d] = NewChan
               /\ chan[d].node # 0 => chan'[d].reset
               /\ chan'[d].node = chan[d].node /\ chan'[d].up = chan[d].up
               /\ chan'[d].closed = chan[d].closed
    <3>1. chan[d] \in Connections /\ (chan[d].node = 0 => chan[d] = NewChan)
      BY <2>2 DEF SInv, SysTypeOK, Unused
    <3>2. chan'[d] = IF chan[d].node # 0 THEN [chan[d] EXCEPT !.reset = TRUE] ELSE chan[d]
      BY <1>2, <2>2 DEF SysServerExits
    <3>3. QED BY <3>1, <3>2 DEF Connections
  <2>3. HelloOpen'
    BY <2>1 DEF SInv, HelloOpen
  <2>4. Unused'
    BY <2>1, <2>2, Zenon DEF SInv, Unused
  <2>5. FiledUnderOwner'
    BY <2>1, <2>2, Zenon DEF SInv, FiledUnderOwner
  <2>6. Sockets'
    <3>1. ASSUME NEW p \in Nodes, sock'[p] # "none"
          PROVE  chan'[sock'[p]].node = p /\ ~chan'[sock'[p]].closed
      <4>1. PICK d \in Collectors : d = sock[p] /\ d = sock'[p]
        BY <1>1, <3>1 DEF SInv, SysTypeOK
      <4>2. chan[d].node = p /\ ~chan[d].closed
        BY <3>1, <4>1, Zenon DEF SInv, Sockets
      <4>3. QED BY <2>2, <4>1, <4>2, Zenon
    <3>2. \A d \in Collectors : chan'[d].node # 0 /\ ~chan'[d].closed => sock[chan'[d].node] = d
      BY <2>2, Zenon DEF SInv, Sockets
    <3>3. QED BY <1>1, <3>1, <3>2, Zenon DEF Sockets
  <2>7. Turns'
    <3>1. \A d \in Collectors : InUse(d)' => chan'[d] = NewChan
      BY <2>2, Zenon DEF InUse
    <3>2. Slack(NewChan) /\ Within(NewChan)
      BY DEF NewChan, Slack, Within
    <3>3. QED BY <3>1, <3>2, Zenon DEF Turns
  <2>8. QED BY <2>3, <2>4, <2>5, <2>6, <2>7
<1>3. CASE SysRestart
  <2>1. /\ chan' = chan /\ svc' = FreshService
        /\ fd' = [d \in Conns |-> IF fd[d] = "none" THEN "none" ELSE "closed"]
        /\ tnode' = [d \in Conns |-> 0]
    BY <1>3 DEF SysRestart, Restart
  <2>2. \A d \in Collectors : /\ fd'[d] = IF fd[d] = "none" THEN "none" ELSE "closed"
                              /\ tnode'[d] = 0
    BY <2>1, NoneIsNoConnection
  <2>3. Sockets' /\ Turns'
    <3>1. \A d \in Collectors : fd'[d] # "closed" => fd[d] # "closed"
      BY <2>2
    <3>2. QED BY <1>1, <2>1, <3>1, ConnectionsKept
  <2>4. HelloOpen'
    BY <2>1 DEF HelloOpen, FreshService
  <2>5. Unused'
    BY <2>1, <2>2 DEF SInv, Unused
  <2>6. FiledUnderOwner'
    BY <2>2 DEF FiledUnderOwner
  <2>7. QED BY <2>3, <2>4, <2>5, <2>6
<1>4. CASE SysAcceptFails
  <2>1. /\ fd' = fd /\ tpc' = tpc /\ tnode' = tnode /\ chan' = chan
        /\ svc' = [svc EXCEPT !.pc = "dead"]
    BY <1>4 DEF SysAcceptFails, AcceptFails, ServiceReturns, thrvars
  <2>2. HelloOpen'
    BY <2>1 DEF HelloOpen, IInv, TypeOK, ServiceType
  <2>3. Sockets' /\ Turns'
    BY <1>1, <2>1, ConnectionsKept
  <2>4. Unused'
    BY <2>1 DEF SInv, Unused
  <2>5. FiledUnderOwner'
    BY <2>1, Zenon DEF SInv, FiledUnderOwner
  <2>6. QED BY <2>2, <2>3, <2>4, <2>5
<1>5. QED BY <1>2, <1>3, <1>4

-----------------------------------------------------------------------------
(* The theorems.                                                            *)

\* A step of the whole system keeps the invariant, given the server's own.
LEMMA SysNextSInv == IInv /\ TInv /\ SInv /\ [SysNext]_sysvars => SInv'
<1> SUFFICES ASSUME IInv, TInv, SInv, [SysNext]_sysvars PROVE SInv'
  OBVIOUS
<1>1. SysTypeOK' /\ Fresh
  BY SysNextType DEF SInv, TInv
<1>2. ASSUME NEW n \in Nodes, Daemon(n) PROVE SInv'
  BY <1>2, DaemonSInv
<1>3. ASSUME NEW c \in Collectors, Break(c) PROVE SInv'
  BY <1>1, <1>3, BreakSInv DEF SInv
<1>4. ASSUME NEW c \in Collectors, SysAccept(c) \/ SysAcceptAborted(c) \/ SysHelloTimeout(c)
      PROVE  SInv'
  BY <1>1, <1>4, AcceptSInv DEF SInv
<1>5. ASSUME NEW c \in Collectors, SysHandshake(c) PROVE SInv'
  BY <1>1, <1>5, HandshakeSInv DEF SInv
<1>6. ASSUME NEW c \in Collectors, SysRecvData(c) PROVE SInv'
  BY <1>1, <1>6, ReadSInv DEF SInv
<1>7. ASSUME NEW c \in Collectors, SysRecvWait(c) \/ SysRecvEof(c) \/ SysRecvRuns(c) PROVE SInv'
  BY <1>1, <1>7, ReceiverSInv DEF SInv
<1>8. CASE SysAcceptFails \/ SysServerExits \/ SysRestart
  BY <1>1, <1>8, ProcessSInv DEF SInv
<1>9. CASE UNCHANGED sysvars
  <2>1. /\ chan' = chan /\ sock' = sock /\ dpc' = dpc /\ fd' = fd /\ svc' = svc
        /\ tpc' = tpc /\ tnode' = tnode
    BY <1>9 DEF sysvars, daemonvars, vars, connvars, thrvars
  <2>2. Sockets' /\ Turns'
    BY <2>1, ConnectionsKept
  <2>3. HelloOpen' /\ Unused'
    BY <2>1 DEF SInv, HelloOpen, Unused
  <2>4. FiledUnderOwner'
    BY <2>1, Zenon DEF SInv, FiledUnderOwner
  <2>5. QED BY <1>1, <2>2, <2>3, <2>4 DEF SInv
<1>10. QED
  BY <1>2, <1>3, <1>4, <1>5, <1>6, <1>7, <1>8, <1>9 DEF SysNext

\* The inductive invariant of the composition: who owns a connection, whom its
\* receiver serves and whose turn it is to send.
THEOREM SysInductive == SysSpec => []SInv
<1>1. SysSpec => [](IInv /\ TInv)
  BY ServerSpecHolds, Inductive, ThreadsInductive, PTL
<1>2. QED BY <1>1, SysInitSInv, SysNextSInv, PTL DEF SysSpec

\* A daemon is ahead of the server's reads by no more messages than recvs have
\* ended inside one, however many connections break, time out or are opened again.
THEOREM AheadBounded == SysSpec => []AheadBySplits
<1>1. SInv => AheadBySplits
  BY Zenon DEF SInv, Turns, InUse, Within, AheadBySplits
<1>2. QED BY <1>1, SysInductive, PTL

\* No sample is filed under a node that did not send it.
THEOREM SamplesFiled == SysSpec => []FiledUnderOwner
<1>1. SInv => FiledUnderOwner
  BY DEF SInv
<1>2. QED BY <1>1, SysInductive, PTL

\* Two connections of one node that are both open to their daemon are one.
LEMMA OpenIsUnique ==
  ASSUME SInv, NEW c \in Collectors, NEW d \in Collectors,
         chan[c].node = chan[d].node, chan[c].node # 0, ~chan[c].closed, ~chan[d].closed
  PROVE  c = d
<1>1. sock[chan[c].node] = c /\ sock[chan[d].node] = d
  BY Zenon DEF SInv, Sockets
<1>2. QED BY <1>1

\* No two receivers of a node both have a peer.
THEOREM OneUsable == SysSpec => []OneUsableReceiver
<1>1. SInv => OneUsableReceiver
  <2> SUFFICES ASSUME SInv, NEW c \in Collectors, NEW d \in Collectors, c # d,
                      tnode[c] = tnode[d], tnode[c] # 0, ~Abandoned(c), ~Abandoned(d)
               PROVE  FALSE
    BY Zenon DEF OneUsableReceiver
  <2>1. ~chan[c].closed /\ ~chan[d].closed
    BY Zenon DEF Abandoned
  <2>2. tnode[c] = chan[c].node /\ tnode[d] = chan[d].node
    BY <2>1, Zenon DEF SInv, FiledUnderOwner
  <2>3. QED BY <2>1, <2>2, OpenIsUnique
<1>2. QED BY <1>1, SysInductive, PTL

\* The composition has no query clients.
NoQueries == \A q \in Conns \ Collectors : tpc[q] = "none"

\* No thread of the composition serves a query.
LEMMA NoQueriesAlways == SysSpec => []NoQueries
<1>1. SysInit => NoQueries
  BY DEF SysInit, Init, NoQueries
<1>2. ASSUME NoQueries, IInv, [SysNext]_sysvars PROVE NoQueries'
  <2>1. tpc \in [Conns -> {"none", "start", "exit", "rtd", "gone"} \cup RecvLive \cup RtdLive]
    BY <1>2 DEF IInv, TypeOK, ThreadType
  <2>2. ASSUME NEW n \in Nodes, Daemon(n) PROVE tpc' = tpc
    BY <2>2 DEF Daemon, Connect, SendHello, HandshakeSuccess, HandshakeFails, FINISH_PROCESS,
         SendSample, SendFails, RECONNECT, RecvAck, AckFails, AckEof, Ends, DaemonStarts,
         vars, thrvars
  <2>3. ASSUME NEW c \in Collectors,
             \/ Break(c) \/ SysAccept(c) \/ SysAcceptAborted(c) \/ SysHelloTimeout(c)
        PROVE  tpc' = tpc
    BY <2>3 DEF Break, SysAccept, SysAcceptAborted, SysHelloTimeout, Accept, AcceptAborted,
         HelloFails, vars, thrvars
  <2>4. ASSUME NEW c \in Collectors, SysHandshake(c)
        PROVE  tpc' = tpc \/ tpc' = [tpc EXCEPT ![c] = "start"]
    BY <2>4 DEF SysHandshake, Rejected, StartRecv, StartFails, UnknownHello, thrvars
  <2>5. ASSUME NEW c \in Collectors,
             \/ SysRecvData(c) \/ SysRecvWait(c) \/ SysRecvEof(c) \/ SysRecvRuns(c)
        PROVE  \A q \in Conns \ {c} : tpc'[q] = tpc[q]
    BY <2>1, <2>5 DEF SysRecvData, SysRecvWait, SysRecvEof, SysRecvRuns, RecvData, RecvTimeout,
         RecvEnds, RecvStart, RecvStore, RecvExit
  <2>6. CASE SysServerExits \/ SysAcceptFails
    BY <1>2, <2>6 DEF SysServerExits, SysAcceptFails, AcceptFails, DbConnect, thrvars, NoQueries
  <2>7. CASE SysRestart
    BY <1>2, <2>7 DEF SysRestart, Restart, NoQueries
  <2>8. CASE UNCHANGED sysvars
    BY <1>2, <2>8 DEF sysvars, vars, thrvars, NoQueries
  <2>9. ASSUME NEW c \in Collectors, \A q \in Conns \ {c} : tpc'[q] = tpc[q] PROVE NoQueries'
    BY <1>2, <2>9 DEF NoQueries
  <2>10. ASSUME tpc' = tpc PROVE NoQueries'
    BY <1>2, <2>10 DEF NoQueries
  <2>11. ASSUME NEW c \in Collectors, SysHandshake(c) PROVE NoQueries'
    BY <1>2, <2>1, <2>4, <2>11, NoneIsNoConnection DEF NoQueries
  <2>12. QED
    BY <1>2, <2>2, <2>3, <2>5, <2>6, <2>7, <2>8, <2>9, <2>10, <2>11 DEF SysNext
<1>3. SysSpec => []IInv
  BY ServerSpecHolds, Inductive, PTL
<1>4. QED BY <1>1, <1>2, <1>3, PTL DEF SysSpec

\* Bytes that move and ends that close leave the mark of a refusal as it is.
LEMMA RefusedKept ==
  ASSUME SysTypeOK, NEW c \in Collectors, NEW d, NEW u, NEW w, NEW s,
         \/ chan' = chan
         \/ chan' = [chan EXCEPT ![d].up = u]
         \/ chan' = [chan EXCEPT ![d].down = w]
         \/ chan' = [chan EXCEPT ![d].up = u, ![d].down = w, ![d].splits = s]
         \/ chan' = [chan EXCEPT ![d].closed = TRUE]
         \/ chan' = [chan EXCEPT ![d].reset = TRUE]
         \/ chan' = [chan EXCEPT ![d].broken = TRUE, ![d].up = u, ![d].down = w]
  PROVE  chan'[c].refused = chan[c].refused
<1>1. chan[c] \in Connections /\ DOMAIN chan = Collectors
  BY DEF SysTypeOK
<1>2. CASE chan' = [chan EXCEPT ![d].up = u]
  BY <1>1, <1>2 DEF Connections
<1>3. CASE chan' = [chan EXCEPT ![d].down = w]
  BY <1>1, <1>3 DEF Connections
<1>4. CASE chan' = [chan EXCEPT ![d].up = u, ![d].down = w, ![d].splits = s]
  BY <1>1, <1>4 DEF Connections
<1>5. CASE chan' = [chan EXCEPT ![d].closed = TRUE]
  BY <1>1, <1>5 DEF Connections
<1>6. CASE chan' = [chan EXCEPT ![d].reset = TRUE]
  BY <1>1, <1>6 DEF Connections
<1>7. CASE chan' = [chan EXCEPT ![d].broken = TRUE, ![d].up = u, ![d].down = w]
  BY <1>1, <1>7 DEF Connections
<1>8. QED BY <1>2, <1>3, <1>4, <1>5, <1>6, <1>7

\* A step that is not the handshake of connection c refuses no one there.
LEMMA OnlyHandshakeRefuses ==
  ASSUME SysTypeOK, SysNext \/ UNCHANGED sysvars, NEW c \in Collectors,
         ~chan[c].refused, chan'[c].refused
  PROVE  SysHandshake(c)
<1>1. ASSUME chan' = chan PROVE FALSE
  BY <1>1
<1>2. ASSUME NEW n \in Nodes, Daemon(n) PROVE chan'[c].refused = chan[c].refused
  <2>1. CASE HandshakeFails(n) \/ Ends(n)
    <3>1. chan' = chan \/ chan' = [chan EXCEPT ![sock[n]].closed = TRUE]
      BY <2>1 DEF HandshakeFails, Ends, FINISH_PROCESS
    <3>2. QED BY <3>1, RefusedKept, Zenon
  <2>2. CASE Connect(n)
    BY <2>2 DEF Connect, SysTypeOK, Connections
  <2>3. CASE SendHello(n) \/ SendSample(n)
    <3>1. \E u : chan' = [chan EXCEPT ![sock[n]].up = u]
      BY <2>3, Zenon DEF SendHello, SendSample
    <3>2. QED BY <3>1, RefusedKept, Zenon
  <2>4. CASE HandshakeSuccess(n) \/ RecvAck(n)
    <3>1. \E w : chan' = [chan EXCEPT ![sock[n]].down = w]
      BY <2>4, Zenon DEF HandshakeSuccess, RecvAck
    <3>2. QED BY <3>1, RefusedKept, Zenon
  <2>5. CASE SendFails(n) \/ AckFails(n)
    <3>1. chan' = [chan EXCEPT ![sock[n]].closed = TRUE]
      BY <2>5, Zenon DEF SendFails, AckFails, RECONNECT
    <3>2. QED BY <3>1, RefusedKept, Zenon
  <2>6. CASE AckEof(n) \/ DaemonStarts(n)
    BY <2>6 DEF AckEof, DaemonStarts
  <2>7. QED BY <1>2, <2>1, <2>2, <2>3, <2>4, <2>5, <2>6 DEF Daemon
<1>3. ASSUME NEW d \in Collectors, Break(d) \/ SysAcceptAborted(d) \/ SysRecvData(d)
      PROVE  chan'[c].refused = chan[c].refused
  <2>1. CASE Break(d)
    <3>1. chan' = [chan EXCEPT ![d].broken = TRUE, ![d].up = <<>>, ![d].down = <<>>]
      BY <2>1, Zenon DEF Break
    <3>2. QED BY <3>1, RefusedKept, Zenon
  <2>2. CASE SysAcceptAborted(d)
    <3>1. chan' = [chan EXCEPT ![d].reset = TRUE]
      BY <2>2, Zenon DEF SysAcceptAborted
    <3>2. QED BY <3>1, RefusedKept, Zenon
  <2>3. CASE SysRecvData(d)
    <3>1. PICK u, s : chan' = [chan EXCEPT ![d].up = u, ![d].down = ToDaemon(d, "ack"),
                                          ![d].splits = s]
      BY <2>3, RecvTakes
    <3>2. QED BY <3>1, RefusedKept, ZenonT(40)
  <2>4. QED BY <1>3, <2>1, <2>2, <2>3
<1>4. ASSUME NEW d \in Collectors, \/ SysAccept(d) \/ SysHelloTimeout(d) \/ SysRecvWait(d)
                                   \/ SysRecvEof(d) \/ SysRecvRuns(d)
      PROVE  chan' = chan
  BY <1>4 DEF SysAccept, SysHelloTimeout, SysRecvWait, SysRecvEof, SysRecvRuns, daemonvars
<1>5. ASSUME NEW d \in Collectors, SysHandshake(d), d # c PROVE chan'[c] = chan[c]
  BY <1>5 DEF SysHandshake, SysTypeOK
<1>6. CASE SysServerExits
  BY <1>6 DEF SysServerExits, SysTypeOK, Connections
<1>7. CASE SysAcceptFails \/ SysRestart \/ UNCHANGED sysvars
  BY <1>1, <1>7 DEF SysAcceptFails, SysRestart, sysvars, daemonvars
<1>8. QED
  BY <1>1, <1>2, <1>3, <1>4, <1>5, <1>6, <1>7, Zenon DEF SysNext

\* A daemon whose connection is in use is refused only on account of a receiver
\* whose own connection a daemon has abandoned.
THEOREM RefusalsExplained == SysSpec => RefusedForAbandoned
<1>1. ASSUME SInv, TInv, NoQueries, [SysNext]_sysvars, NEW c \in Collectors,
             ~chan[c].refused, chan'[c].refused, ~Abandoned(c)
      PROVE  \E d \in Collectors \ {c} :
                tpc[d] \in RecvLive /\ tnode[d] = chan[c].node /\ Abandoned(d)
  <2>1. SysHandshake(c)
    BY <1>1, OnlyHandshakeRefuses DEF SInv
  <2> DEFINE h == HelloRead(c)
  <2>2. svc.pc = "hello" /\ svc.conn = c /\ h.type = "post" /\ status[h.node] = "ACTIVE"
    <3>1. svc.pc = "hello" /\ svc.conn = c
      BY <2>1 DEF SysHandshake
    <3>2. chan'[c].refused = (h.type = "post" /\ status[h.node] = "ACTIVE")
      BY <1>1, <2>1 DEF SysHandshake, SInv, SysTypeOK, Connections
    <3>3. QED BY <1>1, <3>1, <3>2, Zenon
  <2>3. chan[c].up # <<>>
    BY <1>1, <2>1, Zenon DEF SysHandshake, ServerSeesEof, Abandoned
  <2>4. h.node = chan[c].node /\ chan[c].node \in Nodes
    BY <1>1, <2>3, Owned DEF HelloRead
  <2> HIDE DEF h
  <2>5. PICK d \in Conns : tpc[d] \in RecvLive /\ tnode[d] = chan[c].node
    BY <1>1, <2>2, <2>4 DEF TInv, ActiveHasReceiver
  <2>6. tpc[d] # "none" /\ tpc[c] = "none"
    BY <1>1, <2>2, <2>5 DEF TInv, Fresh, RecvLive
  <2>7. d \in Collectors /\ d # c
    BY <1>1, <2>6 DEF NoQueries
  <2>8. chan[c].node # 0
    BY <2>4, ServerConstants DEF Nodes
  <2>9. ASSUME ~Abandoned(d) PROVE FALSE
    <3>1. ~chan[c].closed /\ ~chan[d].closed
      BY <1>1, <2>9, Zenon DEF Abandoned
    <3>2. chan[d].node = chan[c].node
      BY <1>1, <2>5, <2>7, <2>8, <3>1, Zenon DEF SInv, FiledUnderOwner
    <3>3. QED BY <1>1, <2>7, <2>8, <3>1, <3>2, OpenIsUnique
  <2>10. QED BY <2>5, <2>7, <2>9
<1>2. ASSUME SInv, TInv, NoQueries, [SysNext]_sysvars
      PROVE  [\A c \in Collectors : ~chan[c].refused /\ chan'[c].refused /\ ~Abandoned(c) =>
                \E d \in Collectors \ {c} :
                   tpc[d] \in RecvLive /\ tnode[d] = chan[c].node /\ Abandoned(d)]_sysvars
  BY <1>1, <1>2, Zenon
<1>3. SysSpec => []TInv
  BY ServerSpecHolds, ThreadsInductive, PTL
<1>4. QED BY <1>2, <1>3, SysInductive, NoQueriesAlways, PTL DEF SysSpec, RefusedForAbandoned

-----------------------------------------------------------------------------
(* What ends the accept loop.                                               *)

\* The connections that were aborted in the queue.
Aborted == {c \in Collectors : fd[c] = "none" /\ chan[c].reset}

\* While the loop runs, each of recovery_times it has used up since the start
\* of the process is a connection that was aborted in the queue.
RecoverySpent ==
  svc.pc # "dead" => Cardinality(Aborted) >= NETWORK_RECOVERY_RETRY_TIMES - 1 - svc.recovery

\* A set of collectors has a size, and a larger one is not smaller.
LEMMA AbortedSize ==
  ASSUME NEW S \in SUBSET Collectors, NEW T \in SUBSET Collectors, S \subseteq T
  PROVE  /\ Cardinality(S) \in Nat /\ Cardinality(T) \in Nat /\ Cardinality(S) <= Cardinality(T)
         /\ \A c \in T \ S : Cardinality(T) >= Cardinality(S) + 1
<1>1. IsFiniteSet(S) /\ IsFiniteSet(T)
  BY ServerConstants, FS_Subset
<1>2. Cardinality(S) \in Nat /\ Cardinality(T) \in Nat /\ Cardinality(S) <= Cardinality(T)
  BY <1>1, FS_Subset, FS_CardinalityType
<1>3. ASSUME NEW c \in T \ S PROVE Cardinality(T) >= Cardinality(S) + 1
  <2>1. Cardinality(S \cup {c}) = Cardinality(S) + 1
    BY <1>1, <1>3, FS_AddElement
  <2>2. S \cup {c} \subseteq T
    BY <1>3
  <2>3. Cardinality(S \cup {c}) <= Cardinality(T)
    BY <1>1, <2>2, FS_Subset
  <2>4. QED BY <1>2, <2>1, <2>3
<1>4. QED BY <1>2, <1>3

\* Nothing repairs a connection that broke or was reset.
LEMMA DamageKept ==
  ASSUME SysTypeOK, NEW c \in Collectors, NEW d, NEW u, NEW w, NEW r, NEW s,
         \/ chan' = chan
         \/ chan' = [chan EXCEPT ![d].node = r]
         \/ chan' = [chan EXCEPT ![d].up = u]
         \/ chan' = [chan EXCEPT ![d].down = w]
         \/ chan' = [chan EXCEPT ![d].up = u, ![d].down = w, ![d].splits = s]
         \/ chan' = [chan EXCEPT ![d].up = u, ![d].down = w, ![d].refused = r]
         \/ chan' = [chan EXCEPT ![d].closed = TRUE]
         \/ chan' = [chan EXCEPT ![d].reset = TRUE]
         \/ chan' = [chan EXCEPT ![d].broken = TRUE, ![d].up = u, ![d].down = w]
  PROVE  (chan[c].reset => chan'[c].reset) /\ (chan[c].broken => chan'[c].broken)
<1>1. chan[c] \in Connections /\ DOMAIN chan = Collectors
  BY DEF SysTypeOK
<1>2. CASE chan' = [chan EXCEPT ![d].node = r]
  BY <1>1, <1>2 DEF Connections
<1>3. CASE chan' = [chan EXCEPT ![d].up = u]
  BY <1>1, <1>3 DEF Connections
<1>4. CASE chan' = [chan EXCEPT ![d].down = w]
  BY <1>1, <1>4 DEF Connections
<1>5. CASE chan' = [chan EXCEPT ![d].up = u, ![d].down = w, ![d].splits = s]
  BY <1>1, <1>5 DEF Connections
<1>6. CASE chan' = [chan EXCEPT ![d].up = u, ![d].down = w, ![d].refused = r]
  BY <1>1, <1>6 DEF Connections
<1>7. CASE chan' = [chan EXCEPT ![d].closed = TRUE]
  BY <1>1, <1>7 DEF Connections
<1>8. CASE chan' = [chan EXCEPT ![d].reset = TRUE]
  BY <1>1, <1>8 DEF Connections
<1>9. CASE chan' = [chan EXCEPT ![d].broken = TRUE, ![d].up = u, ![d].down = w]
  BY <1>1, <1>9 DEF Connections
<1>10. QED BY <1>2, <1>3, <1>4, <1>5, <1>6, <1>7, <1>8, <1>9

\* In every step of the system.
LEMMA DamageLasts ==
  ASSUME SysTypeOK, [SysNext]_sysvars, NEW c \in Collectors
  PROVE  (chan[c].reset => chan'[c].reset) /\ (chan[c].broken => chan'[c].broken)
<1>1. CASE chan' = chan
  BY <1>1
<1>2. ASSUME NEW n \in Nodes, Daemon(n)
      PROVE  (chan[c].reset => chan'[c].reset) /\ (chan[c].broken => chan'[c].broken)
  <2>1. CASE HandshakeFails(n) \/ Ends(n) \/ SendFails(n) \/ AckFails(n)
    <3>1. chan' = chan \/ chan' = [chan EXCEPT ![sock[n]].closed = TRUE]
      BY <2>1 DEF HandshakeFails, Ends, FINISH_PROCESS, SendFails, AckFails, RECONNECT
    <3>2. QED BY <3>1, DamageKept, Zenon
  <2>2. CASE Connect(n)
    <3>1. \E d : chan' = [chan EXCEPT ![d].node = n]
      BY <2>2, Zenon DEF Connect
    <3>2. QED BY <3>1, DamageKept, Zenon
  <2>3. CASE SendHello(n) \/ SendSample(n)
    <3>1. \E u : chan' = [chan EXCEPT ![sock[n]].up = u]
      BY <2>3, Zenon DEF SendHello, SendSample
    <3>2. QED BY <3>1, DamageKept, Zenon
  <2>4. CASE HandshakeSuccess(n) \/ RecvAck(n)
    <3>1. \E w : chan' = [chan EXCEPT ![sock[n]].down = w]
      BY <2>4, Zenon DEF HandshakeSuccess, RecvAck
    <3>2. QED BY <3>1, DamageKept, Zenon
  <2>5. CASE AckEof(n) \/ DaemonStarts(n)
    BY <2>5 DEF AckEof, DaemonStarts
  <2>6. QED BY <1>2, <2>1, <2>2, <2>3, <2>4, <2>5 DEF Daemon
<1>3. ASSUME NEW d \in Collectors,
             Break(d) \/ SysAcceptAborted(d) \/ SysRecvData(d) \/ SysHandshake(d)
      PROVE  (chan[c].reset => chan'[c].reset) /\ (chan[c].broken => chan'[c].broken)
  <2>1. CASE Break(d)
    <3>1. chan' = [chan EXCEPT ![d].broken = TRUE, ![d].up = <<>>, ![d].down = <<>>]
      BY <2>1, Zenon DEF Break
    <3>2. QED BY <3>1, DamageKept, Zenon
  <2>2. CASE SysAcceptAborted(d)
    <3>1. chan' = [chan EXCEPT ![d].reset = TRUE]
      BY <2>2, Zenon DEF SysAcceptAborted
    <3>2. QED BY <3>1, DamageKept, Zenon
  <2>3. CASE SysRecvData(d)
    <3>1. PICK u, s : chan' = [chan EXCEPT ![d].up = u, ![d].down = ToDaemon(d, "ack"),
                                          ![d].splits = s]
      BY <2>3, RecvTakes
    <3>2. QED BY <3>1, DamageKept, ZenonT(40)
  <2>4. CASE SysHandshake(d)
    BY <2>4 DEF SysHandshake, SysTypeOK, Connections
  <2>5. QED BY <1>3, <2>1, <2>2, <2>3, <2>4
<1>4. ASSUME NEW d \in Collectors, \/ SysAccept(d) \/ SysHelloTimeout(d) \/ SysRecvWait(d)
                                   \/ SysRecvEof(d) \/ SysRecvRuns(d)
      PROVE  chan' = chan
  BY <1>4 DEF SysAccept, SysHelloTimeout, SysRecvWait, SysRecvEof, SysRecvRuns, daemonvars
<1>5. CASE SysServerExits
  BY <1>5 DEF SysServerExits, SysTypeOK, Connections
<1>6. CASE SysAcceptFails \/ SysRestart \/ UNCHANGED sysvars
  BY <1>1, <1>6 DEF SysAcceptFails, SysRestart, sysvars, daemonvars
<1>7. QED BY <1>1, <1>2, <1>3, <1>4, <1>5, <1>6, Zenon DEF SysNext

\* No step but its own accept takes a connection out of the queue.
LEMMA QueueKept ==
  ASSUME IInv, Fresh, SysTypeOK, [SysNext]_sysvars, NEW c \in Collectors, fd[c] = "none",
         chan[c].reset
  PROVE  fd'[c] = "none"
<1>1. fd \in [Conns -> {"none", "open", "closed"}] /\ c \in Conns
  BY NoneIsNoConnection DEF IInv, TypeOK, ServiceType
<1>2. ASSUME fd' = fd PROVE fd'[c] = "none"
  BY <1>2
<1>3. ASSUME NEW n \in Nodes, Daemon(n) PROVE fd' = fd
  BY <1>3 DEF Daemon, Connect, SendHello, HandshakeSuccess, HandshakeFails, FINISH_PROCESS,
       SendSample, SendFails, RECONNECT, RecvAck, AckFails, AckEof, Ends, DaemonStarts,
       vars, connvars
<1>4. ASSUME NEW d \in Collectors, Break(d) \/ SysAcceptAborted(d) \/ SysHelloTimeout(d)
      PROVE  fd' = fd
  BY <1>4 DEF Break, SysAcceptAborted, SysHelloTimeout, AcceptAborted, HelloFails, vars, connvars
<1>5. ASSUME NEW d \in Collectors, SysAccept(d) PROVE fd'[c] = "none"
  <2>1. d # c /\ fd' = [fd EXCEPT ![d] = "open"]
    BY <1>5 DEF SysAccept, Queued, Accept
  <2>2. QED BY <1>1, <2>1
<1>6. ASSUME NEW d \in Collectors, SysHandshake(d) PROVE fd'[c] = "none"
  <2>1. d # c
    BY <1>6 DEF SysHandshake, Fresh
  <2>2. fd' = [fd EXCEPT ![d] = "closed"] \/ fd' = [fd EXCEPT ![d] = "open"]
    BY <1>6 DEF SysHandshake, Rejected, StartRecv, StartFails, UnknownHello, NextAccept
  <2>3. QED BY <1>1, <2>1, <2>2
<1>7. ASSUME NEW d \in Collectors,
             SysRecvData(d) \/ SysRecvWait(d) \/ SysRecvEof(d) \/ SysRecvRuns(d)
      PROVE  fd'[c] = "none"
  <2>1. tpc[c] = "none"
    BY <1>1 DEF Fresh
  <2>2. d # c /\ (fd' = fd \/ fd' = [fd EXCEPT ![d] = "closed"])
    BY <1>7, <2>1 DEF SysRecvData, SysRecvWait, SysRecvEof, SysRecvRuns, RecvData, RecvTimeout,
         RecvEnds, RecvStart, RecvStore, RecvExit, connvars
  <2>3. QED BY <1>1, <2>2
<1>8. CASE SysServerExits \/ SysAcceptFails
  BY <1>8 DEF SysServerExits, SysAcceptFails, AcceptFails, DbConnect, connvars
<1>9. CASE SysRestart
  BY <1>1, <1>9 DEF SysRestart, Restart
<1>10. CASE UNCHANGED sysvars
  BY <1>10 DEF sysvars, vars, connvars
<1>11. QED BY <1>2, <1>3, <1>4, <1>5, <1>6, <1>7, <1>8, <1>9, <1>10 DEF SysNext

\* Only the abort of a connection uses up one of recovery_times.
LEMMA LoopSteps ==
  ASSUME IInv, SysTypeOK, [SysNext]_sysvars
  PROVE  \/ svc'.recovery = svc.recovery /\ (svc.pc = "dead" => svc'.pc = "dead")
         \/ svc' = FreshService
         \/ \E c \in Collectors : SysAcceptAborted(c)
<1>1. svc \in [pc : {"accept", "hello", "dead"}, conn : Conns \cup {"none"}, recovery : Nat]
  BY DEF IInv, TypeOK, ServiceType
<1>2. ASSUME NEW n \in Nodes, Daemon(n) PROVE svc' = svc
  BY <1>2 DEF Daemon, Connect, SendHello, HandshakeSuccess, HandshakeFails, FINISH_PROCESS,
       SendSample, SendFails, RECONNECT, RecvAck, AckFails, AckEof, Ends, DaemonStarts,
       vars, connvars
<1>3. ASSUME NEW c \in Collectors, Break(c) PROVE svc' = svc
  BY <1>3 DEF Break, vars, connvars
<1>4. ASSUME NEW c \in Collectors, SysAccept(c) \/ SysHandshake(c)
      PROVE  svc'.recovery = svc.recovery /\ svc.pc # "dead"
  BY <1>1, <1>4 DEF SysAccept, Accept, SysHandshake, Rejected, StartRecv, StartFails,
       UnknownHello, NextAccept
<1>5. ASSUME NEW c \in Collectors, SysHelloTimeout(c)
      PROVE  svc'.recovery = svc.recovery /\ svc.pc # "dead"
  BY <1>1, <1>5 DEF SysHelloTimeout, HelloFails, ServiceReturns, daemonvars
<1>6. CASE SysAcceptFails
  BY <1>1, <1>6 DEF SysAcceptFails, AcceptFails, ServiceReturns
<1>7. ASSUME NEW c \in Collectors,
             SysRecvData(c) \/ SysRecvWait(c) \/ SysRecvEof(c) \/ SysRecvRuns(c)
      PROVE  svc' = svc
  BY <1>7 DEF SysRecvData, SysRecvWait, SysRecvEof, SysRecvRuns, RecvData, RecvTimeout,
       RecvEnds, RecvStart, RecvStore, RecvExit, connvars
<1>8. CASE SysServerExits
  BY <1>8 DEF SysServerExits, DbConnect, connvars
<1>9. CASE SysRestart
  BY <1>9 DEF SysRestart, Restart
<1>10. CASE UNCHANGED sysvars
  BY <1>10 DEF sysvars, vars, connvars
<1>11. QED
  BY <1>2, <1>3, <1>4, <1>5, <1>6, <1>7, <1>8, <1>9, <1>10, Zenon DEF SysNext

\* What an aborted connection costs: one more of the queue is lost, and the loop
\* ends when recovery_times was 1.
LEMMA AbortSteps ==
  ASSUME IInv, SysTypeOK, NEW c \in Collectors, SysAcceptAborted(c)
  PROVE  /\ svc.pc # "dead" /\ fd' = fd /\ c \in Aborted' \ Aborted
         /\ \/ svc'.pc = "dead" /\ svc.recovery <= 1
            \/ svc'.pc # "dead" /\ svc'.recovery = svc.recovery - 1
<1>1. svc \in [pc : {"accept", "hello", "dead"}, conn : Conns \cup {"none"}, recovery : Nat]
  BY DEF IInv, TypeOK, ServiceType
<1>2. /\ svc.pc = "accept" /\ fd' = fd /\ fd[c] = "none" /\ ~chan[c].reset
      /\ \/ svc.recovery > 1 /\ svc' = [svc EXCEPT !.recovery = @ - 1]
         \/ svc.recovery <= 1 /\ svc' = [svc EXCEPT !.pc = "dead"]
  BY DEF SysAcceptAborted, Queued, AcceptAborted, ServiceReturns
<1>3. chan'[c].reset
  BY DEF SysAcceptAborted, SysTypeOK, Connections
<1>4. c \in Aborted' \ Aborted
  BY <1>2, <1>3 DEF Aborted
<1>5. CASE svc.recovery > 1 /\ svc' = [svc EXCEPT !.recovery = @ - 1]
  BY <1>1, <1>2, <1>4, <1>5
<1>6. CASE svc.recovery <= 1 /\ svc' = [svc EXCEPT !.pc = "dead"]
  BY <1>1, <1>2, <1>4, <1>6
<1>7. QED BY <1>2, <1>5, <1>6

\* Of the steps that end the loop only an aborted connection changes one.
LEMMA OnlyAbortEnds ==
  ASSUME IInv, SysTypeOK, [SysNext]_sysvars, svc.pc = "accept", svc'.pc = "dead", chan' # chan
  PROVE  \E c \in Collectors : SysAcceptAborted(c)
<1>1. svc \in [pc : {"accept", "hello", "dead"}, conn : Conns \cup {"none"}, recovery : Nat]
  BY DEF IInv, TypeOK, ServiceType
<1>2. ASSUME svc' = svc PROVE FALSE
  BY <1>2
<1>3. ASSUME NEW n \in Nodes, Daemon(n) PROVE svc' = svc
  BY <1>3 DEF Daemon, Connect, SendHello, HandshakeSuccess, HandshakeFails, FINISH_PROCESS,
       SendSample, SendFails, RECONNECT, RecvAck, AckFails, AckEof, Ends, DaemonStarts,
       vars, connvars
<1>4. ASSUME NEW c \in Collectors, Break(c) PROVE svc' = svc
  BY <1>4 DEF Break, vars, connvars
<1>5. ASSUME NEW c \in Collectors, SysAccept(c) \/ SysHandshake(c) \/ SysHelloTimeout(c)
      PROVE  svc'.pc # "dead" \/ chan' = chan
  BY <1>1, <1>5 DEF SysAccept, Accept, SysHandshake, Rejected, StartRecv, StartFails,
       UnknownHello, NextAccept, SysHelloTimeout, daemonvars
<1>6. ASSUME NEW c \in Collectors,
             SysRecvData(c) \/ SysRecvWait(c) \/ SysRecvEof(c) \/ SysRecvRuns(c)
      PROVE  svc' = svc
  BY <1>6 DEF SysRecvData, SysRecvWait, SysRecvEof, SysRecvRuns, RecvData, RecvTimeout,
       RecvEnds, RecvStart, RecvStore, RecvExit, connvars
<1>7. CASE SysAcceptFails \/ SysRestart \/ UNCHANGED sysvars
  BY <1>7 DEF SysAcceptFails, SysRestart, sysvars, daemonvars
<1>8. CASE SysServerExits
  BY <1>8 DEF SysServerExits, DbConnect, connvars
<1>9. QED
  BY <1>2, <1>3, <1>4, <1>5, <1>6, <1>7, <1>8, Zenon DEF SysNext

\* No aborted connection is forgotten.
LEMMA AbortedGrows ==
  ASSUME IInv, Fresh, SysTypeOK, [SysNext]_sysvars
  PROVE  /\ Cardinality(Aborted) \in Nat /\ Cardinality(Aborted') \in Nat
         /\ Cardinality(Aborted) <= Cardinality(Aborted')
         /\ \A c \in Aborted' \ Aborted : Cardinality(Aborted') >= Cardinality(Aborted) + 1
<1>1. Aborted \subseteq Aborted' /\ Aborted \in SUBSET Collectors /\ Aborted' \in SUBSET Collectors
  BY DamageLasts, QueueKept DEF Aborted
<1>2. QED BY <1>1, AbortedSize

\* A step of the system keeps the account.
LEMMA SysNextLoop ==
  IInv /\ Fresh /\ SysTypeOK /\ RecoverySpent /\ [SysNext]_sysvars => RecoverySpent'
<1> SUFFICES ASSUME IInv, Fresh, SysTypeOK, RecoverySpent, [SysNext]_sysvars, svc'.pc # "dead"
             PROVE  Cardinality(Aborted') >= NETWORK_RECOVERY_RETRY_TIMES - 1 - svc'.recovery
  BY DEF RecoverySpent
<1> DEFINE R == NETWORK_RECOVERY_RETRY_TIMES
           n == Cardinality(Aborted)
           m == Cardinality(Aborted')
<1>1. svc.recovery \in Nat /\ R \in Nat
  BY ConstantsTyped DEF IInv, TypeOK, ServiceType
<1>2. n \in Nat /\ m \in Nat /\ n <= m /\ \A c \in Aborted' \ Aborted : m >= n + 1
  BY AbortedGrows
<1>3. svc.pc # "dead" => n >= R - 1 - svc.recovery
  BY DEF RecoverySpent
<1>4. svc' = FreshService => svc'.recovery = R - 1
  BY DEF FreshService
<1> HIDE DEF R, n, m
<1>5. CASE svc'.recovery = svc.recovery /\ (svc.pc = "dead" => svc'.pc = "dead")
  <2>1. m >= R - 1 - svc'.recovery
    BY <1>1, <1>2, <1>3, <1>5
  <2>2. QED BY <2>1 DEF R, m
<1>6. CASE svc' = FreshService
  <2>1. m >= R - 1 - svc'.recovery
    BY <1>1, <1>2, <1>4, <1>6
  <2>2. QED BY <2>1 DEF R, m
<1>7. ASSUME NEW c \in Collectors, SysAcceptAborted(c)
      PROVE  Cardinality(Aborted') >= NETWORK_RECOVERY_RETRY_TIMES - 1 - svc'.recovery
  <2>1. svc.pc # "dead" /\ c \in Aborted' \ Aborted /\ svc'.recovery = svc.recovery - 1
    BY <1>7, AbortSteps
  <2>2. m >= n + 1
    BY <1>2, <2>1
  <2>3. m >= R - 1 - svc'.recovery
    BY <1>1, <1>2, <1>3, <2>1, <2>2
  <2>4. QED BY <2>3 DEF R, m
<1>8. QED BY <1>5, <1>6, <1>7, LoopSteps

\* The account app_service keeps of aborted connections.
LEMMA LoopInductive == SysSpec => []RecoverySpent
<1>1. SysInit => RecoverySpent
  <2> SUFFICES ASSUME SysInit PROVE RecoverySpent
    OBVIOUS
  <2>1. svc.recovery = NETWORK_RECOVERY_RETRY_TIMES - 1 /\ NETWORK_RECOVERY_RETRY_TIMES \in Nat
    BY ConstantsTyped DEF SysInit, Init, FreshService
  <2>2. Cardinality(Aborted) \in Nat
    BY AbortedSize DEF Aborted
  <2>3. QED BY <2>1, <2>2 DEF RecoverySpent
<1>2. SysSpec => []IInv /\ []TInv
  BY ServerSpecHolds, Inductive, ThreadsInductive, PTL
<1>3. TInv => Fresh
  BY DEF TInv
<1>4. QED BY <1>1, <1>2, <1>3, SysNextLoop, SysTypeCorrect, PTL DEF SysSpec

\* An error of accept on a connection that its peer gave up ends app_service only
\* when as many were lost in the queue as recovery_times allows, in all its life.
THEOREM AbortsAreTolerated == SysSpec => AbortsTolerated
<1>1. ASSUME IInv, Fresh, SysTypeOK, RecoverySpent, [SysNext]_sysvars,
             svc.pc = "accept", svc'.pc = "dead", chan' # chan
      PROVE  Cardinality({c \in Collectors : fd[c] = "none" /\ chan'[c].reset})
               >= NETWORK_RECOVERY_RETRY_TIMES - 1
  <2>1. PICK c \in Collectors : SysAcceptAborted(c)
    BY <1>1, OnlyAbortEnds
  <2>2. svc.recovery <= 1 /\ c \in Aborted' \ Aborted /\ fd' = fd
    BY <1>1, <2>1, AbortSteps
  <2>3. Aborted' = {d \in Collectors : fd[d] = "none" /\ chan'[d].reset}
    BY <2>2 DEF Aborted
  <2>4. Cardinality(Aborted) >= NETWORK_RECOVERY_RETRY_TIMES - 1 - svc.recovery
    BY <1>1 DEF RecoverySpent
  <2>5. /\ Cardinality(Aborted) \in Nat /\ Cardinality(Aborted') \in Nat
        /\ Cardinality(Aborted') >= Cardinality(Aborted) + 1
    BY <1>1, <2>2, AbortedGrows
  <2>6. svc.recovery \in Nat /\ NETWORK_RECOVERY_RETRY_TIMES \in Nat
    BY <1>1, ConstantsTyped DEF IInv, TypeOK, ServiceType
  <2>7. Cardinality(Aborted') >= NETWORK_RECOVERY_RETRY_TIMES - 1
    BY <2>2, <2>4, <2>5, <2>6
  <2>8. QED BY <2>3, <2>7
<1>2. ASSUME IInv, Fresh, SysTypeOK, RecoverySpent, [SysNext]_sysvars
      PROVE  [svc.pc = "accept" /\ svc'.pc = "dead" /\ chan' # chan =>
                Cardinality({c \in Collectors : fd[c] = "none" /\ chan'[c].reset})
                  >= NETWORK_RECOVERY_RETRY_TIMES - 1]_sysvars
  BY <1>1, <1>2, Zenon
<1>3. SysSpec => []IInv /\ []TInv
  BY ServerSpecHolds, Inductive, ThreadsInductive, PTL
<1>4. TInv => Fresh
  BY DEF TInv
<1>5. QED BY <1>2, <1>3, <1>4, LoopInductive, SysTypeCorrect, PTL DEF SysSpec, AbortsTolerated

=============================================================================
