------------------------------ MODULE Collector ------------------------------
(***************************************************************************)
(* The collecting daemons tscecd (TSCE4.0/src/clr/clr.c), one on every     *)
(* node, and their connections, composed with the server: the accept loop  *)
(* and the receivers are TsceServer's own actions, each bound to what its  *)
(* peer did to the connection.  The database writer is left out: it        *)
(* touches neither sockets nor node_status.  Nor are query clients.        *)
(*                                                                         *)
(* connect succeeds as soon as the kernel queues the connection.  A broken *)
(* connection loses what is under way, and neither end hears of the other  *)
(* again.  A sample arrives in pieces, which recv may find in any grouping;*)
(* a hello and the answers, some ten bytes each, arrive whole.             *)
(***************************************************************************)
EXTENDS TsceServer

CONSTANTS
  MaxSamples,    \* bound: samples sent, over all nodes
  MaxFaults      \* bound: broken connections, killed daemons and server exits

ASSUME CollectorConstants == {MaxSamples, MaxFaults} \subseteq Nat

VARIABLES
  dpc,       \* main of the tscecd on each node
  sock,      \* client_sockfd: its connection, or "none"
  chan,      \* what the network holds of each connection
  recv_buf,  \* the node whose hello is left in app_service's recv_buf (0: none)
  sent, faults

daemonvars == <<dpc, sock, chan, recv_buf, sent, faults>>
sysvars == <<vars, daemonvars>>

\* node: the daemon's node (0: not used yet); up, down: the messages the server
\* and the daemon have not read to their end; splits: the recvs that ended inside
\* a message; closed: by the daemon; refused: by the accept loop; reset: the
\* server's end is gone with its process or was never accepted.
NewChan == [node |-> 0, up |-> <<>>, down |-> <<>>, splits |-> 0, closed |-> FALSE,
            broken |-> FALSE, refused |-> FALSE, reset |-> FALSE]

\* What the server may have to read.  "sample": what one send of clr.c has put on
\* the connection, the package or, of a short send, its first bytes; "rest": what
\* is left of a message when a recv ends inside it.
Messages == {"hello", "sample", "rest"}
Answers == {"ok", "ack"}
NotConnected == [n \in Nodes |-> "none"]

SysInit ==
  /\ Init
  /\ dpc = AllNodes("connect")
  /\ sock = NotConnected
  /\ chan = [c \in Collectors |-> NewChan]
  /\ recv_buf = 0
  /\ sent = 0 /\ faults = 0

-----------------------------------------------------------------------------
(* The network.                                                             *)

\* What each end can tell from its socket when nothing is left to read.
ServerSeesEof(c) == chan[c].closed /\ ~chan[c].broken /\ chan[c].up = <<>>
ServerSilent(c)  == chan[c].up = <<>> /\ ~ServerSeesEof(c)
DaemonSeesEof(c) == /\ fd[c] = "closed" \/ chan[c].reset
                    /\ ~chan[c].broken /\ chan[c].down = <<>>
Queued(c) == chan[c].node # 0 /\ fd[c] = "none" /\ ~chan[c].reset

ToServer(c, m) == IF chan[c].broken THEN chan[c].up ELSE Append(chan[c].up, m)
ToDaemon(c, m) == IF chan[c].broken \/ chan[c].closed THEN chan[c].down
                                                      ELSE Append(chan[c].down, m)

Break(c) ==
  /\ faults < MaxFaults /\ chan[c].node # 0 /\ ~chan[c].broken
  /\ chan' = [chan EXCEPT ![c].broken = TRUE, ![c].up = <<>>, ![c].down = <<>>]
  /\ faults' = faults + 1
  /\ UNCHANGED <<vars, dpc, sock, recv_buf, sent>>

-----------------------------------------------------------------------------
(* clr.c: the main loop of the daemon on node n.                            *)

\* FINISH_PROCESS, or the process is killed: the socket is closed.
FINISH_PROCESS(n) ==
  /\ dpc' = [dpc EXCEPT ![n] = "exit"]
  /\ sock' = [sock EXCEPT ![n] = "none"]
  /\ chan' = IF sock[n] = "none" THEN chan ELSE [chan EXCEPT ![sock[n]].closed = TRUE]
  /\ UNCHANGED <<vars, recv_buf, sent>>

RECONNECT_same_socket(n) ==
  /\ dpc' = [dpc EXCEPT ![n] = "collect"]
  /\ UNCHANGED <<vars, sock, chan, recv_buf, sent, faults>>

RECONNECT_leaks_socket(n) ==
  /\ dpc' = [dpc EXCEPT ![n] = "connect"]
  /\ sock' = [sock EXCEPT ![n] = "none"]
  /\ UNCHANGED <<vars, chan, recv_buf, sent, faults>>

RECONNECT_forgets_state(n) ==
  /\ dpc' = [dpc EXCEPT ![n] = "connect"]
  /\ chan' = [chan EXCEPT ![sock[n]].closed = TRUE]
  /\ UNCHANGED <<vars, sock, recv_buf, sent, faults>>

\* close, sleep, goto RECONNECT.
RECONNECT(n) ==
  /\ dpc' = [dpc EXCEPT ![n] = "connect"]
  /\ sock' = [sock EXCEPT ![n] = "none"]
  /\ chan' = [chan EXCEPT ![sock[n]].closed = TRUE]
  /\ UNCHANGED <<vars, recv_buf, sent, faults>>

\* connect fails while the server is down, and is tried again every second: no
\* step (connect_count is only logged).
Connect(n) ==
  /\ Up /\ dpc[n] = "connect"
  /\ \E c \in Collectors :
       /\ chan[c].node = 0
       /\ sock' = [sock EXCEPT ![n] = c]
       /\ chan' = [chan EXCEPT ![c].node = n]
  /\ dpc' = [dpc EXCEPT ![n] = "greet"]
  /\ UNCHANGED <<vars, recv_buf, sent, faults>>

\* The result of send is ignored.
SendHello(n) ==
  /\ dpc[n] = "greet"
  /\ chan' = [chan EXCEPT ![sock[n]].up = ToServer(sock[n], "hello")]
  /\ dpc' = [dpc EXCEPT ![n] = "hello"]
  /\ UNCHANGED <<vars, sock, recv_buf, sent, faults>>

\* An answer: the daemon does not look into it.
HandshakeSuccess(n) ==
  /\ dpc[n] = "hello" /\ chan[sock[n]].down # <<>>
  /\ chan' = [chan EXCEPT ![sock[n]].down = Tail(@)]
  /\ dpc' = [dpc EXCEPT ![n] = "collect"]
  /\ UNCHANGED <<vars, sock, recv_buf, sent, faults>>

\* "connection is closed by server", a timeout or an error: no second attempt.
HandshakeFails(n) ==
  /\ dpc[n] = "hello" /\ chan[sock[n]].down = <<>>
  /\ FINISH_PROCESS(n)
  /\ UNCHANGED faults

\* socket, setsockopt, gethostname, a script's read; tscecd_stop at any time.
Ends(n) ==
  /\ faults < MaxFaults /\ dpc[n] # "exit"
  /\ FINISH_PROCESS(n)
  /\ faults' = faults + 1

\* One send.  A short one is only logged, and the daemon waits for its answer all
\* the same; a connection whose other end is gone may still take it.
SendSample(n) ==
  /\ dpc[n] = "collect" /\ sent < MaxSamples
  /\ chan' = [chan EXCEPT ![sock[n]].up = ToServer(sock[n], "sample")]
  /\ sent' = sent + 1
  /\ dpc' = [dpc EXCEPT ![n] = "ack"]
  /\ UNCHANGED <<vars, sock, recv_buf, faults>>

SendFails(n) ==
  /\ dpc[n] = "collect"
  /\ DaemonSeesEof(sock[n]) \/ chan[sock[n]].broken
  /\ RECONNECT(n)

RecvAck(n) ==
  /\ dpc[n] = "ack" /\ chan[sock[n]].down # <<>>
  /\ chan' = [chan EXCEPT ![sock[n]].down = Tail(@)]
  /\ dpc' = [dpc EXCEPT ![n] = "collect"]
  /\ UNCHANGED <<vars, sock, recv_buf, sent, faults>>

\* recv returns -1: the timeout, or an error of the connection.
AckFails(n) ==
  /\ dpc[n] = "ack" /\ chan[sock[n]].down = <<>>
  /\ RECONNECT(n)

\* "svr has closed socketfd": only logged.
AckEof(n) ==
  /\ dpc[n] = "ack" /\ DaemonSeesEof(sock[n])
  /\ dpc' = [dpc EXCEPT ![n] = "collect"]
  /\ UNCHANGED <<vars, sock, chan, recv_buf, sent, faults>>

\* tscecd_start again.
DaemonStarts(n) ==
  /\ dpc[n] = "exit"
  /\ dpc' = [dpc EXCEPT ![n] = "connect"]
  /\ UNCHANGED <<vars, sock, chan, recv_buf, sent, faults>>

Daemon(n) ==
  \/ Connect(n) \/ SendHello(n) \/ HandshakeSuccess(n) \/ HandshakeFails(n)
  \/ SendSample(n) \/ SendFails(n) \/ RecvAck(n) \/ AckFails(n) \/ AckEof(n)
  \/ Ends(n) \/ DaemonStarts(n)

-----------------------------------------------------------------------------
(* service.c with the daemon as its peer.                                   *)

SysAccept(c) ==
  /\ Queued(c)
  /\ Accept(c)
  /\ UNCHANGED daemonvars

\* ECONNABORTED: the peer closed a connection that was not accepted yet.
SysAcceptAborted(c) ==
  /\ Queued(c) /\ chan[c].closed
  /\ AcceptAborted
  /\ chan' = [chan EXCEPT ![c].reset = TRUE]
  /\ UNCHANGED <<dpc, sock, recv_buf, sent, faults>>

\* Any other error of accept, whatever the peers do.
SysAcceptFails ==
  /\ faults < MaxFaults
  /\ AcceptFails
  /\ faults' = faults + 1
  /\ UNCHANGED <<dpc, sock, chan, recv_buf, sent>>

\* The handshake's recv times out on any peer that is silent (service.c:202-205).
SysHelloTimeout(c) ==
  /\ svc.conn = c /\ ServerSilent(c)
  /\ HelloFails
  /\ UNCHANGED daemonvars

HelloReadFirstNode(c) ==
  IF chan[c].up # <<>> THEN [type |-> "post", node |-> 1] ELSE [type |-> "other", node |-> 0]

\* The hello that is handled.  At end of file the code goes on with what an
\* earlier connection left in recv_buf: a hello that was refused (an answered
\* one was overwritten by SET_OK).
HelloRead(c) ==
  IF chan[c].up # <<>> THEN [type |-> "post", node |-> chan[c].node]
  ELSE IF recv_buf # 0 THEN [type |-> "post", node |-> recv_buf]
  ELSE [type |-> "other", node |-> 0]

SysHandshake(c) ==
  LET h == HelloRead(c)
      refuse == h.type = "post" /\ status[h.node] = "ACTIVE"
      answer == IF h.type = "post" /\ ~refuse THEN ToDaemon(c, "ok") ELSE chan[c].down
  IN
  /\ Up /\ svc.pc = "hello" /\ svc.conn = c
  /\ chan[c].up # <<>> \/ ServerSeesEof(c)
  /\ Rejected(c, h) \/ StartRecv(c, h) \/ StartFails(c, h) \/ UnknownHello(c, h)
  /\ chan' = [chan EXCEPT ![c].up = IF @ = <<>> THEN @ ELSE Tail(@), ![c].down = answer,
                          ![c].refused = refuse]
  /\ recv_buf' = IF refuse THEN h.node ELSE 0
  /\ UNCHANGED <<status, bufvars, notex, dbvars, envvars, dpc, sock, sent, faults>>

-----------------------------------------------------------------------------
(* recv.c with the daemon as its peer.                                      *)

\* One recv takes what has arrived by then: k messages and maybe the first bytes
\* of the next.  It is one packet to the code, acknowledged before it is stored.
SysRecvData(c) ==
  /\ RecvData(c)
  /\ \E k \in 0..Len(chan[c].up), part \in BOOLEAN :
       LET left == SubSeq(chan[c].up, k + 1, Len(chan[c].up))
       IN /\ IF part THEN left # <<>> ELSE k > 0
          /\ chan' = [chan EXCEPT ![c].up = IF part THEN <<"rest">> \o Tail(left) ELSE left,
                                  ![c].down = ToDaemon(c, "ack"),
                                  ![c].splits = IF part THEN @ + 1 ELSE @]
  /\ UNCHANGED <<dpc, sock, recv_buf, sent, faults>>

SysRecvWait(c) ==
  /\ ServerSilent(c)
  /\ RecvTimeout(c) \/ RecvEnds(c, FALSE)
  /\ UNCHANGED daemonvars

SysRecvEof(c) ==
  /\ ServerSeesEof(c)
  /\ RecvEnds(c, TRUE)
  /\ UNCHANGED daemonvars

SysRecvRuns(c) ==
  /\ RecvStart(c) \/ RecvStore(c) \/ RecvExit(c)
  /\ UNCHANGED daemonvars

-----------------------------------------------------------------------------
(* The process ends and tscesd_start starts it again.                       *)

\* The process is gone with its listening socket and every connection.  Of the
\* ways it ends one stands for all: thread_db's first connection fails.
SysServerExits ==
  /\ faults < MaxFaults /\ DbConnect /\ ~Up'
  /\ chan' = [c \in Collectors |->
                IF chan[c].node # 0 THEN [chan[c] EXCEPT !.reset = TRUE] ELSE chan[c]]
  /\ faults' = faults + 1
  /\ UNCHANGED <<dpc, sock, recv_buf, sent>>

SysRestart ==
  /\ Restart
  /\ recv_buf' = 0
  /\ UNCHANGED <<dpc, sock, chan, sent, faults>>

SysNext ==
  \/ \E n \in Nodes : Daemon(n)
  \/ \E c \in Collectors :
       \/ Break(c)
       \/ SysAccept(c) \/ SysAcceptAborted(c) \/ SysHelloTimeout(c) \/ SysHandshake(c)
       \/ SysRecvData(c) \/ SysRecvWait(c) \/ SysRecvEof(c) \/ SysRecvRuns(c)
  \/ SysAcceptFails \/ SysServerExits \/ SysRestart

SysSpec == SysInit /\ [][SysNext]_sysvars

-----------------------------------------------------------------------------
Connections == [node : Nodes \cup {0}, up : Seq(Messages), down : Seq(Answers), splits : Nat,
                closed : BOOLEAN, broken : BOOLEAN, refused : BOOLEAN, reset : BOOLEAN]

\* Every variable keeps its type, and a daemon has a socket exactly while it is
\* neither connecting nor gone: no path of clr.c uses or leaks a closed one.
SysTypeOK ==
  /\ dpc \in [Nodes -> {"connect", "greet", "hello", "collect", "ack", "exit"}]
  /\ sock \in [Nodes -> Collectors \cup {"none"}]
  /\ \A n \in Nodes : sock[n] = "none" <=> dpc[n] \in {"connect", "exit"}
  /\ chan \in [Collectors -> Connections]
  /\ recv_buf \in Nodes \cup {0}
  /\ sent \in 0..MaxSamples /\ faults \in 0..MaxFaults

\* The daemon has given this connection up, or can not use it any more.
Abandoned(c) == chan[c].closed \/ chan[c].broken \/ chan[c].reset

\* Nothing frames a sample: clr.c sends one and waits for one answer, recv.c
\* answers every recv.  So each recv that ends inside a message lets the daemon
\* send one message more before the first is read, for as long as the connection
\* lasts.  Nothing else does, whatever times out, breaks or is opened again: with
\* no such recv at most one message or answer is under way.
AheadBySplits ==
  \A c \in Collectors : Up /\ fd[c] # "closed" /\ ~chan[c].reset =>
     Len(chan[c].up) + Len(chan[c].down) <= 1 + chan[c].splits

\* service.c goes on at end of file with the hello an earlier connection left
\* behind, so a receiver may serve a node that is not its peer's.  No sample is
\* ever filed under that node: such a connection is closed and empty.
FiledUnderOwner ==
  \A c \in Collectors : tnode[c] \notin {0, chan[c].node} =>
     chan[c].closed /\ chan[c].up = <<>> /\ tpc[c] # "store"

\* Two connections of one node may both be admitted before the first receiver
\* sets ACTIVE (service.c); still no two receivers of a node have a peer: a
\* daemon closes its socket before it opens another, so all but one of the
\* connections are abandoned and will end.
OneUsableReceiver ==
  \A c, d \in Collectors :
    c # d /\ tnode[c] = tnode[d] /\ tnode[c] # 0 => Abandoned(c) \/ Abandoned(d)

\* clr.c ends the daemon when its connection is refused, and service.c refuses
\* one for a node that is ACTIVE: what keeps the node ACTIVE is never a
\* connection in use, only one its daemon has abandoned, and that the server
\* has not noticed yet.
RefusedForAbandoned ==
  [][\A c \in Collectors : ~chan[c].refused /\ chan'[c].refused /\ ~Abandoned(c) =>
       \E d \in Collectors \ {c} :
          tpc[d] \in RecvLive /\ tnode[d] = chan[c].node /\ Abandoned(d)]_sysvars

\* recovery_times is never given back, yet an aborted connection ends app_service
\* only as the last of NETWORK_RECOVERY_RETRY_TIMES - 1 or more that were lost in
\* the queue of a server: no fewer daemons that give up too early stop the service.
AbortsTolerated ==
  [][svc.pc = "accept" /\ svc'.pc = "dead" /\ chan' # chan =>
       Cardinality({c \in Collectors : fd[c] = "none" /\ chan'[c].reset})
         >= NETWORK_RECOVERY_RETRY_TIMES - 1]_sysvars
=============================================================================
