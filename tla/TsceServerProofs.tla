-------------------------- MODULE TsceServerProofs --------------------------
(***************************************************************************)
(* Theorems about TsceServer, for every number of nodes and connections.   *)
(***************************************************************************)
EXTENDS TsceServer, TLAPS, FiniteSetTheorems

\* The length of sql follows the loops of thread_db.
SqlLength ==
  /\ dbpc = "scan" => db.x < db.n /\ Len(sql) = IF db.k = 1 THEN db.x ELSE db.x + 1
  /\ dbpc = "unlock" /\ db.n > 0 => Len(sql) = db.n
  /\ dbpc = "query" => db.x < db.n /\ Len(sql) = db.n

\* A receiver serves a configured node.
ReceiverNode ==
  \A c \in Conns : tpc[c] \in RecvLive \cup {"start", "exit"} => tnode[c] \in Nodes

\* A query thread that holds a mutex is answering for a configured node.
QueryNode ==
  \A c \in Conns : tpc[c] \in Holding =>
     request[c].todo # <<>> /\ Head(request[c].todo) \in Nodes

\* The inductive strengthening of TypeOK and BufferBound.
IInv == TypeOK /\ BufferBound /\ SqlLength /\ ReceiverNode /\ QueryNode

\* What ServerConstants says of the limits, in the form the steps use.
LEMMA ConstantsTyped ==
  /\ N \in Nat /\ N >= 1 /\ 1 \in Nodes /\ N \in Nodes /\ Nodes \subseteq Nat
  /\ MAX_NODE_DATA_COUNT \in Nat /\ RERECV_TIMES \in Nat /\ MaxTicks \in Nat
  /\ MAX_RTD_REQUEST \in Nat /\ INTERVAL \in Nat /\ INTERVAL > 0 /\ MaxPackets \in Nat
  /\ NETWORK_RECOVERY_RETRY_TIMES \in Nat /\ NETWORK_RECOVERY_RETRY_TIMES > 1
  /\ Epoch \in Nat /\ Epoch + MaxTicks \in Nat
BY ServerConstants DEF Nodes, Epoch

\* create_data_buffer leaves empty buffers, counted as empty.
LEMMA InitIInv == Init => IInv
<1> SUFFICES ASSUME Init PROVE IInv
  OBVIOUS
<1> USE ConstantsTyped DEF Init, AllNodes, FreshService, FreshDb, NoRequest
<1>1. BufferType /\ NodeType /\ EnvType
  BY DEF BufferType, NodeType, EnvType
<1>2. ServiceType /\ ThreadType
  BY DEF ServiceType, ThreadType
<1>3. DbType
  BY DEF DbType, DbLocals, Rows
<1>4. BufferBound
  BY DEF BufferBound
<1>5. SqlLength /\ ReceiverNode /\ QueryNode
  BY DEF SqlLength, ReceiverNode, QueryNode, RecvLive, Holding
<1>6. QED
  BY <1>1, <1>2, <1>3, <1>4, <1>5 DEF IInv, TypeOK

-----------------------------------------------------------------------------
(* What each operation on a buffer preserves.                               *)

\* clear_node leaves an empty list, counted as empty.
LEMMA ClearNode ==
  ASSUME BufferType, BufferBound, NEW n \in Nodes, clear_node(n)
  PROVE  BufferType' /\ BufferBound'
<1> USE ConstantsTyped
<1>1. <<>> \in Seq(Nat \ {0}) /\ Len(<<>>) = 0
  OBVIOUS
<1>2. BufferType'
  BY <1>1 DEF BufferType, clear_node
<1>3. ASSUME NEW m \in Nodes
      PROVE  data_count'[m] = Len(node_data'[m]) /\ data_count'[m] <= MAX_NODE_DATA_COUNT + 1
  BY <1>1 DEF BufferType, BufferBound, clear_node
<1>4. QED BY <1>2, <1>3 DEF BufferBound

\* A sample stored below the limit leaves at most one more than the limit.
LEMMA StoreSample ==
  ASSUME BufferType, BufferBound, NEW n \in Nodes, ~Overfull(n), arrivals \in Nat,
         put_data_in_buffer(n, arrivals + 1), set_node_recent_data(n, arrivals + 1)
  PROVE  BufferType' /\ BufferBound'
<1> USE ConstantsTyped
<1>1. arrivals + 1 \in Nat \ {0}
  OBVIOUS
<1>2. recent' \in [Nodes -> Nat] /\ exist_recent' \in [Nodes -> BOOLEAN]
  BY <1>1 DEF BufferType, set_node_recent_data
<1>3. data_count[n] \in Nat /\ data_count[n] <= MAX_NODE_DATA_COUNT
  BY DEF BufferType, Overfull
<1>4. CASE UNCHANGED <<node_data, data_count>>
  BY <1>2, <1>4 DEF BufferType, BufferBound
<1>5. CASE /\ node_data' = [node_data EXCEPT ![n] = Append(@, arrivals + 1)]
           /\ data_count' = [data_count EXCEPT ![n] = @ + 1]
  <2>1. node_data[n] \in Seq(Nat \ {0}) /\ Len(node_data[n]) = data_count[n]
    BY DEF BufferType, BufferBound
  <2>2. /\ Append(node_data[n], arrivals + 1) \in Seq(Nat \ {0})
        /\ Len(Append(node_data[n], arrivals + 1)) = data_count[n] + 1
    BY <1>1, <2>1
  <2>3. data_count' \in [Nodes -> Nat]
    BY <1>3, <1>5 DEF BufferType
  <2>4. node_data' \in [Nodes -> Seq(Nat \ {0})]
    BY <1>5, <2>2 DEF BufferType
  <2>5. ASSUME NEW m \in Nodes
        PROVE  data_count'[m] = Len(node_data'[m]) /\ data_count'[m] <= MAX_NODE_DATA_COUNT + 1
    <3>1. CASE m = n
      BY <1>3, <1>5, <2>2, <3>1 DEF BufferType
    <3>2. CASE m # n
      BY <1>5, <3>2 DEF BufferType, BufferBound
    <3>3. QED BY <3>1, <3>2
  <2>6. QED BY <1>2, <2>3, <2>4, <2>5 DEF BufferType, BufferBound
<1>6. QED BY <1>4, <1>5 DEF put_data_in_buffer

\* The writer takes a sample from the list and from its counter, or neither.
LEMMA PopFirst ==
  ASSUME BufferType, BufferBound, NEW n \in Nodes, pop_first(n)
  PROVE  BufferType' /\ BufferBound'
<1> USE ConstantsTyped
<1>1. recent' \in [Nodes -> Nat] /\ exist_recent' \in [Nodes -> BOOLEAN]
  BY DEF BufferType, pop_first
<1>2. CASE data_count[n] > 1
  <2>1. /\ node_data' = [node_data EXCEPT ![n] = Tail(@)]
        /\ data_count' = [data_count EXCEPT ![n] = @ - 1]
    BY <1>2 DEF pop_first
  <2>2. node_data[n] \in Seq(Nat \ {0}) /\ Len(node_data[n]) = data_count[n]
        /\ data_count[n] \in Nat /\ data_count[n] <= MAX_NODE_DATA_COUNT + 1
    BY DEF BufferType, BufferBound
  <2>3. node_data[n] # <<>>
    BY <1>2, <2>2
  <2>4. Tail(node_data[n]) \in Seq(Nat \ {0}) /\ Len(Tail(node_data[n])) = data_count[n] - 1
    BY <2>2, <2>3
  <2>5. data_count[n] - 1 \in Nat /\ data_count[n] - 1 <= MAX_NODE_DATA_COUNT + 1
    BY <1>2, <2>2
  <2>6. data_count' \in [Nodes -> Nat]
    BY <2>1, <2>5 DEF BufferType
  <2>7. node_data' \in [Nodes -> Seq(Nat \ {0})]
    BY <2>1, <2>4 DEF BufferType
  <2>8. ASSUME NEW m \in Nodes
        PROVE  data_count'[m] = Len(node_data'[m]) /\ data_count'[m] <= MAX_NODE_DATA_COUNT + 1
    <3>1. CASE m = n
      BY <2>1, <2>4, <2>5, <3>1 DEF BufferType
    <3>2. CASE m # n
      BY <2>1, <3>2 DEF BufferType, BufferBound
    <3>3. QED BY <3>1, <3>2
  <2>9. QED BY <1>1, <2>6, <2>7, <2>8 DEF BufferType, BufferBound
<1>3. CASE ~(data_count[n] > 1)
  BY <1>1, <1>3 DEF BufferType, BufferBound, pop_first
<1>4. QED BY <1>2, <1>3

-----------------------------------------------------------------------------
(* What a step leaves alone.                                                *)

\* A step that leaves a group of variables alone keeps what is said of it.
LEMMA BufferFrame ==
  ASSUME BufferType, BufferBound, UNCHANGED bufvars PROVE BufferType' /\ BufferBound'
BY DEF BufferType, BufferBound, bufvars

\* The same for node_status and the mutexes.
LEMMA NodeFrame == ASSUME NodeType, UNCHANGED <<status, notex>> PROVE NodeType'
BY DEF NodeType

\* The same for the accept loop.
LEMMA ServiceFrame == ASSUME ServiceType, UNCHANGED connvars PROVE ServiceType'
BY DEF ServiceType, connvars

\* The same for the threads of the connections.
LEMMA ThreadFrame ==
  ASSUME ThreadType, ReceiverNode, QueryNode, UNCHANGED thrvars
  PROVE  ThreadType' /\ ReceiverNode' /\ QueryNode'
BY DEF ThreadType, ReceiverNode, QueryNode, thrvars

\* The same for thread_db.
LEMMA DbFrame == ASSUME DbType, SqlLength, UNCHANGED dbvars PROVE DbType' /\ SqlLength'
BY DEF DbType, SqlLength, dbvars

\* The same for the clock and the packets.
LEMMA EnvFrame == ASSUME EnvType, UNCHANGED envvars PROVE EnvType'
BY DEF EnvType, envvars

\* A step of one thread that keeps tnode.
LEMMA ThreadTo ==
  ASSUME ThreadType, ReceiverNode, QueryNode, NEW c \in Conns,
         NEW pc \in {"none", "start", "exit", "rtd", "gone"} \cup RecvLive \cup RtdLive,
         tpc' = [tpc EXCEPT ![c] = pc], UNCHANGED tnode,
         pc \in RecvLive \cup {"start", "exit"} => tnode[c] \in Nodes,
         \A d \in Conns \ {c} : request'[d] = request[d],
         pc \in Holding => request'[c].todo # <<>> /\ Head(request'[c].todo) \in Nodes
  PROVE  /\ tpc' \in [Conns -> {"none", "start", "exit", "rtd", "gone"}
                                \cup RecvLive \cup RtdLive]
         /\ tnode' \in [Conns -> Nodes \cup {0}]
         /\ ReceiverNode' /\ QueryNode'
<1>1. /\ tpc' \in [Conns -> {"none", "start", "exit", "rtd", "gone"} \cup RecvLive \cup RtdLive]
      /\ tnode' \in [Conns -> Nodes \cup {0}]
  BY DEF ThreadType
<1>2. ReceiverNode'
  BY DEF ThreadType, ReceiverNode
<1>3. QueryNode'
  <2>1. SUFFICES ASSUME NEW d \in Conns, tpc'[d] \in Holding
                 PROVE  request'[d].todo # <<>> /\ Head(request'[d].todo) \in Nodes
    BY DEF QueryNode
  <2>2. CASE d = c
    BY <2>1, <2>2 DEF ThreadType
  <2>3. CASE d # c
    BY <2>1, <2>3 DEF ThreadType, QueryNode
  <2>4. QED BY <2>2, <2>3
<1>4. QED BY <1>1, <1>2, <1>3

-----------------------------------------------------------------------------
\* A step of app_service.
LEMMA ServiceStep ==
  ASSUME IInv, \/ \E c \in Conns : Accept(c) \/ Handshake(c)
               \/ AcceptAborted \/ AcceptFails \/ HelloFails
  PROVE  IInv'
<1> USE ConstantsTyped
<1>0. /\ TypeOK /\ BufferBound /\ SqlLength /\ ReceiverNode /\ QueryNode
      /\ BufferType /\ NodeType /\ ServiceType /\ ThreadType /\ DbType /\ EnvType
  BY DEF IInv, TypeOK
<1>1. /\ BufferType' /\ BufferBound' /\ NodeType' /\ DbType' /\ SqlLength' /\ EnvType'
  BY <1>0, BufferFrame, NodeFrame, DbFrame, EnvFrame
     DEF Accept, Handshake, AcceptAborted, AcceptFails, HelloFails
<1>2. ASSUME NEW c \in Conns, Accept(c) PROVE IInv'
  <2>1. ServiceType'
    BY <1>0, <1>2 DEF ServiceType, Accept
  <2>2. ThreadType' /\ ReceiverNode' /\ QueryNode'
    BY <1>0, <1>2, ThreadFrame DEF Accept
  <2>3. QED BY <1>1, <2>1, <2>2 DEF IInv, TypeOK
<1>3. CASE AcceptAborted \/ AcceptFails \/ HelloFails
  <2>1. ASSUME svc.recovery > 1, svc' = [svc EXCEPT !.recovery = @ - 1], UNCHANGED fd
        PROVE  ServiceType'
    <3>1. svc.recovery \in Nat
      BY <1>0 DEF ServiceType
    <3>2. svc.recovery - 1 \in Nat
      BY <2>1, <3>1
    <3>3. QED BY <1>0, <2>1, <3>2 DEF ServiceType
  <2>2. ASSUME ServiceReturns, UNCHANGED fd
        PROVE  ServiceType'
    BY <1>0, <2>2 DEF ServiceType, ServiceReturns
  <2>3. ServiceType'
    BY <1>3, <2>1, <2>2 DEF AcceptAborted, AcceptFails, HelloFails
  <2>4. ThreadType' /\ ReceiverNode' /\ QueryNode'
    BY <1>0, <1>3, ThreadFrame DEF AcceptAborted, AcceptFails, HelloFails
  <2>5. QED BY <1>1, <2>3, <2>4 DEF IInv, TypeOK
<1>4. ASSUME NEW c \in Conns, Handshake(c) PROVE IInv'
  <2>0. PICK h \in Hello(c) : \/ Rejected(c, h) \/ StartRecv(c, h) \/ StartRtd(c, h)
                             \/ StartFails(c, h) \/ UnknownHello(c, h)
    BY <1>4 DEF Handshake
  <2>1. h.node \in Nodes \cup {0}
    BY <2>0 DEF Hello
  <2>2. NextAccept(c, "open") \/ NextAccept(c, "closed")
    BY <2>0 DEF Rejected, StartRecv, StartRtd, StartFails, UnknownHello
  <2>3. ServiceType'
    BY <1>0, <2>2 DEF ServiceType, NextAccept
  <2>4. CASE StartRecv(c, h)
    <3>1. ThreadType'
      BY <1>0, <2>1, <2>4 DEF ThreadType, StartRecv
    <3>2. ReceiverNode' /\ QueryNode'
      BY <1>0, <2>1, <2>4 DEF ThreadType, ReceiverNode, QueryNode, StartRecv, RecvLive, Holding
    <3>3. QED BY <1>1, <2>3, <3>1, <3>2 DEF IInv, TypeOK
  <2>5. CASE StartRtd(c, h)
    <3>1. ThreadType' /\ ReceiverNode' /\ QueryNode'
      BY <1>0, <2>5, ThreadTo DEF ThreadType, StartRtd, RecvLive, Holding
    <3>2. QED BY <1>1, <2>3, <3>1 DEF IInv, TypeOK
  <2>6. CASE Rejected(c, h) \/ StartFails(c, h) \/ UnknownHello(c, h)
    <3>1. ThreadType' /\ ReceiverNode' /\ QueryNode'
      BY <1>0, <2>6, ThreadFrame DEF Rejected, StartFails, UnknownHello
    <3>2. QED BY <1>1, <2>3, <3>1 DEF IInv, TypeOK
  <2>7. QED BY <2>0, <2>4, <2>5, <2>6
<1>5. QED BY <1>2, <1>3, <1>4

-----------------------------------------------------------------------------
\* A step of thread_recv.
LEMMA RecvStep ==
  ASSUME IInv, NEW c \in Conns, Recv(c)
  PROVE  IInv'
<1> USE ConstantsTyped
<1>0. /\ TypeOK /\ BufferBound /\ SqlLength /\ ReceiverNode /\ QueryNode
      /\ BufferType /\ NodeType /\ ServiceType /\ ThreadType /\ DbType /\ EnvType
  BY DEF IInv, TypeOK
<1>1. DbType' /\ SqlLength'
  BY <1>0, DbFrame DEF Recv, RecvStart, RecvTimeout, RecvEnds, RecvData, RecvStore, RecvExit
<1>2. CASE RecvStart(c)
  <2>0. tnode[c] \in Nodes
    BY <1>0, <1>2 DEF ReceiverNode, RecvStart
  <2>1. NodeType'
    BY <1>0, <1>2, <2>0 DEF NodeType, RecvStart
  <2>2. rerecv' \in [Conns -> 0..RERECV_TIMES]
    BY <1>0, <1>2 DEF ThreadType, RecvStart
  <2>5. ThreadType' /\ ReceiverNode' /\ QueryNode'
    BY <1>0, <1>2, <2>0, <2>2, ThreadTo DEF ThreadType, RecvStart, RecvLive, Holding
  <2>3. BufferType' /\ BufferBound' /\ ServiceType' /\ EnvType'
    BY <1>0, <1>2, BufferFrame, ServiceFrame, EnvFrame DEF RecvStart
  <2>4. QED BY <1>1, <2>1, <2>3, <2>5 DEF IInv, TypeOK
<1>3. CASE RecvTimeout(c)
  <2>0. rerecv[c] \in 0..RERECV_TIMES /\ rerecv[c] > 0
    BY <1>0, <1>3 DEF ThreadType, RecvTimeout
  <2>1. rerecv[c] - 1 \in 0..RERECV_TIMES
    BY <2>0
  <2>2. ThreadType' /\ ReceiverNode' /\ QueryNode'
    BY <1>0, <1>3, <2>1 DEF ThreadType, ReceiverNode, QueryNode, RecvTimeout
  <2>3. BufferType' /\ BufferBound' /\ NodeType' /\ ServiceType' /\ EnvType'
    BY <1>0, <1>3, BufferFrame, NodeFrame, ServiceFrame, EnvFrame DEF RecvTimeout
  <2>4. QED BY <1>1, <2>2, <2>3 DEF IInv, TypeOK
<1>4. ASSUME NEW closed \in BOOLEAN, RecvEnds(c, closed)
      PROVE  IInv'
  <2>0. tnode[c] \in Nodes
    BY <1>0, <1>4 DEF ReceiverNode, RecvEnds, RecvLive
  <2>1. NodeType'
    BY <1>0, <1>4, <2>0 DEF NodeType, RecvEnds, NodeDown
  <2>2. ThreadType' /\ ReceiverNode' /\ QueryNode'
    BY <1>0, <1>4, <2>0, ThreadTo DEF ThreadType, RecvEnds, Holding
  <2>3. BufferType' /\ BufferBound' /\ ServiceType' /\ EnvType'
    BY <1>0, <1>4, BufferFrame, ServiceFrame, EnvFrame DEF RecvEnds
  <2>4. QED BY <1>1, <2>1, <2>2, <2>3 DEF IInv, TypeOK
<1>5. CASE RecvData(c)
  <2>0. tnode[c] \in Nodes
    BY <1>0, <1>5 DEF ReceiverNode, RecvData, RecvLive
  <2>1. ThreadType' /\ ReceiverNode' /\ QueryNode'
    BY <1>0, <1>5, <2>0, ThreadTo DEF ThreadType, RecvData, RecvLive, Holding
  <2>2. BufferType' /\ BufferBound' /\ NodeType' /\ ServiceType' /\ EnvType'
    BY <1>0, <1>5, BufferFrame, NodeFrame, ServiceFrame, EnvFrame DEF RecvData
  <2>3. QED BY <1>1, <2>1, <2>2 DEF IInv, TypeOK
<1>6. CASE RecvStore(c)
  <2>0. tnode[c] \in Nodes /\ arrivals \in Nat
    BY <1>0, <1>6 DEF ReceiverNode, RecvStore, RecvLive, EnvType
  <2>1. BufferType' /\ BufferBound'
    BY <1>0, <1>6, <2>0, ClearNode, StoreSample DEF RecvStore
  <2>2. rerecv' \in [Conns -> 0..RERECV_TIMES]
    BY <1>0, <1>6 DEF ThreadType, RecvStore
  <2>3. ThreadType' /\ ReceiverNode' /\ QueryNode'
    BY <1>0, <1>6, <2>0, <2>2, ThreadTo DEF ThreadType, RecvStore, RecvLive, Holding
  <2>4. EnvType'
    BY <1>0, <1>6, <2>0 DEF EnvType, RecvStore
  <2>5. NodeType' /\ ServiceType'
    BY <1>0, <1>6, NodeFrame, ServiceFrame DEF RecvStore
  <2>6. QED BY <1>1, <2>1, <2>3, <2>4, <2>5 DEF IInv, TypeOK
<1>7. CASE RecvExit(c)
  <2>0. tnode[c] \in Nodes
    BY <1>0, <1>7 DEF ReceiverNode, RecvExit
  <2>1. BufferType' /\ BufferBound'
    BY <1>0, <1>7, <2>0, ClearNode DEF RecvExit
  <2>2. ThreadType'
    BY <1>0, <1>7 DEF ThreadType, RecvExit
  <2>3. ReceiverNode' /\ QueryNode'
    BY <1>0, <1>7 DEF ThreadType, ReceiverNode, QueryNode, RecvExit, RecvLive, Holding
  <2>4. ServiceType'
    BY <1>0, <1>7 DEF ServiceType, RecvExit
  <2>5. NodeType' /\ EnvType'
    BY <1>0, <1>7, NodeFrame, EnvFrame DEF RecvExit
  <2>6. QED BY <1>1, <2>1, <2>2, <2>3, <2>4, <2>5 DEF IInv, TypeOK
<1>8. QED BY <1>2, <1>3, <1>4, <1>5, <1>6, <1>7 DEF Recv

-----------------------------------------------------------------------------
\* A step of thread_rtd.
LEMMA RtdStep ==
  ASSUME IInv, NEW c \in Conns, Rtd(c)
  PROVE  IInv'
<1> USE ConstantsTyped
<1>0. /\ TypeOK /\ BufferBound /\ SqlLength /\ ReceiverNode /\ QueryNode
      /\ BufferType /\ NodeType /\ ServiceType /\ ThreadType /\ DbType /\ EnvType
  BY DEF IInv, TypeOK
<1>1. BufferType' /\ BufferBound' /\ DbType' /\ SqlLength'
  BY <1>0, BufferFrame, DbFrame
     DEF Rtd, RtdAdmit, RtdNoData, handle_get_status, handle_exit, handle_request_data,
         UnknownIndex, RtdLock, RtdStatus, RtdAssert, RtdUnlock, RtdDone
<1>2. ASSUME finish_thread(c), UNCHANGED <<status, notex, envvars>>
      PROVE  IInv'
  <2>1. NoRequest \in [part : BOOLEAN, todo : Seq(Nodes \cup {0})]
    BY DEF NoRequest
  <2>2. g_rtd_num' \in Int /\ request' \in [Conns -> [part : BOOLEAN, todo : Seq(Nodes \cup {0})]]
    BY <1>0, <1>2, <2>1 DEF ThreadType, finish_thread
  <2>3. ThreadType' /\ ReceiverNode' /\ QueryNode'
    BY <1>0, <1>2, <2>2, ThreadTo DEF ThreadType, finish_thread, RecvLive, Holding
  <2>4. ServiceType'
    BY <1>0, <1>2 DEF ServiceType, finish_thread
  <2>5. NodeType' /\ EnvType'
    BY <1>0, <1>2, NodeFrame, EnvFrame
  <2>6. QED BY <1>1, <2>3, <2>4, <2>5 DEF IInv, TypeOK
<1>3. CASE RtdAdmit(c)
  <2>1. g_rtd_num' \in Int
    BY <1>0, <1>3 DEF ThreadType, RtdAdmit
  <2>2. ThreadType' /\ ReceiverNode' /\ QueryNode'
    <3>1. tpc' = [tpc EXCEPT ![c] = "gone"] \/ tpc' = [tpc EXCEPT ![c] = "req"]
      BY <1>3 DEF RtdAdmit
    <3>2. UNCHANGED <<tnode, rerecv, request>>
      BY <1>3 DEF RtdAdmit
    <3>3. QED BY <1>0, <2>1, <3>1, <3>2, ThreadTo DEF ThreadType, RecvLive, RtdLive, Holding
  <2>3. ServiceType'
    BY <1>0, <1>3 DEF ServiceType, RtdAdmit
  <2>4. NodeType' /\ EnvType'
    BY <1>0, <1>3, NodeFrame, EnvFrame DEF RtdAdmit
  <2>5. QED BY <1>1, <2>2, <2>3, <2>4 DEF IInv, TypeOK
<1>4. CASE RtdNoData(c) \/ handle_get_status(c) \/ RtdDone(c)
  BY <1>2, <1>4 DEF RtdNoData, handle_get_status, RtdDone
<1>5. CASE handle_exit(c)
  <2>1. EnvType'
    BY <1>0, <1>5 DEF EnvType, handle_exit
  <2>2. NodeType' /\ ServiceType' /\ ThreadType' /\ ReceiverNode' /\ QueryNode'
    BY <1>0, <1>5, NodeFrame, ServiceFrame, ThreadFrame DEF handle_exit
  <2>3. QED BY <1>1, <2>1, <2>2 DEF IInv, TypeOK
<1>6. CASE handle_request_data(c)
  <2>0. PICK part \in BOOLEAN, todo \in NodeLists :
          request' = [request EXCEPT ![c] = [part |-> part, todo |-> todo]]
    BY <1>6 DEF handle_request_data
  <2>1. [i \in Nodes |-> i] \in Seq(Nodes \cup {0})
    BY DEF Nodes
  <2>2. todo \in Seq(Nodes \cup {0})
    <3>1. ASSUME NEW k \in 1..MaxNames, NEW l \in [1..k -> Nodes \cup {0}]
          PROVE  l \in Seq(Nodes \cup {0})
      OBVIOUS
    <3>2. todo = [i \in Nodes |-> i] \/ \E k \in 1..MaxNames : todo \in [1..k -> Nodes \cup {0}]
      BY DEF NodeLists
    <3>3. QED BY <2>1, <3>1, <3>2
  <2>3. request' \in [Conns -> [part : BOOLEAN, todo : Seq(Nodes \cup {0})]]
    BY <1>0, <2>0, <2>2 DEF ThreadType
  <2>4. ThreadType' /\ ReceiverNode' /\ QueryNode'
    BY <1>0, <1>6, <2>3, ThreadTo DEF ThreadType, handle_request_data, RecvLive, RtdLive, Holding
  <2>5. NodeType' /\ ServiceType' /\ EnvType'
    BY <1>0, <1>6, NodeFrame, ServiceFrame, EnvFrame DEF handle_request_data
  <2>6. QED BY <1>1, <2>4, <2>5 DEF IInv, TypeOK
<1>7. CASE UnknownIndex(c)
  <2>1. ThreadType' /\ ReceiverNode' /\ QueryNode'
    BY <1>0, <1>7, ThreadTo DEF ThreadType, UnknownIndex, RecvLive, RtdLive, Holding
  <2>2. NodeType' /\ ServiceType' /\ EnvType'
    BY <1>0, <1>7, NodeFrame, ServiceFrame, EnvFrame DEF UnknownIndex
  <2>3. QED BY <1>1, <2>1, <2>2 DEF IInv, TypeOK
<1>8. ASSUME request[c].todo # <<>>, request' = [request EXCEPT ![c].todo = Tail(@)]
      PROVE  request' \in [Conns -> [part : BOOLEAN, todo : Seq(Nodes \cup {0})]]
  <2>1. request[c] \in [part : BOOLEAN, todo : Seq(Nodes \cup {0})]
    BY <1>0 DEF ThreadType
  <2>2. Tail(request[c].todo) \in Seq(Nodes \cup {0})
    BY <1>8, <2>1
  <2>3. [request[c] EXCEPT !.todo = Tail(@)] \in [part : BOOLEAN, todo : Seq(Nodes \cup {0})]
    BY <2>1, <2>2
  <2>4. QED BY <1>0, <1>8, <2>3 DEF ThreadType
<1>9. CASE RtdLock(c)
  <2>1. ThreadType' /\ ReceiverNode' /\ QueryNode'
    <3>1. CASE request' = [request EXCEPT ![c].todo = Tail(@)] /\ UNCHANGED <<notex, tpc>>
      BY <1>0, <1>8, <1>9, <3>1 DEF ThreadType, ReceiverNode, QueryNode, RtdLock, Holding
    <3>2. CASE tpc' = [tpc EXCEPT ![c] = "status"] /\ UNCHANGED request
                /\ Head(request[c].todo) # 0
      <4>1. request[c].todo \in Seq(Nodes \cup {0}) /\ request[c].todo # <<>>
        BY <1>0, <1>9 DEF ThreadType, RtdLock
      <4>2. Head(request[c].todo) \in Nodes
        BY <3>2, <4>1
      <4>3. QED BY <1>0, <1>9, <3>2, <4>1, <4>2, ThreadTo DEF ThreadType, RtdLock, RecvLive, RtdLive, Holding
    <3>3. QED BY <1>9, <3>1, <3>2 DEF RtdLock
  <2>2. NodeType'
    BY <1>0, <1>9 DEF NodeType, RtdLock
  <2>3. ServiceType' /\ EnvType'
    BY <1>0, <1>9, ServiceFrame, EnvFrame DEF RtdLock
  <2>4. QED BY <1>1, <2>1, <2>2, <2>3 DEF IInv, TypeOK
<1>10. CASE RtdStatus(c)
  <2>1. ThreadType' /\ ReceiverNode' /\ QueryNode'
    <3>1. tpc' = [tpc EXCEPT ![c] = "assert"] \/ tpc' = [tpc EXCEPT ![c] = "unlock"]
      BY <1>10 DEF RtdStatus
    <3>2. request[c].todo # <<>> /\ Head(request[c].todo) \in Nodes
      BY <1>0, <1>10 DEF QueryNode, RtdStatus, Holding
    <3>3. QED BY <1>0, <1>10, <3>1, <3>2, ThreadTo DEF ThreadType, RtdStatus, RecvLive, RtdLive, Holding
  <2>2. NodeType' /\ ServiceType' /\ EnvType'
    BY <1>0, <1>10, NodeFrame, ServiceFrame, EnvFrame DEF RtdStatus
  <2>3. QED BY <1>1, <2>1, <2>2 DEF IInv, TypeOK
<1>11. CASE RtdAssert(c)
  <2>1. ThreadType' /\ ReceiverNode' /\ QueryNode'
    <3>1. tpc' = [tpc EXCEPT ![c] = "unlock"] \/ UNCHANGED tpc
      BY <1>11 DEF RtdAssert
    <3>2. CASE UNCHANGED tpc
      BY <1>0, <1>11, <3>2 DEF ThreadType, ReceiverNode, QueryNode, RtdAssert
    <3>3. request[c].todo # <<>> /\ Head(request[c].todo) \in Nodes
      BY <1>0, <1>11 DEF QueryNode, RtdAssert, Holding
    <3>4. QED BY <1>0, <1>11, <3>1, <3>2, <3>3, ThreadTo DEF ThreadType, RtdAssert, RecvLive, RtdLive, Holding
  <2>2. EnvType'
    BY <1>0, <1>11 DEF EnvType, RtdAssert
  <2>3. NodeType' /\ ServiceType'
    BY <1>0, <1>11, NodeFrame, ServiceFrame DEF RtdAssert
  <2>4. QED BY <1>1, <2>1, <2>2, <2>3 DEF IInv, TypeOK
<1>12. CASE RtdUnlock(c)
  <2>1. ThreadType' /\ ReceiverNode' /\ QueryNode'
    <3>1. request[c].todo # <<>>
      BY <1>0, <1>12 DEF QueryNode, RtdUnlock, Holding
    <3>2. QED BY <1>0, <1>8, <1>12, <3>1, ThreadTo
      DEF ThreadType, RtdUnlock, RecvLive, RtdLive, Holding
  <2>2. NodeType'
    BY <1>0, <1>12 DEF NodeType, RtdUnlock
  <2>3. ServiceType' /\ EnvType'
    BY <1>0, <1>12, ServiceFrame, EnvFrame DEF RtdUnlock
  <2>4. QED BY <1>1, <2>1, <2>2, <2>3 DEF IInv, TypeOK
<1>13. QED
  BY <1>3, <1>4, <1>5, <1>6, <1>7, <1>9, <1>10, <1>11, <1>12 DEF Rtd

-----------------------------------------------------------------------------
\* A new session forgets the time of a row.
LEMMA RowTimeReset == ASSUME NEW r \in Rows PROVE [r EXCEPT !.time = 0] \in Rows
BY DEF Rows

\* A step of thread_db.
LEMMA DbStep ==
  ASSUME IInv, Db
  PROVE  IInv'
<1> USE ConstantsTyped
<1>0. /\ TypeOK /\ BufferBound /\ SqlLength /\ ReceiverNode /\ QueryNode
      /\ BufferType /\ NodeType /\ ServiceType /\ ThreadType /\ DbType /\ EnvType
  BY DEF IInv, TypeOK
<1>1. ServiceType' /\ ThreadType' /\ ReceiverNode' /\ QueryNode'
  BY <1>0, ServiceFrame, ThreadFrame
     DEF Db, DbConnect, DbLock, DbFirst, DbMin, DbNoMemory, DbDiscard, DbConvert, DbUnlock,
         DbQuery, DbWake
<1>2. db \in DbLocals /\ sql \in Seq(Statements) /\ rows \in [Nodes -> Rows]
  BY <1>0 DEF DbType
<1>x. /\ db.k \in Nodes /\ db.n \in Nat /\ db.x \in Nat /\ db.t \in Nat /\ db.last \in Int
      /\ db.wake \in Nat /\ db.reconnect \in BOOLEAN
  BY <1>2 DEF DbLocals
<1>y. /\ db.k # N => db.k + 1 \in Nodes
      /\ db.k > 1 => db.k - 1 \in Nodes
  BY <1>x DEF Nodes
<1>3. CASE DbConnect
  <2>1. rows' \in [Nodes -> Rows]
    BY <1>2, <1>3, RowTimeReset DEF DbConnect
  <2>2. db' \in DbLocals
    <3>1. ASSUME NEW k \in Nodes, NEW l \in Int
          PROVE  [db EXCEPT !.k = k, !.last = l] \in DbLocals
      BY <1>2 DEF DbLocals
    <3>2. 1 \in Nodes /\ 0 \in Int
      OBVIOUS
    <3>3. [db EXCEPT !.k = 1, !.last = 0] \in DbLocals
      BY <3>1, <3>2, Zenon
    <3>4. QED BY <1>2, <1>3, <3>3 DEF DbConnect
  <2>3. DbType'
    BY <1>0, <1>3, <2>1, <2>2 DEF DbType, DbConnect
  <2>4. SqlLength'
    BY <1>0, <1>3 DEF SqlLength, DbConnect
  <2>5. EnvType'
    BY <1>0, <1>3 DEF EnvType, DbConnect
  <2>6. BufferType' /\ BufferBound' /\ NodeType'
    BY <1>0, <1>3, BufferFrame, NodeFrame DEF DbConnect
  <2>7. QED BY <1>1, <2>3, <2>4, <2>5, <2>6 DEF IInv, TypeOK
<1>4. CASE DbLock
  <2> DEFINE k == IF db.k = N THEN 1 ELSE db.k + 1
             w == IF db.k = 1 THEN clock + INTERVAL ELSE db.wake
  <2>1. k \in Nodes
    BY <1>x, <1>y
  <2>2. w \in Nat
    BY <1>0, <1>x DEF EnvType
  <2>3. db' = [db EXCEPT !.k = k, !.wake = w]
    BY <1>4 DEF DbLock
  <2> HIDE DEF k, w
  <2>4. db' \in DbLocals
    BY <1>2, <2>1, <2>2, <2>3 DEF DbLocals
  <2>5. DbType'
    BY <1>0, <1>4, <2>4 DEF DbType, DbLock
  <2>6. SqlLength'
    BY <1>4 DEF SqlLength, DbLock
  <2>7. NodeType'
    BY <1>0, <1>4 DEF NodeType, DbLock
  <2>8. BufferType' /\ BufferBound' /\ EnvType'
    BY <1>0, <1>4, BufferFrame, EnvFrame DEF DbLock
  <2>9. QED BY <1>1, <2>5, <2>6, <2>7, <2>8 DEF IInv, TypeOK
<1>5. CASE DbFirst
  <2>1. CASE /\ dbpc' = "min"
             /\ db' = [db EXCEPT !.n = data_count[db.k]]
    <3>1. data_count[db.k] \in Nat
      BY <1>0, <1>x DEF BufferType
    <3>2. db' \in DbLocals
      BY <1>2, <2>1, <3>1 DEF DbLocals
    <3>3. QED BY <1>0, <1>1, <1>5, <2>1, <3>2, BufferFrame, NodeFrame, EnvFrame
      DEF IInv, TypeOK, DbType, SqlLength, DbFirst
  <2>2. CASE /\ dbpc' = IF db.k = N THEN "unlock" ELSE "first"
             /\ db' = [db EXCEPT !.n = 0, !.k = IF db.k = N THEN N ELSE db.k + 1]
    <3> DEFINE k == IF db.k = N THEN N ELSE db.k + 1
    <3>1. k \in Nodes
      BY <1>x, <1>y
    <3>2. db' = [db EXCEPT !.n = 0, !.k = k]
      BY <2>2
    <3> HIDE DEF k
    <3>3. db' \in DbLocals /\ db'.n = 0
      BY <1>2, <3>1, <3>2 DEF DbLocals
    <3>4. DbType' /\ SqlLength'
      BY <1>0, <1>5, <2>2, <3>3 DEF DbType, SqlLength, DbFirst
    <3>5. QED BY <1>0, <1>1, <1>5, <3>4, BufferFrame, NodeFrame, EnvFrame
      DEF IInv, TypeOK, DbFirst
  <2>3. QED BY <1>5, <2>1, <2>2 DEF DbFirst
<1>6. CASE DbMin
  <2> DEFINE n == IF status[db.k] = "ACTIVE" /\ data_count[db.k] < db.n
                  THEN data_count[db.k] ELSE db.n
             k == IF db.k # N THEN db.k + 1 ELSE IF n <= 0 THEN N ELSE 1
             t == IF db.k = N THEN clock ELSE db.t
  <2>1. n \in Nat
    BY <1>0, <1>x DEF BufferType
  <2>2. k \in Nodes
    BY <1>x, <1>y
  <2>3. t \in Nat
    BY <1>0, <1>x DEF EnvType
  <2>4. /\ dbpc' = IF db.k # N THEN "min" ELSE IF n <= 0 THEN "unlock" ELSE "scan"
        /\ db' = [db EXCEPT !.n = n, !.k = k, !.x = 0, !.t = t]
        /\ sql' = <<>> /\ rows' = rows
    BY <1>6 DEF DbMin
  <2>5. db.k = N /\ ~(n <= 0) => k = 1
    OBVIOUS
  <2> HIDE DEF n, k, t
  <2>6. db' \in DbLocals /\ db'.n = n /\ db'.x = 0 /\ db'.k = k
    BY <1>2, <2>1, <2>2, <2>3, <2>4 DEF DbLocals
  <2>7. DbType'
    BY <1>0, <2>4, <2>6 DEF DbType
  <2>8. SqlLength'
    BY <2>1, <2>4, <2>5, <2>6 DEF SqlLength
  <2>9. BufferType' /\ BufferBound' /\ NodeType' /\ EnvType'
    BY <1>0, <1>6, BufferFrame, NodeFrame, EnvFrame DEF DbMin
  <2>10. QED BY <1>1, <2>7, <2>8, <2>9 DEF IInv, TypeOK
<1>m. CASE DbNoMemory
  <2>1. UNCHANGED <<bufvars, notex, status, dbvars, clock, arrivals>> /\ fault' = "exit"
    BY <1>m DEF DbNoMemory
  <2>2. EnvType'
    BY <1>0, <2>1 DEF EnvType
  <2>3. BufferType' /\ BufferBound' /\ NodeType' /\ DbType' /\ SqlLength'
    BY <1>0, <2>1, BufferFrame, NodeFrame, DbFrame
  <2>4. QED BY <1>1, <2>2, <2>3 DEF IInv, TypeOK
<1>7. ASSUME dbpc = "scan", ScanStep, UNCHANGED rows,
             NEW st \in Statements, SetStatement(st)
      PROVE  DbType' /\ SqlLength'
  <2> DEFINE k == IF db.k < N THEN db.k + 1 ELSE IF db.x + 1 < db.n THEN 1 ELSE N
             x == IF db.k = N /\ db.x + 1 < db.n THEN db.x + 1 ELSE db.x
  <2>1. /\ db.x < db.n /\ Len(sql) = IF db.k = 1 THEN db.x ELSE db.x + 1
    BY <1>0, <1>7 DEF SqlLength
  <2>2. \A i \in 1..(db.x + 1) : i # db.x + 1 => sql[i] \in Statements
    BY <1>2, <1>x, <2>1
  <2>3. sql' \in Seq(Statements) /\ Len(sql') = db.x + 1
    <3>1. sql' = [i \in 1..(db.x + 1) |-> IF i = db.x + 1 THEN st ELSE sql[i]]
      BY <1>7 DEF SetStatement
    <3>2. \A i \in 1..(db.x + 1) : (IF i = db.x + 1 THEN st ELSE sql[i]) \in Statements
      BY <1>7, <2>2
    <3>3. QED BY <1>x, <3>1, <3>2
  <2>4. k \in Nodes
    BY <1>x, <1>y
  <2>5. x \in Nat /\ x < db.n
    BY <1>x, <2>1
  <2>6. db' = [db EXCEPT !.k = k, !.x = x]
    BY <1>7 DEF ScanStep
  <2>7. dbpc' = IF db.k = N /\ db.x + 1 >= db.n THEN "unlock" ELSE "scan"
    BY <1>7 DEF ScanStep
  <2>8. dbpc' = "scan" => (db.x + 1 = IF k = 1 THEN x ELSE x + 1)
    BY <1>x, <2>7 DEF Nodes
  <2>9. dbpc' = "unlock" => db.n = db.x + 1
    BY <1>x, <2>1, <2>7
  <2> HIDE DEF k, x
  <2>10. db' \in DbLocals /\ db'.n = db.n /\ db'.x = x /\ db'.k = k
    BY <1>2, <2>4, <2>5, <2>6 DEF DbLocals
  <2>11. DbType'
    BY <1>0, <1>7, <2>3, <2>7, <2>10 DEF DbType
  <2>12. SqlLength'
    BY <2>3, <2>5, <2>7, <2>8, <2>9, <2>10 DEF SqlLength
  <2>13. QED BY <2>11, <2>12
<1>8. ASSUME dbpc = "scan" PROVE Statement \in Statements
  <2>1. DataTime \in Int
    BY <1>x DEF DataTime
  <2>2. CASE db.k = 1
    BY <2>1, <2>2 DEF Statement, Statements
  <2>3. CASE db.k # 1
    <3>1. Len(sql) = db.x + 1
      BY <1>0, <1>8, <2>3 DEF SqlLength
    <3>2. QED BY <1>2, <1>x, <2>3, <3>1 DEF Statement
  <2>4. QED BY <2>2, <2>3
<1>9. CASE DbDiscard
  <2>1. DbType' /\ SqlLength'
    BY <1>7, <1>8, <1>9 DEF DbDiscard
  <2>2. BufferType' /\ BufferBound'
    BY <1>0, <1>x, <1>9, BufferFrame, PopFirst DEF DbDiscard
  <2>3. NodeType' /\ EnvType'
    BY <1>0, <1>9, NodeFrame, EnvFrame DEF DbDiscard
  <2>4. QED BY <1>1, <2>1, <2>2, <2>3 DEF IInv, TypeOK
<1>10. CASE DbConvert
  <2>0. NodeType' /\ EnvType'
    BY <1>0, <1>10, NodeFrame DEF DbConvert, EnvType
  <2>1. CASE status[db.k] # "ACTIVE" /\ SetStatement(Statement) /\ ScanStep /\ UNCHANGED bufvars
    <3>1. DbType' /\ SqlLength'
      BY <1>7, <1>8, <1>10, <2>1 DEF DbConvert
    <3>2. QED BY <1>0, <1>1, <2>0, <2>1, <3>1, BufferFrame DEF IInv, TypeOK
  <2>2. CASE /\ node_data[db.k] # <<>>
             /\ SetStatement([Statement EXCEPT !.row[db.k] = Head(node_data[db.k])])
             /\ pop_first(db.k) /\ ScanStep
    <3>1. Head(node_data[db.k]) \in Nat
      <4>1. node_data[db.k] \in Seq(Nat \ {0}) /\ node_data[db.k] # <<>>
        BY <1>0, <1>x, <2>2 DEF BufferType
      <4>2. ASSUME NEW q \in Seq(Nat \ {0}), q # <<>> PROVE Head(q) \in Nat
        BY <4>2
      <4>3. QED BY <4>1, <4>2
    <3>2. Statement \in Statements
      BY <1>8, <1>10 DEF DbConvert
    <3>3. [Statement EXCEPT !.row[db.k] = Head(node_data[db.k])] \in Statements
      BY <1>x, <3>1, <3>2 DEF Statements
    <3>4. DbType' /\ SqlLength'
      BY <1>7, <1>10, <2>2, <3>3 DEF DbConvert
    <3>5. BufferType' /\ BufferBound'
      BY <1>0, <1>x, <2>2, PopFirst
    <3>6. QED BY <1>1, <2>0, <3>4, <3>5 DEF IInv, TypeOK
  <2>3. CASE UNCHANGED <<bufvars, dbpc, db, sql>>
    <3>1. DbType' /\ SqlLength'
      BY <1>0, <1>10, <2>3, DbFrame DEF DbConvert, dbvars
    <3>2. QED BY <1>0, <1>1, <2>0, <2>3, <3>1, BufferFrame DEF IInv, TypeOK
  <2>4. QED BY <1>10, <2>1, <2>2, <2>3 DEF DbConvert
<1>11. CASE DbUnlock
  <2> DEFINE k == IF db.k > 1 THEN db.k - 1 ELSE 1
  <2>1. k \in Nodes
    BY <1>x, <1>y
  <2>2. db' = [db EXCEPT !.k = k, !.x = 0]
    BY <1>11 DEF DbUnlock
  <2> HIDE DEF k
  <2>3. db' \in DbLocals /\ db'.n = db.n /\ db'.x = 0
    BY <1>2, <2>1, <2>2 DEF DbLocals
  <2>4. dbpc' \in {"unlock", "connect", "sleep", "query"} /\ (dbpc' = "query" => db.n > 0)
    BY <1>x, <1>11 DEF DbUnlock, EndRound
  <2>5. DbType'
    BY <1>0, <1>11, <2>3, <2>4 DEF DbType, DbUnlock
  <2>6. SqlLength'
    BY <1>0, <1>11, <2>3, <2>4 DEF SqlLength, DbUnlock
  <2>7. NodeType'
    BY <1>0, <1>11 DEF NodeType, DbUnlock
  <2>8. BufferType' /\ BufferBound' /\ EnvType'
    BY <1>0, <1>11, BufferFrame, EnvFrame DEF DbUnlock
  <2>9. QED BY <1>1, <2>5, <2>6, <2>7, <2>8 DEF IInv, TypeOK
<1>12. CASE DbQuery
  <2> DEFINE end == db.x + 1 >= db.n
             x == IF end THEN 0 ELSE db.x + 1
             last == IF end THEN LastDbTime ELSE db.last
  <2>0. PICK ok \in BOOLEAN :
          /\ rows' = [n \in Nodes |-> IF ok /\ sql[db.x + 1].row[n] # 0
                           THEN [seq |-> sql[db.x + 1].row[n], time |-> sql[db.x + 1].time]
                           ELSE rows[n]]
          /\ IF end THEN EndRound(~ok) ELSE dbpc' = "query"
          /\ db' = [db EXCEPT !.reconnect = ~ok, !.x = x, !.last = last]
          /\ sql' = IF end THEN <<>> ELSE sql
    BY <1>12 DEF DbQuery
  <2>1. sql[db.x + 1] \in Statements
    BY <1>0, <1>2, <1>x, <1>12 DEF SqlLength, DbQuery
  <2>2. rows' \in [Nodes -> Rows]
    <3>1. ASSUME NEW st \in Statements, NEW n \in Nodes
          PROVE  [seq |-> st.row[n], time |-> st.time] \in Rows
      BY DEF Statements, Rows
    <3>2. \A n \in Nodes : [seq |-> sql[db.x + 1].row[n], time |-> sql[db.x + 1].time] \in Rows
      BY <2>1, <3>1
    <3>3. QED BY <1>2, <2>0, <3>2
  <2>3. x \in Nat /\ (~end => x < db.n)
    BY <1>x
  <2>4. last \in Int
    BY <1>x DEF LastDbTime
  <2>5. dbpc' \in {"connect", "sleep", "query"} /\ (dbpc' = "query" => ~end)
    BY <2>0 DEF EndRound
  <2>6. sql' \in Seq(Statements) /\ (~end => sql' = sql)
    BY <1>2, <2>0
  <2> HIDE DEF x, last, end
  <2>7. db' \in DbLocals /\ db'.n = db.n /\ db'.x = x
    BY <1>2, <2>0, <2>3, <2>4 DEF DbLocals
  <2>8. DbType'
    BY <2>2, <2>5, <2>6, <2>7 DEF DbType
  <2>9. SqlLength'
    BY <1>0, <1>12, <2>3, <2>5, <2>6, <2>7 DEF SqlLength, DbQuery
  <2>10. BufferType' /\ BufferBound' /\ NodeType' /\ EnvType'
    BY <1>0, <1>12, BufferFrame, NodeFrame, EnvFrame DEF DbQuery
  <2>11. QED BY <1>1, <2>8, <2>9, <2>10 DEF IInv, TypeOK
<1>13. CASE DbWake
  <2>1. DbType' /\ SqlLength'
    BY <1>0, <1>13 DEF DbType, SqlLength, DbWake
  <2>2. BufferType' /\ BufferBound' /\ NodeType' /\ EnvType'
    BY <1>0, <1>13, BufferFrame, NodeFrame, EnvFrame DEF DbWake
  <2>3. QED BY <1>1, <2>1, <2>2 DEF IInv, TypeOK
<1>14. QED
  BY <1>3, <1>4, <1>5, <1>6, <1>m, <1>9, <1>10, <1>11, <1>12, <1>13 DEF Db

\* A restarted process has empty buffers.
LEMMA RestartStep == ASSUME IInv, Restart PROVE IInv'
<1> USE ConstantsTyped DEF Restart, AllNodes, FreshService, FreshDb, NoRequest
<1>0. BufferType /\ ServiceType /\ ThreadType /\ DbType /\ EnvType
  BY DEF IInv, TypeOK
<1>1. BufferType' /\ NodeType'
  BY DEF BufferType, NodeType
<1>2. EnvType'
  BY <1>0 DEF EnvType
<1>3. ServiceType'
  BY <1>0 DEF ServiceType
<1>4. ThreadType'
  BY <1>0 DEF ThreadType
<1>5. rows' \in [Nodes -> Rows]
  BY <1>0, RowTimeReset DEF DbType
<1>6. DbType'
  BY <1>5 DEF DbType, DbLocals
<1>7. BufferBound'
  BY DEF BufferBound
<1>8. SqlLength' /\ ReceiverNode' /\ QueryNode'
  BY DEF SqlLength, ReceiverNode, QueryNode, RecvLive, Holding
<1>9. QED BY <1>1, <1>2, <1>3, <1>4, <1>6, <1>7, <1>8 DEF IInv, TypeOK

\* Time changes the clock alone.
LEMMA TickStep == ASSUME IInv, Tick \/ UNCHANGED vars PROVE IInv'
<1>0. /\ TypeOK /\ BufferBound /\ SqlLength /\ ReceiverNode /\ QueryNode
      /\ BufferType /\ NodeType /\ ServiceType /\ ThreadType /\ DbType /\ EnvType
  BY DEF IInv, TypeOK
<1>1. UNCHANGED <<status, bufvars, notex, connvars, thrvars, dbvars>>
  BY DEF Tick, vars
<1>2. EnvType'
  BY <1>0 DEF EnvType, Tick, vars, envvars
<1>3. QED
  BY <1>0, <1>1, <1>2, BufferFrame, NodeFrame, ServiceFrame, ThreadFrame, DbFrame
  DEF IInv, TypeOK

-----------------------------------------------------------------------------
\* IInv is inductive.
THEOREM Inductive == Spec => []IInv
<1>1. IInv /\ [Next]_vars => IInv'
  <2>1. SUFFICES ASSUME IInv, [Next]_vars PROVE IInv'
    OBVIOUS
  <2>2. QED
    BY <2>1, ServiceStep, RecvStep, RtdStep, DbStep, RestartStep, TickStep DEF Next
<1>2. QED BY InitIInv, <1>1, PTL DEF Spec

\* Every variable of the server keeps its type, for any number of nodes,
\* collectors and query clients: the loops of thread_db never index a node or a
\* statement out of range and rerecv_times never leaves 0..RERECV_TIMES.
THEOREM TypeCorrect == Spec => []TypeOK
<1>1. IInv => TypeOK BY DEF IInv
<1>2. QED BY Inductive, <1>1, PTL

\* The buffer of a node never holds more than MAX_NODE_DATA_COUNT + 1 samples
\* and its counter always equals the length of its list, although receivers of
\* several connections fill and clear it and thread_db takes from it.
THEOREM BufferBounded == Spec => []BufferBound
<1>1. IInv => BufferBound BY DEF IInv
<1>2. QED BY Inductive, <1>1, PTL

-----------------------------------------------------------------------------
(* The threads: who serves an ACTIVE node, who holds which mutex, and how   *)
(* many query threads there are.                                            *)

\* A connection has no thread before it is accepted, and none while its hello
\* is awaited.
Fresh ==
  /\ \A c \in Conns : fd[c] = "none" => tpc[c] = "none"
  /\ svc.pc = "hello" => /\ svc.conn \in Conns
                         /\ fd[svc.conn] # "none"
                         /\ tpc[svc.conn] = "none"

\* thread_db starts a round, after a query or a sleep, at the first node.
DbIdle == dbpc \in {"query", "sleep"} => db.k = 1

Owners == MutexOwners /\ DbIdle

TInv == Fresh /\ ActiveHasReceiver /\ RtdLimit /\ Owners

\* No connection has the name of a state of a mutex.
LEMMA NamesDiffer == \A c \in Conns : c # "free" /\ c # "db"
BY ServerConstants DEF Conns

-----------------------------------------------------------------------------
(* What a step of the thread of connection c preserves.                     *)

\* A step of an existing thread, which may close its descriptor.
LEMMA FreshKept ==
  ASSUME Fresh, NEW c \in Conns, tpc[c] # "none", UNCHANGED svc,
         \A d \in Conns \ {c} : tpc'[d] = tpc[d] /\ fd'[d] = fd[d],
         fd'[c] # fd[c] => fd'[c] # "none"
  PROVE  Fresh'
<1>1. fd[c] # "none" /\ fd'[c] # "none"
  BY DEF Fresh
<1>2. svc.pc = "hello" => svc.conn # c
  BY DEF Fresh
<1>3. QED BY <1>1, <1>2 DEF Fresh

\* A step that takes no receiver away.
LEMMA ReceiversKept ==
  ASSUME ActiveHasReceiver, UNCHANGED status,
         \A d \in Conns : tpc[d] \in RecvLive => tpc'[d] \in RecvLive /\ tnode'[d] = tnode[d]
  PROVE  ActiveHasReceiver'
BY DEF ActiveHasReceiver

\* A step that neither admits nor ends a query thread.
LEMMA QueriesKept ==
  ASSUME RtdLimit, UNCHANGED g_rtd_num,
         \A d \in Conns : tpc'[d] \in RtdLive <=> tpc[d] \in RtdLive
  PROVE  RtdLimit'
<1>1. {d \in Conns : tpc'[d] \in RtdLive} = {d \in Conns : tpc[d] \in RtdLive}
  OBVIOUS
<1>2. QED BY <1>1 DEF RtdLimit

\* A step that takes or releases no mutex.
LEMMA OwnersKept ==
  ASSUME Owners, UNCHANGED <<notex, dbpc, db>>,
         \A d \in Conns : /\ tpc'[d] \in Holding <=> tpc[d] \in Holding
                          /\ tpc[d] \in Holding => request'[d] = request[d]
  PROVE  Owners'
<1>1. ASSUME NEW n \in Nodes, NEW d \in Conns
      PROVE  notex'[n] = d <=> /\ tpc'[d] \in Holding
                               /\ request'[d].todo # <<>>
                               /\ Head(request'[d].todo) = n
  BY DEF Owners, MutexOwners
<1>2. ASSUME NEW n \in Nodes PROVE notex'[n] = "db" <=> DbHolds(n)'
  BY DEF Owners, MutexOwners, DbHolds
<1>3. QED BY <1>1, <1>2 DEF Owners, MutexOwners, DbIdle

\* The admitted query threads are finitely many, so that they can be counted.
LEMMA LiveFinite ==
  /\ IsFiniteSet({c \in Conns : tpc[c] \in RtdLive})
  /\ Cardinality({c \in Conns : tpc[c] \in RtdLive}) \in Nat
<1>1. IsFiniteSet(Conns)
  BY ServerConstants, FS_Union DEF Conns
<1>2. QED BY <1>1, FS_Subset, FS_CardinalityType

\* finish_thread and the admission in thread_rtd keep the count exact.
LEMMA QueryEnd ==
  ASSUME RtdLimit, ThreadType, NEW c \in Conns, tpc[c] \in RtdLive,
         tpc' = [tpc EXCEPT ![c] = "gone"], g_rtd_num' = g_rtd_num - 1
  PROVE  RtdLimit'
<1> DEFINE L == {d \in Conns : tpc[d] \in RtdLive}
<1>1. {d \in Conns : tpc'[d] \in RtdLive} = L \ {c}
  BY DEF ThreadType, RtdLive
<1>2. IsFiniteSet(L) /\ Cardinality(L) \in Nat
  BY LiveFinite
<1>3. c \in L
  OBVIOUS
<1> HIDE DEF L
<1>4. Cardinality(L \ {c}) = Cardinality(L) - 1
  BY <1>2, <1>3, FS_RemoveElement
<1>5. g_rtd_num = Cardinality(L) /\ g_rtd_num <= MAX_RTD_REQUEST
  BY DEF RtdLimit, L
<1>6. g_rtd_num - 1 <= MAX_RTD_REQUEST
  BY <1>2, <1>5, ConstantsTyped
<1>7. QED BY <1>1, <1>4, <1>5, <1>6 DEF RtdLimit

\* A thread admitted below the limit is counted once.
LEMMA QueryAdmitted ==
  ASSUME RtdLimit, ThreadType, NEW c \in Conns, tpc[c] = "rtd", ~RtdFull,
         tpc' = [tpc EXCEPT ![c] = "req"], g_rtd_num' = g_rtd_num + 1
  PROVE  RtdLimit'
<1> DEFINE L == {d \in Conns : tpc[d] \in RtdLive}
<1>1. {d \in Conns : tpc'[d] \in RtdLive} = L \cup {c}
  BY DEF ThreadType, RtdLive
<1>2. IsFiniteSet(L) /\ Cardinality(L) \in Nat
  BY LiveFinite
<1>3. c \notin L
  BY DEF RtdLive
<1>4. g_rtd_num = Cardinality(L)
  BY DEF RtdLimit
<1> HIDE DEF L
<1>5. Cardinality(L \cup {c}) = Cardinality(L) + 1
  BY <1>2, <1>3, FS_AddElement
<1>6. g_rtd_num + 1 <= MAX_RTD_REQUEST
  BY <1>2, <1>4, ConstantsTyped DEF RtdFull
<1>7. QED BY <1>1, <1>4, <1>5, <1>6 DEF RtdLimit

-----------------------------------------------------------------------------
\* create_data_buffer: no thread, no mutex held.
LEMMA InitTInv == Init => TInv
<1> SUFFICES ASSUME Init PROVE TInv
  OBVIOUS
<1> USE ConstantsTyped, NamesDiffer DEF Init, AllNodes, FreshService, FreshDb, NoRequest
<1>1. Fresh
  BY DEF Fresh
<1>2. ActiveHasReceiver
  BY DEF ActiveHasReceiver
<1>3. RtdLimit
  <2>1. {c \in Conns : tpc[c] \in RtdLive} = {}
    BY DEF RtdLive
  <2>2. Cardinality({}) = 0
    BY FS_EmptySet
  <2>3. g_rtd_num = 0 /\ 0 <= MAX_RTD_REQUEST
    OBVIOUS
  <2>4. QED BY <2>1, <2>2, <2>3, Zenon DEF RtdLimit
<1>4. Owners
  BY DEF Owners, MutexOwners, DbIdle, DbHolds, Holding
<1>5. QED BY <1>1, <1>2, <1>3, <1>4 DEF TInv

\* A restarted process has no threads.
LEMMA RestartTInv == ASSUME Fresh, Restart PROVE TInv'
<1> USE ConstantsTyped, NamesDiffer DEF Restart, AllNodes, FreshService, FreshDb, NoRequest
<1>1. Fresh'
  BY DEF Fresh
<1>2. ActiveHasReceiver'
  BY DEF ActiveHasReceiver
<1>3. RtdLimit'
  <2>1. {c \in Conns : tpc'[c] \in RtdLive} = {}
    BY DEF RtdLive
  <2>2. Cardinality({}) = 0
    BY FS_EmptySet
  <2>3. g_rtd_num' = 0 /\ 0 <= MAX_RTD_REQUEST
    OBVIOUS
  <2>4. QED BY <2>1, <2>2, <2>3, Zenon DEF RtdLimit
<1>4. Owners'
  BY DEF Owners, MutexOwners, DbIdle, DbHolds, Holding
<1>5. QED BY <1>1, <1>2, <1>3, <1>4 DEF TInv

\* The accept loop gives a thread only to a connection that has none.
LEMMA ServiceTInv ==
  ASSUME IInv, TInv, \/ \E c \in Conns : Accept(c) \/ Handshake(c)
                     \/ AcceptAborted \/ AcceptFails \/ HelloFails
  PROVE  TInv'
<1>0. ThreadType /\ ServiceType /\ Fresh /\ ActiveHasReceiver /\ RtdLimit /\ Owners
  BY DEF IInv, TypeOK, TInv
<1>1. ASSUME UNCHANGED <<status, notex, thrvars, dbvars>>, Fresh'
      PROVE  TInv'
  BY <1>0, <1>1, ReceiversKept, QueriesKept, OwnersKept DEF thrvars, dbvars, TInv
<1>2. ASSUME NEW c \in Conns, Accept(c) PROVE TInv'
  <2>1. Fresh'
    BY <1>0, <1>2 DEF Fresh, Accept, ServiceType, thrvars
  <2>2. QED BY <1>1, <1>2, <2>1 DEF Accept
<1>3. CASE AcceptAborted \/ AcceptFails \/ HelloFails
  <2>1. Fresh'
    BY <1>0, <1>3 DEF Fresh, AcceptAborted, AcceptFails, HelloFails, ServiceReturns,
         ServiceType, thrvars
  <2>2. QED BY <1>1, <1>3, <2>1 DEF AcceptAborted, AcceptFails, HelloFails
<1>4. ASSUME NEW c \in Conns, Handshake(c) PROVE TInv'
  <2>0. PICK h \in Hello(c) : \/ Rejected(c, h) \/ StartRecv(c, h) \/ StartRtd(c, h)
                             \/ StartFails(c, h) \/ UnknownHello(c, h)
    BY <1>4 DEF Handshake
  <2>1. tpc[c] = "none" /\ fd[c] # "none"
    BY <1>0, <1>4 DEF Fresh, Handshake
  <2>2. UNCHANGED <<status, notex, dbvars>>
    BY <1>4 DEF Handshake
  <2>3. NextAccept(c, "open") \/ NextAccept(c, "closed")
    BY <2>0 DEF Rejected, StartRecv, StartRtd, StartFails, UnknownHello
  <2>4. CASE UNCHANGED thrvars
    <3>1. Fresh'
      BY <1>0, <2>3, <2>4 DEF Fresh, NextAccept, ServiceType, thrvars
    <3>2. QED BY <1>1, <2>2, <2>4, <3>1
  <2>5. CASE StartRecv(c, h) \/ StartRtd(c, h)
    <3>1. \A d \in Conns : d # c => tpc'[d] = tpc[d] /\ tnode'[d] = tnode[d]
      BY <1>0, <2>5 DEF StartRecv, StartRtd, ThreadType
    <3>2. tpc'[c] \in {"start", "rtd"} /\ UNCHANGED <<request, g_rtd_num>>
      BY <1>0, <2>5 DEF StartRecv, StartRtd, ThreadType
    <3>3. Fresh'
      BY <1>0, <2>3, <3>1 DEF Fresh, NextAccept, ServiceType
    <3>4. ActiveHasReceiver'
      BY <1>0, <2>1, <2>2, <3>1, ReceiversKept DEF RecvLive
    <3>5. RtdLimit'
      BY <1>0, <2>1, <3>1, <3>2, QueriesKept DEF RtdLive
    <3>6. Owners'
      BY <1>0, <2>1, <2>2, <3>1, <3>2, OwnersKept DEF Holding, dbvars
    <3>7. QED BY <3>3, <3>4, <3>5, <3>6 DEF TInv
  <2>6. QED BY <2>0, <2>4, <2>5 DEF Rejected, StartFails, UnknownHello
<1>5. QED BY <1>2, <1>3, <1>4

\* A receiver that resets node_status leaves other nodes' receivers alone.
LEMMA RecvTInv == ASSUME IInv, TInv, NEW c \in Conns, Recv(c) PROVE TInv'
<1>0. ThreadType /\ ServiceType /\ Fresh /\ ActiveHasReceiver /\ RtdLimit /\ Owners
  BY DEF IInv, TypeOK, TInv
<1>1. /\ tpc[c] \in {"start", "recv", "store", "exit"}
      /\ tpc'[c] \in {"recv", "store", "exit", "gone"}
      /\ \A d \in Conns : d # c => tpc'[d] = tpc[d] /\ tnode'[d] = tnode[d]
      /\ UNCHANGED <<notex, svc, request, g_rtd_num, dbvars>>
      /\ fd' = fd \/ fd' = [fd EXCEPT ![c] = "closed"]
  BY <1>0 DEF Recv, RecvStart, RecvTimeout, RecvEnds, RecvData, RecvStore, RecvExit,
              ThreadType, connvars
<1>2. Fresh'
  BY <1>0, <1>1, FreshKept DEF ServiceType
<1>3. RtdLimit'
  BY <1>0, <1>1, QueriesKept DEF RtdLive
<1>4. Owners'
  BY <1>0, <1>1, OwnersKept DEF Holding, dbvars
<1>5. ActiveHasReceiver'
  <2>1. CASE RecvTimeout(c) \/ RecvData(c) \/ RecvStore(c) \/ RecvExit(c)
    <3>1. /\ UNCHANGED status
          /\ tpc[c] \in RecvLive => tpc'[c] \in RecvLive /\ tnode'[c] = tnode[c]
      BY <1>0, <2>1 DEF RecvTimeout, RecvData, RecvStore, RecvExit, RecvLive, ThreadType
    <3>2. QED BY <1>0, <1>1, <3>1, ReceiversKept
  <2>2. CASE RecvStart(c)
    <3>1. /\ status' = [status EXCEPT ![tnode[c]] = "ACTIVE"]
          /\ tpc'[c] \in RecvLive /\ tnode' = tnode
      BY <1>0, <2>2 DEF RecvStart, RecvLive, ThreadType
    <3>2. SUFFICES ASSUME NEW n \in Nodes, status'[n] = "ACTIVE"
                   PROVE  \E d \in Conns : tpc'[d] \in RecvLive /\ tnode'[d] = n
      BY DEF ActiveHasReceiver
    <3>3. CASE n = tnode[c]
      BY <3>1, <3>3
    <3>4. CASE n # tnode[c]
      <4>1. status[n] = "ACTIVE"
        BY <3>1, <3>2, <3>4
      <4>2. PICK d \in Conns : tpc[d] \in RecvLive /\ tnode[d] = n
        BY <1>0, <4>1 DEF ActiveHasReceiver
      <4>3. QED BY <1>1, <3>1, <3>4, <4>2
    <3>5. QED BY <3>3, <3>4
  <2>3. ASSUME NEW closed \in BOOLEAN, RecvEnds(c, closed)
        PROVE  ActiveHasReceiver'
    <3>1. status' = [status EXCEPT ![tnode[c]] = "DOWN"] /\ tnode' = tnode
      BY <2>3 DEF RecvEnds, NodeDown
    <3>2. SUFFICES ASSUME NEW n \in Nodes, status'[n] = "ACTIVE"
                   PROVE  \E d \in Conns : tpc'[d] \in RecvLive /\ tnode'[d] = n
      BY DEF ActiveHasReceiver
    <3>3. n # tnode[c] /\ status[n] = "ACTIVE"
      <4>1. status \in [Nodes -> {"DOWN", "ACTIVE"}]
        BY DEF IInv, TypeOK, NodeType
      <4>2. QED BY <3>1, <3>2, <4>1
    <3>4. PICK d \in Conns : tpc[d] \in RecvLive /\ tnode[d] = n
      BY <1>0, <3>3 DEF ActiveHasReceiver
    <3>5. QED BY <1>1, <3>1, <3>3, <3>4
  <2>4. QED BY <2>1, <2>2, <2>3 DEF Recv
<1>6. QED BY <1>2, <1>3, <1>4, <1>5 DEF TInv

\* A step of thread_rtd.
LEMMA RtdTInv == ASSUME IInv, TInv, NEW c \in Conns, Rtd(c) PROVE TInv'
<1> USE NamesDiffer
<1>0. ThreadType /\ ServiceType /\ NodeType /\ Fresh /\ ActiveHasReceiver /\ RtdLimit /\ Owners
  BY DEF IInv, TypeOK, TInv
<1>1. /\ tpc[c] \in {"rtd"} \cup RtdLive
      /\ \A d \in Conns : d # c => tpc'[d] = tpc[d] /\ request'[d] = request[d]
      /\ UNCHANGED <<status, svc, tnode, dbvars>>
      /\ fd' = fd \/ fd' = [fd EXCEPT ![c] = "closed"]
  BY <1>0 DEF Rtd, RtdAdmit, RtdNoData, handle_get_status, handle_exit, handle_request_data,
              UnknownIndex, RtdLock, RtdStatus, RtdAssert, RtdUnlock, RtdDone, finish_thread,
              RtdLive, ThreadType, connvars, thrvars
<1>2. Fresh'
  BY <1>0, <1>1, FreshKept DEF ServiceType, RtdLive
<1>3. ActiveHasReceiver'
  BY <1>0, <1>1, ReceiversKept DEF RecvLive, RtdLive
<1>4. CASE RtdAdmit(c)
  <2>1. RtdLimit'
    <3>1. CASE UNCHANGED g_rtd_num /\ tpc' = [tpc EXCEPT ![c] = "gone"]
      BY <1>0, <1>4, <3>1, QueriesKept DEF RtdAdmit, RtdLive, ThreadType
    <3>2. QED BY <1>0, <1>4, <3>1, QueryAdmitted DEF RtdAdmit
  <2>2. Owners'
    BY <1>0, <1>1, <1>4, OwnersKept DEF RtdAdmit, Holding, ThreadType, dbvars
  <2>3. QED BY <1>2, <1>3, <2>1, <2>2 DEF TInv
<1>5. CASE RtdNoData(c) \/ handle_get_status(c) \/ RtdDone(c)
  <2>1. /\ finish_thread(c) /\ UNCHANGED notex
        /\ tpc[c] \in RtdLive /\ tpc[c] \notin Holding
    BY <1>5 DEF RtdNoData, handle_get_status, RtdDone, RtdLive, Holding
  <2>2. RtdLimit'
    BY <1>0, <2>1, QueryEnd DEF finish_thread
  <2>3. tpc'[c] = "gone"
    BY <1>0, <2>1 DEF finish_thread, ThreadType
  <2>4. Owners'
    BY <1>0, <1>1, <2>1, <2>3, OwnersKept DEF Holding, dbvars
  <2>5. QED BY <1>2, <1>3, <2>2, <2>4 DEF TInv
<1>6. CASE handle_exit(c) \/ handle_request_data(c) \/ UnknownIndex(c)
  <2>1. /\ UNCHANGED <<notex, g_rtd_num>>
        /\ tpc[c] = "req" /\ tpc'[c] \in {"req", "serve", "spin"}
    BY <1>0, <1>6 DEF handle_exit, handle_request_data, UnknownIndex, ThreadType, thrvars
  <2>2. RtdLimit'
    BY <1>0, <1>1, <2>1, QueriesKept DEF RtdLive
  <2>3. Owners'
    BY <1>0, <1>1, <2>1, OwnersKept DEF Holding, dbvars
  <2>4. QED BY <1>2, <1>3, <2>2, <2>3 DEF TInv
<1>7. CASE RtdStatus(c) \/ RtdAssert(c)
  <2>1. /\ UNCHANGED <<notex, request, g_rtd_num>>
        /\ tpc[c] \in Holding /\ tpc'[c] \in Holding
    BY <1>0, <1>7 DEF RtdStatus, RtdAssert, ThreadType, Holding
  <2>2. RtdLimit'
    BY <1>0, <1>1, <2>1, QueriesKept DEF RtdLive, Holding
  <2>3. Owners'
    BY <1>0, <1>1, <2>1, OwnersKept DEF dbvars
  <2>4. QED BY <1>2, <1>3, <2>2, <2>3 DEF TInv
<1>8. CASE RtdLock(c)
  <2> DEFINE n == Head(request[c].todo)
  <2>0. tpc[c] = "serve" /\ request[c].todo # <<>> /\ UNCHANGED g_rtd_num
    BY <1>8 DEF RtdLock
  <2>1. CASE UNCHANGED <<notex, tpc>>
    <3>1. RtdLimit'
      BY <1>0, <2>0, <2>1, QueriesKept
    <3>2. Owners'
      BY <1>0, <1>1, <2>0, <2>1, OwnersKept DEF Holding, dbvars
    <3>3. QED BY <1>2, <1>3, <3>1, <3>2 DEF TInv
  <2>2. CASE /\ n # 0 /\ notex[n] = "free" /\ notex' = [notex EXCEPT ![n] = c]
             /\ tpc' = [tpc EXCEPT ![c] = "status"] /\ UNCHANGED request
    <3>1. tpc'[c] = "status"
      BY <1>0, <2>2 DEF ThreadType
    <3>2. RtdLimit'
      BY <1>0, <1>1, <2>0, <3>1, QueriesKept DEF RtdLive
    <3>3. n \in Nodes
      <4>1. request[c].todo \in Seq(Nodes \cup {0})
        BY <1>0 DEF ThreadType
      <4>2. QED BY <2>0, <2>2, <4>1
    <3>4. ASSUME NEW m \in Nodes, NEW d \in Conns
          PROVE  notex'[m] = d <=> /\ tpc'[d] \in Holding
                                   /\ request'[d].todo # <<>>
                                   /\ Head(request'[d].todo) = m
      <4>1. CASE d = c
        <5>1. notex[m] # c
          BY <1>0, <2>0 DEF Owners, MutexOwners, Holding
        <5>2. QED BY <1>0, <2>0, <2>2, <3>1, <3>3, <4>1, <5>1 DEF NodeType, Holding
      <4>2. CASE d # c
        <5>1. notex'[m] = d <=> notex[m] = d
          BY <1>0, <2>2, <4>2 DEF NodeType
        <5>2. QED BY <1>0, <1>1, <2>2, <4>2, <5>1 DEF Owners, MutexOwners
      <4>3. QED BY <4>1, <4>2
    <3>5. ASSUME NEW m \in Nodes PROVE notex'[m] = "db" <=> DbHolds(m)'
      <4>1. notex'[m] = "db" <=> notex[m] = "db"
        BY <1>0, <2>2 DEF NodeType
      <4>2. QED BY <1>0, <1>1, <4>1 DEF Owners, MutexOwners, DbHolds, dbvars
    <3>6. DbIdle'
      BY <1>0, <1>1 DEF Owners, DbIdle, dbvars
    <3>7. QED BY <1>2, <1>3, <3>2, <3>4, <3>5, <3>6 DEF TInv, Owners, MutexOwners
  <2>3. QED BY <1>8, <2>1, <2>2 DEF RtdLock
<1>9. CASE RtdUnlock(c)
  <2> DEFINE n == Head(request[c].todo)
  <2>0. /\ tpc[c] = "unlock" /\ UNCHANGED g_rtd_num
        /\ notex' = [notex EXCEPT ![n] = "free"]
    BY <1>9 DEF RtdUnlock
  <2>1. tpc'[c] = "serve"
    BY <1>0, <1>9 DEF RtdUnlock, ThreadType
  <2>2. RtdLimit'
    BY <1>0, <1>1, <2>0, <2>1, QueriesKept DEF RtdLive
  <2>3. n \in Nodes /\ notex[n] = c /\ request[c].todo # <<>>
    BY <1>0, <2>0 DEF IInv, QueryNode, Owners, MutexOwners, Holding
  <2>4. ASSUME NEW m \in Nodes, NEW d \in Conns
        PROVE  notex'[m] = d <=> /\ tpc'[d] \in Holding
                                 /\ request'[d].todo # <<>>
                                 /\ Head(request'[d].todo) = m
    <3>1. CASE d = c
      <4>1. m # n => notex[m] # c
        BY <1>0 DEF Owners, MutexOwners
      <4>2. QED BY <1>0, <2>0, <2>1, <2>3, <3>1, <4>1 DEF NodeType, Holding
    <3>2. CASE d # c
      <4>1. notex'[m] = d <=> notex[m] = d
        BY <1>0, <2>0, <2>3, <3>2 DEF NodeType
      <4>2. QED BY <1>0, <1>1, <3>2, <4>1 DEF Owners, MutexOwners
    <3>3. QED BY <3>1, <3>2
  <2>5. ASSUME NEW m \in Nodes PROVE notex'[m] = "db" <=> DbHolds(m)'
    <3>1. notex'[m] = "db" <=> notex[m] = "db"
      BY <1>0, <2>0, <2>3 DEF NodeType
    <3>2. QED BY <1>0, <1>1, <3>1 DEF Owners, MutexOwners, DbHolds, dbvars
  <2>6. DbIdle'
    BY <1>0, <1>1 DEF Owners, DbIdle, dbvars
  <2>7. QED BY <1>2, <1>3, <2>2, <2>4, <2>5, <2>6 DEF TInv, Owners, MutexOwners
<1>10. QED BY <1>4, <1>5, <1>6, <1>7, <1>8, <1>9 DEF Rtd

\* The mutexes thread_db holds, as its loops move: query threads' mutexes are
\* neither taken nor released.
LEMMA DbOwners ==
  ASSUME IInv, Owners, UNCHANGED <<tpc, request>>, DbIdle',
         \A n \in Nodes : notex'[n] = notex[n] \/ {notex[n], notex'[n]} = {"free", "db"},
         \A n \in Nodes : notex'[n] = "db" <=> DbHolds(n)'
  PROVE  Owners'
<1>1. ASSUME NEW n \in Nodes, NEW d \in Conns PROVE notex'[n] = d <=> notex[n] = d
  BY NamesDiffer
<1>2. QED BY <1>1 DEF Owners, MutexOwners

\* A step of thread_db.
LEMMA DbTInv == ASSUME IInv, TInv, Db PROVE TInv'
<1> USE ConstantsTyped
<1>0. /\ ServiceType /\ NodeType /\ DbType /\ Fresh /\ ActiveHasReceiver /\ RtdLimit
      /\ Owners /\ db.k \in Nodes /\ db \in DbLocals
  BY DEF IInv, TypeOK, TInv, DbType, DbLocals
<1>1. UNCHANGED <<status, connvars, thrvars>>
  BY DEF Db, DbConnect, DbLock, DbFirst, DbMin, DbNoMemory, DbDiscard, DbConvert, DbUnlock,
         DbQuery, DbWake
<1>2. Fresh' /\ ActiveHasReceiver' /\ RtdLimit'
  BY <1>0, <1>1, ReceiversKept, QueriesKept DEF Fresh, connvars, thrvars
<1>3. UNCHANGED <<tpc, request>>
  BY <1>1 DEF thrvars
<1>4. \A n \in Nodes : notex[n] = "db" <=> DbHolds(n)
  BY <1>0 DEF Owners, MutexOwners
<1>5. ASSUME UNCHANGED notex, \A n \in Nodes : DbHolds(n)' <=> DbHolds(n), DbIdle'
      PROVE  TInv'
  BY <1>0, <1>2, <1>3, <1>4, <1>5, DbOwners DEF TInv
<1>6. CASE DbConnect
  <2>1. CASE UNCHANGED <<dbpc, db>>
    <3>1. \A n \in Nodes : DbHolds(n)' <=> DbHolds(n)
      BY <2>1 DEF DbHolds
    <3>2. QED BY <1>0, <1>5, <1>6, <2>1, <3>1 DEF DbConnect, Owners, DbIdle
  <2>2. CASE dbpc' = "lock" /\ db' = [db EXCEPT !.k = 1, !.last = 0]
    <3>1. db'.k = 1
      BY <1>0, <2>2 DEF DbLocals
    <3>2. \A n \in Nodes : ~DbHolds(n) /\ ~DbHolds(n)'
      BY <1>6, <2>2, <3>1 DEF DbConnect, DbHolds, Nodes
    <3>3. QED BY <1>5, <1>6, <2>2, <3>2 DEF DbConnect, DbIdle
  <2>3. QED BY <1>6, <2>1, <2>2 DEF DbConnect
<1>7. CASE DbLock
  <2>1. dbpc = "lock" /\ notex[db.k] = "free" /\ notex' = [notex EXCEPT ![db.k] = "db"]
    BY <1>7 DEF DbLock
  <2>2. db'.k = IF db.k = N THEN 1 ELSE db.k + 1
    BY <1>0, <1>7 DEF DbLock, DbLocals
  <2>3. dbpc' = IF db.k = N THEN "first" ELSE "lock"
    BY <1>7 DEF DbLock
  <2>4. ASSUME NEW n \in Nodes PROVE DbHolds(n)' <=> n = db.k \/ DbHolds(n)
    BY <1>0, <2>1, <2>2, <2>3 DEF DbHolds, Nodes
  <2>5. DbIdle'
    BY <2>3 DEF DbIdle
  <2>6. \A n \in Nodes : notex'[n] = IF n = db.k THEN "db" ELSE notex[n]
    BY <1>0, <2>1 DEF NodeType
  <2>7. Owners'
    BY <1>0, <1>3, <1>4, <2>1, <2>4, <2>5, <2>6, DbOwners
  <2>8. QED BY <1>2, <2>7 DEF TInv
<1>8. CASE DbFirst
  <2>1. dbpc = "first" /\ UNCHANGED notex
    BY <1>8 DEF DbFirst
  <2>2. dbpc' \in {"min", "first", "unlock"} /\ (dbpc' = "unlock" => db'.k = N)
    BY <1>0, <1>8 DEF DbFirst, DbLocals
  <2>3. \A n \in Nodes : DbHolds(n)' /\ DbHolds(n)
    BY <2>1, <2>2 DEF DbHolds, Nodes
  <2>4. QED BY <1>5, <2>1, <2>2, <2>3 DEF DbIdle
<1>9. CASE DbMin
  <2>1. dbpc = "min" /\ UNCHANGED notex
    BY <1>9 DEF DbMin
  <2>2. dbpc' \in {"min", "unlock", "scan"} /\ (dbpc' = "unlock" => db'.k = N)
    BY <1>0, <1>9 DEF DbMin, DbLocals
  <2>3. \A n \in Nodes : DbHolds(n)' /\ DbHolds(n)
    BY <2>1, <2>2 DEF DbHolds, Nodes
  <2>4. QED BY <1>5, <2>1, <2>2, <2>3 DEF DbIdle
<1>m. CASE DbNoMemory
  <2>1. UNCHANGED <<notex, dbpc, db>>
    BY <1>m DEF DbNoMemory, dbvars
  <2>2. \A n \in Nodes : DbHolds(n)' <=> DbHolds(n)
    BY <2>1 DEF DbHolds
  <2>3. DbIdle'
    BY <1>0, <2>1 DEF Owners, DbIdle
  <2>4. QED BY <1>5, <2>1, <2>2, <2>3
<1>10. CASE DbDiscard \/ DbConvert
  <2>1. dbpc = "scan" /\ UNCHANGED notex /\ (ScanStep \/ UNCHANGED <<dbpc, db>>)
    BY <1>10 DEF DbDiscard, DbConvert
  <2>2. dbpc' \in {"unlock", "scan"} /\ (dbpc' = "unlock" => db'.k = N)
    <3>1. CASE UNCHANGED <<dbpc, db>>
      BY <2>1, <3>1
    <3>2. CASE ScanStep
      <4> DEFINE k == IF db.k < N THEN db.k + 1 ELSE IF db.x + 1 < db.n THEN 1 ELSE N
                 x == IF db.k = N /\ db.x + 1 < db.n THEN db.x + 1 ELSE db.x
      <4>1. dbpc' \in {"unlock", "scan"} /\ (dbpc' = "unlock" => db.k = N /\ db.x + 1 >= db.n)
        BY <3>2 DEF ScanStep
      <4>2. db.k = N /\ db.x + 1 >= db.n => k = N
        BY <1>0 DEF DbLocals
      <4>3. db' = [db EXCEPT !.k = k, !.x = x]
        BY <3>2 DEF ScanStep
      <4> HIDE DEF k, x
      <4>4. db'.k = k
        BY <1>0, <4>3 DEF DbLocals
      <4>5. QED BY <4>1, <4>2, <4>4
    <3>3. QED BY <2>1, <3>1, <3>2
  <2>3. \A n \in Nodes : DbHolds(n)' /\ DbHolds(n)
    BY <2>1, <2>2 DEF DbHolds, Nodes
  <2>4. QED BY <1>5, <2>1, <2>2, <2>3 DEF DbIdle
<1>11. CASE DbUnlock
  <2>1. dbpc = "unlock" /\ notex' = [notex EXCEPT ![db.k] = "free"]
    BY <1>11 DEF DbUnlock
  <2>2. db'.k = IF db.k > 1 THEN db.k - 1 ELSE 1
    BY <1>0, <1>11 DEF DbUnlock, DbLocals
  <2>3. IF db.k > 1 THEN dbpc' = "unlock" ELSE dbpc' \in {"connect", "sleep", "query"}
    BY <1>11 DEF DbUnlock, EndRound
  <2>4. ASSUME NEW n \in Nodes PROVE DbHolds(n)' <=> n # db.k /\ DbHolds(n)
    BY <1>0, <2>1, <2>2, <2>3 DEF DbHolds, Nodes
  <2>5. notex[db.k] = "db"
    BY <1>0, <1>4, <2>1 DEF DbHolds, Nodes
  <2>6. DbIdle'
    BY <1>0, <2>2, <2>3 DEF DbIdle
  <2>7. \A n \in Nodes : notex'[n] = IF n = db.k THEN "free" ELSE notex[n]
    BY <1>0, <2>1 DEF NodeType
  <2>8. Owners'
    BY <1>0, <1>3, <1>4, <2>4, <2>5, <2>6, <2>7, DbOwners
  <2>9. QED BY <1>2, <2>8 DEF TInv
<1>12. CASE DbQuery
  <2>1. dbpc = "query" /\ UNCHANGED notex /\ db.k = 1
    BY <1>0, <1>12 DEF DbQuery, Owners, DbIdle
  <2>2. dbpc' \in {"query", "sleep", "connect"}
    BY <1>12 DEF DbQuery, EndRound
  <2>3. db'.k = db.k
    BY <1>0, <1>12 DEF DbQuery, DbLocals
  <2>4. \A n \in Nodes : ~DbHolds(n)' /\ ~DbHolds(n)
    BY <2>1, <2>2 DEF DbHolds
  <2>5. QED BY <1>5, <2>1, <2>3, <2>4 DEF DbIdle
<1>13. CASE DbWake
  <2>1. dbpc = "sleep" /\ dbpc' = "lock" /\ UNCHANGED <<notex, db>> /\ db.k = 1
    BY <1>0, <1>13 DEF DbWake, Owners, DbIdle
  <2>2. \A n \in Nodes : ~DbHolds(n)' /\ ~DbHolds(n)
    BY <2>1 DEF DbHolds, Nodes
  <2>3. QED BY <1>5, <2>1, <2>2 DEF DbIdle
<1>14. QED BY <1>6, <1>7, <1>8, <1>9, <1>m, <1>10, <1>11, <1>12, <1>13 DEF Db

\* Time changes nothing about the threads.
LEMMA TickTInv == ASSUME TInv, Tick \/ UNCHANGED vars PROVE TInv'
<1>1. UNCHANGED <<status, notex, svc, fd, tpc, tnode, request, g_rtd_num, dbpc, db>>
  BY DEF Tick, vars, connvars, thrvars, dbvars
<1>2. QED BY <1>1, ReceiversKept, QueriesKept, OwnersKept DEF TInv, Fresh

-----------------------------------------------------------------------------
\* The threads' part of the inductive invariant.
THEOREM ThreadsInductive == Spec => []TInv
<1>1. IInv /\ TInv /\ [Next]_vars => TInv'
  <2>1. SUFFICES ASSUME IInv, TInv, [Next]_vars PROVE TInv'
    OBVIOUS
  <2>2. Fresh
    BY <2>1 DEF TInv
  <2>3. QED
    BY <2>1, <2>2, ServiceTInv, RecvTInv, RtdTInv, DbTInv, RestartTInv, TickTInv DEF Next
<1>2. QED BY Inductive, InitTInv, <1>1, PTL DEF Spec

\* No node is shown ACTIVE without a receiver thread that serves it, for every
\* number of connections and whatever the order in which the receivers of one
\* node write node_status.
THEOREM ActiveServed == Spec => []ActiveHasReceiver
<1>1. TInv => ActiveHasReceiver BY DEF TInv
<1>2. QED BY ThreadsInductive, <1>1, PTL

\* thread_db and the query threads hold exactly the mutexes their program
\* counters say, on every path through their loops.
THEOREM MutexesOwned == Spec => []MutexOwners
<1>1. TInv => MutexOwners BY DEF TInv, Owners
<1>2. QED BY ThreadsInductive, <1>1, PTL

\* g_rtd_num is the number of admitted query threads and never exceeds
\* MAX_RTD_REQUEST, whatever the number of query clients.
THEOREM QueriesLimited == Spec => []RtdLimit
<1>1. TInv => RtdLimit BY DEF TInv
<1>2. QED BY ThreadsInductive, <1>1, PTL

=============================================================================
