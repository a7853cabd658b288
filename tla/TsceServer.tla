----------------------------- MODULE TsceServer -----------------------------
(***************************************************************************)
(* The monitoring server tscesd (TSCE4.0/src/svr): the accept loop         *)
(* app_service, one receiver thread per collecting node (thread_recv), one *)
(* thread per real-time query (thread_rtd), the database writer            *)
(* (thread_db) and the node buffers they share.                            *)
(*                                                                         *)
(* What notex[n] protects (the sample list, its counter, the most recent   *)
(* sample) is only touched by its holder, so a critical section that reads *)
(* nothing else is one step.  node_status is written by the receivers      *)
(* without that mutex: every read of it is a step of its own.              *)
(***************************************************************************)
EXTENDS Integers, Sequences, FiniteSets

CONSTANTS
  N,                    \* number of configured nodes (g_data_buffer.count)
  Collectors, Queriers, \* connections of collecting nodes and of query clients
                        \* (getdata, tscesd_stop) a behaviour may see, each once
  MAX_NODE_DATA_COUNT,  \* svr_define.h
  MAX_RTD_REQUEST,      \* rtd.c
  RERECV_TIMES,         \* receive timeouts a receiver tolerates in a row
  NETWORK_RECOVERY_RETRY_TIMES,
  INTERVAL,             \* sampling interval, in clock ticks
  MaxPackets,           \* bound: packets stored, over all connections
  MaxTicks,             \* bound: clock ticks
  MaxNames              \* bound: nodes named in one query

ASSUME ServerConstants ==
  /\ N \in Nat \ {0}
  /\ IsFiniteSet(Collectors) /\ IsFiniteSet(Queriers)
  /\ Collectors \cap Queriers = {}
  /\ (Collectors \cup Queriers) \cap {"free", "db", "none"} = {}
  /\ {MAX_NODE_DATA_COUNT, RERECV_TIMES, MaxPackets, MaxTicks, MaxNames} \subseteq Nat
  /\ {MAX_RTD_REQUEST, INTERVAL} \subseteq Nat \ {0}
  /\ NETWORK_RECOVERY_RETRY_TIMES \in Nat \ {0, 1}

Nodes == 1..N
Conns == Collectors \cup Queriers

VARIABLES
  status,        \* node_status of each node, written without notex
  data_count,    \* buffered samples, as the code counts them
  node_data,     \* the linked list behind node_data_head.next
  recent,        \* node_data_head.data, the most recent sample
  exist_recent,  \* exist_recent_data
  notex,         \* the mutex of each node: "free", "db" or an rtd thread
  svc,           \* app_service: pc, connection in hand, recovery_times
  fd,            \* each connection's descriptor in the server
  tpc,           \* the thread serving each connection
  tnode,         \* the node a receiver serves (0: none)
  rerecv,        \* rerecv_times of a receiver
  request,       \* what an rtd thread still has to answer
  g_rtd_num,     \* rtd threads admitted
  dbpc, db,      \* thread_db
  sql,           \* the statements of the round in hand
  rows,          \* the last row stored for each node
  clock, arrivals, fault

bufvars  == <<data_count, node_data, recent, exist_recent>>
connvars == <<svc, fd>>
thrvars  == <<tpc, tnode, rerecv, request, g_rtd_num>>
dbvars   == <<dbpc, db, sql, rows>>
envvars  == <<clock, arrivals, fault>>
vars == <<status, bufvars, notex, connvars, thrvars, dbvars, envvars>>

\* What the handshake's recv_buf can hold: the POST hello of a node (node 0: a
\* host that is not in the node list), a GET hello, or anything else.
Hello(c) ==
  [type : {"other"}, node : {0}] \cup
  IF c \in Collectors THEN [type : {"post"}, node : Nodes \cup {0}]
                      ELSE [type : {"get"}, node : {0}]

RecvLive == {"recv", "store"}                            \* status was set ACTIVE
RtdLive  == {"req", "serve", "status", "assert", "unlock", "spin"}
Holding  == {"status", "assert", "unlock"}               \* rtd holds a notex
Epoch    == (MAX_NODE_DATA_COUNT + 2) * INTERVAL         \* time() is far from 0

\* A value for every node; app_service and thread_db as main starts them.
AllNodes(v) == [n \in Nodes |-> v]
FreshService == [pc |-> "accept", conn |-> "none",
                 recovery |-> NETWORK_RECOVERY_RETRY_TIMES - 1]
FreshDb == [k |-> 1, n |-> 0, x |-> 0, t |-> 0, last |-> 0, wake |-> 0, reconnect |-> FALSE]
NoRequest == [part |-> FALSE, todo |-> <<>>]

\* create_data_buffer, and the threads main starts.
Init ==
  /\ status = AllNodes("DOWN")
  /\ data_count = AllNodes(0)
  /\ node_data = AllNodes(<<>>)
  /\ recent = AllNodes(0)
  /\ exist_recent = AllNodes(FALSE)
  /\ notex = AllNodes("free")
  /\ svc = FreshService
  /\ fd = [c \in Conns |-> "none"]
  /\ tpc = [c \in Conns |-> "none"]
  /\ tnode = [c \in Conns |-> 0]
  /\ rerecv = [c \in Conns |-> 0]
  /\ request = [c \in Conns |-> NoRequest]
  /\ g_rtd_num = 0
  /\ dbpc = "connect" /\ db = FreshDb /\ sql = <<>>
  /\ rows = AllNodes([seq |-> 0, time |-> 0])
  /\ clock = Epoch /\ arrivals = 0 /\ fault = "none"

Up == fault = "none"

-----------------------------------------------------------------------------
(* buffer.c: operations on the buffer of one node, made under its notex.   *)

clear_node_keeps_list(n) ==
  /\ data_count' = [data_count EXCEPT ![n] = 0]
  /\ exist_recent' = [exist_recent EXCEPT ![n] = FALSE]
  /\ UNCHANGED <<node_data, recent>>
clear_node(n) ==
  /\ data_count' = [data_count EXCEPT ![n] = 0]
  /\ exist_recent' = [exist_recent EXCEPT ![n] = FALSE]
  /\ node_data' = [node_data EXCEPT ![n] = <<>>]
  /\ UNCHANGED recent

put_data_at_head(n, sample) ==
  /\ node_data' = [node_data EXCEPT ![n] = <<sample>> \o @]
  /\ data_count' = [data_count EXCEPT ![n] = @ + 1]

\* A failed malloc keeps the sample out of the list and the count.
put_data_in_buffer(n, sample) ==
  \/ /\ node_data' = [node_data EXCEPT ![n] = Append(@, sample)]
     /\ data_count' = [data_count EXCEPT ![n] = @ + 1]
  \/ UNCHANGED <<node_data, data_count>>

set_node_recent_data(n, sample) ==
  /\ recent' = [recent EXCEPT ![n] = sample]
  /\ exist_recent' = [exist_recent EXCEPT ![n] = TRUE]

\* The writer takes the head of the list, but never the only sample.
pop_first(n) ==
  /\ IF data_count[n] > 1
     THEN /\ node_data' = [node_data EXCEPT ![n] = Tail(@)]
          /\ data_count' = [data_count EXCEPT ![n] = @ - 1]
     ELSE UNCHANGED <<node_data, data_count>>
  /\ UNCHANGED <<recent, exist_recent>>

-----------------------------------------------------------------------------
(* service.c: the accept loop.                                              *)

\* app_service returns -1 and main spins: nothing is accepted any more.
ServiceReturns == svc' = [svc EXCEPT !.pc = "dead"]

Accept(c) ==
  /\ Up /\ svc.pc = "accept" /\ fd[c] = "none"
  /\ svc' = [svc EXCEPT !.pc = "hello", !.conn = c]
  /\ fd' = [fd EXCEPT ![c] = "open"]
  /\ UNCHANGED <<status, bufvars, notex, thrvars, dbvars, envvars>>

\* ECONNABORTED uses up one of recovery_times, which nothing gives back.
AcceptAbortedLast ==
  /\ Up /\ svc.pc = "accept"
  /\ \/ /\ svc.recovery > 2
        /\ svc' = [svc EXCEPT !.recovery = @ - 1]
     \/ /\ svc.recovery <= 2
        /\ ServiceReturns
  /\ UNCHANGED <<status, bufvars, notex, fd, thrvars, dbvars, envvars>>
AcceptAborted ==
  /\ Up /\ svc.pc = "accept"
  /\ \/ /\ svc.recovery > 1
        /\ svc' = [svc EXCEPT !.recovery = @ - 1]
     \/ /\ svc.recovery <= 1
        /\ ServiceReturns
  /\ UNCHANGED <<status, bufvars, notex, fd, thrvars, dbvars, envvars>>

\* Any other error of accept (EPERM, no descriptors left; EINTR is tried again)
\* ends the loop.
AcceptFails ==
  /\ Up /\ svc.pc = "accept"
  /\ ServiceReturns
  /\ UNCHANGED <<status, bufvars, notex, fd, thrvars, dbvars, envvars>>

\* The handshake's recv fails (its timeout included): the loop ends and the
\* connection in hand stays open.
HelloFails ==
  /\ Up /\ svc.pc = "hello"
  /\ ServiceReturns
  /\ UNCHANGED <<status, bufvars, notex, fd, thrvars, dbvars, envvars>>

\* The loop goes round; the connection is left open or closed (s).
NextAccept(c, s) ==
  /\ svc' = [svc EXCEPT !.pc = "accept", !.conn = "none"]
  /\ fd' = [fd EXCEPT ![c] = s]

\* A host that is not in the node list, or whose node is already ACTIVE.
Rejected(c, h) ==
  /\ h.type = "post"
  /\ h.node # 0 => status[h.node] = "ACTIVE"
  /\ NextAccept(c, "closed")
  /\ UNCHANGED thrvars

StartRecv(c, h) ==
  /\ h.type = "post" /\ h.node # 0
  /\ status[h.node] # "ACTIVE"
  /\ NextAccept(c, "open")
  /\ tpc' = [tpc EXCEPT ![c] = "start"]
  /\ tnode' = [tnode EXCEPT ![c] = h.node]
  /\ UNCHANGED <<rerecv, request, g_rtd_num>>

StartRtd(c, h) ==
  /\ h.type = "get"
  /\ NextAccept(c, "open")
  /\ tpc' = [tpc EXCEPT ![c] = "rtd"]
  /\ UNCHANGED <<tnode, rerecv, request, g_rtd_num>>

\* malloc or pthread_create fails after the hello was answered.
StartFails(c, h) ==
  /\ \/ h.type = "post" /\ h.node # 0 /\ status[h.node] # "ACTIVE"
     \/ h.type = "get"
  /\ NextAccept(c, "closed")
  /\ UNCHANGED thrvars

\* Neither POST nor GET (USER included): logged, and the descriptor is kept.
UnknownHello(c, h) ==
  /\ h.type = "other"
  /\ NextAccept(c, "open")
  /\ UNCHANGED thrvars

\* recv returned a hello, or 0 at end of file: the code does not tell them
\* apart and then handles the hello an earlier connection left in recv_buf.
Handshake(c) ==
  /\ Up /\ svc.pc = "hello" /\ svc.conn = c
  /\ \E h \in Hello(c) :
       \/ Rejected(c, h) \/ StartRecv(c, h) \/ StartRtd(c, h)
       \/ StartFails(c, h) \/ UnknownHello(c, h)
  /\ UNCHANGED <<status, bufvars, notex, dbvars, envvars>>

-----------------------------------------------------------------------------
(* recv.c: the receiver thread of connection c, for node tnode[c].          *)

RecvStart(c) ==
  /\ Up /\ tpc[c] = "start"
  /\ tpc' = [tpc EXCEPT ![c] = "recv"]
  /\ status' = [status EXCEPT ![tnode[c]] = "ACTIVE"]
  /\ rerecv' = [rerecv EXCEPT ![c] = RERECV_TIMES]
  /\ UNCHANGED <<bufvars, notex, connvars, tnode, request, g_rtd_num, dbvars, envvars>>

RecvTimeoutNotCounted(c) ==
  /\ Up /\ tpc[c] = "recv"
  /\ UNCHANGED vars
RecvTimeoutUnbounded(c) ==
  /\ Up /\ tpc[c] = "recv"
  /\ rerecv' = [rerecv EXCEPT ![c] = @ - 1]
  /\ UNCHANGED <<status, bufvars, notex, connvars, tpc, tnode, request, g_rtd_num,
                 dbvars, envvars>>

\* EAGAIN while timeouts are left.
RecvTimeout(c) ==
  /\ Up /\ tpc[c] = "recv" /\ rerecv[c] > 0
  /\ rerecv' = [rerecv EXCEPT ![c] = @ - 1]
  /\ UNCHANGED <<status, bufvars, notex, connvars, tpc, tnode, request, g_rtd_num,
                 dbvars, envvars>>

NodeStaysActive(c) == UNCHANGED status

\* Leaving the loop: node_status is reset without the mutex.
NodeDown(c) == status' = [status EXCEPT ![tnode[c]] = "DOWN"]

\* End of file or an error (closed), or one timeout too many.
RecvEnds(c, closed) ==
  /\ Up /\ tpc[c] = "recv"
  /\ ~closed => rerecv[c] = 0
  /\ tpc' = [tpc EXCEPT ![c] = "exit"]
  /\ NodeDown(c)
  /\ UNCHANGED <<bufvars, notex, connvars, tnode, rerecv, request, g_rtd_num,
                 dbvars, envvars>>

\* A packet arrives and is acknowledged before it is stored.
RecvData(c) ==
  /\ Up /\ tpc[c] = "recv" /\ arrivals < MaxPackets
  /\ tpc' = [tpc EXCEPT ![c] = "store"]
  /\ UNCHANGED <<status, bufvars, notex, connvars, tnode, rerecv, request, g_rtd_num,
                 dbvars, envvars>>

OverfullTooLate(n) == data_count[n] > MAX_NODE_DATA_COUNT + 1
Overfull(n) == data_count[n] > MAX_NODE_DATA_COUNT

\* The critical section: samples are numbered in the order they are stored.
\* A buffer above its limit is emptied and the packet dropped with it.
RecvStore(c) ==
  LET n == tnode[c] IN
  /\ Up /\ tpc[c] = "store" /\ notex[n] = "free"
  /\ tpc' = [tpc EXCEPT ![c] = "recv"]
  /\ \/ /\ Overfull(n)
        /\ clear_node(n)
        /\ UNCHANGED <<rerecv, arrivals>>
     \/ /\ ~Overfull(n)
        /\ put_data_in_buffer(n, arrivals + 1)
        /\ set_node_recent_data(n, arrivals + 1)
        /\ rerecv' = [rerecv EXCEPT ![c] = RERECV_TIMES]
        /\ arrivals' = arrivals + 1
  /\ UNCHANGED <<status, notex, connvars, tnode, request, g_rtd_num, dbvars, clock, fault>>

RecvExit(c) ==
  /\ Up /\ tpc[c] = "exit" /\ notex[tnode[c]] = "free"
  /\ clear_node(tnode[c])
  /\ tpc' = [tpc EXCEPT ![c] = "gone"]
  /\ tnode' = [tnode EXCEPT ![c] = 0]
  /\ rerecv' = [rerecv EXCEPT ![c] = 0]
  /\ fd' = [fd EXCEPT ![c] = "closed"]
  /\ UNCHANGED <<status, notex, svc, request, g_rtd_num, dbvars, envvars>>

Recv(c) ==
  \/ RecvStart(c) \/ RecvTimeout(c) \/ RecvEnds(c, TRUE) \/ RecvEnds(c, FALSE)
  \/ RecvData(c) \/ RecvStore(c) \/ RecvExit(c)

-----------------------------------------------------------------------------
(* rtd.c: the real-time query thread of connection c.                       *)

finish_thread(c) ==
  /\ fd' = [fd EXCEPT ![c] = "closed"]
  /\ g_rtd_num' = g_rtd_num - 1
  /\ tpc' = [tpc EXCEPT ![c] = "gone"]
  /\ request' = [request EXCEPT ![c] = NoRequest]
  /\ UNCHANGED <<svc, tnode, rerecv>>

RtdFullTooLate == g_rtd_num > MAX_RTD_REQUEST
RtdFull == g_rtd_num >= MAX_RTD_REQUEST

\* Under g_rtd_num_mutex: a thread above the limit closes and leaves.
RtdAdmit(c) ==
  /\ Up /\ tpc[c] = "rtd"
  /\ \/ /\ RtdFull
        /\ fd' = [fd EXCEPT ![c] = "closed"]
        /\ tpc' = [tpc EXCEPT ![c] = "gone"]
        /\ UNCHANGED g_rtd_num
     \/ /\ ~RtdFull
        /\ g_rtd_num' = g_rtd_num + 1
        /\ tpc' = [tpc EXCEPT ![c] = "req"]
        /\ UNCHANGED fd
  /\ UNCHANGED <<status, bufvars, notex, svc, tnode, rerecv, request, dbvars, envvars>>

\* No request (an error, end of file) or an invalid one, and the status request
\* once it is answered: the thread ends.
RtdNoData(c) ==
  /\ Up /\ tpc[c] = "req"
  /\ finish_thread(c)
  /\ UNCHANGED <<status, bufvars, notex, dbvars, envvars>>
handle_get_status(c) == RtdNoData(c)

\* The exit request of tscesd_stop: the process exits.
handle_exit(c) ==
  /\ Up /\ tpc[c] = "req"
  /\ fault' = "exit"
  /\ UNCHANGED <<status, bufvars, notex, connvars, thrvars, dbvars, clock, arrivals>>

\* The node lists of a request: every node, or named nodes in any order, a name
\* more than once too (0: a name that is not configured).
NodeLists == {[i \in Nodes |-> i]} \cup UNION {[1..k -> Nodes \cup {0}] : k \in 1..MaxNames}

\* A request for all indexes, or for named ones (part).
handle_request_data(c) ==
  /\ Up /\ tpc[c] = "req"
  /\ \E part \in BOOLEAN, todo \in NodeLists :
       request' = [request EXCEPT ![c] = [part |-> part, todo |-> todo]]
  /\ tpc' = [tpc EXCEPT ![c] = "serve"]
  /\ UNCHANGED <<status, bufvars, notex, connvars, tnode, rerecv, g_rtd_num, dbvars, envvars>>

\* One of the named indexes is unknown: get_index_ix_by_name searches for it
\* for ever, before any node is looked at.
UnknownIndex(c) ==
  /\ Up /\ tpc[c] = "req"
  /\ tpc' = [tpc EXCEPT ![c] = "spin"]
  /\ UNCHANGED <<status, bufvars, notex, connvars, tnode, rerecv, request, g_rtd_num,
                 dbvars, envvars>>

\* The next node of the list: an unknown name is answered "illegal".
RtdLock(c) ==
  /\ Up /\ tpc[c] = "serve" /\ request[c].todo # <<>>
  /\ LET n == Head(request[c].todo) IN
     \/ /\ n = 0
        /\ request' = [request EXCEPT ![c].todo = Tail(@)]
        /\ UNCHANGED <<notex, tpc>>
     \/ /\ n # 0 /\ notex[n] = "free"
        /\ notex' = [notex EXCEPT ![n] = c]
        /\ tpc' = [tpc EXCEPT ![c] = "status"]
        /\ UNCHANGED request
  /\ UNCHANGED <<status, bufvars, connvars, tnode, rerecv, g_rtd_num, dbvars, envvars>>

RtdStatusReturnsLocked(c) ==
  /\ Up /\ tpc[c] = "status"
  /\ tpc' = [tpc EXCEPT ![c] = "serve"]
  /\ request' = [request EXCEPT ![c].todo = Tail(@)]
  /\ UNCHANGED <<status, bufvars, notex, connvars, tnode, rerecv, g_rtd_num, dbvars, envvars>>

\* The first look at node_status and exist_recent_data.
RtdStatus(c) ==
  /\ Up /\ tpc[c] = "status"
  /\ LET n == Head(request[c].todo)
         has == status[n] = "ACTIVE" /\ exist_recent[n]
     IN tpc' = [tpc EXCEPT ![c] = IF has /\ request[c].part THEN "assert" ELSE "unlock"]
  /\ UNCHANGED <<status, bufvars, notex, connvars, tnode, rerecv, request, g_rtd_num,
                 dbvars, envvars>>

\* The second one: the assertion of get_part_index_data_one_node.
RtdAssert(c) ==
  /\ Up /\ tpc[c] = "assert"
  /\ LET n == Head(request[c].todo) IN
     \/ /\ status[n] = "ACTIVE" /\ exist_recent[n]
        /\ tpc' = [tpc EXCEPT ![c] = "unlock"]
        /\ UNCHANGED fault
     \/ /\ ~(status[n] = "ACTIVE" /\ exist_recent[n])
        /\ fault' = "assert"
        /\ UNCHANGED tpc
  /\ UNCHANGED <<status, bufvars, notex, connvars, tnode, rerecv, request, g_rtd_num,
                 dbvars, clock, arrivals>>

RtdUnlockSameNode(c) ==
  /\ Up /\ tpc[c] = "unlock"
  /\ notex' = [notex EXCEPT ![Head(request[c].todo)] = "free"]
  /\ tpc' = [tpc EXCEPT ![c] = "serve"]
  /\ UNCHANGED <<status, bufvars, connvars, tnode, rerecv, request, g_rtd_num, dbvars, envvars>>

\* The mutex is released, the answer sent, and the client's reply waited for;
\* whatever it is, the next node follows.
RtdUnlock(c) ==
  /\ Up /\ tpc[c] = "unlock"
  /\ notex' = [notex EXCEPT ![Head(request[c].todo)] = "free"]
  /\ request' = [request EXCEPT ![c].todo = Tail(@)]
  /\ tpc' = [tpc EXCEPT ![c] = "serve"]
  /\ UNCHANGED <<status, bufvars, connvars, tnode, rerecv, g_rtd_num, dbvars, envvars>>

RtdDone(c) ==
  /\ Up /\ tpc[c] = "serve" /\ request[c].todo = <<>>
  /\ finish_thread(c)
  /\ UNCHANGED <<status, bufvars, notex, dbvars, envvars>>

Rtd(c) ==
  \/ RtdAdmit(c) \/ RtdNoData(c) \/ handle_get_status(c) \/ handle_exit(c)
  \/ handle_request_data(c) \/ UnknownIndex(c)
  \/ RtdLock(c) \/ RtdStatus(c) \/ RtdAssert(c) \/ RtdUnlock(c) \/ RtdDone(c)

-----------------------------------------------------------------------------
(* db.c: thread_db.  k walks the nodes, x the statements of a round.        *)

\* A new session starts with last_db_time = 0.  A failure of the first
\* connection ends the process, a later one is retried.
DbConnect ==
  /\ Up /\ dbpc = "connect"
  /\ \/ /\ dbpc' = "lock"
        /\ db' = [db EXCEPT !.k = 1, !.last = 0]
        /\ rows' = [n \in Nodes |-> [rows[n] EXCEPT !.time = 0]]
        /\ UNCHANGED fault
     \/ /\ fault' = IF db.reconnect THEN "none" ELSE "exit"
        /\ UNCHANGED <<dbpc, db, rows>>
  /\ UNCHANGED <<status, bufvars, notex, connvars, thrvars, sql, clock, arrivals>>

DbLock ==
  /\ Up /\ dbpc = "lock" /\ notex[db.k] = "free"
  /\ notex' = [notex EXCEPT ![db.k] = "db"]
  /\ dbpc' = IF db.k = N THEN "first" ELSE "lock"
  /\ db' = [db EXCEPT !.k = IF db.k = N THEN 1 ELSE db.k + 1,
                      !.wake = IF db.k = 1 THEN clock + INTERVAL ELSE db.wake]
  /\ UNCHANGED <<status, bufvars, connvars, thrvars, sql, rows, envvars>>

\* get_nodes_data_count, its first loop: look for an ACTIVE node.
DbFirst ==
  /\ Up /\ dbpc = "first"
  /\ \/ /\ status[db.k] = "ACTIVE"
        /\ dbpc' = "min"
        /\ db' = [db EXCEPT !.n = data_count[db.k]]
     \/ /\ status[db.k] # "ACTIVE"
        /\ dbpc' = IF db.k = N THEN "unlock" ELSE "first"
        /\ db' = [db EXCEPT !.n = 0, !.k = IF db.k = N THEN N ELSE db.k + 1]
  /\ UNCHANGED <<status, bufvars, notex, connvars, thrvars, sql, rows, envvars>>

\* Its second loop, from the same node: the least count of an ACTIVE node.  A
\* round without data ends here; otherwise time() is read.
DbMin ==
  LET n == IF status[db.k] = "ACTIVE" /\ data_count[db.k] < db.n
           THEN data_count[db.k] ELSE db.n
      end == db.k = N
  IN
  /\ Up /\ dbpc = "min"
  /\ dbpc' = IF ~end THEN "min" ELSE IF n <= 0 THEN "unlock" ELSE "scan"
  /\ db' = [db EXCEPT !.n = n,
                      !.k = IF ~end THEN db.k + 1 ELSE IF n <= 0 THEN N ELSE 1,
                      !.x = 0,
                      !.t = IF end THEN clock ELSE db.t]
  /\ sql' = <<>>
  /\ UNCHANGED <<status, bufvars, notex, connvars, thrvars, rows, envvars>>

\* malloc of the statements fails: exit(203), with every mutex held.
DbNoMemory ==
  /\ Up /\ dbpc = "min" /\ db.k = N
  /\ db.n > 0 /\ (status[db.k] = "ACTIVE" => data_count[db.k] > 0)
  /\ fault' = "exit"
  /\ UNCHANGED <<status, bufvars, notex, connvars, thrvars, dbvars, clock, arrivals>>

\* The time given to the samples of statement x.
DataTime == db.t + (db.x - db.n) * INTERVAL

\* The loop over (x, node): one node of one statement.
ScanStep ==
  /\ dbpc' = IF db.k = N /\ db.x + 1 >= db.n THEN "unlock" ELSE "scan"
  /\ db' = [db EXCEPT !.k = IF db.k < N THEN db.k + 1 ELSE IF db.x + 1 < db.n THEN 1 ELSE N,
                      !.x = IF db.k = N /\ db.x + 1 < db.n THEN db.x + 1 ELSE db.x]

\* The statement in hand, empty at its first node.
Statement == IF db.k = 1 THEN [time |-> DataTime, row |-> [n \in Nodes |-> 0]]
                         ELSE sql[db.x + 1]
SetStatement(st) == sql' = [i \in 1..(db.x + 1) |-> IF i = db.x + 1 THEN st ELSE sql[i]]

\* free_one_data, for samples not newer than last_db_time.
DbDiscard ==
  /\ Up /\ dbpc = "scan" /\ DataTime <= db.last
  /\ IF status[db.k] = "ACTIVE" THEN pop_first(db.k) ELSE UNCHANGED bufvars
  /\ SetStatement(Statement)
  /\ ScanStep
  /\ UNCHANGED <<status, notex, connvars, thrvars, rows, envvars>>

\* convert_data_to_sql: a row of each ACTIVE node's first sample.  The head of
\* an empty list is a null pointer, and the process dies.
DbConvert ==
  /\ Up /\ dbpc = "scan" /\ DataTime > db.last
  /\ \/ /\ status[db.k] # "ACTIVE"
        /\ SetStatement(Statement)
        /\ ScanStep
        /\ UNCHANGED <<bufvars, fault>>
     \/ /\ status[db.k] = "ACTIVE" /\ node_data[db.k] # <<>>
        /\ SetStatement([Statement EXCEPT !.row[db.k] = Head(node_data[db.k])])
        /\ pop_first(db.k)
        /\ ScanStep
        /\ UNCHANGED fault
     \/ /\ status[db.k] = "ACTIVE" /\ node_data[db.k] = <<>>
        /\ fault' = "null"
        /\ UNCHANGED <<bufvars, dbpc, db, sql>>
  /\ UNCHANGED <<status, notex, connvars, thrvars, rows, clock, arrivals>>

\* The end of a round: back to RECONNECT, or smart_sleep.
EndRound(reconnect) == dbpc' = IF reconnect THEN "connect" ELSE "sleep"

\* The mutexes are released from the last node to the first.
DbUnlock ==
  /\ Up /\ dbpc = "unlock"
  /\ notex' = [notex EXCEPT ![db.k] = "free"]
  /\ IF db.k > 1 THEN dbpc' = "unlock"
     ELSE IF db.n <= 0 THEN EndRound(db.reconnect)
     ELSE dbpc' = "query"
  /\ db' = [db EXCEPT !.k = IF db.k > 1 THEN db.k - 1 ELSE 1, !.x = 0]
  /\ UNCHANGED <<status, bufvars, connvars, thrvars, sql, rows, envvars>>

\* last_db_time: the d of the round's last statement.
LastDbTimeKept == db.last
LastDbTime == db.t - INTERVAL

\* mysql_query of statement x, after the samples have left the buffers.  One
\* without rows is a syntax error; the last outcome decides on RECONNECT.
DbQuery ==
  /\ Up /\ dbpc = "query"
  /\ \E ok \in BOOLEAN :
       LET st == sql[db.x + 1]
           end == db.x + 1 >= db.n
       IN /\ ok => \E n \in Nodes : st.row[n] # 0
          /\ rows' = [n \in Nodes |-> IF ok /\ st.row[n] # 0
                                      THEN [seq |-> st.row[n], time |-> st.time]
                                      ELSE rows[n]]
          /\ IF end THEN EndRound(~ok) ELSE dbpc' = "query"
          /\ db' = [db EXCEPT !.reconnect = ~ok,
                              !.x = IF end THEN 0 ELSE db.x + 1,
                              !.last = IF end THEN LastDbTime ELSE db.last]
          /\ sql' = IF end THEN <<>> ELSE sql
  /\ UNCHANGED <<status, bufvars, notex, connvars, thrvars, envvars>>

DbWake ==
  /\ Up /\ dbpc = "sleep" /\ clock >= db.wake
  /\ dbpc' = "lock"
  /\ UNCHANGED <<status, bufvars, notex, connvars, thrvars, db, sql, rows, envvars>>

Db == \/ DbConnect \/ DbLock \/ DbFirst \/ DbMin \/ DbNoMemory \/ DbDiscard \/ DbConvert
      \/ DbUnlock \/ DbQuery \/ DbWake

-----------------------------------------------------------------------------
\* Time passes; at the bound the clock stands still.
Tick ==
  /\ clock' = IF clock < Epoch + MaxTicks THEN clock + 1 ELSE clock
  /\ UNCHANGED <<status, bufvars, notex, connvars, thrvars, dbvars, arrivals, fault>>

\* tscesd_start after the process died: nothing but the database survives.
Restart ==
  /\ ~Up
  /\ status' = AllNodes("DOWN")
  /\ data_count' = AllNodes(0)
  /\ node_data' = AllNodes(<<>>)
  /\ recent' = AllNodes(0)
  /\ exist_recent' = AllNodes(FALSE)
  /\ notex' = AllNodes("free")
  /\ svc' = FreshService
  /\ g_rtd_num' = 0
  /\ dbpc' = "connect" /\ db' = FreshDb /\ sql' = <<>> /\ fault' = "none"
  /\ fd' = [c \in Conns |-> IF fd[c] = "none" THEN "none" ELSE "closed"]
  /\ tpc' = [c \in Conns |-> IF tpc[c] = "none" THEN "none" ELSE "gone"]
  /\ tnode' = [c \in Conns |-> 0]
  /\ rerecv' = [c \in Conns |-> 0]
  /\ request' = [c \in Conns |-> NoRequest]
  /\ rows' = [n \in Nodes |-> [rows[n] EXCEPT !.time = 0]]
  /\ UNCHANGED <<clock, arrivals>>

Next ==
  \/ \E c \in Conns : Accept(c) \/ Handshake(c) \/ Recv(c) \/ Rtd(c)
  \/ AcceptAborted \/ AcceptFails \/ HelloFails
  \/ Db \/ Tick \/ Restart

Spec == Init /\ [][Next]_vars

\* Every thread keeps running; a recv on a silent connection times out, but no
\* peer is assumed to send or to close.  pthread_mutex_lock gets its mutex if that is
\* free again and again: thread_db sleeps at least a second between rounds,
\* with every mutex released.
Fairness ==
  /\ WF_vars(Db)
  /\ \A c \in Collectors : /\ WF_vars(RecvStart(c)) /\ SF_vars(RecvStore(c) \/ RecvExit(c))
                           /\ WF_vars(RecvTimeout(c) \/ RecvEnds(c, FALSE))
  /\ \A q \in Queriers : WF_vars(Rtd(q)) /\ SF_vars(RtdLock(q))
FairSpec == Spec /\ Fairness

-----------------------------------------------------------------------------
BufferType ==
  /\ data_count \in [Nodes -> Nat]
  /\ node_data \in [Nodes -> Seq(Nat \ {0})]
  /\ recent \in [Nodes -> Nat]
  /\ exist_recent \in [Nodes -> BOOLEAN]

NodeType ==
  /\ status \in [Nodes -> {"DOWN", "ACTIVE"}]
  /\ notex \in [Nodes -> {"free", "db"} \cup Conns]

ServiceType ==
  /\ svc \in [pc : {"accept", "hello", "dead"}, conn : Conns \cup {"none"}, recovery : Nat]
  /\ fd \in [Conns -> {"none", "open", "closed"}]

ThreadType ==
  /\ tpc \in [Conns -> {"none", "start", "exit", "rtd", "gone"} \cup RecvLive \cup RtdLive]
  /\ tnode \in [Conns -> Nodes \cup {0}]
  /\ rerecv \in [Conns -> 0..RERECV_TIMES]
  /\ request \in [Conns -> [part : BOOLEAN, todo : Seq(Nodes \cup {0})]]
  /\ g_rtd_num \in Int

\* The locals of thread_db, a statement with one value per node, and a row.
DbLocals == [k : Nodes, n : Nat, x : Nat, t : Nat, last : Int, wake : Nat,
             reconnect : BOOLEAN]
Statements == [time : Int, row : [Nodes -> Nat]]
Rows == [seq : Nat, time : Int]

DbType ==
  /\ dbpc \in {"connect", "lock", "first", "min", "scan", "unlock", "query", "sleep"}
  /\ db \in DbLocals
  /\ sql \in Seq(Statements)
  /\ rows \in [Nodes -> Rows]

EnvType ==
  /\ clock \in Nat
  /\ arrivals \in Nat
  /\ fault \in {"none", "exit", "assert", "null"}

\* Every variable keeps its type: in particular rerecv_times stays in its range
\* and no buffer counter, statement or row index leaves the naturals.
TypeOK == BufferType /\ NodeType /\ ServiceType /\ ThreadType /\ DbType /\ EnvType

-----------------------------------------------------------------------------
(* What the buffers promise.                                                *)

\* recv.c compares the count with MAX_NODE_DATA_COUNT before it stores: a
\* buffer holds as many samples as its counter says and at most one more than
\* the limit, whatever the writer takes and the receivers clear meanwhile.
BufferBound ==
  \A n \in Nodes : /\ data_count[n] = Len(node_data[n])
                   /\ data_count[n] <= MAX_NODE_DATA_COUNT + 1

\* What a real-time query copies (rtd.c, node_data_head.data) is at least as
\* new as everything that waits for the database, and is there whenever
\* anything waits.
RecentIsNewest ==
  \A n \in Nodes : \A i \in 1..Len(node_data[n]) :
     exist_recent[n] /\ node_data[n][i] <= recent[n]

\* A node is shown ACTIVE only while a receiver thread serves it, although
\* several receivers of one node may set and reset node_status without a lock.
ActiveHasReceiver ==
  \A n \in Nodes : status[n] = "ACTIVE" =>
     \E c \in Conns : tpc[c] \in RecvLive /\ tnode[c] = n

\* The rows a node has in the database, the statements in hand and its buffer
\* hold its samples in the order they were stored: thread_db may repeat the
\* last sample of a silent node but never writes an older one after it.
RowsInOrder ==
  \A n \in Nodes :
    LET pending == {i \in 1..Len(sql) : i > (IF dbpc = "query" THEN db.x ELSE 0)
                                         /\ sql[i].row[n] # 0}
    IN /\ \A i \in pending : rows[n].seq <= sql[i].row[n]
       /\ \A i, j \in pending : i < j => sql[i].row[n] <= sql[j].row[n]
       /\ \A i \in 1..Len(node_data[n]) :
            /\ rows[n].seq <= node_data[n][i]
            /\ \A j \in pending : sql[j].row[n] <= node_data[n][i]
            /\ \A j \in 1..(i - 1) : node_data[n][j] < node_data[n][i]

\* Within one database session no two rows of a node carry the same time, and
\* times only grow: what is not newer than last_db_time is discarded (db.c).
RowTimesGrow ==
  \A i \in 1..Len(sql) : \A n \in Nodes :
    dbpc \in {"scan", "unlock", "query"} /\ i > (IF dbpc = "query" THEN db.x ELSE 0)
      /\ sql[i].row[n] # 0
    => /\ rows[n].time < sql[i].time
       /\ \A j \in 1..(i - 1) : sql[j].time < sql[i].time

-----------------------------------------------------------------------------
(* What the threads promise each other.                                     *)

\* g_rtd_num counts exactly the admitted query threads that have not finished,
\* on every path through thread_rtd, and never exceeds MAX_RTD_REQUEST.
RtdLimit ==
  /\ g_rtd_num = Cardinality({c \in Conns : tpc[c] \in RtdLive})
  /\ g_rtd_num <= MAX_RTD_REQUEST

\* thread_db holds the mutexes of exactly the nodes its loops say, and a query
\* thread exactly the one of the node it is answering for.
DbHolds(n) == CASE dbpc = "lock"   -> n < db.k
                [] dbpc = "unlock" -> n <= db.k
                [] OTHER           -> dbpc \in {"first", "min", "scan"}
MutexOwners ==
  \A n \in Nodes :
    /\ notex[n] = "db" <=> DbHolds(n)
    /\ \A c \in Conns : notex[n] = c <=>
          /\ tpc[c] \in Holding
          /\ request[c].todo # <<>>
          /\ Head(request[c].todo) = n

\* A round of thread_db that has started to take the mutexes ends, whatever
\* the receivers and the query threads hold.
DbRoundEnds == dbpc = "lock" ~> dbpc \in {"sleep", "connect"} \/ ~Up

\* A receiver whose node falls silent leaves, clearing the node's buffer.
SilentReceiverLeaves ==
  \A c \in Collectors : tpc[c] \in RecvLive ~> tpc[c] = "gone" \/ ~Up

\* A query for known indexes is answered and its slot given back.
QueryEnds == \A q \in Queriers : tpc[q] = "serve" ~> tpc[q] = "gone" \/ ~Up

-----------------------------------------------------------------------------
(* What a comment of the code says.                                         *)

\* db.c, convert_data_to_sql: the list of an ACTIVE node has a first sample.
FirstDataExists == fault # "null"

=============================================================================
