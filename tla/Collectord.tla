----------------------------- MODULE Collectord -----------------------------
(***************************************************************************)
(* The first-generation server collectord (TSCE4.0/.trunk/src/collectord): *)
(* the node list in shared memory, the accept loop d_service.c, a receiver *)
(* d_recv.c for every connection, the configuration thread d_config.c, the *)
(* database writer d_db.c and the ring buffer u_queue.c between them.      *)
(*                                                                         *)
(* A critical section is one step, except the two that loop: while         *)
(* thread_config adds and removes nodes it holds mutex_g_node_list, and    *)
(* while thread_db drains the buffer it holds mutex_g_data_buffer.  The    *)
(* peers send anything and leave at any time.  A node's name and address   *)
(* are one value.  Left out: the real-time data of a node, which only the  *)
(* query tools read; the length of the database interval and the flag that *)
(* announces a new one; the exits of d_service.c on errors of the host;    *)
(* the start-up hand-over to the parent process.                           *)
(***************************************************************************)
EXTENDS Integers, Sequences, FiniteSets

CONSTANTS
  IPs,          \* node addresses
  FirstFile,    \* the nodes of the list file when the process starts
  Conns,        \* connections, each used once
  MaxNodes,     \* MAX_NODES_NUM
  q_size,       \* DATA_BUFFER_ITEM_NUM
  MaxItems,     \* bound: data items that arrive
  MaxChanges    \* bound: changes of the node list file

ASSUME CollectordConstants ==
  /\ "none" \notin IPs \cup Conns /\ IsFiniteSet(Conns)
  /\ FirstFile \in Seq(IPs) /\ Len(FirstFile) <= MaxNodes
  /\ \A i, j \in 1 .. Len(FirstFile) : FirstFile[i] = FirstFile[j] => i = j
  /\ MaxNodes \in Nat \ {0} /\ q_size \in Nat \ {0} /\ MaxItems \in Nat /\ MaxChanges \in Nat

VARIABLES
  up,                   \* the process has not called exit
  list,                 \* g_node_list, in shared memory
  svc,                  \* thread_service: the connection in hand and the node's index
  tpc, tip, tid, tname, \* a receiver: where it is, its peer, node_id and node_name
  todo,                 \* items left of its packet
  arrived,              \* items of a connection that were read (all of them: <= MaxItems)
  cpc, dy, changes,     \* thread_config: where it is and its config_dy_nodes
  buffer, start, end,   \* g_data_buffer.clrd_que
  dbpc, db, batch,      \* thread_db: where it is, its locals and db_buffer
  rows                  \* what the database holds

svcvars == <<svc>>
recvvars == <<tpc, tip, tid, tname, todo, arrived>>
confvars == <<cpc, dy, changes>>
bufvars == <<buffer, start, end>>
dbvars == <<dbpc, db, batch, rows>>
vars == <<up, list, svcvars, recvvars, confvars, bufvars, dbvars>>

Slots == 0 .. MaxNodes - 1
FreeNode == [ip |-> "none", status |-> "DOWN", istn |-> "RUN", thread |-> "none"]
NoService == [conn |-> "none", node |-> 0]
NoDiff == [added |-> {}, reduced |-> {}]
Item == [node : IPs, conn : Conns, n : 1 .. MaxItems]

NoItem == [node |-> "none", conn |-> "none", n |-> 0]

\* get_file_nodes and init_node_list: the nodes, in the order of their lines.
init_node_list ==
  [i \in Slots |-> IF i < Len(FirstFile) THEN [FreeNode EXCEPT !.ip = FirstFile[i + 1]]
                                        ELSE FreeNode]

Init ==
  /\ up = TRUE
  /\ list = init_node_list
  /\ svc = NoService
  /\ tpc = [c \in Conns |-> "none"] /\ tip = [c \in Conns |-> "none"]
  /\ tid = [c \in Conns |-> 0] /\ tname = [c \in Conns |-> "none"]
  /\ todo = [c \in Conns |-> 0]
  /\ arrived = [c \in Conns |-> 0]
  /\ cpc = "sleep" /\ dy = NoDiff /\ changes = 0
  /\ buffer = [i \in 0 .. q_size - 1 |-> NoItem] /\ start = 0 /\ end = 0
  /\ dbpc = "connect" /\ db = [first |-> TRUE, con |-> FALSE]
  /\ batch = <<>> /\ rows = <<>>

-----------------------------------------------------------------------------
(* u_queue.c and d_datas.c.                                                 *)

u_queue_is_full_at_end == end + 1 = start
u_queue_is_full == (end + 1) % q_size = start
u_queue_is_empty == end = start

u_enqueue_no_wrap(x) ==
  /\ buffer' = [buffer EXCEPT ![end] = x]
  /\ end' = end + 1
  /\ UNCHANGED start

u_enqueue(x) ==
  /\ buffer' = [buffer EXCEPT ![end] = x]
  /\ end' = (end + 1) % q_size
  /\ UNCHANGED start

u_dequeue ==
  /\ start' = (start + 1) % q_size
  /\ UNCHANGED <<buffer, end>>

\* What the buffer holds, oldest first.
Size == IF start <= end THEN end - start ELSE end - start + q_size
Contents == [i \in 1 .. Size |-> buffer[(start + i - 1) % q_size]]

-----------------------------------------------------------------------------
(* d_nodes.c.                                                               *)

\* mutex_g_node_list and mutex_g_data_buffer, outside their loops.
ListFree == cpc # "update"
BufferFree == dbpc # "drain"

InList(ip) == \E i \in Slots : list[i].ip = ip
nl_find_node_by_nd_ip(ip) ==
  IF InList(ip)
  THEN CHOOSE i \in Slots : list[i].ip = ip /\ \A j \in Slots : list[j].ip = ip => i <= j
  ELSE -2

\* The slot nl_insert_node takes.
FirstFree(i) == list[i].ip = "none" /\ \A j \in Slots : list[j].ip = "none" => i <= j

-----------------------------------------------------------------------------
(* d_config.c: thread_config.  A file that was not modified, or can not be  *)
(* read, is no step.                                                        *)

\* get_file_nodes keeps what it can resolve, and no more than fits; then
\* dy_diff_nodes, in a critical section of its own.
dy_diff_adds_all(file) ==
  [added |-> file,
   reduced |-> {list[i].ip : i \in {j \in Slots : list[j].ip # "none"}} \ file]
dy_diff_nodes(file) ==
  [added |-> {ip \in file : ~InList(ip)},
   reduced |-> {list[i].ip : i \in {j \in Slots : list[j].ip # "none"}} \ file]

ReadNodes ==
  /\ cpc = "sleep" /\ changes < MaxChanges
  /\ \E file \in SUBSET IPs :
       /\ Cardinality(file) <= MaxNodes
       /\ dy' = dy_diff_nodes(file)
       /\ cpc' = IF dy_diff_nodes(file) = NoDiff THEN "sleep" ELSE "changed"
  /\ changes' = changes + 1
  /\ UNCHANGED <<up, list, svcvars, recvvars, bufvars, dbvars>>

\* update_node_list in the other: the added nodes in the order of the file, then
\* the removed ones.  The lock is taken with the first and given back with the last.
Updating(rest) ==
  /\ cpc \in {"changed", "update"}
  /\ dy' = rest
  /\ cpc' = IF rest = NoDiff THEN "sleep" ELSE "update"

\* The thread id of the slot's last receiver is not reset.
nl_insert_node(ip) ==
  IF InList("none")
  THEN \E i \in Slots : /\ FirstFree(i)
                        /\ list' = [list EXCEPT ![i].ip = ip, ![i].status = "DOWN",
                                                ![i].istn = "RUN"]
  ELSE UNCHANGED list

AddNode ==
  /\ \E ip \in dy.added : /\ nl_insert_node(ip)
                          /\ Updating([dy EXCEPT !.added = @ \ {ip}])
  /\ UNCHANGED <<up, svcvars, recvvars, changes, bufvars, dbvars>>

\* A node that is DOWN is deleted, the receiver of another one is told to exit.
RemoveNode ==
  /\ dy.added = {}
  /\ \E ip \in dy.reduced :
       /\ Updating([dy EXCEPT !.reduced = @ \ {ip}])
       /\ LET i == nl_find_node_by_nd_ip(ip)
          IN list' = IF i < 0 THEN list
                     ELSE IF list[i].status = "DOWN" THEN [list EXCEPT ![i] = FreeNode]
                     ELSE [list EXCEPT ![i].istn = "EXIT"]
  /\ UNCHANGED <<up, svcvars, recvvars, changes, bufvars, dbvars>>

Config == up /\ (ReadNodes \/ AddNode \/ RemoveNode)

-----------------------------------------------------------------------------
(* d_service.c: thread_service.                                             *)

\* accept, and the first critical section.  Index 0 is taken for "not found".
Accept(c) ==
  /\ up /\ svc.conn = "none" /\ tpc[c] = "none" /\ tip[c] = "none" /\ ListFree
  /\ \E ip \in IPs :
       LET i == nl_find_node_by_nd_ip(ip)
       IN /\ tip' = [tip EXCEPT ![c] = ip]
          /\ svc' = IF i > 0 THEN [conn |-> c, node |-> i] ELSE svc
          /\ tpc' = IF i > 0 THEN tpc ELSE [tpc EXCEPT ![c] = "gone"]
  /\ UNCHANGED <<up, list, tid, tname, todo, arrived, confvars, bufvars, dbvars>>

\* "Another thread is running for this node", or the receiver is started
\* (malloc and pthread_create may fail).
CheckThread(c) ==
  /\ up /\ svc.conn = c /\ ListFree
  /\ \/ tpc' = [tpc EXCEPT ![c] = "gone"]
     \/ list[svc.node].thread = "none" /\ tpc' = [tpc EXCEPT ![c] = "start"]
  /\ svc' = NoService
  /\ UNCHANGED <<up, list, tip, tid, tname, todo, arrived, confvars, bufvars, dbvars>>

-----------------------------------------------------------------------------
(* d_recv.c: thread_recv.                                                   *)

\* pthread_exit: the locals are gone.
Exit(c) ==
  /\ tpc' = [tpc EXCEPT ![c] = "gone"]
  /\ tid' = [tid EXCEPT ![c] = 0] /\ tname' = [tname EXCEPT ![c] = "none"]

\* The node is looked up again, and its name read, in one critical section.
Start(c) ==
  /\ tpc[c] = "start" /\ ListFree
  /\ LET i == nl_find_node_by_nd_ip(tip[c])
     IN IF i < 0
        THEN Exit(c)
        ELSE /\ tpc' = [tpc EXCEPT ![c] = "status"]
             /\ tid' = [tid EXCEPT ![c] = i]
             /\ tname' = [tname EXCEPT ![c] = list[i].ip]
  /\ UNCHANGED <<up, list, svcvars, tip, todo, arrived, confvars, bufvars, dbvars>>

\* From here on the index may be stale.
SetStatus(c) ==
  /\ tpc[c] = "status" /\ ListFree
  /\ list' = [list EXCEPT ![tid[c]].status = "ACTIVE"]
  /\ tpc' = [tpc EXCEPT ![c] = "thread"]
  /\ UNCHANGED <<up, svcvars, tip, tid, tname, todo, arrived, confvars, bufvars, dbvars>>

SetThreadReadsName(c) ==
  /\ tpc[c] = "thread" /\ ListFree
  /\ IF list[tid[c]].ip = "none"
     THEN Exit(c) /\ UNCHANGED list
     ELSE /\ list' = [list EXCEPT ![tid[c]].thread = c]
          /\ tname' = [tname EXCEPT ![c] = list[tid[c]].ip]
          /\ tpc' = [tpc EXCEPT ![c] = "istn"]
          /\ UNCHANGED tid
  /\ UNCHANGED <<up, svcvars, tip, todo, arrived, confvars, bufvars, dbvars>>
SetThread(c) ==
  /\ tpc[c] = "thread" /\ ListFree
  /\ list' = [list EXCEPT ![tid[c]].thread = c]
  /\ tpc' = [tpc EXCEPT ![c] = "istn"]
  /\ UNCHANGED <<up, svcvars, tip, tid, tname, todo, arrived, confvars, bufvars, dbvars>>

GetInstruction(c) ==
  /\ tpc[c] = "istn" /\ ListFree
  /\ tpc' = [tpc EXCEPT ![c] = IF list[tid[c]].istn = "EXIT" THEN "delete" ELSE "recv"]
  /\ UNCHANGED <<up, list, svcvars, tip, tid, tname, todo, arrived, confvars, bufvars, dbvars>>

DeleteNodeKeepsThread(c) ==
  /\ tpc[c] = "delete" /\ ListFree
  /\ list' = [list EXCEPT ![tid[c]].ip = "none"]
  /\ Exit(c)
  /\ UNCHANGED <<up, svcvars, tip, todo, arrived, confvars, bufvars, dbvars>>
DeleteNode(c) ==
  /\ tpc[c] = "delete" /\ ListFree
  /\ list' = [list EXCEPT ![tid[c]] = FreeNode]
  /\ Exit(c)
  /\ UNCHANGED <<up, svcvars, tip, todo, arrived, confvars, bufvars, dbvars>>

\* Short, unknown and malformed data, and a new interval, keep nothing here.
RecvOther(c) ==
  /\ tpc[c] = "recv"
  /\ tpc' = [tpc EXCEPT ![c] = "istn"]
  /\ UNCHANGED <<up, list, svcvars, tip, tid, tname, todo, arrived, confvars, bufvars, dbvars>>

\* Script data.
Arrived == UNION {{c} \X (1 .. arrived[c]) : c \in Conns}
RecvData(c) ==
  /\ tpc[c] = "recv"
  /\ \E k \in 1 .. MaxItems - Cardinality(Arrived) :
       /\ todo' = [todo EXCEPT ![c] = k]
       /\ arrived' = [arrived EXCEPT ![c] = @ + k]
  /\ tpc' = [tpc EXCEPT ![c] = "put"]
  /\ UNCHANGED <<up, list, svcvars, tip, tid, tname, confvars, bufvars, dbvars>>

\* "Dual packet": bytes are left after this one, but data_head and data_body are
\* set to the first packet again.  Its # was overwritten when it was read, so it
\* is refused now, and the second packet is never looked at.
TokensAgain(c) == arrived[c]
TokensLeft(c) == 0

\* The next token of the packet.  A full buffer is tried again after a second.
Put(c) ==
  /\ tpc[c] = "put" /\ BufferFree /\ ~u_queue_is_full
  /\ u_enqueue([node |-> tname[c], conn |-> c, n |-> arrived[c] - todo[c] + 1])
  /\ \E k \in IF todo[c] > 1 THEN {todo[c] - 1} ELSE {0, TokensLeft(c)} :
       /\ todo' = [todo EXCEPT ![c] = k]
       /\ tpc' = [tpc EXCEPT ![c] = IF k > 0 THEN "put" ELSE "istn"]
  /\ UNCHANGED <<up, list, svcvars, tip, tid, tname, arrived, confvars, dbvars>>

\* recv fails, times out or returns 0.  THREAD_EXIT: the status, the real-time
\* data and the thread id, a critical section each; the socket is left open.
SetDown(c) ==
  /\ tpc[c] = "recv" /\ ListFree
  /\ list' = [list EXCEPT ![tid[c]].status = "DOWN"]
  /\ tpc' = [tpc EXCEPT ![c] = "exit"]
  /\ UNCHANGED <<up, svcvars, tip, tid, tname, todo, arrived, confvars, bufvars, dbvars>>

ClearThread(c) ==
  /\ tpc[c] = "exit" /\ ListFree
  /\ list' = [list EXCEPT ![tid[c]].thread = "none"]
  /\ Exit(c)
  /\ UNCHANGED <<up, svcvars, tip, todo, arrived, confvars, bufvars, dbvars>>

Receiver(c) ==
  up /\ \/ Start(c) \/ SetStatus(c) \/ SetThread(c) \/ GetInstruction(c) \/ DeleteNode(c)
        \/ RecvOther(c) \/ RecvData(c) \/ Put(c) \/ SetDown(c) \/ ClearThread(c)

-----------------------------------------------------------------------------
(* d_db.c: thread_db.                                                       *)

Connect ==
  /\ dbpc = "connect"
  /\ db' = [db EXCEPT !.con = TRUE, !.first = FALSE]
  /\ dbpc' = "sleep"
  /\ UNCHANGED <<up, list, svcvars, recvvars, confvars, bufvars, batch, rows>>

\* Only the first failure ends the process; after that thread_db goes on
\* without a connection.
ConnectFails ==
  /\ dbpc = "connect"
  /\ up' = ~db.first
  /\ db' = [db EXCEPT !.con = FALSE]
  /\ dbpc' = "sleep"
  /\ UNCHANGED <<list, svcvars, recvvars, confvars, bufvars, batch, rows>>

\* sleep, then the buffer is emptied into db_buffer.  The lock is taken with the
\* first item and given back with the last; an empty buffer is no step.
GetItem ==
  /\ dbpc \in {"sleep", "drain"} /\ ~u_queue_is_empty
  /\ batch' = Append(batch, buffer[start])
  /\ u_dequeue
  /\ dbpc' = IF start' = end THEN "query" ELSE "drain"
  /\ UNCHANGED <<up, list, svcvars, recvvars, confvars, db, rows>>

Query ==
  /\ dbpc = "query" /\ db.con
  /\ rows' = rows \o batch
  /\ batch' = <<>>
  /\ dbpc' = "sleep"
  /\ UNCHANGED <<up, list, svcvars, recvvars, confvars, bufvars, db>>

\* "Insert datas error, ignore": the rows may or may not be there.
QueryFails ==
  /\ dbpc = "query"
  /\ \/ rows' = rows
     \/ db.con /\ rows' = rows \o batch
  /\ batch' = <<>>
  /\ dbpc' = "connect"
  /\ UNCHANGED <<up, list, svcvars, recvvars, confvars, bufvars, db>>

Db == up /\ (Connect \/ ConnectFails \/ GetItem \/ Query \/ QueryFails)

-----------------------------------------------------------------------------
Next ==
  \/ Config \/ Db
  \/ \E c \in Conns : Accept(c) \/ CheckThread(c) \/ Receiver(c)

Spec == Init /\ [][Next]_vars

-----------------------------------------------------------------------------
NodeRecord == [ip : IPs \cup {"none"}, status : {"DOWN", "ACTIVE"}, istn : {"RUN", "EXIT"},
               thread : Conns \cup {"none"}]
RecvPcs == {"none", "start", "status", "thread", "istn", "delete", "recv", "put", "exit", "gone"}

\* Every variable keeps its type; the indices a receiver and the ring buffer
\* use stay inside their arrays.
TypeOK ==
  /\ up \in BOOLEAN /\ list \in [Slots -> NodeRecord]
  /\ svc \in [conn : Conns \cup {"none"}, node : Slots]
  /\ tpc \in [Conns -> RecvPcs] /\ tip \in [Conns -> IPs \cup {"none"}]
  /\ tid \in [Conns -> Slots] /\ tname \in [Conns -> IPs \cup {"none"}]
  /\ todo \in [Conns -> 0 .. MaxItems]
  /\ arrived \in [Conns -> 0 .. MaxItems]
  /\ cpc \in {"sleep", "changed", "update"}
  /\ dy \in [added : SUBSET IPs, reduced : SUBSET IPs] /\ changes \in 0 .. MaxChanges
  /\ buffer \in [0 .. q_size - 1 -> Item \cup {NoItem}]
  /\ start \in 0 .. q_size - 1 /\ end \in 0 .. q_size - 1
  /\ dbpc \in {"connect", "sleep", "drain", "query"}
  /\ db \in [first : BOOLEAN, con : BOOLEAN]
  /\ batch \in Seq(Item) /\ rows \in Seq(Item)

\* An address has one slot, although thread_config compares the file with the
\* list in one critical section and changes the list in another, and receivers
\* delete nodes in between, some with an index that is stale.
OneSlotPerNode ==
  \A i, j \in Slots : list[i].ip = list[j].ip /\ list[i].ip # "none" => i = j

\* Receivers that run.
Live == {"istn", "delete", "recv", "put", "exit"}

\* d_service.c refuses a node whose thread id is set.  It always names a
\* receiver that still runs and works on that slot, although nl_insert_node
\* leaves the field as it is and two receivers may share a slot: no node is shut
\* out by a thread that is gone.
ThreadRuns ==
  \A i \in Slots : list[i].thread # "none" =>
    tpc[list[i].thread] \in Live /\ tid[list[i].thread] = i

\* The items on their way to the database.
Pipeline == rows \o batch \o Contents

\* A row has the name of the node that sent it: thread_recv reads the name with
\* the index, so that a slot that is deleted and given to another node under
\* its feet does not change it.
NamedBySender == \A k \in 1 .. Len(Pipeline) : Pipeline[k].node = tip[Pipeline[k].conn]

\* No item is queued or inserted twice, and the items of a connection keep
\* their order, whatever the database refuses and however often a packet that
\* came with another one is looked at again.
ItemsOnceInOrder ==
  \A k, m \in 1 .. Len(Pipeline) :
    k < m /\ Pipeline[k].conn = Pipeline[m].conn => Pipeline[k].n < Pipeline[m].n

\* The ring buffer behaves as the bounded queue d_datas.h promises; one of its
\* q_size places is never used.
Fifo == INSTANCE BoundedFifo WITH queue <- Contents, Capacity <- q_size - 1
RingIsFifo == Fifo!Spec
=============================================================================
