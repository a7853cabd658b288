# A TLA+ model of TSCE 4.0

TSCE monitors a cluster.  On every node a collecting daemon `tscecd` samples the
node at a fixed interval and posts each sample over TCP to the monitoring server
`tscesd`.  The server buffers the samples, writes them to MySQL and answers
real-time queries; one of its threads, the node-state monitor, probes a state
client on every node and writes what it finds to the table `NodeInfo`.  A
separate alarm daemon, `ex_alarm`, reads the stored samples back and alarms when
a value has matched a condition for long enough.  The repository also holds the
first generation of the system, `collectord` and `collector`, of the same purpose
and another design: a node list in shared memory that follows a file, a ring
buffer between receivers and database, a buffer file on the nodes.

Paths below are relative to the repository: `svr/` is `TSCE4.0/src/svr/`, `clr/`
is `TSCE4.0/src/clr/`, `alarm/` is `alarm_for_v4/ex_alarm_tstor/src/`, `.trunk/` is
`TSCE4.0/.trunk/src/`.

## Inventory

| part | source | state | operations | what is hard |
|---|---|---|---|---|
| accept loop | `svr/service.c`, `svr/svr.c` | listening socket, connection in hand, `recovery_times` | accept, handshake, start a thread, give up | `node_status` is tested before the thread that sets it runs; error paths that end the loop |
| receivers | `svr/recv.c` | `node_status`, `rerecv_times` | receive, acknowledge, store, leave | `node_status` is written without the mutex; a leaving receiver clears what a new one stored |
| node buffers | `svr/buffer.c` | sample list, counter, recent sample, mutex | put, take, clear, copy | the limit; an assertion on unlocked state |
| database writer | `svr/db.c` | `last_db_time`, `sql_buf`, session | lock all, count, convert, unlock, query, sleep | status read several times in one round; a failed batch; reconnection |
| real-time queries | `svr/rtd.c` | `g_rtd_num` | admit, parse, answer node by node, exit | a bounded pool; a search that never ends |
| node-state monitor | `svr/state_server/state_server.c`, `db_oper.c` | list of nodes with socket and flag, epoll set, database connection | read the table, connect, probe, wait, write back | removal from a linked list; reuse of descriptors; end of file against answer |
| state client | `clr/state_client/state_client.c` | the connection it serves | accept, answer | serves one connection at a time |
| alarm daemon | `alarm/ex_alarm.c`, `alarm.c`, `db.c` | alarm nodes (timer, flag, cancel per level), message buffer | fetch, decide, start or cancel an alarm thread, enqueue, insert, mail | flags written by several threads; cancellation of threads that have ended; a failing insert |
| collecting daemon | `clr/clr.c` | socket, step of the exchange | connect, handshake, collect, post, reconnect, exit | reconnects while its old receiver is still ACTIVE; answers that come late; nothing frames a packet |
| columns of a sample | `clr/clr_config.c`, `clr/framework.c`, `clr/data.c`, `_con/con_config.c`; `svr/db.c`, `svr/rtd.c` | linked lists of modules and indexes, script buffers, last values | parse, relink, load, collect, complete | values carry no names: daemon, database writer and queries each count columns in their own order |
| configuration | `svr/svr_config.c`, `clr/clr_config.c`, `_con/`, `alarm/config.c` | read once at start-up | parse | string scanning only |
| tools | `svr/tscesd_*.c`, `tools/`, `manager/`, `alarm/ex_alarm_stop.c` | none | fork, exec, print | nothing concurrent |
| `collectord` | `.trunk/collectord/`, `.trunk/util/u_queue.c` | node list, ring buffer, batch of rows | accept, find the node, receive, follow the list file, drain, insert | receivers keep the index of a slot that is deleted and reused; the file is compared and applied in two critical sections; wrap-around |
| `collector` | `.trunk/collector/` | connection, flags, buffer file | connect, run scripts, send, wait, save, replay, reconfigure | late answers; a replay that fails half-way; a process that ends with results in the file |
| plug-ins | `TSCE4.0/module/` | last counters | read /proc, MSRs, vendor libraries | pure I/O |

How they interact.  Collector to server: TCP, a hello (POST with the host name),
then one packet per interval, each acknowledged.  Query client to server: TCP, a
hello (GET), one request, one answer and one reply per node.  Receivers, queries
and writer share the node buffers (one mutex `notex` per node; `node_status`
outside it).  Monitor to state client: TCP, one byte each way per round.  Server
and alarm daemon share the database: the server inserts into `DataInfo`, the
alarm daemon selects from it.  Inside the alarm daemon the main thread and the
alarm threads share the alarm nodes (a mutex per level), and all alarm threads
share the message buffer with the sender thread (one mutex).  In the first
generation the configuration thread, the accept loop and the receivers share the
node list, receivers and writer the ring (one mutex each); `collector` has a
script process and a command process, which sends the other a signal.

What makes each part correct: a buffer never outgrows its limit and its counter
is right; a node is ACTIVE only while it is served; mutexes are held exactly where
the control flow says, so rounds and queries end; rows of a node are stored in
order and with growing times; the monitor keeps one list entry per address and
credits every event to the right node; a dead node does not stay shown as
monitored; an alarm node has one level at ALARMING; a lasting serious condition
starts an alarm; no message stays behind in the buffer; a daemon gets ahead of the server
only by what recvs have split, and a
sample is filed under the node that sent it and its values under their own
columns; a collector is refused only for a connection that is dead; the ring is a
queue, no item is stored twice or under another name; a result of a script does
not get lost silently, and a server without a collect interval is sent one.  `PROJECT.json` lists under "hazards" where each of these
could go wrong.

## Modules

| module | models | extended by |
|---|---|---|
| `TsceServer` | accept loop, receivers, buffers, writer, queries, restart of `tscesd` | `MCTsceServer`, `TsceServerProofs` |
| `TsceServerProofs`, `TsceOrderProofs` | theorems about `TsceServer`: types, buffers, threads and mutexes; order and times of the rows | |
| `Collector` | the collecting daemons and the network, composed with `TsceServer` | `MCCollector`, `CollectorProofs` |
| `CollectorProofs` | theorems about `Collector`; extends `TsceServerProofs` | |
| `SampleColumns` | the order of the values of a sample, from the daemon's lists to the columns the server looks for | `MCSampleColumns`, `SampleColumnsProofs` |
| `SampleColumnsProofs` | theorems about `SampleColumns` | |
| `NodeState` | node-state monitor, state clients, `NodeInfo` | `MCNodeState`, `NodeStateProofs` |
| `NodeStateProofs` | theorems about `NodeState` | |
| `Alarm` | alarm daemon | `MCAlarm`, `AlarmProofs` |
| `AlarmProofs` | theorems about `Alarm` | |
| `BoundedFifo` | what the data buffer of `collectord` promises: an abstract bounded queue | instantiated by `Collectord` |
| `Collectord` | first-generation server | `MCCollectord`, `CollectordProofs` |
| `CollectordProofs` | theorems about `Collectord` | |
| `ScriptSender` | script process of the first-generation collector and one receiver of the server | `MCScriptSender`, `ScriptSenderProofs` |
| `ScriptSenderProofs` | theorems about `ScriptSender` | |

### TsceServer

`tpc[c]` is the program counter of the thread that serves connection `c`; `svc` is
`app_service`, `dbpc` and `db` are `thread_db` and its locals.  What `notex[n]`
protects is touched only by its holder, so a critical section that reads nothing
else is one step (`RecvStore`, `RecvExit`).  `node_status` is written by receivers
without the mutex: every read of it is a step of its own (`DbFirst`, `DbMin`,
`DbConvert`, `RtdStatus`, `RtdAssert`).  A sample is its number in the order of
storing.  `rows[n]` keeps the last row stored for node `n`, its time reset when a
session starts, because `last_db_time` starts at 0 again; keeping the last row is
enough for order and growth.  An assertion, a null pointer, the exit request and a
failed first database connection set `fault`; `Restart` is the next start of the
process.  When `app_service` returns, `main` spins (`svr.c:188`), so the other
threads go on: `svc.pc = "dead"`.  `recv_buf` of the handshake is an
uninitialized local: after an end of file any hello may be found in it.  `accept` may
abort a connection (`AcceptAborted`, which costs one of `recovery_times`) or fail
otherwise (`AcceptFails`, which ends the loop); the writer may find no memory for its
statements (`DbNoMemory`).  A query asks for all nodes, or names up to `MaxNames`
of them in any order, unknown ones included.

### Collector

Extends `TsceServer` and binds its actions of accept loop and receivers to peers:
`SysAccept`, `SysHandshake`, `SysRecvData` and the others are the server's actions
conjoined with what they need of and do to the connection.  `chan[c]` is what the
network holds of connection `c`: what either end has not read to its end, and how each
end gave it up.  A connection is made as soon as the kernel queues it, so the
handshake of a daemon may wait in the backlog of a server that exits.

A package has up to 51200 bytes, `send` may put only the first of them on the
connection, and nothing frames it.  So `up` is a sequence of messages, and a `recv` of a
receiver (`SysRecvData`) takes any number of them that have arrived and any piece of the
last, of which a `"rest"` stays; it answers once and stores what it got as one packet, as
`recv.c` does.  `splits` counts the recvs that ended inside a message.  A hello and an
answer are some ten bytes and arrive whole.  Any peer that has nothing on the way
times out in the handshake (`SysHelloTimeout`); `SysAcceptAborted` and `SysAcceptFails` are the two ways
in which `accept` fails.  A broken connection (`Break`) loses what is under way and
neither end hears of the other; timeouts then end both.  `recv_buf` is here the content
of the buffer that `app_service` does not clear, so that the arbitrary hello of
`TsceServer` becomes the hello of an earlier connection.  The writer and the queries do
not appear: they touch no socket of a collector.


### SampleColumns

`info` and `nxt` are the linked list that `analyse_index_info_config` builds;
`monitor_data` relinks the list it walks, so every step of it
(`monitor_data_step`, `monitor_data_next`) is an action on the pointers `head`, `hm`
and `t`.  `collect_data_from_modules` and `complete_module_data` put the sample
together module by module; a value is the index it belongs to and the round in
which it was read, `"error"` is the error mask.  The server's side is three
operators: `split_index_data` drops empty values as `strtok_r` does,
`generate_index_name_sql` gives the columns of the INSERT along the monitor list,
`get_index_ix_by_name` the column of a queried index along `base_index.conf`.

### NodeState

`list` is the linked list behind `head`, `sock[f]` the socket behind descriptor
`f` as both ends see it, `serving[ip]` the connection a state client is in.
`Walk` is the loop of `remove_not_in_ip` with its two pointers as positions; the loop
closes the descriptors of the nodes it frees.  `Kept` is the chain it leaves: from the
last `head` on, the nodes whose flag is -1, in their order.  When `head` is left at a freed
node, that node and the freed ones behind it are part of the chain; `free` overwrites
their address (`AfterFree`), the descriptor, the flag and the link stay.  From then on
`memory = "corrupt"`, and the thread goes on through the freed nodes: `sock_create` sends on
the closed descriptor, and events are credited to it.  `Crash` is whatever else may come
of that, a second `free` or a list that ends in itself.  The properties that depend on the
list say so: they hold while `memory = "ok"`.
Errors are classes: refused, broken pipe, network failure (unreachable, timeout)
and any other error (reset), stored as the code stores them.  `select_res` appends
to its buffer with `sprintf(buf, "%s\t", buf)`, whose arguments overlap; the model
takes the outcome the C library has, that the text is appended.  SIGPIPE is taken
to be ignored, as the MySQL client library does for the process.

### Alarm

`node[k]` is the alarm node of item and node `k`, with a timer, a flag and a cancel
flag for each of the three levels.  `process_alarm_data` holds the three mutexes
of the alarm node to its end, so it is one step; the alarm threads' unlocked read
of `thread_cancel` (`CheckCancel`) and their later writes (`Cancelled`, `Alarmed`)
are steps of their own.  Timers are ages that stop at the seconds they are
compared with, which tells apart everything the code does.  A value is the set of
levels whose condition it matches.  `Threads` bounds the alarm threads that run
at once; when none is free `pthread_create` fails, which the code ignores.  The text
of a message, the row identifiers and the size of allocations are left out.
The memory of a process that has exited is set to its initial value.

### Collectord and BoundedFifo

`list` is `g_node_list`, `svc` the connection that `thread_service` has in hand,
`tpc`, `tid`, `tname`, `todo` are a receiver and its locals, `cpc` and `dy` those of
`thread_config`, `dbpc`, `db` and `batch` those of `thread_db`.  A critical section is
one step; the two that loop hold their mutex over several (`ListFree`,
`BufferFree`).  `Contents` is the refinement mapping: the ring as a sequence, oldest
first.  A packet of several items is queued item by item; one `recv` that returns two
packets processes the first one twice, the second time with nothing left to queue,
as the code does.

### ScriptSender

One action per exit of each block of `process_sct_main`: connecting, the update
block, the buffer file, running a script, `send`, `recv`, saving.  A result is a
number; all results but `MaxMade` are the same number `Other`, and any result may
be a followed one, so what is shown of a followed result is shown of each.  `confirmed`,
`handed` and `excused` are history variables for `Accounted`: results the server
answered, results sent from the file (nobody answers those), and results lost in a
way the code accepts (end of file read in place of an answer, disk full, death of the
process).  `link` tells apart what `send` and `recv` return: `deaf` is a connection whose
receiver has ended without closing its socket, `fin` one the server closed, `dying`
one where something was sent after that, `rst` one whose reset has arrived.
`head` keeps the two bytes of the interval packet apart, because only one of them
is set again.

## Runs

| run | instance | shows |
|---|---|---|
| `server_safe` | 2 nodes; 2 collectors, 3 packets, limit 1, 2 ticks; or 1 collector, 2 query clients, 1 slot, 1 packet, 1 tick | `TypeOK`, `BufferBound`, `RecentIsNewest`, `ActiveHasReceiver`, `RowsInOrder`, `RowTimesGrow`: what buffers and rows hold under every interleaving of receivers and writer, with failing database sessions and restarts; `RtdLimit`, `MutexOwners` on every path of a query |
| `server_live` | 2 nodes, 1 collector, 1 query client | `DbRoundEnds`, `SilentReceiverLeaves`, `QueryEnds`, also while the writer holds the mutex of one node and waits for the other's |
| `server_first_data` | 2 nodes | violated: `FirstDataExists`; the writer takes the head of an empty list |
| `collector` | 2 nodes, 3 connections, 2 samples; or 1 daemon, 2 connections, 3 samples in pieces; 1 failure | `SysTypeOK`, `FiledUnderOwner`, `OneUsableReceiver`, `AheadBySplits`, `RefusedForAbandoned`, `AbortsTolerated` |
| `columns` | monitor lists of up to 3 names in any order, 5 files, 3 installations, 2 rounds | `RowColumnsAgree`, `QueryColumnsAgree`, `StartUpEnds`, each for the lists in the order of the file; the columns for scripts that print all their keys |
| `state_safe` | 3 nodes, 2 descriptors, 2 table changes, 1 failure | `IpsDistinct`, `OwnSocket`, until a removal leaves `head` at freed memory; `RemovesDeleted`: where a removal is right |
| `state_freed` | the same | violated: `DeletedGone`; a removal leaves `head` at a freed node |
| `state_live` | 2 nodes, 1 failure | `DeadNodeShown` |
| `alarm_safe` | 1 alarm node, values at two levels or none, 2 threads, 2 messages per alarm, buffer of 2 | `TypeOK`, `OneAlarming`, `SeriousStopsTimers`, `LengthCoversBuffer` when cancelled threads meet their successors and database, mail and thread creation fail |
| `alarm_live` | 2 threads, all conditions on or off, 2 seconds at the serious level | `SeriousAlarmSticks`, `ThreadEnds` |
| `collectord` | 3 addresses, 2 slots, 2 connections, ring of 3, 3 items, 2 changes of the file | `TypeOK`, `OneSlotPerNode`, `ThreadRuns`, `NamedBySender`, `ItemsOnceInOrder`, and `RingIsFifo`, the refinement of `BoundedFifo` |
| `sender` | 2 scripts, 1 followed result, file of 2 lines, 2 failures, 1 reconfiguration | `AnswerForThis`, `Accounted`, `FileDrains`, `IntervalAskedAgain` |

The two violated runs state what a comment of the code says; `PROJECT.json` quotes the
lines under "findings".

### Bounds

Every bound is a constant.  `MaxPackets` and `MaxTicks` end what would grow for
ever.  A limit of 1 with 3 packets passes the buffer limit (a buffer holds at
most limit + 1) and empties it; 2 ticks of an interval of 1 give rounds whose
samples are newer than, as old as and older than `last_db_time`.  `FewerPeers` keeps the two
halves of `server_safe` apart: receivers and writer get all packets and ticks, queries
one of each.  With two nodes a query or a receiver can hold the mutex the writer needs
next.  Two connections
are the least with which one node has two receivers, two queries and one slot the
least that reject one.  Two addresses with two descriptors make `socket` return a
descriptor that another node had; three addresses are the least for which
`remove_not_in_ip` frees the node `head` points to.  Two messages per alarm give a
thread a look at its cancel flag; two threads are the least for which a cancelled
one meets its successor.  Symmetry is used for connections, addresses and threads,
in safety runs only.

`state_safe` has the constraint `FewerFaults`: three nodes and two changes while
everything runs, or two nodes, one change and a failure.  In `collector` three
connections let one daemon reconnect while the other is served, and with
`NETWORK_RECOVERY_RETRY_TIMES` 3 two connections aborted in the queue end the accept
loop.  `SplitsAlone` keeps two questions apart: two daemons and two samples whose recvs take
whole messages, or one daemon with three samples, two connections and two recvs on each
that end inside a message, enough for an answer to the first piece, a next sample that
arrives before the rest is read, and a reconnection in between.  In `columns` one file has all modules, others repeat a module or an index or
have a line cut short; one name of the monitor list is unknown.  In `collectord` the
ring of 3 has room for 2, fewer than the items; 2 slots for 3 addresses make a
deleted slot be reused by another node.  In `sender` 300 is an interval of two bytes, a
file of 2 lines fills up and lets a replay fail between its lines, two failures are a
broken connection and a second one during what follows it.

### Deadlock

`TsceServer` always lets time pass, so deadlock checking adds nothing there and
mutual waiting is left to `DbRoundEnds` and `QueryEnds`, checked with two nodes.  The monitor may stop
(`pc = "gone"`), the alarm daemon may exit, daemons may all exit, `collectord`
exits when its first database connection fails, and `SampleColumns` ends after `MaxRounds` samples: there deadlock
checking is off.  `ScriptSender` is checked for deadlock.

### Fairness

`TsceServer`: every thread is scheduled (weak fairness).  A `recv` on a silent
connection returns at its timeout, because the sockets have `SO_RCVTIMEO`; no peer
is assumed to send or to close.  `pthread_mutex_lock` succeeds when the mutex is
free again and again (strong fairness of the steps that take one): the writer
sleeps between rounds with every mutex released.  The accept loop and the clock
need no fairness for what is stated.

`NodeState`: `thread_ns` runs (weak fairness); the loop around `epoll_wait` is bounded
by `s_state_freq`, so its timeout is taken even if sockets are ready all the time,
and `malloc` does not fail every time (strong fairness of both).  Nothing is assumed
of clients and network.

`Alarm`: the threads run and time passes (weak fairness); an alarm thread waiting
for the buffer mutex gets it if it is free again and again (strong fairness).  A
failing `malloc`, which also ends a thread, is not part of what is fair: a thread must
not end only because it runs out of memory while it waits.  The database may fail
for ever.

`SampleColumns` is a single thread: weak fairness of the whole.

`ScriptSender`: the process runs, the server reads, an abandoned receiver ends at its
timeout, a reset arrives (weak fairness).  Scripts that run give a result again and
again (strong fairness of `ScriptResult`): the code reconnects only after a result
could not be sent, so without results it never does.

## Proofs

All are invariance proofs: an invariant `I` with `Init => I` and
`I /\ [Next]_vars => I'`, one lemma per component and one step per action.

`TsceServerProofs`.  `IInv == TypeOK /\ BufferBound /\ SqlLength /\ ReceiverNode /\
QueryNode`.  `TypeOK` and `BufferBound` are not inductive alone: the writer indexes
`sql` with its loop variables, so `SqlLength` ties the length of `sql` to them; a
receiver and a query thread use a node number, so `ReceiverNode` and `QueryNode` say
that it is one while it is used.  Theorems: `TypeCorrect`, `BufferBounded`.

Its second part is about the threads.  `TInv == Fresh /\ ActiveHasReceiver /\ RtdLimit /\ MutexOwners /\
DbIdle`, on top of `IInv`.  `Fresh` says that a connection has no thread before its
hello is handled, so that starting one takes no receiver or query away; `DbIdle`
that the writer's node index is back at 1 when a round begins, which `MutexOwners`
needs to say what the writer holds.  Theorems: `ActiveServed`, `MutexesOwned`,
`QueriesLimited`.  `ActiveHasReceiver` holds although two receivers may serve one node:
the one that leaves first sets DOWN, and nothing but a starting receiver sets
ACTIVE.

`TsceOrderProofs`.  `OInv` and `SessionInv`, each on top of `IInv`.  `OInv` has four
parts for every node: `Numbered` (no number is ahead of `arrivals`, so a new sample is
the newest), `BufferSorted`, `StatementsSorted` (what waits in `sql` is sorted and no
newer than the buffer) and `StoredFirst` (the database is no newer than either).  The
invariant is about what still waits, `Waits`, because the writer leaves the statements
it has sent in `sql` until the round ends.  `SessionInv` relates three clocks: a
statement with a row is later than `last_db_time` (`LastTime`), the statements of a round
are an interval apart up to the round's time (`StatementTimes`), and `last_db_time` stays
an interval behind (`ClockAhead`), without which the first round after a new session
could use a time twice.  Theorems: `RecentNewest`, `RowsOrdered`, `RowTimesOrdered`, and
the action property `RowsOnlyAdvance`: no step takes a node's last row back to an older
sample, across sessions and restarts.

`AlarmProofs`.  `AInv == TypeOK /\ (OneAlarming and SeriousStopsTimers of every alarm
node) /\ LengthCoversBuffer /\ CountsPositive`.  The lemmas say what each operator on
an alarm node (`Cleared`, `Started`, `Raised`, `Written`, `Aged`) preserves;
`CountsPositive` keeps the message count of a thread in its type.  Theorems:
`AlarmTypes`, `LevelsExclude`, `TimersStopped`, `LengthCovers`.

`CollectorProofs`.  Every action of the composition is an action of `TsceServer` with
more conjuncts, so `IInv` and `TInv` hold here (`ServerSpecHolds`, a lemma and no result: it
follows from how the actions are written).  On top of them `SInv == SysTypeOK /\ HelloOpen /\
Sockets /\ Unused /\ FiledUnderOwner /\ Turns`.  `Turns` says that on a connection the server
has not given up as many messages and answers are under way as recvs have ended inside a
message, and at most one more, which is not there when it is the daemon's turn to send.
`Sockets` says that a connection its daemon has not closed
is that daemon's socket, `Unused` that nothing serves a connection nobody opened,
`HelloOpen` that the connection in the accept loop's hand is open.  Theorems: `SysTypeCorrect`,
`AheadBounded`, `SamplesFiled`, `OneUsable`, `RefusalsExplained`.
For the accept loop `RecoverySpent`: while the loop runs,
every unit of `recovery_times` that is gone is a connection aborted in the queue, and an
aborted connection stays one, so that a restart, which gives the units back, keeps the
inequality.  Theorem: `AbortsAreTolerated`.  It says what ends the loop by way of aborted
connections; one silent peer, or another error of `accept`, ends it at once.

`NodeStateProofs`.  `SInv == VarTypes /\ IpsDistinct /\ OwnSocket /\ HandleOpen /\ ServesOwn`.
`OwnSocket` and `IpsDistinct` need each other: two list nodes with one descriptor would have
one peer, so one address, so they are one list node; closing its descriptor then leaves
the others' alone, and `socket` may return it again.  Both are about the list as long as
`memory = "ok"`.  When a removal leaves `head` at a freed node they are false, so the step that
does is covered by its `memory' = "corrupt"` alone, and all that is left of the list afterwards
is its type, in which the address of a freed node may be missing.  `HandleOpen` (events are handled only
while the epoll set exists) makes `OwnSocket` available to `write_state_flag`; `ServesOwn`
(a client serves a connection made to its own address) keeps the peer of a socket when
clients die.  Nothing about `Walk` is needed but that what is kept is a selection of the
list in its order: the wrong removals drop nodes, and never duplicate one.  `WalkInside` is the
position of `sock_create`: at the head except during its walk, and there at most one behind
the last node; with `VarTypes` it makes `TypeOK`.  Theorems:
`StateTypeCorrect`, `AddressesDistinct`, `SocketsOwn`, and the action properties
`EventsToSender` (handling an event changes the list node whose address the descriptor is
connected to and no other) and `FreshDescriptors` (`sock_create` never makes two list nodes
share a descriptor).

`CollectordProofs`.  `IInv` has the types part by part (`ListOK`, `RecvOK`, `TodoOK`, `ConfOK`,
`BufOK`, `DbOK`) with `PeerKnown` (a receiver's name is its peer's from the moment it
found the slot), `AddedAreNew` (what `thread_config` is about to add is not in the
list: receivers in between only delete), `OneSlotPerNode` and `ThreadRuns`.  For the order
of items `NoneAhead` says that everything of a connection in the pipeline is older than
the items left of its packet.  The lemmas about the ring (what `u_enqueue` and
`u_dequeue` do to `Contents`) carry the refinement.  Theorems: `TypeCorrect`,
`SlotsUnique`, `ThreadsRun`, `RingImplementsFifo`, `RowsNamedBySender`,
`RowsOnceInOrder`.

`ScriptSenderProofs`.  `IInv` has the types part by part (`FlagsOK`, `CtlOK`, `HeadOK`,
`NetOK`, `FileOK`), `CurOK` (there is a result in hand exactly between script and buffer
file), `PosOK` (the lines in front of the position have been sent), `SavedOK` (a result that
is not saved was answered or excused) and `ChanOK`, from which `AnswerForThis` follows:
while the process waits, the packet just sent is the last one under way or its answer is;
otherwise neither is there, unless `recv` has failed, and then nothing is sent until the
connection is closed.  Theorems: `TypeCorrect`, `AnswersMatch`, `ResultsAccounted`.

`SampleColumnsProofs`.  `CInv` says in every phase of the daemon what its lists are.
While `base_index.conf` is read (`Parsing`) the list is a prefix of the file without a
module twice; then it is the file (`Parsed`).  While `monitor_data` walks the list and
relinks it, `Relinked` says that the lines linked so far lead to each other in the order of
the file and every other line, like the last linked one, still to the next line of the file;
`Ahead` that the line of the name in hand lies ahead of the walk or was linked last.  These
need `InOrder`: with another monitor list the walk leaves the file's order.  Afterwards the
list has the monitored lines and no other (`Chained`), so a walk that has reached a node is
through with exactly the lines before it: the scripts loaded (`LoadedUpTo`) and the columns
of the sample (`SampleUpTo`) are the concatenation (`Flat`) of what those lines contribute.
The server's two orders are the same concatenation (`RowNames`, `QueryNames`).  What
`FlattenSeq` makes of a list of any length is proved by induction on its prefixes, in the
form that a non-empty set of naturals has a least member (`LeastNat`), because the induction
theorems of the library take an operator.  Theorems: `ColumnsInductive`, `RowsAgree`,
`QueriesAgree`.

The assumptions are `ServerConstants`, `SenderConstants`, `CollectorConstants`,
`CollectordConstants`, `AlarmConstants`, `StateConstants` and `ColumnsConstants`: limits
are naturals, a collect interval is 1 to 600 seconds, `INTERVAL`, `MAX_RTD_REQUEST`, the
seconds of a condition and the messages of an alarm are positive,
`NETWORK_RECOVERY_RETRY_TIMES` is at least 2 as in the header, the list file fits in the
node list and names a node once, the ring has a place, the addresses in `NodeInfo` are
finitely many, there is a descriptor, and names of connections are not the names "free",
"db" and "none", an address not "none"; files, monitor lists and lines of scripts are
sequences of strings.

Only model-checked: the liveness properties, because the prover has no reasoning about
fairness; `RemovesDeleted`, for the reason given under Plan; and the two violated properties.

## Observations

What the code does in these places is in the models.  Where a property is about one of them
it says what holds nevertheless; `PROJECT.json` names it at the hazard.

Second generation.
- `svr/buffer.c:239` asserts `node_status`, which a receiver may reset between the
  caller's test and the assertion; the server then aborts.
- `svr/service.c:224` admits two receivers of one node when the second connection comes
  before the first thread has set ACTIVE.  `OneUsableReceiver` says why this is harmless.
- `svr/service.c:203`, `:153`, `:121`, `:264`: one peer that is silent in the handshake, or an error of
  `accept` other than an abort, ends the accept
  loop; `recovery_times` is never given back; a USER or unknown hello leaves its
  descriptor open.
- `svr/recv.c:107` acknowledges a packet before storing it, and drops it above the limit;
  the samples of a failed statement are lost.
- `svr/recv.c:60` takes what one `recv` returns for one packet, although the comment at `:103` says
  "length of pkt" and nothing frames one: a piece of a sample is answered and
  stored as a sample, and its rest as the next.
- `svr/state_server/state_server.c:522` drops a node to keep when the one behind the head goes,
  or leaves `head` at freed memory (`state_freed`); a node that has not answered has the flag
  -1, which is the mark of a row, too, and stays in the list when its row goes; `:405` and `:464` do not poll a socket that connects at once;
  `db_oper.c:56` has the reconnection commented out.
- `clr/clr_config.c:509`: a monitor list that is not in the order of `base_index.conf` drops
  modules ([A, C, B] drops B) or never ends ([B, A]); `TSCE4.0/README:7` only asks that
  the names be included in it.  `_con/con_config.c:252` compares with 'r' where '\r' was
  meant.
- `alarm/alarm.c:150`, `:350`: a cancel flag set for a thread that has ended stops the next
  alarm of the level after one message; mail text gathered before a failed insert is lost.

First generation.
- `.trunk/collectord/d_service.c:183` never serves the node with index 0.
- `d_recv.c:197` ends a receiver without closing its socket; `:207` and `:359` process the
  first of two packets again and lose the second.
- `d_nodes.c:341` adds before it removes, so a full list refuses a node whose place
  is about to be free; `d_config.c:141` tests the interval flag without its mutex.
- `.trunk/collector/c_proc_sct.c:243` and `:457` set only `exit_code` of the interval packet:
  300 becomes 44 + 256 * 44 at the server, and an interval whose low byte is 0 is never
  learned.  `:289` forgets a signal that arrives during the update block.  `:447` counts
  `recv` = 0 as success, so the result is lost; an answer that is late makes a
  duplicate; a failed replay sends its earlier lines again.
- `c_engine.c`: after a result that is too long the alarm is not cancelled, the pipe not
  closed and the child not reaped.

## Not modelled

Parsing of configuration files; formatting of packets, statements and messages;
daemonization, log files and the wrappers that start and stop processes; the debug
manager; the splitting of a text into short messages (`send_alarm_message`); the
command process of `collector` except its reconfiguration; the real-time data of
`collectord` in shared memory, its change of the database interval and the
start-up hand-over.  These are string handling and I/O of one thread.

The plug-ins under `TSCE4.0/module/` and everything under `lib/` and `.trunk/libs/`:
vendored headers (InfiniBand, MySQL, NVML) and code (power_gadget, pcm), and readers
of /proc, MSRs and vendor libraries.  They are most of the repository's lines and
hold no state that another part shares; there is nothing a model of them could be
checked against.

## Plan

Every safety property of the runs has a theorem except `RemovesDeleted`, which needs to know which
nodes `Walk` keeps and not only their order.  It would be next: `Walk` is a recursive function,
and what it returns for a list of any length takes an induction on its prefixes, as
`SampleColumnsProofs` has one.  What could follow are the safety halves
of the liveness properties: action properties that a measure decreases with every step, such
as the part of `base_index.conf` ahead of `head` while `monitor_data` walks (`StartUpEnds`), the
statements a round of `thread_db` has left (`DbRoundEnds`), and the lines of the buffer file
behind the position (`FileDrains`).  Their fairness part stays with TLC.
