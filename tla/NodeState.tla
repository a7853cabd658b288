------------------------------ MODULE NodeState ------------------------------
(***************************************************************************)
(* The node-state monitor of the server (svr/state_server/state_server.c,  *)
(* thread_ns) and the state client it probes (clr/state_client).  Each     *)
(* round reads the addresses in the table NodeInfo, connects to the nodes  *)
(* it has no socket for, sends a byte to the others, collects the answers  *)
(* with epoll and writes every node's state back to the table.             *)
(***************************************************************************)
EXTENDS Integers, Sequences, FiniteSets

CONSTANTS
  IPs,         \* addresses NodeInfo may hold
  MaxFd,       \* descriptors socket() can return: 1..MaxFd
  MaxChanges,  \* bound: rows added to or deleted from NodeInfo
  MaxFaults    \* bound: network failures and deaths of clients

ASSUME StateConstants ==
  /\ IsFiniteSet(IPs) /\ "none" \notin IPs
  /\ MaxFd \in Nat \ {0} /\ MaxChanges \in Nat /\ MaxFaults \in Nat

Fds == 1..MaxFd

\* Values of flag: -1 no answer yet, 0 monitored normally, 1 the agent is not
\* running, 3 network failure, 104 another socket error, stored as it is.
Errors == {"refused", "pipe", "net", "reset"}

VARIABLES
  pc,        \* thread_ns
  list,      \* the linked list behind head, of [ip, fd, flag]
  memory,    \* "corrupt" once head has been left at a freed node
  ix,        \* the list node sock_create is at
  batch,     \* descriptors of the epoll_wait in hand
  epollfd,   \* "open" or "closed"
  conn,      \* s_state_conn answers queries
  sock,      \* the sockets behind the descriptors
  client,    \* the state client of each node: "up" or "down"
  serving,   \* the connection it serves (0: none, -1: one tscesd has closed)
  table,     \* addresses in NodeInfo
  state,     \* column state of NodeInfo
  changes, faults

thrvars == <<pc, list, memory, ix, batch, epollfd, conn>>
envvars == <<client, table, changes, faults>>
vars == <<thrvars, sock, serving, state, envvars>>

Closed == [peer |-> "none", est |-> FALSE, polled |-> FALSE, msg |-> FALSE,
           data |-> FALSE, err |-> "none"]

Init ==
  /\ pc = "start" /\ list = <<>> /\ memory = "ok" /\ ix = 1 /\ batch = {}
  /\ epollfd = "open" /\ conn = TRUE
  /\ sock = [f \in Fds |-> Closed]
  /\ client \in [IPs -> {"up", "down"}]
  /\ serving = [ip \in IPs |-> 0]
  /\ table \in SUBSET IPs
  /\ state = [ip \in IPs |-> -1]
  /\ changes = 0 /\ faults = 0

\* The search of get_ip_list through the list.
ListedButLast == {list[i].ip : i \in 1..(Len(list) - 1)}
Listed == {list[i].ip : i \in 1..Len(list)}

\* Closing descriptors: the peer's recv will return 0.
Close(F) ==
  /\ sock' = [f \in Fds |-> IF f \in F THEN Closed ELSE sock[f]]
  /\ serving' = [ip \in IPs |-> IF serving[ip] \in F \ {0} THEN -1 ELSE serving[ip]]

-----------------------------------------------------------------------------
(* thread_ns.                                                               *)

\* The first connection to the database, malloc and epoll_create.
Start ==
  /\ pc = "start"
  /\ pc' \in {"round", "gone"}
  /\ UNCHANGED <<list, memory, ix, batch, epollfd, conn, sock, serving, state, envvars>>

\* check_conn or select_res fails: from then on always, because the code that
\* connected again is commented out.  An empty table fails select_res too.
NoIpList ==
  /\ pc = "round"
  /\ conn' = FALSE \/ (table = {} /\ UNCHANGED conn)
  /\ pc' = "sleep"
  /\ UNCHANGED <<list, memory, ix, batch, epollfd, sock, serving, state, envvars>>

\* The orders in which select may return a set of addresses.
Orders(S) == {q \in [1..Cardinality(S) -> S] : \A i, j \in DOMAIN q : i # j => q[i] # q[j]}

Marked(L) == [i \in 1..Len(L) |-> IF L[i].ip \in table THEN [L[i] EXCEPT !.flag = -1] ELSE L[i]]

\* remove_not_in_ip walks the list with the pointers head and prior, given here
\* as positions.  The test prior = head unlinks at the head even when prior is
\* a node to keep; and prior is not head any more once the first node is gone,
\* so that a second deletion leaves head where it is.
WalkForgetsPrior(L) ==
  LET w[i \in 0..Len(L)] ==
        IF i = 0 THEN [head |-> 1, prior |-> 1]
        ELSE IF L[i].flag # -1 /\ w[i - 1].prior = w[i - 1].head
             THEN [w[i - 1] EXCEPT !.head = i + 1] ELSE w[i - 1]
  IN w[Len(L)]
Walk(L) ==
  LET w[i \in 0..Len(L)] ==
        IF i = 0 THEN [head |-> 1, prior |-> 1]
        ELSE IF L[i].flag = -1 THEN [w[i - 1] EXCEPT !.prior = i]
        ELSE IF w[i - 1].prior = w[i - 1].head THEN [w[i - 1] EXCEPT !.head = i + 1]
        ELSE w[i - 1]
  IN w[Len(L)]

HeadFreed(L) == Walk(L).head <= Len(L) /\ L[Walk(L).head].flag # -1

\* The chain of nodes behind head: those to keep and, when head is at a freed
\* node, that one and the freed ones it leads through.
Kept(L) ==
  LET h == Walk(L).head
  IN {i \in 1..Len(L) : /\ i >= h
                        /\ \/ L[i].flag = -1
                           \/ HeadFreed(L) /\ \A k \in 1..i : k >= h => L[k].flag # -1}

\* free writes its own links over the first bytes of a node, which are ip; fd,
\* flag and next stay.
AfterFree(n) == IF n.flag = -1 THEN n ELSE [n EXCEPT !.ip = "none"]

remove_not_in_ip(L) ==
  /\ \E p \in [1..Cardinality(Kept(L)) -> Kept(L)] :
       /\ \A i, j \in DOMAIN p : i < j => p[i] < p[j]
       /\ list' = [i \in DOMAIN p |-> AfterFree(L[p[i]])]
  /\ Close({L[i].fd : i \in {j \in 1..Len(L) : L[j].flag # -1}})
  /\ memory' = IF HeadFreed(L) THEN "corrupt" ELSE memory

get_ip_list ==
  /\ pc = "round" /\ conn /\ table # {}
  /\ \E q \in Orders(table \ Listed) :
       remove_not_in_ip([i \in 1..Len(q) |-> [ip |-> q[Len(q) + 1 - i], fd |-> 0, flag |-> -1]]
                          \o Marked(list))
  /\ pc' = "sock" /\ ix' = 1
  /\ UNCHANGED <<batch, epollfd, conn, state, envvars>>

\* malloc fails for a new address: delete_list.
delete_list ==
  /\ pc = "round" /\ conn /\ table \ Listed # {}
  /\ Close({list[i].fd : i \in 1..Len(list)})
  /\ list' = <<>>
  /\ pc' = "sleep"
  /\ UNCHANGED <<memory, ix, batch, epollfd, conn, state, envvars>>

-----------------------------------------------------------------------------
(* sock_create: one list node after another.                                *)

AtSock == pc = "sock" /\ ix <= Len(list)

\* socket, inet_aton, fcntl, connect or epoll_add fails.
SockFails ==
  /\ AtSock /\ list[ix].fd = 0
  /\ ix' = ix + 1
  /\ UNCHANGED <<pc, list, memory, batch, epollfd, conn, sock, serving, state, envvars>>

\* connect in progress, the socket is added to the epoll set; or connected at
\* once, and it is not.
SockConnect(f) ==
  /\ AtSock /\ list[ix].fd = 0 /\ list[ix].ip \in IPs
  /\ sock[f] = Closed /\ \A g \in 1..(f - 1) : sock[g] # Closed
  /\ \/ /\ epollfd = "open"
        /\ list' = [list EXCEPT ![ix].fd = f]
        /\ sock' = [sock EXCEPT ![f] = [Closed EXCEPT !.peer = list[ix].ip, !.polled = TRUE]]
     \/ /\ client[list[ix].ip] = "up"
        /\ list' = [list EXCEPT ![ix].fd = f, ![ix].flag = 0]
        /\ sock' = [sock EXCEPT ![f] = [Closed EXCEPT !.peer = list[ix].ip, !.est = TRUE]]
  /\ ix' = ix + 1
  /\ UNCHANGED <<pc, memory, batch, epollfd, conn, serving, state, envvars>>

\* send, when it succeeds or would block.  A byte for a closed peer is answered
\* with a reset, a broken pipe for the socket that has seen the end of file.
SockSend ==
  LET f == list[ix].fd IN
  /\ AtSock /\ f # 0
  /\ sock[f] # Closed /\ sock[f].err \notin Errors
  /\ sock' = [sock EXCEPT ![f].msg = sock[f].est /\ sock[f].err = "none",
                          ![f].err = IF @ = "eof" THEN "pipe" ELSE @]
  /\ ix' = ix + 1
  /\ UNCHANGED <<pc, list, memory, batch, epollfd, conn, serving, state, envvars>>

\* send fails: the descriptor is closed and the same node is tried again.
SockResend ==
  LET f == list[ix].fd IN
  /\ AtSock /\ f # 0
  /\ sock[f] = Closed \/ sock[f].err \in Errors
  /\ Close({f})
  /\ list' = [list EXCEPT ![ix].fd = 0]
  /\ UNCHANGED <<pc, memory, ix, batch, epollfd, conn, state, envvars>>

SockDone ==
  /\ pc = "sock" /\ ix > Len(list)
  /\ pc' = "wait" /\ ix' = 1
  /\ UNCHANGED <<list, memory, batch, epollfd, conn, sock, serving, state, envvars>>

-----------------------------------------------------------------------------
(* epoll_sockfd.                                                            *)

Ready == {f \in Fds : sock[f].polled /\ (sock[f].data \/ sock[f].err # "none")}

EpollWait ==
  /\ pc = "wait" /\ epollfd = "open" /\ Ready # {}
  /\ pc' = "handle" /\ batch' = Ready
  /\ UNCHANGED <<list, memory, ix, epollfd, conn, sock, serving, state, envvars>>

\* s_state_freq has passed.
EpollTimeout ==
  /\ pc = "wait" /\ epollfd = "open"
  /\ pc' = "update"
  /\ UNCHANGED <<list, memory, ix, batch, epollfd, conn, sock, serving, state, envvars>>

\* epoll_wait returns -1 (a signal, or epollfd was closed here before): close_sock
\* leaves the closed descriptors in the list.
EpollFails ==
  /\ pc = "wait"
  /\ Close({list[i].fd : i \in 1..Len(list)})
  /\ epollfd' = "closed"
  /\ pc' = "sleep"
  /\ UNCHANGED <<list, memory, ix, batch, conn, state, envvars>>

\* The list node write_state_flag finds for a descriptor (0: none).
Find(f) ==
  LET m == {i \in 1..Len(list) : list[i].fd = f}
  IN IF m = {} THEN 0 ELSE CHOOSE i \in m : \A j \in m : i <= j

\* traverse_state_list.
AllAnswered(L) == L # <<>> /\ \A i \in 1..Len(L) : L[i].flag # -1

\* The flag for the socket error of an event.
FlagRefusedNormal(err) == CASE err = "net" -> 3 [] err = "reset" -> 104 [] OTHER -> 0
Flag(err) == CASE err \in {"refused", "pipe"} -> 1
               [] err = "net"   -> 3
               [] err = "reset" -> 104
               [] OTHER         -> 0

\* The list node n after write_state_flag, which closes the descriptor unless
\* the flag is 0.
write_flag_keeps_fd(n, flag) == [n EXCEPT !.flag = flag]
write_state_flag(n, flag) == [n EXCEPT !.flag = flag, !.fd = IF flag # 0 THEN 0 ELSE n.fd]

\* One event of the batch: end of file has no socket error and counts as an
\* answer.
HandleEvent(f) ==
  LET i == Find(f)
      flag == Flag(sock[f].err)
  IN
  /\ pc = "handle" /\ f \in batch
  /\ batch' = batch \ {f}
  /\ list' = IF i = 0 THEN list
             ELSE [list EXCEPT ![i] = write_state_flag(list[i], flag)]
  /\ IF i # 0 /\ flag # 0
     THEN Close({f})
     ELSE /\ sock' = [sock EXCEPT ![f].data = FALSE,
                                  ![f].err = IF @ = "none" THEN "none" ELSE "eof"]
          /\ UNCHANGED serving
  /\ pc' = IF batch' # {} THEN "handle" ELSE IF AllAnswered(list') THEN "update" ELSE "wait"
  /\ UNCHANGED <<memory, ix, epollfd, conn, state, envvars>>

\* update_node_state: the rows of the first k list nodes are updated; if not of
\* all, the connection was lost.
update_node_state ==
  /\ pc = "update"
  /\ \E k \in 0..Len(list) :
       /\ ~conn => k = 0
       /\ conn' = (conn /\ k = Len(list))
       /\ state' = [ip \in IPs |->
            IF ip \in table /\ \E i \in 1..k : list[i].ip = ip
            THEN list[CHOOSE i \in 1..k : list[i].ip = ip].flag ELSE state[ip]]
  /\ pc' = "sleep"
  /\ UNCHANGED <<list, memory, ix, batch, epollfd, sock, serving, envvars>>

\* With a freed node in the list the process may crash anywhere, by a second free
\* of it, or loop for ever, when malloc gives its memory to a new node in front.
Crash ==
  /\ memory = "corrupt" /\ pc # "gone"
  /\ pc' = "gone"
  /\ UNCHANGED <<list, memory, ix, batch, epollfd, conn, sock, serving, state, envvars>>

\* usleep until the round's time is over.
Sleep ==
  /\ pc = "sleep"
  /\ pc' = "round"
  /\ UNCHANGED <<list, memory, ix, batch, epollfd, conn, sock, serving, state, envvars>>

Thread ==
  \/ Start \/ NoIpList \/ get_ip_list \/ delete_list
  \/ SockFails \/ (\E f \in Fds : SockConnect(f)) \/ SockSend \/ SockResend \/ SockDone
  \/ EpollWait \/ EpollTimeout \/ EpollFails \/ (\E f \in Fds : HandleEvent(f))
  \/ update_node_state \/ Sleep \/ Crash

-----------------------------------------------------------------------------
(* The state clients, the network and the table.                            *)

\* The three-way handshake ends, or is refused, or the network fails.
Connected(f) ==
  /\ sock[f] # Closed /\ ~sock[f].est /\ sock[f].err = "none"
  /\ sock' = IF client[sock[f].peer] = "up" THEN [sock EXCEPT ![f].est = TRUE]
                                            ELSE [sock EXCEPT ![f].err = "refused"]
  /\ UNCHANGED <<thrvars, serving, state, envvars>>

NetFails(f) ==
  /\ faults < MaxFaults /\ faults' = faults + 1
  /\ sock[f] # Closed /\ sock[f].err \in {"none", "eof"}
  /\ sock' = [sock EXCEPT ![f].err = "net"]
  /\ UNCHANGED <<thrvars, serving, state, client, table, changes>>

\* socket_result serves one connection at a time.
ClientAccept(f) ==
  LET ip == sock[f].peer IN
  /\ sock[f].est /\ sock[f].err = "none"
  /\ client[ip] = "up" /\ serving[ip] = 0
  /\ serving' = [serving EXCEPT ![ip] = f]
  /\ UNCHANGED <<thrvars, sock, state, envvars>>

ClientReply(ip) ==
  LET f == serving[ip] IN
  /\ f > 0
  /\ sock[f].msg /\ sock[f].err = "none"
  /\ sock' = [sock EXCEPT ![f].msg = FALSE, ![f].data = TRUE]
  /\ UNCHANGED <<thrvars, serving, state, envvars>>

\* recv returns 0 or an error: the connection is over.
ClientDone(ip) ==
  /\ serving[ip] # 0
  /\ serving[ip] > 0 => sock[serving[ip]].err # "none"
  /\ serving' = [serving EXCEPT ![ip] = 0]
  /\ UNCHANGED <<thrvars, sock, state, envvars>>

\* The client dies: what it has read is answered by a FIN, the rest reset.
ClientDies(ip) ==
  /\ faults < MaxFaults /\ faults' = faults + 1
  /\ client[ip] = "up"
  /\ client' = [client EXCEPT ![ip] = "down"]
  /\ serving' = [serving EXCEPT ![ip] = 0]
  /\ sock' = [f \in Fds |->
       IF sock[f].peer = ip /\ sock[f].est /\ sock[f].err = "none"
       THEN [sock[f] EXCEPT !.msg = FALSE,
                            !.err = IF serving[ip] = f /\ ~sock[f].msg THEN "eof" ELSE "reset"]
       ELSE sock[f]]
  /\ UNCHANGED <<thrvars, state, table, changes>>

ClientStarts(ip) ==
  /\ client[ip] = "down"
  /\ client' = [client EXCEPT ![ip] = "up"]
  /\ UNCHANGED <<thrvars, sock, serving, state, table, changes, faults>>

\* The administrator changes NodeInfo.
TableChange(ip) ==
  /\ changes < MaxChanges
  /\ changes' = changes + 1
  /\ table' = IF ip \in table THEN table \ {ip} ELSE table \cup {ip}
  /\ state' = [state EXCEPT ![ip] = -1]
  /\ UNCHANGED <<thrvars, sock, serving, client, faults>>

Env ==
  \/ \E f \in Fds : Connected(f) \/ NetFails(f) \/ ClientAccept(f)
  \/ \E ip \in IPs : \/ ClientReply(ip) \/ ClientDone(ip) \/ ClientDies(ip)
                     \/ ClientStarts(ip) \/ TableChange(ip)

Next == Thread \/ Env

Spec == Init /\ [][Next]_vars

\* thread_ns keeps running, its malloc does not fail forever, and its time for
\* waiting runs out even if sockets are ready all the time.
FairSpec == Spec /\ WF_vars(Thread) /\ SF_vars(get_ip_list) /\ SF_vars(EpollTimeout)

-----------------------------------------------------------------------------
\* The list never holds an address twice, although rows come and go and
\* remove_not_in_ip drops nodes: every address has one flag and one descriptor,
\* until remove_not_in_ip leaves head at freed memory.
IpsDistinct ==
  memory = "ok" => \A i, j \in 1..Len(list) : i # j => list[i].ip # list[j].ip

\* Until epoll_wait fails or remove_not_in_ip leaves head at freed memory, the
\* descriptor of a list node is its own socket, not one that was closed, nor one
\* that was closed and given to another node: a probe goes to the node it is for
\* and an event is credited to its sender.
OwnSocket ==
  memory = "ok" /\ epollfd = "open" =>
    \A i \in 1..Len(list) : list[i].fd # 0 => sock[list[i].fd].peer = list[i].ip

\* What remove_not_in_ip is for: sock_create finds no node in the list whose row
\* is gone, and so no freed one and no descriptor that was closed with it.
DeletedGone == pc = "sock" /\ ix = 1 => \A i \in 1..Len(list) : list[i].flag = -1

\* As long as the rows of the first two list nodes stay, the nodes that leave the list
\* are those whose rows are gone, wherever they are in it, and no other: one dropped
\* too many would lose its socket, which stays open, and be connected again.  But a
\* node that did not answer stays: -1 is its flag, too.  (When one of the first two
\* goes, a node that is to stay may go with it, or head be left at a freed one.)
RemovesDeleted ==
  [][/\ get_ip_list /\ memory = "ok"
     /\ Len(list) >= 2 /\ {list[1].ip, list[2].ip} \subseteq table
     => /\ memory' = "ok"
        /\ Listed' = table \cup {list[i].ip : i \in {j \in 1..Len(list) : list[j].flag = -1}}]_vars

\* A node whose client stays down ends up shown as something else than
\* monitored (0) in NodeInfo, if the monitor keeps its database connection and
\* its epoll set.
DeadNodeShown ==
  \A ip \in IPs :
    <>[](/\ client[ip] = "down" /\ ip \in table
         /\ conn /\ epollfd = "open" /\ pc # "gone") => <>[](state[ip] # 0)

=============================================================================
