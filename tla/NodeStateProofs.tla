--------------------------- MODULE NodeStateProofs ---------------------------
(***************************************************************************)
(* Theorems about NodeState, for any set of addresses, any number of       *)
(* descriptors, and any number of changes of NodeInfo and of failures.     *)
(***************************************************************************)
EXTENDS NodeState, TLAPS, FiniteSetTheorems, WellFoundedInduction

Flags == {-1, 0, 1, 3, 104}
Entries == [ip : IPs \cup {"none"}, fd : Fds \cup {0}, flag : Flags]
Sockets == [peer : IPs \cup {"none"}, est : BOOLEAN, polled : BOOLEAN, msg : BOOLEAN,
            data : BOOLEAN, err : Errors \cup {"none", "eof"}]

ThreadType ==
  /\ pc \in {"start", "round", "sock", "wait", "handle", "update", "sleep", "gone"}
  /\ memory \in {"ok", "corrupt"}
  /\ ix \in Nat \ {0}
  /\ batch \subseteq Fds
  /\ epollfd \in {"open", "closed"}
  /\ conn \in BOOLEAN

ListType ==
  /\ list \in Seq(Entries)
  /\ memory = "ok" => \A i \in 1..Len(list) : list[i].ip \in IPs
SockType == sock \in [Fds -> Sockets]

EnvType ==
  /\ client \in [IPs -> {"up", "down"}]
  /\ serving \in [IPs -> Fds \cup {0, -1}]
  /\ table \subseteq IPs
  /\ state \in [IPs -> Flags]
  /\ changes \in Nat /\ faults \in Nat

\* Every variable has values of its kind.
VarTypes == ThreadType /\ ListType /\ SockType /\ EnvType

\* sock_create starts at the head and ends one behind the last list node; at
\* every other time, unless the thread is gone, the position is at the head.
WalkInside == ix \in 1..(Len(list) + 1) /\ (pc \notin {"sock", "gone"} => ix = 1)

\* Every variable keeps its type: no descriptor outside the table of the
\* process is polled, closed or stored in the list, NodeInfo only ever gets
\* one of the documented states or the error number 104, and the walk of
\* sock_create stays inside the list, also when that leads through freed nodes.
TypeOK == VarTypes /\ ix \in 1..(Len(list) + 1)

\* Events are handled only while the epoll set exists.
HandleOpen == pc = "handle" => epollfd = "open"

\* A state client serves a connection that tscesd made to it.
ServesOwn ==
  \A ip \in IPs : serving[ip] > 0 => sock[serving[ip]].peer = ip

\* OwnSocket needs IpsDistinct, so that no two list nodes share a descriptor, and
\* HandleOpen, so that it holds when write_state_flag closes one.
SInv == VarTypes /\ IpsDistinct /\ OwnSocket /\ HandleOpen /\ ServesOwn

\* The entries of a typed list.
LEMMA EntryTypes ==
  ASSUME ListType
  PROVE  /\ Len(list) \in Nat
         /\ \A i \in 1..Len(list) :
              /\ list[i] \in Entries /\ list[i].fd \in Fds \cup {0} /\ list[i].flag \in Flags
              /\ memory = "ok" => list[i].ip \in IPs
<1>1. Len(list) \in Nat /\ \A i \in 1..Len(list) : list[i] \in Entries
  BY DEF ListType
<1>2. QED BY <1>1 DEF Entries, ListType

\* No descriptor is negative, and no address is the peer of a closed socket.
LEMMA ConstantFacts ==
  /\ 0 \notin Fds /\ -1 \notin Fds /\ \A f \in Fds : f > 0 /\ f \in Nat
  /\ "none" \notin IPs
  /\ Closed \in Sockets /\ Closed.peer = "none"
<1>1. 0 \notin Fds /\ -1 \notin Fds /\ \A f \in Fds : f > 0 /\ f \in Nat
  BY StateConstants DEF Fds
<1>2. Closed \in Sockets /\ Closed.peer = "none"
  BY DEF Closed, Sockets
<1>3. QED BY <1>1, <1>2, StateConstants

\* While the epoll set exists no two list nodes have the same descriptor: they
\* would have the same peer, and an address is in the list once.
LEMMA FdsDistinct ==
  ASSUME IpsDistinct, OwnSocket, memory = "ok", epollfd = "open",
         NEW i \in 1..Len(list), NEW j \in 1..Len(list),
         list[i].fd = list[j].fd, list[i].fd # 0
  PROVE  i = j
<1>1. list[i].ip = list[j].ip
  BY DEF OwnSocket
<1>2. QED BY <1>1 DEF IpsDistinct

\* Closing descriptors leaves every other socket alone, and the peers learn of
\* it.
LEMMA CloseSockets ==
  ASSUME SockType, EnvType, ServesOwn, NEW F, Close(F)
  PROVE  /\ SockType' /\ ServesOwn'
         /\ serving' \in [IPs -> Fds \cup {0, -1}]
         /\ \A f \in Fds : f \notin F => sock'[f] = sock[f]
<1>1. \A f \in Fds : sock'[f] = IF f \in F THEN Closed ELSE sock[f]
  BY DEF Close
<1>2. SockType'
  BY ConstantFacts DEF Close, SockType
<1>3. ASSUME NEW ip \in IPs
      PROVE  /\ serving[ip] \in Fds \cup {0, -1}
             /\ serving'[ip] = IF serving[ip] \in F \ {0} THEN -1 ELSE serving[ip]
  BY DEF Close, EnvType
<1>4. serving' \in [IPs -> Fds \cup {0, -1}]
  BY <1>3 DEF Close
<1>5. ASSUME NEW ip \in IPs, serving'[ip] > 0
      PROVE  sock'[serving'[ip]].peer = ip
  <2>1. serving[ip] \in Fds /\ serving[ip] \notin F /\ serving'[ip] = serving[ip]
    BY <1>3, <1>5, ConstantFacts
  <2>2. QED BY <1>1, <1>5, <2>1 DEF ServesOwn
<1>6. QED BY <1>1, <1>2, <1>4, <1>5 DEF ServesOwn

\* A step that gives no socket another peer and no node another descriptor.
LEMMA PeersKept ==
  ASSUME EnvType, OwnSocket, IpsDistinct, ServesOwn, ListType, UNCHANGED <<list, memory, epollfd>>,
         \A f \in Fds : sock'[f].peer = sock[f].peer,
         \A ip \in IPs : serving'[ip] \in {serving[ip], 0}
                         \/ (serving'[ip] \in Fds /\ sock[serving'[ip]].peer = ip)
  PROVE  OwnSocket' /\ IpsDistinct' /\ ServesOwn' /\ ListType'
<1>1. OwnSocket'
  BY EntryTypes DEF OwnSocket
<1>2. IpsDistinct' /\ ListType'
  BY DEF IpsDistinct, ListType
<1>3. ASSUME NEW ip \in IPs, serving'[ip] > 0 PROVE sock'[serving'[ip]].peer = ip
  <2>1. CASE serving'[ip] = serving[ip]
    <3>1. serving[ip] \in Fds
      BY <1>3, <2>1 DEF EnvType
    <3>2. QED BY <1>3, <2>1, <3>1 DEF ServesOwn
  <2>2. CASE serving'[ip] \in Fds /\ sock[serving'[ip]].peer = ip
    BY <2>2
  <2>3. QED BY <1>3, <2>1, <2>2
<1>4. QED BY <1>1, <1>2, <1>3 DEF ServesOwn

\* A step that touches neither the list nor a socket.
LEMMA SocketsFrame ==
  ASSUME ListType, SockType, EnvType, IpsDistinct, OwnSocket, ServesOwn,
         UNCHANGED <<list, memory, sock, serving, epollfd>>
  PROVE  ListType' /\ SockType' /\ IpsDistinct' /\ OwnSocket' /\ ServesOwn'
BY DEF ListType, SockType, IpsDistinct, OwnSocket, ServesOwn

\* A step that leaves the environment alone.
LEMMA EnvFrame ==
  ASSUME EnvType, UNCHANGED <<envvars, state>>, serving' \in [IPs -> Fds \cup {0, -1}]
  PROVE  EnvType'
BY DEF EnvType, envvars

-----------------------------------------------------------------------------
\* The list get_ip_list starts from: the new addresses in front.
Lengthened(q) ==
  [i \in 1..Len(q) |-> [ip |-> q[Len(q) + 1 - i], fd |-> 0, flag |-> -1]] \o Marked(list)

\* An order of the new addresses has each of them, and no other, once.
LEMMA OrderOfNew ==
  ASSUME EnvType, NEW q \in Orders(table \ Listed)
  PROVE  /\ q \in Seq(IPs) /\ Len(q) \in Nat
         /\ \A i \in 1..Len(q) : q[i] \in IPs /\ q[i] \notin Listed
         /\ \A i, j \in 1..Len(q) : i # j => q[i] # q[j]
<1> DEFINE S == table \ Listed
           n == Cardinality(S)
<1>1. IsFiniteSet(IPs) /\ S \subseteq IPs
  BY StateConstants DEF EnvType
<1>2. n \in Nat
  BY <1>1, FS_Subset, FS_CardinalityType
<1>3. q \in [1..n -> S] /\ \A i, j \in 1..n : i # j => q[i] # q[j]
  BY DEF Orders
<1> HIDE DEF n, S
<1>4. q \in Seq(S) /\ Len(q) = n
  BY <1>2, <1>3
<1>5. \A x \in S : x \in IPs /\ x \notin Listed
  BY <1>1 DEF S
<1>6. q \in Seq(IPs)
  BY <1>2, <1>3, <1>5
<1>7. QED BY <1>2, <1>3, <1>4, <1>5, <1>6

\* The lengthened list is as good as the old one.
LEMMA LengthenedList ==
  ASSUME SInv, NEW q \in Orders(table \ Listed)
  PROVE  /\ Lengthened(q) \in Seq(Entries)
         /\ memory = "ok" =>
              /\ \A i \in 1..Len(Lengthened(q)) : Lengthened(q)[i].ip \in IPs
              /\ \A i, j \in 1..Len(Lengthened(q)) :
                   i # j => Lengthened(q)[i].ip # Lengthened(q)[j].ip
         /\ memory = "ok" /\ epollfd = "open" =>
              \A i \in 1..Len(Lengthened(q)) : Lengthened(q)[i].fd # 0 =>
                 sock[Lengthened(q)[i].fd].peer = Lengthened(q)[i].ip
<1> DEFINE new == [i \in 1..Len(q) |-> [ip |-> q[Len(q) + 1 - i], fd |-> 0, flag |-> -1]]
           old == Marked(list)
           L == Lengthened(q)
           m == Len(q)
<1>0. ListType /\ EnvType /\ IpsDistinct /\ OwnSocket
  BY DEF SInv, VarTypes
<1>1. /\ q \in Seq(IPs) /\ m \in Nat
      /\ \A i \in 1..m : q[i] \in IPs /\ q[i] \notin Listed
      /\ \A i, j \in 1..m : i # j => q[i] # q[j]
  BY <1>0, OrderOfNew
<1>2. \A i \in 1..m : m + 1 - i \in 1..m
  BY <1>1
<1>3. ASSUME NEW i \in 1..m
      PROVE  /\ new[i] \in Entries /\ new[i].fd = 0 /\ new[i].ip = q[m + 1 - i]
             /\ new[i].ip \in IPs /\ new[i].ip \notin Listed
  <2>1. new[i] = [ip |-> q[m + 1 - i], fd |-> 0, flag |-> -1]
    OBVIOUS
  <2>2. q[m + 1 - i] \in IPs /\ q[m + 1 - i] \notin Listed
    BY <1>1, <1>2
  <2> HIDE DEF new
  <2>3. QED BY <2>1, <2>2 DEF Entries, Flags
<1>4. new \in Seq(Entries) /\ Len(new) = m
  BY <1>1, <1>3
<1>5. /\ Len(list) \in Nat
      /\ \A i \in 1..Len(list) :
              /\ list[i] \in Entries /\ list[i].fd \in Fds \cup {0} /\ list[i].flag \in Flags
              /\ memory = "ok" => list[i].ip \in IPs
  BY <1>0, EntryTypes
<1>6. ASSUME NEW i \in 1..Len(list)
      PROVE  /\ old[i] \in Entries /\ old[i].fd = list[i].fd /\ old[i].ip = list[i].ip
             /\ old[i].ip \in Listed
  <2>1. old[i] = IF list[i].ip \in table THEN [list[i] EXCEPT !.flag = -1] ELSE list[i]
    BY <1>5 DEF Marked
  <2>2. list[i] \in Entries
    BY <1>5
  <2>3. old[i] \in Entries /\ old[i].fd = list[i].fd /\ old[i].ip = list[i].ip
    BY <2>1, <2>2 DEF Entries, Flags
  <2>4. QED BY <2>3 DEF Listed
<1>7. old \in Seq(Entries) /\ Len(old) = Len(list)
  <2>1. old = [i \in 1..Len(list) |-> old[i]]
    BY DEF Marked
  <2>2. QED BY <1>5, <1>6, <2>1
<1>8. L = new \o old
  BY DEF Lengthened
<1> HIDE DEF new, old, L
<1>9. L \in Seq(Entries) /\ Len(L) = m + Len(list)
  <2>1. ASSUME NEW a \in Seq(Entries), NEW b \in Seq(Entries)
        PROVE  a \o b \in Seq(Entries) /\ Len(a \o b) = Len(a) + Len(b)
    OBVIOUS
  <2>2. QED BY <1>4, <1>7, <1>8, <2>1
<1>10. ASSUME NEW i \in 1..Len(L)
       PROVE  \/ i \in 1..m /\ L[i] = new[i]
              \/ i - m \in 1..Len(list) /\ L[i] = old[i - m]
  BY <1>1, <1>4, <1>5, <1>7, <1>8, <1>9
<1>11. ASSUME NEW i \in 1..Len(L), NEW j \in 1..Len(L), i # j, memory = "ok"
       PROVE  L[i].ip # L[j].ip
  <2>1. CASE i \in 1..m /\ L[i] = new[i] /\ j \in 1..m /\ L[j] = new[j]
    BY <1>1, <1>2, <1>3, <1>11, <2>1
  <2>2. CASE /\ i - m \in 1..Len(list) /\ L[i] = old[i - m]
             /\ j - m \in 1..Len(list) /\ L[j] = old[j - m]
    <3>1. i - m # j - m
      BY <1>1, <1>11
    <3>2. QED BY <1>0, <1>6, <1>11, <2>2, <3>1 DEF IpsDistinct
  <2>3. CASE i \in 1..m /\ L[i] = new[i] /\ j - m \in 1..Len(list) /\ L[j] = old[j - m]
    BY <1>3, <1>6, <2>3
  <2>4. CASE j \in 1..m /\ L[j] = new[j] /\ i - m \in 1..Len(list) /\ L[i] = old[i - m]
    BY <1>3, <1>6, <2>4
  <2>5. QED BY <1>10, <2>1, <2>2, <2>3, <2>4
<1>12. ASSUME NEW i \in 1..Len(L), L[i].fd # 0, memory = "ok", epollfd = "open"
       PROVE  sock[L[i].fd].peer = L[i].ip
  <2>1. i - m \in 1..Len(list) /\ L[i] = old[i - m]
    BY <1>3, <1>10, <1>12
  <2>2. QED BY <1>0, <1>6, <1>12, <2>1 DEF OwnSocket
<1>13. ASSUME NEW i \in 1..Len(L), memory = "ok" PROVE L[i].ip \in IPs
  <2>1. CASE i \in 1..m /\ L[i] = new[i]
    BY <1>3, <2>1
  <2>2. CASE i - m \in 1..Len(list) /\ L[i] = old[i - m]
    BY <1>5, <1>6, <1>13, <2>2
  <2>3. QED BY <1>10, <2>1, <2>2
<1>14. QED BY <1>9, <1>11, <1>12, <1>13 DEF L

\* The nodes remove_not_in_ip leaves in the list are a selection of it, and
\* unless head is at a freed node all of them were to be kept.
LEMMA SelectionOfList ==
  ASSUME NEW L \in Seq(Entries), remove_not_in_ip(L), memory \in {"ok", "corrupt"},
         memory = "ok" =>
           /\ \A i \in 1..Len(L) : L[i].ip \in IPs
           /\ \A i, j \in 1..Len(L) : i # j => L[i].ip # L[j].ip
  PROVE  /\ ListType' /\ IpsDistinct' /\ memory' \in {"ok", "corrupt"}
         /\ memory' = "ok" =>
              /\ memory = "ok"
              /\ \A k \in 1..Len(list') : \E i \in 1..Len(L) : list'[k] = L[i] /\ L[i].flag = -1
<1> DEFINE K == Kept(L)
           n == Cardinality(K)
<1>1. PICK p \in [1..n -> K] : /\ \A i, j \in DOMAIN p : i < j => p[i] < p[j]
                               /\ list' = [i \in DOMAIN p |-> AfterFree(L[p[i]])]
  BY DEF remove_not_in_ip
<1>2. memory' = IF HeadFreed(L) THEN "corrupt" ELSE memory
  BY DEF remove_not_in_ip
<1>3. /\ Len(L) \in Nat /\ K \in SUBSET (1..Len(L))
      /\ memory' = "ok" => \A i \in K : L[i].flag = -1
  BY <1>2 DEF Kept
<1> HIDE DEF K
<1>4. n \in Nat
  <2>1. IsFiniteSet(1..Len(L))
    <3>1. Len(L) \in Int /\ 1 \in Int
      BY <1>3
    <3>2. QED BY <3>1, FS_Interval
  <2>2. QED BY <1>3, <2>1, FS_Subset, FS_CardinalityType
<1> HIDE DEF n
<1>5. ASSUME NEW i \in 1..n
      PROVE  /\ p[i] \in 1..Len(L) /\ p[i] \in K /\ list'[i] = AfterFree(L[p[i]])
             /\ list'[i] \in Entries /\ (memory' = "ok" => list'[i] = L[p[i]])
  <2>1. p[i] \in 1..Len(L) /\ p[i] \in K /\ list'[i] = AfterFree(L[p[i]])
    BY <1>1, <1>3
  <2>2. L[p[i]] \in Entries
    BY <2>1
  <2>3. AfterFree(L[p[i]]) \in Entries
    BY <2>2 DEF AfterFree, Entries
  <2>4. memory' = "ok" => list'[i] = L[p[i]]
    BY <1>3, <2>1 DEF AfterFree
  <2>5. QED BY <2>1, <2>3, <2>4
<1>6. list' \in Seq(Entries) /\ Len(list') = n
  <2>1. list' = [i \in 1..n |-> list'[i]]
    BY <1>1
  <2>2. QED BY <1>4, <1>5, <2>1
<1>7. ASSUME NEW i \in 1..n, NEW j \in 1..n, i # j PROVE p[i] # p[j]
  <2>1. p[i] \in Nat /\ p[j] \in Nat
    BY <1>3, <1>5
  <2>2. CASE i < j
    BY <1>1, <2>1, <2>2
  <2>3. CASE j < i
    BY <1>1, <2>1, <2>3
  <2>4. QED BY <1>4, <1>7, <2>2, <2>3
<1>8. CASE memory' = "ok"
  <2>1. memory = "ok"
    BY <1>2, <1>8
  <2>2. ASSUME NEW i \in 1..n, NEW j \in 1..n, i # j PROVE list'[i].ip # list'[j].ip
    <3>1. list'[i] = L[p[i]] /\ list'[j] = L[p[j]]
      BY <1>5, <1>8
    <3>2. p[i] \in 1..Len(L) /\ p[j] \in 1..Len(L) /\ p[i] # p[j]
      BY <1>5, <1>7, <2>2
    <3>3. QED BY <2>1, <3>1, <3>2
  <2>3. IpsDistinct'
    BY <1>6, <2>2 DEF IpsDistinct
  <2>4. \A i \in 1..n : list'[i].ip \in IPs
    BY <1>5, <1>8, <2>1
  <2>5. QED BY <1>3, <1>5, <1>6, <1>8, <2>1, <2>3, <2>4 DEF ListType
<1>9. CASE memory' # "ok"
  BY <1>2, <1>6, <1>9 DEF ListType, IpsDistinct
<1>10. QED BY <1>8, <1>9

\* get_ip_list: new nodes in front, nodes to keep, the others closed.
LEMMA ListStep == ASSUME SInv, get_ip_list PROVE SInv'
<1>0. /\ ThreadType /\ ListType /\ SockType /\ EnvType /\ IpsDistinct /\ OwnSocket
      /\ HandleOpen /\ ServesOwn
  BY DEF SInv, VarTypes
<1>1. /\ pc = "round" /\ pc' = "sock" /\ ix' = 1
      /\ UNCHANGED <<batch, epollfd, conn, state, envvars>>
  BY DEF get_ip_list
<1>2. PICK q \in Orders(table \ Listed) : remove_not_in_ip(Lengthened(q))
  BY DEF get_ip_list, Lengthened
<1> DEFINE L == Lengthened(q)
           removed == {L[i].fd : i \in {j \in 1..Len(L) : L[j].flag # -1}}
<1>3. /\ L \in Seq(Entries)
      /\ memory = "ok" => /\ \A i \in 1..Len(L) : L[i].ip \in IPs
                          /\ \A i, j \in 1..Len(L) : i # j => L[i].ip # L[j].ip
      /\ memory = "ok" /\ epollfd = "open" =>
           \A i \in 1..Len(L) : L[i].fd # 0 => sock[L[i].fd].peer = L[i].ip
  BY LengthenedList
<1>4. ASSUME NEW i \in 1..Len(L), L[i].flag = -1, L[i].fd # 0, memory = "ok", epollfd = "open"
      PROVE  L[i].fd \in Fds /\ L[i].fd \notin removed
  <2>1. L[i] \in Entries
    BY <1>3
  <2>2. L[i].fd \in Fds
    BY <1>4, <2>1 DEF Entries
  <2>3. ASSUME NEW j \in 1..Len(L), L[j].flag # -1, L[j].fd = L[i].fd PROVE FALSE
    BY <1>3, <1>4, <2>3
  <2>4. QED BY <2>2, <2>3
<1>5. Close(removed)
  BY <1>2 DEF remove_not_in_ip
<1> HIDE DEF L, removed
<1>6. /\ ListType' /\ IpsDistinct' /\ memory' \in {"ok", "corrupt"}
      /\ memory' = "ok" =>
           /\ memory = "ok"
           /\ \A k \in 1..Len(list') : \E i \in 1..Len(L) : list'[k] = L[i] /\ L[i].flag = -1
  <2>1. remove_not_in_ip(L) /\ memory \in {"ok", "corrupt"}
    BY <1>0, <1>2 DEF L, ThreadType
  <2>2. QED BY <1>3, <2>1, SelectionOfList
<1>7. /\ SockType' /\ ServesOwn' /\ serving' \in [IPs -> Fds \cup {0, -1}]
      /\ \A f \in Fds : f \notin removed => sock'[f] = sock[f]
  BY <1>0, <1>5, CloseSockets
<1>8. OwnSocket'
  <2>1. SUFFICES ASSUME NEW k \in 1..Len(list'), list'[k].fd # 0, memory' = "ok", epollfd = "open"
                 PROVE  sock'[list'[k].fd].peer = list'[k].ip
    BY <1>1 DEF OwnSocket
  <2>2. PICK i \in 1..Len(L) : list'[k] = L[i] /\ L[i].flag = -1
    BY <1>6, <2>1
  <2>3. L[i].fd \in Fds /\ L[i].fd \notin removed
    BY <1>4, <1>6, <2>1, <2>2
  <2>4. QED BY <1>3, <1>6, <1>7, <2>1, <2>2, <2>3
<1>9. ThreadType' /\ HandleOpen'
  BY <1>0, <1>1, <1>6 DEF ThreadType, HandleOpen
<1>10. EnvType'
  BY <1>0, <1>1, <1>7, EnvFrame
<1>11. QED BY <1>6, <1>7, <1>8, <1>9, <1>10 DEF SInv, VarTypes

\* The steps that move the thread only.
LEMMA QuietStep ==
  ASSUME SInv,
         \/ Start \/ NoIpList \/ SockFails \/ SockDone
         \/ EpollWait \/ EpollTimeout \/ Sleep \/ Crash
  PROVE  SInv'
<1>0. /\ ThreadType /\ ListType /\ SockType /\ EnvType /\ IpsDistinct /\ OwnSocket
      /\ HandleOpen /\ ServesOwn
  BY DEF SInv, VarTypes
<1>1. UNCHANGED <<list, memory, sock, serving, epollfd, state, envvars>>
  BY DEF Start, NoIpList, SockFails, SockDone, EpollWait, EpollTimeout, Sleep, Crash
<1>2. ListType' /\ SockType' /\ IpsDistinct' /\ OwnSocket' /\ ServesOwn'
  BY <1>0, <1>1, SocketsFrame
<1>3. EnvType'
  BY <1>0, <1>1, EnvFrame DEF EnvType
<1>4. HandleOpen'
  BY <1>0, <1>1
  DEF HandleOpen, Start, NoIpList, SockFails, SockDone, EpollWait, EpollTimeout, Sleep, Crash,
      AtSock
<1>5. CASE Start \/ SockFails \/ SockDone \/ EpollTimeout \/ Sleep \/ Crash
  <2>1. ThreadType'
    BY <1>0, <1>5 DEF ThreadType, Start, SockFails, SockDone, EpollTimeout, Sleep, Crash, AtSock
  <2>2. QED BY <1>2, <1>3, <1>4, <2>1 DEF SInv, VarTypes
<1>6. CASE NoIpList \/ EpollWait
  <2>1. ThreadType'
    BY <1>0, <1>6 DEF ThreadType, NoIpList, EpollWait, Ready
  <2>2. QED BY <1>2, <1>3, <1>4, <2>1 DEF SInv, VarTypes
<1>7. QED BY <1>5, <1>6

\* delete_list and a failed epoll_wait: every descriptor in the list is closed.
LEMMA CloseAllStep == ASSUME SInv, delete_list \/ EpollFails PROVE SInv'
<1>0. /\ ThreadType /\ ListType /\ SockType /\ EnvType /\ IpsDistinct /\ OwnSocket
      /\ HandleOpen /\ ServesOwn
  BY DEF SInv, VarTypes
<1>1. Close({list[i].fd : i \in 1..Len(list)}) /\ UNCHANGED <<state, envvars>>
  BY DEF delete_list, EpollFails, envvars
<1>2. /\ SockType' /\ ServesOwn' /\ serving' \in [IPs -> Fds \cup {0, -1}]
  BY <1>0, <1>1, CloseSockets
<1>3. EnvType'
  BY <1>0, <1>1, <1>2, EnvFrame
<1>4. CASE delete_list
  <2>1. list' = <<>> /\ Len(list') = 0 /\ list' \in Seq(Entries)
    BY <1>4 DEF delete_list
  <2>2. ListType' /\ IpsDistinct' /\ OwnSocket'
    BY <2>1 DEF ListType, IpsDistinct, OwnSocket
  <2>3. ThreadType' /\ HandleOpen'
    BY <1>0, <1>4 DEF ThreadType, HandleOpen, delete_list
  <2>4. QED BY <1>2, <1>3, <2>2, <2>3 DEF SInv, VarTypes
<1>5. CASE EpollFails
  <2>1. list' = list /\ memory' = memory /\ epollfd' = "closed"
    BY <1>5 DEF EpollFails
  <2>2. ListType' /\ IpsDistinct' /\ OwnSocket'
    BY <1>0, <2>1 DEF ListType, IpsDistinct, OwnSocket
  <2>3. ThreadType' /\ HandleOpen'
    BY <1>0, <1>5 DEF ThreadType, HandleOpen, EpollFails
  <2>4. QED BY <1>2, <1>3, <2>2, <2>3 DEF SInv, VarTypes
<1>6. QED BY <1>4, <1>5

\* One entry of the list is replaced by another for the same address.
LEMMA EntryReplaced ==
  ASSUME ListType, IpsDistinct, NEW i \in 1..Len(list), NEW e \in Entries,
         e.ip = list[i].ip, list' = [list EXCEPT ![i] = e], UNCHANGED memory
  PROVE  /\ ListType' /\ IpsDistinct' /\ Len(list') = Len(list)
         /\ \A j \in 1..Len(list) : list'[j] = IF j = i THEN e ELSE list[j]
<1>1. /\ list \in Seq(Entries) /\ list' \in Seq(Entries) /\ Len(list') = Len(list)
      /\ \A j \in 1..Len(list) : list'[j] = IF j = i THEN e ELSE list[j]
  BY DEF ListType
<1>2. \A j \in 1..Len(list) : list'[j].ip = list[j].ip
  BY <1>1
<1>3. QED BY <1>1, <1>2 DEF ListType, IpsDistinct

\* A node gives its descriptor up, and that is closed.
LEMMA EntryClosed ==
  ASSUME SInv, epollfd = "open", UNCHANGED <<memory, epollfd>>,
         NEW i \in 1..Len(list), NEW e \in Entries,
         e.ip = list[i].ip, e.fd = 0, list' = [list EXCEPT ![i] = e],
         list[i].fd # 0, Close({list[i].fd})
  PROVE  ListType' /\ IpsDistinct' /\ OwnSocket'
<1>0. /\ ListType /\ SockType /\ EnvType /\ IpsDistinct /\ OwnSocket /\ ServesOwn
  BY DEF SInv, VarTypes
<1>1. /\ ListType' /\ IpsDistinct' /\ Len(list') = Len(list)
      /\ \A j \in 1..Len(list) : list'[j] = IF j = i THEN e ELSE list[j]
  BY <1>0, EntryReplaced
<1>2. \A f \in Fds : f # list[i].fd => sock'[f] = sock[f]
  BY <1>0, CloseSockets
<1>3. ASSUME NEW j \in 1..Len(list), list'[j].fd # 0, memory = "ok"
      PROVE  sock'[list'[j].fd].peer = list'[j].ip
  <2>1. j # i /\ list'[j] = list[j]
    BY <1>1, <1>3
  <2>2. list[j].fd # list[i].fd
    BY <1>0, <1>3, <2>1, FdsDistinct
  <2>3. list[j].fd \in Fds
    BY <1>0, <1>3, <2>1, EntryTypes
  <2>4. QED BY <1>0, <1>2, <1>3, <2>1, <2>2, <2>3 DEF OwnSocket
<1>4. QED BY <1>1, <1>3 DEF OwnSocket

\* sock_create makes a connection to the node it is at, on a closed descriptor.
LEMMA ConnectStep == ASSUME SInv, NEW f \in Fds, SockConnect(f) PROVE SInv'
<1>0. /\ ThreadType /\ ListType /\ SockType /\ EnvType /\ IpsDistinct /\ OwnSocket
      /\ HandleOpen /\ ServesOwn
  BY DEF SInv, VarTypes
<1>1. /\ pc = "sock" /\ ix \in 1..Len(list) /\ list[ix].fd = 0 /\ list[ix].ip \in IPs
      /\ sock[f] = Closed /\ ix' = ix + 1
      /\ UNCHANGED <<pc, memory, batch, epollfd, conn, serving, state, envvars>>
  BY <1>0, EntryTypes DEF SockConnect, AtSock, ThreadType
<1>2. /\ list \in Seq(Entries) /\ list[ix] \in Entries /\ list[ix].ip \in IPs
      /\ f # 0 /\ f \in Fds \cup {0}
  BY <1>0, <1>1, EntryTypes, ConstantFacts DEF ListType
<1>3. \E e \in Entries, s \in Sockets :
        /\ e.ip = list[ix].ip /\ e.fd = f /\ s.peer = list[ix].ip
        /\ list' = [list EXCEPT ![ix] = e]
        /\ sock' = [sock EXCEPT ![f] = s]
  <2>1. CASE /\ list' = [list EXCEPT ![ix].fd = f]
             /\ sock' = [sock EXCEPT ![f] = [Closed EXCEPT !.peer = list[ix].ip, !.polled = TRUE]]
    <3>1. [list[ix] EXCEPT !.fd = f] \in Entries
      BY <1>2 DEF Entries
    <3>2. [Closed EXCEPT !.peer = list[ix].ip, !.polled = TRUE] \in Sockets
      BY <1>2, ConstantFacts DEF Sockets
    <3>3. /\ [list[ix] EXCEPT !.fd = f].ip = list[ix].ip
          /\ [list[ix] EXCEPT !.fd = f].fd = f
          /\ [Closed EXCEPT !.peer = list[ix].ip, !.polled = TRUE].peer = list[ix].ip
      BY <1>2, ConstantFacts DEF Entries, Sockets
    <3>4. list' = [list EXCEPT ![ix] = [list[ix] EXCEPT !.fd = f]]
      BY <2>1
    <3>5. QED BY <2>1, <3>1, <3>2, <3>3, <3>4
  <2>2. CASE /\ list' = [list EXCEPT ![ix].fd = f, ![ix].flag = 0]
             /\ sock' = [sock EXCEPT ![f] = [Closed EXCEPT !.peer = list[ix].ip, !.est = TRUE]]
    <3>1. [list[ix] EXCEPT !.fd = f, !.flag = 0] \in Entries
      BY <1>2 DEF Entries, Flags
    <3>2. [Closed EXCEPT !.peer = list[ix].ip, !.est = TRUE] \in Sockets
      BY <1>2, ConstantFacts DEF Sockets
    <3>3. /\ [list[ix] EXCEPT !.fd = f, !.flag = 0].ip = list[ix].ip
          /\ [list[ix] EXCEPT !.fd = f, !.flag = 0].fd = f
          /\ [Closed EXCEPT !.peer = list[ix].ip, !.est = TRUE].peer = list[ix].ip
      BY <1>2, ConstantFacts DEF Entries, Sockets
    <3>4. list' = [list EXCEPT ![ix] = [list[ix] EXCEPT !.fd = f, !.flag = 0]]
      BY <1>1, <1>2, <2>2
    <3>5. QED BY <2>2, <3>1, <3>2, <3>3, <3>4
  <2>3. QED BY <2>1, <2>2 DEF SockConnect
<1>4. PICK e \in Entries, s \in Sockets :
        /\ e.ip = list[ix].ip /\ e.fd = f /\ s.peer = list[ix].ip
        /\ list' = [list EXCEPT ![ix] = e]
        /\ sock' = [sock EXCEPT ![f] = s]
  BY <1>3
<1>5. /\ ListType' /\ IpsDistinct' /\ Len(list') = Len(list)
      /\ \A j \in 1..Len(list) : list'[j] = IF j = ix THEN e ELSE list[j]
  BY <1>0, <1>1, <1>4, EntryReplaced
<1>6. SockType' /\ \A g \in Fds : sock'[g] = IF g = f THEN s ELSE sock[g]
  BY <1>0, <1>4 DEF SockType
<1>7. ASSUME NEW j \in 1..Len(list), list'[j].fd # 0, memory = "ok", epollfd = "open"
      PROVE  sock'[list'[j].fd].peer = list'[j].ip
  <2>1. CASE j = ix
    BY <1>4, <1>5, <1>6, <2>1
  <2>2. CASE j # ix
    <3>1. list'[j] = list[j] /\ list[j].fd \in Fds /\ list[j].ip \in IPs
      BY <1>0, <1>5, <1>7, <2>2, EntryTypes
    <3>2. sock[list[j].fd].peer = list[j].ip
      BY <1>0, <1>7, <3>1 DEF OwnSocket
    <3>3. list[j].fd # f
      BY <1>1, <3>1, <3>2, ConstantFacts
    <3>4. QED BY <1>6, <3>1, <3>2, <3>3
  <2>3. QED BY <2>1, <2>2
<1>8. OwnSocket'
  BY <1>1, <1>5, <1>7 DEF OwnSocket
<1>9. ServesOwn'
  <2>1. SUFFICES ASSUME NEW ip \in IPs, serving[ip] > 0 PROVE sock'[serving[ip]].peer = ip
    BY <1>1 DEF ServesOwn
  <2>2. serving[ip] \in Fds /\ sock[serving[ip]].peer = ip
    BY <1>0, <2>1 DEF EnvType, ServesOwn
  <2>3. serving[ip] # f
    BY <1>1, <2>2, ConstantFacts
  <2>4. QED BY <1>6, <2>2, <2>3
<1>10. ThreadType' /\ HandleOpen'
  BY <1>0, <1>1 DEF ThreadType, HandleOpen
<1>11. EnvType'
  BY <1>0, <1>1, EnvFrame DEF EnvType
<1>12. QED BY <1>5, <1>6, <1>8, <1>9, <1>10, <1>11 DEF SInv, VarTypes

\* A step of a socket that keeps its peer.
LEMMA SocketTyped ==
  ASSUME SockType, NEW f \in Fds, NEW s \in Sockets, s.peer = sock[f].peer,
         sock' = [sock EXCEPT ![f] = s]
  PROVE  SockType' /\ \A g \in Fds : sock'[g].peer = sock[g].peer
<1>1. sock \in [Fds -> Sockets]
  BY DEF SockType
<1>2. sock' \in [Fds -> Sockets] /\ \A g \in Fds : sock'[g] = IF g = f THEN s ELSE sock[g]
  BY <1>1
<1>3. QED BY <1>2 DEF SockType

\* send has no visible effect but a byte under way or a broken pipe.
LEMMA SendStep == ASSUME SInv, SockSend PROVE SInv'
<1>0. /\ ThreadType /\ ListType /\ SockType /\ EnvType /\ IpsDistinct /\ OwnSocket
      /\ HandleOpen /\ ServesOwn
  BY DEF SInv, VarTypes
<1> DEFINE f == list[ix].fd
           s == [sock[f] EXCEPT !.msg = sock[f].est /\ sock[f].err = "none",
                                !.err = IF @ = "eof" THEN "pipe" ELSE @]
<1>1. /\ pc = "sock" /\ ix \in 1..Len(list) /\ f # 0 /\ ix' = ix + 1
      /\ UNCHANGED <<pc, list, memory, batch, epollfd, conn, serving, state, envvars>>
  BY <1>0, EntryTypes DEF SockSend, AtSock, ThreadType
<1>2. f \in Fds /\ sock[f] \in Sockets
  BY <1>0, <1>1, EntryTypes DEF SockType
<1>3. sock' = [sock EXCEPT ![f].msg = sock[f].est /\ sock[f].err = "none",
                           ![f].err = IF @ = "eof" THEN "pipe" ELSE @]
  BY DEF SockSend
<1> HIDE DEF f
<1>4. s \in Sockets /\ s.peer = sock[f].peer
  <2>1. (sock[f].est /\ sock[f].err = "none") \in BOOLEAN
    OBVIOUS
  <2>2. (IF sock[f].err = "eof" THEN "pipe" ELSE sock[f].err) \in Errors \cup {"none", "eof"}
    BY <1>2 DEF Sockets, Errors
  <2>3. QED BY <1>2, <2>1, <2>2 DEF Sockets
<1>5. sock' = [sock EXCEPT ![f] = s]
  BY <1>0, <1>2, <1>3 DEF SockType, Sockets
<1> HIDE DEF s
<1>6. SockType' /\ \A g \in Fds : sock'[g].peer = sock[g].peer
  BY <1>0, <1>2, <1>4, <1>5, SocketTyped
<1>7. OwnSocket' /\ IpsDistinct' /\ ServesOwn' /\ ListType'
  BY <1>0, <1>1, <1>6, PeersKept
<1>8. ThreadType' /\ HandleOpen'
  BY <1>0, <1>1 DEF ThreadType, HandleOpen
<1>9. EnvType'
  BY <1>0, <1>1, EnvFrame DEF EnvType
<1>10. QED BY <1>6, <1>7, <1>8, <1>9 DEF SInv, VarTypes

\* send fails: the node gives up its descriptor, which no other node has.
LEMMA ResendStep == ASSUME SInv, SockResend PROVE SInv'
<1>0. /\ ThreadType /\ ListType /\ SockType /\ EnvType /\ IpsDistinct /\ OwnSocket
      /\ HandleOpen /\ ServesOwn
  BY DEF SInv, VarTypes
<1> DEFINE e == [list[ix] EXCEPT !.fd = 0]
<1>1. /\ pc = "sock" /\ ix \in 1..Len(list) /\ list[ix].fd # 0
      /\ Close({list[ix].fd})
      /\ list' = [list EXCEPT ![ix].fd = 0]
      /\ UNCHANGED <<pc, memory, ix, batch, epollfd, conn, state, envvars>>
  BY <1>0, EntryTypes DEF SockResend, AtSock, ThreadType
<1>2. e \in Entries /\ e.ip = list[ix].ip /\ e.fd = 0
  BY <1>0, <1>1, EntryTypes DEF Entries
<1>3. list' = [list EXCEPT ![ix] = e]
  BY <1>1
<1> HIDE DEF e
<1>4. /\ SockType' /\ ServesOwn' /\ serving' \in [IPs -> Fds \cup {0, -1}]
  BY <1>0, <1>1, CloseSockets
<1>5. CASE epollfd = "open"
  <2>1. ListType' /\ IpsDistinct' /\ OwnSocket'
    BY <1>1, <1>2, <1>3, <1>5, EntryClosed
  <2>2. ThreadType' /\ HandleOpen'
    BY <1>0, <1>1 DEF ThreadType, HandleOpen
  <2>3. EnvType'
    BY <1>0, <1>1, <1>4, EnvFrame
  <2>4. QED BY <1>4, <2>1, <2>2, <2>3 DEF SInv, VarTypes
<1>6. CASE epollfd # "open"
  <2>1. ListType' /\ IpsDistinct'
    BY <1>0, <1>1, <1>2, <1>3, EntryReplaced
  <2>2. OwnSocket'
    BY <1>1, <1>6 DEF OwnSocket
  <2>3. ThreadType' /\ HandleOpen'
    BY <1>0, <1>1 DEF ThreadType, HandleOpen
  <2>4. EnvType'
    BY <1>0, <1>1, <1>4, EnvFrame
  <2>5. QED BY <1>4, <2>1, <2>2, <2>3, <2>4 DEF SInv, VarTypes
<1>7. QED BY <1>5, <1>6

-----------------------------------------------------------------------------
\* A set of positions that is not empty has a first one.
LEMMA FirstPosition ==
  ASSUME NEW m, m \subseteq Nat, m # {}
  PROVE  \E i \in m : \A j \in m : i <= j
<1> DEFINE R == OpToRel(<, Nat)
<1>1. \E i \in m : \A j \in m : ~(<<j, i>> \in R)
  <2>1. IsWellFoundedOn(R, Nat)
    BY NatLessThanWellFounded
  <2> HIDE DEF R
  <2>2. QED BY <2>1, WFMin
<1>2. ASSUME NEW i \in m, NEW j \in m, ~(<<j, i>> \in R) PROVE i <= j
  BY <1>2 DEF OpToRel
<1>3. QED BY <1>1, <1>2

\* write_state_flag finds a list node that has the descriptor and, while events
\* are handled and no freed memory is in use, the one that is connected on it.
LEMMA FoundNode ==
  ASSUME SInv, NEW f \in Fds
  PROVE  /\ Find(f) \in 0..Len(list)
         /\ Find(f) # 0 => list[Find(f)].fd = f
         /\ Find(f) # 0 /\ memory = "ok" /\ epollfd = "open" =>
              list[Find(f)].ip = sock[f].peer
<1> DEFINE m == {i \in 1..Len(list) : list[i].fd = f}
<1>0. ListType /\ OwnSocket /\ Len(list) \in Nat /\ f # 0
  BY EntryTypes, ConstantFacts DEF SInv, VarTypes
<1>1. CASE m = {}
  BY <1>0, <1>1 DEF Find
<1>2. CASE m # {}
  <2>1. m \subseteq Nat /\ m \subseteq 1..Len(list) /\ \A i \in m : list[i].fd = f
    BY <1>0
  <2>2. Find(f) = CHOOSE i \in m : \A j \in m : i <= j
    BY <1>2 DEF Find
  <2> HIDE DEF m
  <2>3. \E i \in m : \A j \in m : i <= j
    BY <1>2, <2>1, FirstPosition
  <2>4. Find(f) \in m
    BY <2>2, <2>3
  <2>5. Find(f) \in 1..Len(list) /\ list[Find(f)].fd = f
    BY <2>1, <2>4
  <2>6. QED BY <1>0, <2>5 DEF OwnSocket
<1>3. QED BY <1>1, <1>2

\* write_state_flag gets one of the documented states or 104.
LEMMA FlagTyped == \A err : Flag(err) \in Flags
BY DEF Flag, Flags

\* One event of the batch in hand.
LEMMA EventStep == ASSUME SInv, NEW f \in Fds, HandleEvent(f) PROVE SInv'
<1>0. /\ ThreadType /\ ListType /\ SockType /\ EnvType /\ IpsDistinct /\ OwnSocket
      /\ HandleOpen /\ ServesOwn
  BY DEF SInv, VarTypes
<1> DEFINE i == Find(f)
           flag == Flag(sock[f].err)
           e == write_state_flag(list[i], flag)
           s == [sock[f] EXCEPT !.data = FALSE, !.err = IF @ = "none" THEN "none" ELSE "eof"]
<1>1. /\ pc = "handle" /\ epollfd = "open" /\ f \in batch /\ batch' = batch \ {f}
      /\ pc' \in {"handle", "update", "wait"}
      /\ UNCHANGED <<memory, ix, epollfd, conn, state, envvars>>
  BY <1>0 DEF HandleEvent, HandleOpen
<1>2. /\ list' = IF i = 0 THEN list ELSE [list EXCEPT ![i] = e]
      /\ IF i # 0 /\ flag # 0 THEN Close({f})
         ELSE /\ sock' = [sock EXCEPT ![f].data = FALSE,
                                      ![f].err = IF @ = "none" THEN "none" ELSE "eof"]
              /\ UNCHANGED serving
  BY DEF HandleEvent
<1>3. i \in 0..Len(list) /\ (i # 0 => list[i].fd = f)
  BY FoundNode
<1>4. flag \in Flags
  BY FlagTyped
<1>5. Len(list) \in Nat /\ (i # 0 => i \in 1..Len(list) /\ list[i] \in Entries)
  BY <1>0, <1>3, EntryTypes
<1>6. ThreadType' /\ HandleOpen'
  BY <1>0, <1>1 DEF ThreadType, HandleOpen
<1> HIDE DEF i, flag
<1>7. i # 0 => e \in Entries /\ e.ip = list[i].ip /\ e.fd = (IF flag # 0 THEN 0 ELSE list[i].fd)
  BY <1>4, <1>5, ConstantFacts DEF write_state_flag, Entries
<1>8. CASE i # 0 /\ flag # 0
  <2>1. /\ list' = [list EXCEPT ![i] = e] /\ Close({list[i].fd})
        /\ e.fd = 0 /\ list[i].fd # 0
    BY <1>2, <1>3, <1>7, <1>8, ConstantFacts
  <2> HIDE DEF e
  <2>2. ListType' /\ IpsDistinct' /\ OwnSocket'
    BY <1>1, <1>5, <1>7, <1>8, <2>1, EntryClosed
  <2>3. /\ SockType' /\ ServesOwn' /\ serving' \in [IPs -> Fds \cup {0, -1}]
    BY <1>0, <2>1, CloseSockets
  <2>4. EnvType'
    BY <1>0, <1>1, <2>3, EnvFrame
  <2>5. QED BY <1>6, <2>2, <2>3, <2>4 DEF SInv, VarTypes
<1>9. CASE ~(i # 0 /\ flag # 0)
  <2>1. /\ sock' = [sock EXCEPT ![f].data = FALSE,
                                ![f].err = IF @ = "none" THEN "none" ELSE "eof"]
        /\ UNCHANGED serving
    BY <1>2, <1>9
  <2>2. sock[f] \in Sockets
    BY <1>0 DEF SockType
  <2>3. s \in Sockets /\ s.peer = sock[f].peer
    BY <2>2 DEF Sockets
  <2>4. sock' = [sock EXCEPT ![f] = s]
    BY <1>0, <2>1, <2>2 DEF SockType, Sockets
  <2> HIDE DEF s, e
  <2>5. SockType' /\ \A g \in Fds : sock'[g].peer = sock[g].peer
    BY <1>0, <2>3, <2>4, SocketTyped
  <2>6. ListType' /\ IpsDistinct' /\ Len(list') = Len(list)
        /\ \A j \in 1..Len(list) : list'[j].ip = list[j].ip /\ list'[j].fd = list[j].fd
    <3>1. CASE i = 0
      BY <1>0, <1>1, <1>2, <3>1 DEF ListType, IpsDistinct
    <3>2. CASE i # 0
      <4>1. list' = [list EXCEPT ![i] = e] /\ e.fd = list[i].fd
        BY <1>2, <1>7, <1>9, <3>2
      <4>2. /\ ListType' /\ IpsDistinct' /\ Len(list') = Len(list)
            /\ \A j \in 1..Len(list) : list'[j] = IF j = i THEN e ELSE list[j]
        BY <1>0, <1>1, <1>5, <1>7, <3>2, <4>1, EntryReplaced
      <4>3. QED BY <1>7, <3>2, <4>1, <4>2
    <3>3. QED BY <3>1, <3>2
  <2>7. OwnSocket'
    BY <1>0, <1>1, <2>5, <2>6, EntryTypes DEF OwnSocket
  <2>8. ServesOwn'
    <3>1. ASSUME NEW ip \in IPs, serving[ip] > 0 PROVE sock'[serving[ip]].peer = ip
      <4>1. serving[ip] \in Fds /\ sock[serving[ip]].peer = ip
        BY <1>0, <3>1 DEF EnvType, ServesOwn
      <4>2. QED BY <2>5, <4>1
    <3>2. QED BY <2>1, <3>1 DEF ServesOwn
  <2>9. EnvType'
    BY <1>0, <1>1, <2>1, EnvFrame DEF EnvType
  <2>10. QED BY <1>6, <2>5, <2>6, <2>7, <2>8, <2>9 DEF SInv, VarTypes
<1>10. QED BY <1>8, <1>9

\* The states of the first list nodes go to NodeInfo.
LEMMA UpdateStep == ASSUME SInv, update_node_state PROVE SInv'
<1>0. /\ ThreadType /\ ListType /\ SockType /\ EnvType /\ IpsDistinct /\ OwnSocket
      /\ HandleOpen /\ ServesOwn
  BY DEF SInv, VarTypes
<1>1. /\ pc = "update" /\ pc' = "sleep"
      /\ UNCHANGED <<list, memory, ix, batch, epollfd, sock, serving, envvars>>
  BY DEF update_node_state
<1>2. PICK k \in 0..Len(list) :
        /\ conn' = (conn /\ k = Len(list))
        /\ state' = [ip \in IPs |->
             IF ip \in table /\ \E i \in 1..k : list[i].ip = ip
             THEN list[CHOOSE i \in 1..k : list[i].ip = ip].flag ELSE state[ip]]
  BY DEF update_node_state
<1>3. ListType' /\ SockType' /\ IpsDistinct' /\ OwnSocket' /\ ServesOwn'
  BY <1>0, <1>1, SocketsFrame
<1>4. \A i \in 1..k : list[i].flag \in Flags
  BY <1>0, EntryTypes
<1>5. ASSUME NEW ip \in IPs
      PROVE  (IF ip \in table /\ \E i \in 1..k : list[i].ip = ip
              THEN list[CHOOSE i \in 1..k : list[i].ip = ip].flag ELSE state[ip]) \in Flags
  <2>1. CASE \E i \in 1..k : list[i].ip = ip
    <3>1. (CHOOSE i \in 1..k : list[i].ip = ip) \in 1..k
      BY <2>1
    <3>2. QED BY <1>0, <1>4, <3>1 DEF EnvType
  <2>2. CASE ~\E i \in 1..k : list[i].ip = ip
    BY <1>0, <2>2 DEF EnvType
  <2>3. QED BY <2>1, <2>2
<1>6. state' \in [IPs -> Flags]
  BY <1>2, <1>5
<1>7. EnvType'
  BY <1>0, <1>1, <1>6 DEF EnvType, envvars
<1>8. ThreadType' /\ HandleOpen'
  <2>1. conn' \in BOOLEAN
    BY <1>2
  <2>2. QED BY <1>0, <1>1, <2>1 DEF ThreadType, HandleOpen
<1>9. QED BY <1>3, <1>7, <1>8 DEF SInv, VarTypes

-----------------------------------------------------------------------------
\* A step of the environment that gives a socket another condition.
LEMMA EnvSocketStep ==
  ASSUME SInv, \E f \in Fds : Connected(f) \/ NetFails(f) PROVE SInv'
<1>0. /\ ThreadType /\ ListType /\ SockType /\ EnvType /\ IpsDistinct /\ OwnSocket
      /\ HandleOpen /\ ServesOwn
  BY DEF SInv, VarTypes
<1>1. PICK f \in Fds : Connected(f) \/ NetFails(f)
  OBVIOUS
<1>2. /\ UNCHANGED <<thrvars, serving, state, client, table, changes>>
      /\ faults' \in {faults, faults + 1}
  BY <1>1 DEF Connected, NetFails, envvars
<1>3. sock[f] \in Sockets
  BY <1>0 DEF SockType
<1>4. \E s \in Sockets : s.peer = sock[f].peer /\ sock' = [sock EXCEPT ![f] = s]
  <2>1. CASE sock' = [sock EXCEPT ![f].est = TRUE]
    <3>1. /\ [sock[f] EXCEPT !.est = TRUE] \in Sockets
          /\ [sock[f] EXCEPT !.est = TRUE].peer = sock[f].peer
      BY <1>3 DEF Sockets
    <3>2. sock' = [sock EXCEPT ![f] = [sock[f] EXCEPT !.est = TRUE]]
      BY <2>1
    <3>3. QED BY <3>1, <3>2
  <2>2. ASSUME NEW e \in {"refused", "net"}, sock' = [sock EXCEPT ![f].err = e]
        PROVE  \E s \in Sockets : s.peer = sock[f].peer /\ sock' = [sock EXCEPT ![f] = s]
    <3>1. /\ [sock[f] EXCEPT !.err = e] \in Sockets
          /\ [sock[f] EXCEPT !.err = e].peer = sock[f].peer
      BY <1>3 DEF Sockets, Errors
    <3>2. sock' = [sock EXCEPT ![f] = [sock[f] EXCEPT !.err = e]]
      BY <2>2
    <3>3. QED BY <3>1, <3>2
  <2>3. \/ sock' = [sock EXCEPT ![f].est = TRUE]
        \/ sock' = [sock EXCEPT ![f].err = "refused"]
        \/ sock' = [sock EXCEPT ![f].err = "net"]
    BY <1>1 DEF Connected, NetFails
  <2>4. QED BY <2>1, <2>2, <2>3
<1>5. SockType' /\ \A g \in Fds : sock'[g].peer = sock[g].peer
  BY <1>0, <1>4, SocketTyped
<1>6. UNCHANGED <<list, epollfd, pc, memory, ix, batch, conn>>
  BY <1>2 DEF thrvars
<1>7. OwnSocket' /\ IpsDistinct' /\ ServesOwn' /\ ListType'
  BY <1>0, <1>2, <1>5, <1>6, PeersKept
<1>8. ThreadType' /\ HandleOpen'
  BY <1>0, <1>6 DEF ThreadType, HandleOpen
<1>9. EnvType'
  BY <1>0, <1>2 DEF EnvType
<1>10. QED BY <1>5, <1>7, <1>8, <1>9 DEF SInv, VarTypes

\* A state client accepts, answers or gives up a connection.
LEMMA ClientStep ==
  ASSUME SInv,
         \/ \E f \in Fds : ClientAccept(f)
         \/ \E ip \in IPs : ClientReply(ip) \/ ClientDone(ip)
  PROVE  SInv'
<1>0. /\ ThreadType /\ ListType /\ SockType /\ EnvType /\ IpsDistinct /\ OwnSocket
      /\ HandleOpen /\ ServesOwn
  BY DEF SInv, VarTypes
<1>1. UNCHANGED <<thrvars, state, envvars>>
  BY DEF ClientAccept, ClientReply, ClientDone
<1>2. UNCHANGED <<list, epollfd, pc, memory, ix, batch, conn>>
  BY <1>1 DEF thrvars
<1>3. ThreadType' /\ HandleOpen'
  BY <1>0, <1>2 DEF ThreadType, HandleOpen
<1>4. ASSUME NEW f \in Fds, ClientAccept(f) PROVE SInv'
  <2>1. sock' = sock /\ serving' = [serving EXCEPT ![sock[f].peer] = f]
    BY <1>4 DEF ClientAccept
  <2>2. \A ip \in IPs : serving'[ip] = IF ip = sock[f].peer THEN f ELSE serving[ip]
    BY <1>0, <2>1 DEF EnvType
  <2>3. serving' \in [IPs -> Fds \cup {0, -1}]
    BY <1>0, <2>1 DEF EnvType
  <2>4. OwnSocket' /\ IpsDistinct' /\ ServesOwn' /\ ListType'
    BY <1>0, <1>2, <2>1, <2>2, PeersKept
  <2>5. EnvType'
    BY <1>0, <1>1, <2>3, EnvFrame
  <2>6. SockType'
    BY <1>0, <2>1 DEF SockType
  <2>7. QED BY <1>3, <2>4, <2>5, <2>6 DEF SInv, VarTypes
<1>5. ASSUME NEW ip \in IPs, ClientReply(ip) PROVE SInv'
  <2> DEFINE f == serving[ip]
             s == [sock[f] EXCEPT !.msg = FALSE, !.data = TRUE]
  <2>1. f \in Fds /\ serving' = serving /\ sock' = [sock EXCEPT ![f].msg = FALSE, ![f].data = TRUE]
    BY <1>0, <1>5 DEF ClientReply, EnvType
  <2> HIDE DEF f
  <2>2. sock[f] \in Sockets
    BY <1>0, <2>1 DEF SockType
  <2>3. s \in Sockets /\ s.peer = sock[f].peer
    BY <2>2 DEF Sockets
  <2>4. sock' = [sock EXCEPT ![f] = s]
    BY <1>0, <2>1, <2>2 DEF SockType, Sockets
  <2> HIDE DEF s
  <2>5. SockType' /\ \A g \in Fds : sock'[g].peer = sock[g].peer
    BY <1>0, <2>1, <2>3, <2>4, SocketTyped
  <2>6. OwnSocket' /\ IpsDistinct' /\ ServesOwn' /\ ListType'
    BY <1>0, <1>2, <2>1, <2>5, PeersKept
  <2>7. EnvType'
    BY <1>0, <1>1, <2>1, EnvFrame DEF EnvType
  <2>8. QED BY <1>3, <2>5, <2>6, <2>7 DEF SInv, VarTypes
<1>6. ASSUME NEW ip \in IPs, ClientDone(ip) PROVE SInv'
  <2>1. sock' = sock /\ serving' = [serving EXCEPT ![ip] = 0]
    BY <1>6 DEF ClientDone
  <2>2. \A k \in IPs : serving'[k] = IF k = ip THEN 0 ELSE serving[k]
    BY <1>0, <2>1 DEF EnvType
  <2>3. serving' \in [IPs -> Fds \cup {0, -1}]
    BY <1>0, <2>1 DEF EnvType
  <2>4. OwnSocket' /\ IpsDistinct' /\ ServesOwn' /\ ListType'
    BY <1>0, <1>2, <2>1, <2>2, PeersKept
  <2>5. EnvType'
    BY <1>0, <1>1, <2>3, EnvFrame
  <2>6. SockType'
    BY <1>0, <2>1 DEF SockType
  <2>7. QED BY <1>3, <2>4, <2>5, <2>6 DEF SInv, VarTypes
<1>7. QED BY <1>4, <1>5, <1>6

\* A state client dies: its connections end, their peers stay what they were.
LEMMA DeathStep == ASSUME SInv, NEW ip \in IPs, ClientDies(ip) PROVE SInv'
<1>0. /\ ThreadType /\ ListType /\ SockType /\ EnvType /\ IpsDistinct /\ OwnSocket
      /\ HandleOpen /\ ServesOwn
  BY DEF SInv, VarTypes
<1>1. /\ UNCHANGED <<thrvars, state, table, changes>>
      /\ faults' = faults + 1
      /\ client' = [client EXCEPT ![ip] = "down"]
      /\ serving' = [serving EXCEPT ![ip] = 0]
      /\ sock' = [f \in Fds |->
           IF sock[f].peer = ip /\ sock[f].est /\ sock[f].err = "none"
           THEN [sock[f] EXCEPT !.msg = FALSE,
                                !.err = IF serving[ip] = f /\ ~sock[f].msg THEN "eof" ELSE "reset"]
           ELSE sock[f]]
  BY DEF ClientDies
<1>2. UNCHANGED <<list, epollfd, pc, memory, ix, batch, conn>>
  BY <1>1 DEF thrvars
<1>3. ASSUME NEW f \in Fds PROVE sock'[f] \in Sockets /\ sock'[f].peer = sock[f].peer
  <2>1. sock[f] \in Sockets
    BY <1>0 DEF SockType
  <2>2. ASSUME NEW e \in {"eof", "reset"}
        PROVE  /\ [sock[f] EXCEPT !.msg = FALSE, !.err = e] \in Sockets
               /\ [sock[f] EXCEPT !.msg = FALSE, !.err = e].peer = sock[f].peer
    BY <2>1 DEF Sockets, Errors
  <2>3. \/ sock'[f] = sock[f]
        \/ sock'[f] = [sock[f] EXCEPT !.msg = FALSE, !.err = "eof"]
        \/ sock'[f] = [sock[f] EXCEPT !.msg = FALSE, !.err = "reset"]
    BY <1>1
  <2>4. QED BY <2>1, <2>2, <2>3
<1>4. SockType'
  BY <1>1, <1>3 DEF SockType
<1>5. \A k \in IPs : serving'[k] = IF k = ip THEN 0 ELSE serving[k]
  BY <1>0, <1>1 DEF EnvType
<1>6. OwnSocket' /\ IpsDistinct' /\ ServesOwn' /\ ListType'
  BY <1>0, <1>2, <1>3, <1>5, PeersKept
<1>7. ThreadType' /\ HandleOpen'
  BY <1>0, <1>2 DEF ThreadType, HandleOpen
<1>8. EnvType'
  <2>1. /\ UNCHANGED <<state, table, changes>>
        /\ faults' = faults + 1
        /\ client' = [client EXCEPT ![ip] = "down"]
        /\ serving' = [serving EXCEPT ![ip] = 0]
    BY <1>1
  <2>2. QED BY <1>0, <2>1 DEF EnvType
<1>9. QED BY <1>4, <1>6, <1>7, <1>8 DEF SInv, VarTypes

\* A client starts, a row comes or goes, or nothing happens.
LEMMA OutsideStep ==
  ASSUME SInv, UNCHANGED vars \/ \E ip \in IPs : ClientStarts(ip) \/ TableChange(ip)
  PROVE  SInv'
<1>0. /\ ThreadType /\ ListType /\ SockType /\ EnvType /\ IpsDistinct /\ OwnSocket
      /\ HandleOpen /\ ServesOwn
  BY DEF SInv, VarTypes
<1>1. UNCHANGED <<thrvars, sock, serving>>
  BY DEF vars, ClientStarts, TableChange
<1>2. UNCHANGED <<list, epollfd, pc, memory, ix, batch, conn>>
  BY <1>1 DEF thrvars
<1>3. ListType' /\ SockType' /\ IpsDistinct' /\ OwnSocket' /\ ServesOwn'
  BY <1>0, <1>1, <1>2, SocketsFrame
<1>4. ThreadType' /\ HandleOpen'
  BY <1>0, <1>2 DEF ThreadType, HandleOpen
<1>5. EnvType'
  <2>1. CASE UNCHANGED vars
    BY <1>0, <2>1 DEF EnvType, vars, envvars
  <2>2. ASSUME NEW ip \in IPs, ClientStarts(ip) PROVE EnvType'
    BY <1>0, <1>1, <2>2 DEF EnvType, ClientStarts
  <2>3. ASSUME NEW ip \in IPs, TableChange(ip) PROVE EnvType'
    <3>1. table' \subseteq IPs /\ changes' \in Nat
      BY <1>0, <2>3 DEF EnvType, TableChange
    <3>2. state' \in [IPs -> Flags]
      BY <1>0, <2>3 DEF EnvType, TableChange, Flags
    <3>3. QED BY <1>0, <1>1, <2>3, <3>1, <3>2 DEF EnvType, TableChange
  <2>4. QED BY <2>1, <2>2, <2>3
<1>6. QED BY <1>3, <1>4, <1>5 DEF SInv, VarTypes

-----------------------------------------------------------------------------
\* Every step of the monitor, of the state clients, of the network and of the
\* administrator keeps the invariant.
LEMMA StepKeepsInv == ASSUME SInv, [Next]_vars PROVE SInv'
<1>1. CASE Thread
  <2>1. CASE \/ Start \/ NoIpList \/ SockFails \/ SockDone
             \/ EpollWait \/ EpollTimeout \/ Sleep \/ Crash
    BY <2>1, QuietStep
  <2>2. CASE get_ip_list
    BY <2>2, ListStep
  <2>3. CASE delete_list \/ EpollFails
    BY <2>3, CloseAllStep
  <2>4. CASE \E f \in Fds : SockConnect(f)
    BY <2>4, ConnectStep
  <2>5. CASE SockSend
    BY <2>5, SendStep
  <2>6. CASE SockResend
    BY <2>6, ResendStep
  <2>7. CASE \E f \in Fds : HandleEvent(f)
    BY <2>7, EventStep
  <2>8. CASE update_node_state
    BY <2>8, UpdateStep
  <2>9. QED BY <1>1, <2>1, <2>2, <2>3, <2>4, <2>5, <2>6, <2>7, <2>8 DEF Thread
<1>2. CASE Env
  <2>1. CASE \E f \in Fds : Connected(f) \/ NetFails(f)
    BY <2>1, EnvSocketStep
  <2>2. CASE \/ \E f \in Fds : ClientAccept(f)
             \/ \E ip \in IPs : ClientReply(ip) \/ ClientDone(ip)
    BY <2>2, ClientStep
  <2>3. CASE \E ip \in IPs : ClientDies(ip)
    BY <2>3, DeathStep
  <2>4. CASE \E ip \in IPs : ClientStarts(ip) \/ TableChange(ip)
    BY <2>4, OutsideStep
  <2>5. QED BY <1>2, <2>1, <2>2, <2>3, <2>4 DEF Env
<1>3. CASE UNCHANGED vars
  BY <1>3, OutsideStep
<1>4. QED BY <1>1, <1>2, <1>3 DEF Next

\* The monitor starts with an empty list and no socket.
LEMMA InitInv == Init => SInv
<1> SUFFICES ASSUME Init PROVE SInv
  OBVIOUS
<1>1. list = <<>> /\ Len(list) = 0 /\ list \in Seq(Entries)
  BY DEF Init
<1>2. ListType /\ IpsDistinct /\ OwnSocket
  BY <1>1 DEF ListType, IpsDistinct, OwnSocket
<1>3. SockType
  BY ConstantFacts DEF Init, SockType
<1>4. ThreadType /\ HandleOpen
  BY DEF Init, ThreadType, HandleOpen
<1>5. EnvType
  BY DEF Init, EnvType, Flags
<1>6. ServesOwn
  BY DEF Init, ServesOwn
<1>7. QED BY <1>2, <1>3, <1>4, <1>5, <1>6 DEF SInv, VarTypes

\* The inductive invariant of the monitor (state_server.c) and its clients.
THEOREM StateInductive == Spec => []SInv
<1>1. Init => SInv
  BY InitInv
<1>2. SInv /\ [Next]_vars => SInv'
  BY StepKeepsInv
<1>3. QED BY <1>1, <1>2, PTL DEF Spec

\* The position of sock_create is inside the list, which changes only while it is
\* at the head or keeps its length.
LEMMA WalkStep == ASSUME SInv, WalkInside, [Next]_vars PROVE WalkInside'
<1>0. /\ list \in Seq(Entries) /\ Len(list) \in Nat
      /\ ix \in 1..(Len(list) + 1) /\ (pc \notin {"sock", "gone"} => ix = 1)
  BY EntryTypes DEF SInv, VarTypes, ListType, WalkInside
<1>1. list' \in Seq(Entries) /\ Len(list') \in Nat
  BY StepKeepsInv DEF SInv, VarTypes, ListType
<1>2. CASE ix' = 1
  BY <1>1, <1>2 DEF WalkInside
<1>3. CASE Start \/ NoIpList \/ delete_list \/ EpollWait \/ EpollTimeout \/ EpollFails
           \/ update_node_state \/ Sleep \/ (\E f \in Fds : HandleEvent(f))
  <2>1. pc \notin {"sock", "gone"} /\ ix' = ix
    BY <1>3 DEF Start, NoIpList, delete_list, EpollWait, EpollTimeout, EpollFails,
                update_node_state, Sleep, HandleEvent
  <2>2. QED BY <1>0, <1>2, <2>1
<1>4. CASE get_ip_list \/ SockDone
  BY <1>2, <1>4 DEF get_ip_list, SockDone
<1>5. ASSUME Len(list') = Len(list), pc = "sock", pc' = pc, ix <= Len(list), ix' \in {ix, ix + 1}
      PROVE  WalkInside'
  BY <1>0, <1>5 DEF WalkInside
<1>6. CASE SockFails \/ SockSend
  BY <1>5, <1>6 DEF SockFails, SockSend, AtSock
<1>7. CASE SockResend \/ \E f \in Fds : SockConnect(f)
  <2>1. /\ pc = "sock" /\ pc' = pc /\ ix <= Len(list) /\ ix' \in {ix, ix + 1}
        /\ \/ list' = [list EXCEPT ![ix].fd = 0]
           \/ \E f \in Fds : list' = [list EXCEPT ![ix].fd = f]
           \/ \E f \in Fds : list' = [list EXCEPT ![ix].fd = f, ![ix].flag = 0]
    BY <1>7 DEF SockResend, SockConnect, AtSock
  <2>2. DOMAIN list' = DOMAIN list
    BY <2>1
  <2>3. Len(list') = Len(list)
    BY <1>0, <1>1, <2>2
  <2>4. QED BY <1>5, <2>1, <2>3
<1>8. CASE Crash
  BY <1>0, <1>8 DEF Crash, WalkInside
<1>9. CASE Env \/ UNCHANGED vars
  <2>1. UNCHANGED <<list, pc, ix>>
    BY <1>9 DEF Env, vars, thrvars, Connected, NetFails, ClientAccept, ClientReply,
                ClientDone, ClientDies, ClientStarts, TableChange
  <2>2. QED BY <1>0, <2>1 DEF WalkInside
<1>10. QED BY <1>3, <1>4, <1>6, <1>7, <1>8, <1>9 DEF Next, Thread

\* The monitor stores nothing but descriptors of its own in the list and
\* nothing but known states in NodeInfo, and sock_create stays inside the list.
THEOREM StateTypeCorrect == Spec => []TypeOK
<1>1. Init => WalkInside
  BY DEF Init, WalkInside
<1>2. SInv /\ WalkInside /\ [Next]_vars => WalkInside'
  BY WalkStep
<1>3. SInv /\ WalkInside => TypeOK
  BY DEF SInv, WalkInside, TypeOK
<1>4. QED BY <1>1, <1>2, <1>3, StateInductive, PTL DEF Spec

\* The list never holds an address twice (get_ip_list, remove_not_in_ip), until
\* head is left at freed memory.
THEOREM AddressesDistinct == Spec => []IpsDistinct
<1>1. SInv => IpsDistinct
  BY DEF SInv
<1>2. QED BY <1>1, StateInductive, PTL

\* Until epoll_wait fails or head is left at freed memory, a list node has no
\* other node's socket nor a closed one (sock_create, write_state_flag,
\* remove_not_in_ip, close_sock).
THEOREM SocketsOwn == Spec => []OwnSocket
<1>1. SInv => OwnSocket
  BY DEF SInv
<1>2. QED BY <1>1, StateInductive, PTL

-----------------------------------------------------------------------------
\* An event is credited to its sender: handling an event of a descriptor
\* (epoll_sockfd, write_state_flag) changes no list node but the one whose
\* address the descriptor is connected to, unless freed memory is in the list.
EventsCredited ==
  \A f \in Fds : memory = "ok" /\ HandleEvent(f) =>
    /\ Len(list') = Len(list)
    /\ \A i \in 1..Len(list) : list'[i] # list[i] => list[i].ip = sock[f].peer

\* A descriptor is given away only while no list node has it: the node that
\* sock_create connects is the only one with its descriptor, as long as the
\* epoll set exists and no freed memory is in the list.
ConnectsFresh ==
  \A f \in Fds : memory = "ok" /\ epollfd = "open" /\ SockConnect(f) =>
    \A i \in 1..Len(list') : list'[i].fd = f => i = ix

\* Events change the node they come from and no other (epoll_sockfd).
THEOREM EventsToSender == Spec => [][EventsCredited]_vars
<1>1. ASSUME SInv, memory = "ok", NEW f \in Fds, HandleEvent(f)
      PROVE  /\ Len(list') = Len(list)
             /\ \A i \in 1..Len(list) : list'[i] # list[i] => list[i].ip = sock[f].peer
  <2> DEFINE n == Find(f)
             e == write_state_flag(list[n], Flag(sock[f].err))
  <2>1. epollfd = "open"
    BY <1>1 DEF HandleEvent, HandleOpen, SInv
  <2>2. n \in 0..Len(list) /\ (n # 0 => list[n].ip = sock[f].peer)
    BY <1>1, <2>1, FoundNode
  <2>3. list' = IF n = 0 THEN list ELSE [list EXCEPT ![n] = e]
    BY <1>1 DEF HandleEvent
  <2>4. list \in Seq(Entries)
    BY <1>1 DEF SInv, VarTypes, ListType
  <2> HIDE DEF n, e
  <2>5. CASE n = 0
    BY <2>3, <2>5
  <2>6. CASE n # 0
    <3>1. list' = [list EXCEPT ![n] = e] /\ n \in 1..Len(list)
      BY <2>2, <2>3, <2>4, <2>6
    <3>2. Len(list') = Len(list) /\ \A i \in 1..Len(list) : i # n => list'[i] = list[i]
      BY <2>4, <3>1
    <3>3. QED BY <2>2, <2>6, <3>2
  <2>7. QED BY <2>5, <2>6
<1>2. SInv /\ [Next]_vars => [EventsCredited]_vars
  BY <1>1 DEF EventsCredited
<1>3. QED BY <1>2, StateInductive, PTL DEF Spec

\* sock_create shares no descriptor between two nodes.
THEOREM FreshDescriptors == Spec => [][ConnectsFresh]_vars
<1>1. ASSUME SInv, SInv', NEW f \in Fds, SockConnect(f), memory = "ok", epollfd = "open",
             NEW i \in 1..Len(list'), list'[i].fd = f
      PROVE  i = ix
  <2>1. /\ IpsDistinct' /\ OwnSocket' /\ memory' = "ok" /\ epollfd' = "open" /\ f # 0
    BY <1>1, ConstantFacts DEF SInv, SockConnect
  <2>2. /\ list \in Seq(Entries) /\ ix \in 1..Len(list) /\ list[ix] \in Entries
    BY <1>1, EntryTypes DEF SInv, VarTypes, ThreadType, ListType, SockConnect, AtSock
  <2>3. ix \in 1..Len(list') /\ list'[ix].fd = f
    <3>1. CASE list' = [list EXCEPT ![ix].fd = f]
      BY <2>2, <3>1 DEF Entries
    <3>2. CASE list' = [list EXCEPT ![ix].fd = f, ![ix].flag = 0]
      BY <2>2, <3>2 DEF Entries
    <3>3. QED BY <1>1, <3>1, <3>2 DEF SockConnect
  <2>4. list'[i].ip = list'[ix].ip
    BY <1>1, <2>1, <2>3 DEF OwnSocket
  <2>5. QED BY <1>1, <2>1, <2>3, <2>4 DEF IpsDistinct
<1>2. SInv /\ SInv' /\ [Next]_vars => [ConnectsFresh]_vars
  BY <1>1 DEF ConnectsFresh
<1>3. QED BY <1>2, StateInductive, PTL DEF Spec

=============================================================================
