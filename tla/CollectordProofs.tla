--------------------------- MODULE CollectordProofs ---------------------------
(***************************************************************************)
(* Proofs about Collectord.  The ring buffer comes first, as a function of *)
(* its three fields; then the inductive invariant of the threads and the   *)
(* node list, a part at a time; then what the steps do to the items        *)
(* between the receivers and the database.                                 *)
(***************************************************************************)
EXTENDS Collectord, TLAPS, SequenceTheorems, FiniteSetTheorems

-----------------------------------------------------------------------------
(* The ring buffer, as a function of its three fields.                       *)

Places == 0 .. q_size - 1
RingSize(s, e) == IF s <= e THEN e - s ELSE e - s + q_size
Ring(b, s, e) == [i \in 1 .. RingSize(s, e) |-> b[(s + i - 1) % q_size]]
Wrap(x) == IF x < q_size THEN x ELSE x - q_size

\* An index that ran past the end of the array once is brought back.
LEMMA ModWrap ==
  ASSUME NEW x \in 0 .. 2 * q_size - 1
  PROVE  x % q_size = Wrap(x) /\ Wrap(x) \in Places
<1> USE CollectordConstants
<1>1. CASE x < q_size
  BY <1>1 DEF Wrap, Places
<1>2. CASE x >= q_size
  BY <1>2 DEF Wrap, Places
<1> QED BY <1>1, <1>2

\* The ring is a sequence of its places, as long as RingSize says.
RingFacts(S, b, s, e) ==
  /\ Ring(b, s, e) \in Seq(S)
  /\ Len(Ring(b, s, e)) = RingSize(s, e)
  /\ RingSize(s, e) \in 0 .. q_size - 1
  /\ \A i \in 1 .. RingSize(s, e) : Ring(b, s, e)[i] = b[Wrap(s + i - 1)]
LEMMA RingSeq ==
  ASSUME NEW S, NEW b \in [Places -> S], NEW s \in Places, NEW e \in Places
  PROVE  RingFacts(S, b, s, e)
<1>1. RingSize(s, e) \in 0 .. q_size - 1
  BY CollectordConstants DEF RingSize, Places
<1>2. ASSUME NEW i \in 1 .. RingSize(s, e)
      PROVE  (s + i - 1) % q_size = Wrap(s + i - 1) /\ Wrap(s + i - 1) \in Places
  <2>1. s + i - 1 \in 0 .. 2 * q_size - 1
    BY <1>1, CollectordConstants DEF Places
  <2> QED BY <2>1, ModWrap
<1>3. Ring(b, s, e) = [i \in 1 .. RingSize(s, e) |-> b[Wrap(s + i - 1)]]
  BY <1>2 DEF Ring
<1>4. Ring(b, s, e) \in [1 .. RingSize(s, e) -> S]
  BY <1>2, <1>3
<1>5. Ring(b, s, e) \in Seq(S)
  BY <1>1, <1>4, SeqDef
<1>6. Len(Ring(b, s, e)) = RingSize(s, e)
  BY <1>1, <1>4, <1>5, LenProperties
<1> QED BY <1>1, <1>3, <1>5, <1>6 DEF RingFacts

\* u_enqueue on a ring that is not full appends.
Appended(b, s, e, x, b2, e2) ==
  /\ Ring(b2, s, e2) = Append(Ring(b, s, e), x)
  /\ RingSize(s, e) < q_size - 1 /\ e2 \in Places
LEMMA RingPut ==
  ASSUME NEW S, NEW b \in [Places -> S], NEW s \in Places, NEW e \in Places,
         NEW x, NEW e2, e2 = (e + 1) % q_size, e2 # s,
         NEW b2, b2 = [b EXCEPT ![e] = x]
  PROVE  Appended(b, s, e, x, b2, e2)
<1> DEFINE T == S \cup {x}
<1>0. e2 \in Places /\ e2 = Wrap(e + 1)
  <2>1. e + 1 \in 0 .. 2 * q_size - 1
    BY CollectordConstants DEF Places
  <2> QED BY <2>1, ModWrap
<1>2. b2 \in [Places -> T] /\ b \in [Places -> T] /\ x \in T
  OBVIOUS
<1>3. /\ RingSize(s, e2) = RingSize(s, e) + 1 /\ RingSize(s, e) < q_size - 1
      /\ RingSize(s, e) \in Nat
  BY <1>0, CollectordConstants DEF Places, RingSize, Wrap
<1> HIDE DEF T
<1>4. /\ Ring(b2, s, e2) \in Seq(T) /\ Len(Ring(b2, s, e2)) = RingSize(s, e2)
      /\ \A i \in 1 .. RingSize(s, e2) : Ring(b2, s, e2)[i] = b2[Wrap(s + i - 1)]
  <2>1. RingFacts(T, b2, s, e2)
    BY <1>0, <1>2, RingSeq
  <2> QED BY <2>1 DEF RingFacts
<1>5. /\ Ring(b, s, e) \in Seq(T) /\ Len(Ring(b, s, e)) = RingSize(s, e)
      /\ \A i \in 1 .. RingSize(s, e) : Ring(b, s, e)[i] = b[Wrap(s + i - 1)]
  <2>1. RingFacts(T, b, s, e)
    BY <1>0, <1>2, RingSeq
  <2> QED BY <2>1 DEF RingFacts
<1>6. /\ Append(Ring(b, s, e), x) \in Seq(T)
      /\ Len(Append(Ring(b, s, e), x)) = RingSize(s, e) + 1
      /\ \A i \in 1 .. RingSize(s, e) : Append(Ring(b, s, e), x)[i] = Ring(b, s, e)[i]
      /\ Append(Ring(b, s, e), x)[RingSize(s, e) + 1] = x
  BY <1>2, <1>5, AppendProperties
<1>7. ASSUME NEW i \in 1 .. RingSize(s, e2)
      PROVE  Ring(b2, s, e2)[i] = Append(Ring(b, s, e), x)[i]
  <2>1. CASE i \in 1 .. RingSize(s, e)
    <3>1. Wrap(s + i - 1) \in Places /\ Wrap(s + i - 1) # e
      BY <1>3, <2>1, CollectordConstants DEF RingSize, Places, Wrap
    <3>2. b2[Wrap(s + i - 1)] = b[Wrap(s + i - 1)]
      BY <3>1
    <3> QED BY <1>4, <1>5, <1>6, <2>1, <3>2
  <2>2. CASE i = RingSize(s, e) + 1
    <3>1. Wrap(s + i - 1) = e
      BY <1>3, <2>2, CollectordConstants DEF RingSize, Places, Wrap
    <3>2. b2[Wrap(s + i - 1)] = x
      BY <3>1
    <3> QED BY <1>4, <1>6, <2>2, <3>2
  <2>3. i \in 1 .. RingSize(s, e) \/ i = RingSize(s, e) + 1
    BY <1>3
  <2> QED BY <2>1, <2>2, <2>3
<1>8. Ring(b2, s, e2) = Append(Ring(b, s, e), x)
  <2>1. \A i \in 1 .. Len(Ring(b2, s, e2)) : Ring(b2, s, e2)[i] = Append(Ring(b, s, e), x)[i]
    BY <1>4, <1>7
  <2>2. Len(Ring(b2, s, e2)) = Len(Append(Ring(b, s, e), x))
    BY <1>3, <1>4, <1>6
  <2> QED BY <1>4, <1>6, <2>1, <2>2, SeqEqual
<1> QED BY <1>0, <1>3, <1>8 DEF Appended

\* u_dequeue on a ring that is not empty takes the head away.
LEMMA RingGet ==
  ASSUME NEW S, NEW b \in [Places -> S], NEW s \in Places, NEW e \in Places, s # e
  PROVE  /\ Ring(b, (s + 1) % q_size, e) = Tail(Ring(b, s, e))
         /\ Ring(b, s, e) # <<>> /\ Head(Ring(b, s, e)) = b[s]
         /\ (s + 1) % q_size \in Places
<1>0. PICK s2 \in Places : s2 = (s + 1) % q_size /\ s2 = Wrap(s + 1)
  <2>1. s + 1 \in 0 .. 2 * q_size - 1
    BY CollectordConstants DEF Places
  <2> QED BY <2>1, ModWrap
<1>2. RingSize(s, e) \in Nat /\ RingSize(s, e) > 0 /\ RingSize(s2, e) = RingSize(s, e) - 1
  BY <1>0, CollectordConstants DEF Places, RingSize, Wrap
<1>3. /\ Ring(b, s, e) \in Seq(S) /\ Len(Ring(b, s, e)) = RingSize(s, e)
      /\ \A i \in 1 .. RingSize(s, e) : Ring(b, s, e)[i] = b[Wrap(s + i - 1)]
  <2>1. RingFacts(S, b, s, e)
    BY RingSeq
  <2> QED BY <2>1 DEF RingFacts
<1>4. /\ Ring(b, s2, e) \in Seq(S) /\ Len(Ring(b, s2, e)) = RingSize(s2, e)
      /\ \A i \in 1 .. RingSize(s2, e) : Ring(b, s2, e)[i] = b[Wrap(s2 + i - 1)]
  <2>1. RingFacts(S, b, s2, e)
    BY RingSeq
  <2> QED BY <2>1 DEF RingFacts
<1>5. Ring(b, s, e) # <<>>
  BY <1>2, <1>3
<1>6. /\ Tail(Ring(b, s, e)) \in Seq(S) /\ Len(Tail(Ring(b, s, e))) = RingSize(s, e) - 1
      /\ \A i \in 1 .. RingSize(s, e) - 1 : Tail(Ring(b, s, e))[i] = Ring(b, s, e)[i + 1]
  BY <1>2, <1>3, <1>5, HeadTailProperties
<1>7. ASSUME NEW i \in 1 .. RingSize(s2, e)
      PROVE  Ring(b, s2, e)[i] = Tail(Ring(b, s, e))[i]
  <2>1. i + 1 \in 1 .. RingSize(s, e) /\ i \in 1 .. RingSize(s, e) - 1
    BY <1>2
  <2>2. Wrap(s2 + i - 1) = Wrap(s + (i + 1) - 1)
    <3>1. i - 1 \in 0 .. q_size - 1
      BY <1>2, CollectordConstants DEF Places, RingSize
    <3>2. CASE s + 1 < q_size
      <4>1. s2 + i - 1 = s + (i + 1) - 1
        BY <1>0, <3>1, <3>2 DEF Wrap, Places
      <4> QED BY <4>1
    <3>3. CASE s + 1 = q_size
      BY <1>0, <3>1, <3>3, CollectordConstants DEF Wrap, Places
    <3> QED BY <3>2, <3>3, CollectordConstants DEF Places
  <2>3. Ring(b, s2, e)[i] = b[Wrap(s2 + i - 1)]
    BY <1>4
  <2>4. Tail(Ring(b, s, e))[i] = b[Wrap(s + (i + 1) - 1)]
    BY <1>3, <1>6, <2>1
  <2> QED BY <2>2, <2>3, <2>4
<1>8. Ring(b, s2, e) = Tail(Ring(b, s, e))
  <2>1. \A i \in 1 .. Len(Ring(b, s2, e)) : Ring(b, s2, e)[i] = Tail(Ring(b, s, e))[i]
    BY <1>4, <1>7
  <2>2. Len(Ring(b, s2, e)) = Len(Tail(Ring(b, s, e)))
    BY <1>2, <1>4, <1>6
  <2> QED BY <1>4, <1>6, <2>1, <2>2, SeqEqual
<1>9. Head(Ring(b, s, e)) = b[s]
  <2>1. 1 \in 1 .. RingSize(s, e)
    BY <1>2
  <2>2. Wrap(s + 1 - 1) = s
    BY CollectordConstants DEF Places, Wrap
  <2>3. Head(Ring(b, s, e)) = Ring(b, s, e)[1]
    BY <1>3
  <2> QED BY <1>3, <2>1, <2>2, <2>3
<1> QED BY <1>0, <1>5, <1>8, <1>9

-----------------------------------------------------------------------------
(* The inductive invariant, split by the variables its parts speak about.    *)

\* The node list, and what thread_config is about to add to it.
ListOK == list \in [Slots -> NodeRecord]
AddedAreNew == cpc # "sleep" => \A ip \in dy.added : ~InList(ip)

\* A receiver knows its peer by name from the moment it found the node.
Found == {"status", "thread", "istn", "delete", "recv", "put", "exit"}
RecvOK ==
  /\ svc \in [conn : Conns \cup {"none"}, node : Slots]
  /\ tpc \in [Conns -> RecvPcs] /\ tip \in [Conns -> IPs \cup {"none"}]
  /\ tid \in [Conns -> Slots] /\ tname \in [Conns -> IPs \cup {"none"}]
PeerKnown ==
  /\ \A c \in Conns : svc.conn = c => tpc[c] = "none" /\ tip[c] \in IPs
  /\ \A c \in Conns : tpc[c] = "start" => tip[c] \in IPs
  /\ \A c \in Conns : tpc[c] \in Found => tip[c] \in IPs /\ tname[c] = tip[c]

\* The items a receiver still has to put are the last that arrived.
TodoOK ==
  /\ todo \in [Conns -> 0 .. MaxItems] /\ arrived \in [Conns -> 0 .. MaxItems]
  /\ \A c \in Conns : IF tpc[c] = "put" THEN todo[c] \in 1 .. arrived[c] ELSE todo[c] = 0

ConfOK ==
  /\ cpc \in {"sleep", "changed", "update"}
  /\ dy \in [added : SUBSET IPs, reduced : SUBSET IPs] /\ changes \in 0 .. MaxChanges

\* Between start and end there are items only.
BufOK ==
  /\ buffer \in [Places -> Item \cup {NoItem}] /\ start \in Places /\ end \in Places
  /\ Contents \in Seq(Item)

DbOK ==
  /\ up \in BOOLEAN /\ dbpc \in {"connect", "sleep", "drain", "query"}
  /\ db \in [first : BOOLEAN, con : BOOLEAN]
  /\ batch \in Seq(Item) /\ rows \in Seq(Item)

IInv ==
  /\ ListOK /\ RecvOK /\ PeerKnown /\ TodoOK /\ ConfOK /\ BufOK /\ DbOK
  /\ OneSlotPerNode /\ AddedAreNew /\ ThreadRuns

\* The parts together give the types.
LEMMA PartsGiveTypes == IInv => TypeOK
BY DEF IInv, TypeOK, ListOK, RecvOK, TodoOK, ConfOK, BufOK, DbOK, Places

\* The contents of the buffer are the ring between its two indices.
LEMMA ContentsIsRing == Contents = Ring(buffer, start, end)
BY DEF Contents, Size, Ring, RingSize

\* An empty ring is the empty sequence.
LEMMA EmptyRing ==
  ASSUME NEW b \in [Places -> Item \cup {NoItem}], NEW s \in Places
  PROVE  Ring(b, s, s) = <<>>
<1>1. RingFacts(Item \cup {NoItem}, b, s, s)
  BY RingSeq
<1>2. RingSize(s, s) = 0
  BY CollectordConstants DEF RingSize, Places
<1> QED BY <1>1, <1>2, EmptySeq DEF RingFacts

\* The state the process starts in.
LEMMA InitInv == Init => IInv
<1> SUFFICES ASSUME Init PROVE IInv
  OBVIOUS
<1> USE CollectordConstants
<1>1. ListOK
  <2>1. \A i \in Slots : i < Len(FirstFile) => FirstFile[i + 1] \in IPs
    BY DEF Slots
  <2> QED BY <2>1 DEF Init, init_node_list, ListOK, NodeRecord, FreeNode
<1>2. OneSlotPerNode
  <2> SUFFICES ASSUME NEW i \in Slots, NEW j \in Slots, list[i].ip = list[j].ip,
                      list[i].ip # "none"
               PROVE  i = j
    BY DEF OneSlotPerNode
  <2>1. i < Len(FirstFile) /\ j < Len(FirstFile)
    BY DEF Init, init_node_list, FreeNode
  <2>2. list[i].ip = FirstFile[i + 1] /\ list[j].ip = FirstFile[j + 1]
    BY <2>1 DEF Init, init_node_list, FreeNode
  <2>3. i + 1 \in 1 .. Len(FirstFile) /\ j + 1 \in 1 .. Len(FirstFile) /\ i \in Nat /\ j \in Nat
    BY <2>1 DEF Slots
  <2>4. i + 1 = j + 1
    BY <2>2, <2>3
  <2> QED BY <2>3, <2>4
<1>3. ThreadRuns
  BY DEF Init, init_node_list, FreeNode, ThreadRuns
<1>4. RecvOK /\ PeerKnown /\ TodoOK
  <2>1. 0 \in Slots /\ 0 \in 0 .. MaxItems
    BY DEF Slots
  <2> QED BY <2>1 DEF Init, NoService, RecvOK, PeerKnown, TodoOK, RecvPcs, Found
<1>5. ConfOK /\ AddedAreNew
  BY DEF Init, ConfOK, AddedAreNew, NoDiff
<1>6. BufOK
  <2>1. /\ buffer \in [Places -> Item \cup {NoItem}]
        /\ start \in Places /\ end \in Places /\ start = end
    BY DEF Init, Places
  <2>2. Contents = <<>>
    BY <2>1, ContentsIsRing, EmptyRing
  <2> QED BY <2>1, <2>2, EmptySeq DEF BufOK
<1>7. DbOK
  BY EmptySeq DEF Init, DbOK
<1> QED BY <1>1, <1>2, <1>3, <1>4, <1>5, <1>6, <1>7 DEF IInv

-----------------------------------------------------------------------------
(* Every part is preserved by every step.                                    *)

\* A list without duplicates: nl_find_node_by_nd_ip returns the node's slot.
LEMMA FindNode ==
  ASSUME OneSlotPerNode, ListOK, NEW ip \in IPs
  PROVE  \/ nl_find_node_by_nd_ip(ip) = -2 /\ ~InList(ip)
         \/ nl_find_node_by_nd_ip(ip) \in Slots /\ list[nl_find_node_by_nd_ip(ip)].ip = ip
<1>1. CASE ~InList(ip)
  BY <1>1 DEF nl_find_node_by_nd_ip
<1>2. CASE InList(ip)
  <2>1. PICK i \in Slots : list[i].ip = ip
    BY <1>2 DEF InList
  <2>2. \A j \in Slots : list[j].ip = ip => i <= j
    BY <2>1, CollectordConstants DEF OneSlotPerNode, Slots
  <2> QED BY <1>2, <2>1, <2>2 DEF nl_find_node_by_nd_ip
<1> QED BY <1>1, <1>2

\* The steps that write the node list.
ListSteps ==
  \/ AddNode \/ RemoveNode
  \/ \E c \in Conns : SetStatus(c) \/ SetThread(c) \/ DeleteNode(c) \/ SetDown(c) \/ ClearThread(c)

\* No other step does.
LEMMA ListWriters == [Next]_vars => ListSteps \/ list' = list
BY DEF Next, vars, Config, Db, Receiver, ListSteps, ReadNodes, Accept, CheckThread, Start,
       GetInstruction, RecvOther, RecvData, Put, Connect, ConnectFails, GetItem, Query, QueryFails

\* The list keeps its type.
LEMMA ListStep == IInv /\ [Next]_vars => ListOK'
<1> SUFFICES ASSUME IInv, [Next]_vars PROVE ListOK'
  OBVIOUS
<1> USE DEF ListOK
<1>1. CASE list' = list
  BY <1>1 DEF IInv
<1>2. CASE AddNode
  <2>1. PICK ip \in dy.added : nl_insert_node(ip)
    BY <1>2 DEF AddNode
  <2>2. ip \in IPs
    BY DEF IInv, ConfOK
  <2>3. CASE list' = list
    BY <2>3 DEF IInv
  <2>4. ASSUME NEW k \in Slots,
               list' = [list EXCEPT ![k].ip = ip, ![k].status = "DOWN", ![k].istn = "RUN"]
        PROVE  ListOK'
    <3>1. [list[k] EXCEPT !.ip = ip, !.status = "DOWN", !.istn = "RUN"] \in NodeRecord
      BY <2>2 DEF IInv, NodeRecord
    <3>2. list' = [list EXCEPT ![k] = [list[k] EXCEPT !.ip = ip, !.status = "DOWN", !.istn = "RUN"]]
      BY <2>4 DEF IInv
    <3> QED BY <3>1, <3>2 DEF IInv
  <2> QED BY <2>1, <2>3, <2>4 DEF nl_insert_node
<1>3. CASE RemoveNode
  <2>1. PICK i : \/ list' = list
                 \/ list' = [list EXCEPT ![i] = FreeNode]
                 \/ list' = [list EXCEPT ![i].istn = "EXIT"]
    BY <1>3 DEF RemoveNode
  <2>2. FreeNode \in NodeRecord
    BY DEF FreeNode, NodeRecord
  <2>3. CASE list' = [list EXCEPT ![i] = FreeNode]
    BY <2>2, <2>3 DEF IInv
  <2>4. CASE list' = [list EXCEPT ![i].istn = "EXIT"]
    BY <2>4 DEF IInv, NodeRecord
  <2> QED BY <2>1, <2>3, <2>4, <1>1
<1>4. ASSUME NEW c \in Conns,
             SetStatus(c) \/ SetThread(c) \/ DeleteNode(c) \/ SetDown(c) \/ ClearThread(c)
      PROVE  ListOK'
  <2>1. tid[c] \in Slots
    BY DEF IInv, RecvOK
  <2>2. CASE SetStatus(c)
    BY <2>1, <2>2 DEF IInv, SetStatus, NodeRecord
  <2>3. CASE SetThread(c)
    BY <2>1, <2>3 DEF IInv, SetThread, NodeRecord
  <2>4. CASE DeleteNode(c)
    BY <2>1, <2>4 DEF IInv, DeleteNode, NodeRecord, FreeNode
  <2>5. CASE SetDown(c)
    BY <2>1, <2>5 DEF IInv, SetDown, NodeRecord
  <2>6. CASE ClearThread(c)
    BY <2>1, <2>6 DEF IInv, ClearThread, NodeRecord
  <2> QED BY <1>4, <2>2, <2>3, <2>4, <2>5, <2>6
<1> QED BY <1>1, <1>2, <1>3, <1>4, ListWriters DEF ListSteps

\* No step gives an address a second slot, and what thread_config found to be
\* new is still new when it gets the lock.
LEMMA NodesStep == IInv /\ [Next]_vars => OneSlotPerNode' /\ AddedAreNew'
<1> SUFFICES ASSUME IInv, [Next]_vars PROVE OneSlotPerNode' /\ AddedAreNew'
  OBVIOUS
\* A step that changes no address, or frees slots only.
<1>1. ASSUME \A i \in Slots : list'[i].ip \in {list[i].ip, "none"}, cpc' = cpc, dy' = dy
      PROVE  OneSlotPerNode' /\ AddedAreNew'
  <2>1. "none" \notin dy.added
    BY CollectordConstants DEF IInv, ConfOK
  <2> QED BY <1>1, <2>1 DEF IInv, OneSlotPerNode, AddedAreNew, InList
<1>2. CASE AddNode
  <2>1. PICK ip \in dy.added :
          /\ nl_insert_node(ip) /\ cpc \in {"changed", "update"}
          /\ dy' = [dy EXCEPT !.added = @ \ {ip}]
    BY <1>2 DEF AddNode, Updating
  <2>2. /\ dy'.added = dy.added \ {ip} /\ "none" \notin dy.added /\ ~InList(ip)
        /\ \A x \in dy.added : ~InList(x)
    BY <2>1, CollectordConstants DEF IInv, ConfOK, AddedAreNew
  <2>3. CASE list' = list
    BY <2>2, <2>3 DEF IInv, OneSlotPerNode, AddedAreNew, InList
  <2>4. CASE list' # list
    <3>1. PICK k \in Slots : list' = [list EXCEPT ![k].ip = ip, ![k].status = "DOWN",
                                                  ![k].istn = "RUN"]
      BY <2>1, <2>4 DEF nl_insert_node
    <3>2. \A i \in Slots : list'[i].ip = IF i = k THEN ip ELSE list[i].ip
      BY <3>1 DEF IInv, ListOK, NodeRecord
    <3> QED BY <2>2, <3>2 DEF IInv, OneSlotPerNode, AddedAreNew, InList
  <2> QED BY <2>3, <2>4
<1>3. CASE RemoveNode
  <2>1. PICK ip \in dy.reduced :
          /\ dy' = [dy EXCEPT !.reduced = @ \ {ip}] /\ dy.added = {}
          /\ LET i == nl_find_node_by_nd_ip(ip)
             IN list' = IF i < 0 THEN list
                        ELSE IF list[i].status = "DOWN" THEN [list EXCEPT ![i] = FreeNode]
                        ELSE [list EXCEPT ![i].istn = "EXIT"]
    BY <1>3 DEF RemoveNode, Updating
  <2>2. dy'.added = {}
    BY <2>1 DEF IInv, ConfOK
  <2>3. \A i \in Slots : list'[i].ip \in {list[i].ip, "none"}
    BY <2>1 DEF FreeNode, IInv, ListOK, NodeRecord
  <2> QED BY <2>2, <2>3 DEF IInv, OneSlotPerNode, AddedAreNew
<1>4. ASSUME NEW c \in Conns,
             SetStatus(c) \/ SetThread(c) \/ DeleteNode(c) \/ SetDown(c) \/ ClearThread(c)
      PROVE  OneSlotPerNode' /\ AddedAreNew'
  <2>1. cpc' = cpc /\ dy' = dy
    BY <1>4 DEF SetStatus, SetThread, DeleteNode, SetDown, ClearThread, confvars
  <2>2. \A i \in Slots : list'[i].ip \in {list[i].ip, "none"}
    BY <1>4 DEF IInv, ListOK, NodeRecord, RecvOK, SetStatus, SetThread, DeleteNode, SetDown,
                ClearThread, FreeNode
  <2> QED BY <1>1, <2>1, <2>2
<1>5. CASE ReadNodes
  <2>1. PICK file \in SUBSET IPs : dy' = dy_diff_nodes(file)
    BY <1>5 DEF ReadNodes
  <2>2. list' = list
    BY <1>5 DEF ReadNodes
  <2>3. \A ip \in dy'.added : ~InList(ip)
    BY <2>1 DEF dy_diff_nodes
  <2> QED BY <2>2, <2>3 DEF IInv, OneSlotPerNode, AddedAreNew, InList
<1>6. CASE ~ListSteps /\ ~ReadNodes
  <2>1. list' = list
    BY <1>6, ListWriters
  <2>2. cpc' = cpc /\ dy' = dy
    BY <1>6 DEF ListSteps, Next, vars, Config, Db, Receiver, ReadNodes, Accept, CheckThread, Start,
       GetInstruction, RecvOther, RecvData, Put, Connect, ConnectFails, GetItem, Query, QueryFails,
       confvars
  <2> QED BY <1>1, <2>1, <2>2
<1> QED BY <1>2, <1>3, <1>4, <1>5, <1>6 DEF ListSteps

\* Where a receiver is changes as its steps say.
MoveTo(c, p) == tpc' = [tpc EXCEPT ![c] = p]

\* A thread id is set by the receiver it names, and that receiver takes it back
\* from the slot it set it in.
LEMMA ThreadStep == IInv /\ [Next]_vars => ThreadRuns'
<1> SUFFICES ASSUME IInv, [Next]_vars PROVE ThreadRuns'
  OBVIOUS
<1> USE DEF ThreadRuns
\* The list may lose thread ids, and the receivers that still have one stay alive.
<1>1. ASSUME \A i \in Slots : list'[i].thread \in {list[i].thread, "none"},
             \A c \in Conns : tpc[c] \in Live => tpc'[c] \in Live /\ tid'[c] = tid[c]
      PROVE  ThreadRuns'
  BY <1>1 DEF IInv, ListOK, NodeRecord
<1>2. ASSUME tpc' = tpc, tid' = tid
      PROVE  \A c \in Conns : tpc[c] \in Live => tpc'[c] \in Live /\ tid'[c] = tid[c]
  BY <1>2
<1>3. CASE AddNode
  <2>1. tpc' = tpc /\ tid' = tid
    BY <1>3 DEF AddNode, recvvars
  <2>2. PICK ip \in dy.added : nl_insert_node(ip)
    BY <1>3 DEF AddNode
  <2>3. \A i \in Slots : list'[i].thread = list[i].thread
    <3>1. ASSUME NEW k \in Slots,
                 list' = [list EXCEPT ![k].ip = ip, ![k].status = "DOWN", ![k].istn = "RUN"]
          PROVE  \A i \in Slots : list'[i].thread = list[i].thread
      BY <3>1 DEF IInv, ListOK, NodeRecord
    <3> QED BY <2>2, <3>1 DEF nl_insert_node
  <2> QED BY <1>1, <1>2, <2>1, <2>3
<1>4. CASE RemoveNode
  <2>1. tpc' = tpc /\ tid' = tid
    BY <1>4 DEF RemoveNode, recvvars
  <2>2. PICK k : \/ list' = list
                 \/ list' = [list EXCEPT ![k] = FreeNode]
                 \/ list' = [list EXCEPT ![k].istn = "EXIT"]
    BY <1>4 DEF RemoveNode
  <2>3. \A i \in Slots : list'[i].thread \in {list[i].thread, "none"}
    BY <2>2 DEF FreeNode, IInv, ListOK, NodeRecord
  <2> QED BY <1>1, <1>2, <2>1, <2>3
<1>5. ASSUME NEW c \in Conns, SetStatus(c) \/ SetDown(c) PROVE ThreadRuns'
  <2>1. \A i \in Slots : list'[i].thread = list[i].thread
    BY <1>5 DEF SetStatus, SetDown, IInv, ListOK, NodeRecord
  <2>2. tid' = tid /\ \A d \in Conns : tpc[d] \in Live => tpc'[d] \in Live
    BY <1>5 DEF SetStatus, SetDown, Live, IInv, RecvOK
  <2> QED BY <1>1, <2>1, <2>2
<1>6. ASSUME NEW c \in Conns, SetThread(c) PROVE ThreadRuns'
  <2>1. /\ tpc[c] = "thread" /\ tid' = tid /\ MoveTo(c, "istn")
        /\ list' = [list EXCEPT ![tid[c]].thread = c]
    BY <1>6 DEF SetThread, MoveTo
  <2>2. \A i \in Slots : list'[i].thread = IF i = tid[c] THEN c ELSE list[i].thread
    BY <2>1 DEF IInv, ListOK, NodeRecord
  <2>3. \A d \in Conns : tpc'[d] = IF d = c THEN "istn" ELSE tpc[d]
    BY <2>1 DEF MoveTo, IInv, RecvOK
  <2>4. \A i \in Slots : list[i].thread # c
    BY <2>1, CollectordConstants DEF IInv, Live
  <2> QED BY <2>1, <2>2, <2>3, <2>4 DEF IInv, ListOK, NodeRecord, Live
<1>7. ASSUME NEW c \in Conns, DeleteNode(c) \/ ClearThread(c) PROVE ThreadRuns'
  <2>1. /\ \A i \in Slots : list'[i].thread = IF i = tid[c] THEN "none" ELSE list[i].thread
        /\ tpc' = [tpc EXCEPT ![c] = "gone"] /\ tid' = [tid EXCEPT ![c] = 0]
        /\ tpc[c] \in Live
    BY <1>7 DEF DeleteNode, ClearThread, Exit, FreeNode, IInv, ListOK, NodeRecord, RecvOK, Live
  <2>2. \A i \in Slots : list[i].thread = c => i = tid[c]
    BY CollectordConstants DEF IInv
  <2>3. \A d \in Conns : d # c => tpc'[d] = tpc[d] /\ tid'[d] = tid[d]
    BY <2>1 DEF IInv, RecvOK
  <2> QED BY <2>1, <2>2, <2>3 DEF IInv, ListOK, NodeRecord
<1>8. ASSUME NEW c \in Conns, Accept(c) \/ CheckThread(c) \/ Start(c), list' = list
      PROVE  ThreadRuns'
  <2>1. tpc[c] \notin Live
    BY <1>8 DEF Accept, CheckThread, Start, IInv, PeerKnown, Live
  <2>2. \A d \in Conns : d # c => tpc'[d] = tpc[d] /\ tid'[d] = tid[d]
    BY <1>8 DEF Accept, CheckThread, Start, Exit, IInv, RecvOK
  <2> QED BY <1>1, <1>8, <2>1, <2>2
<1>9. ASSUME NEW c \in Conns,
             GetInstruction(c) \/ RecvOther(c) \/ RecvData(c) \/ Put(c), list' = list
      PROVE  ThreadRuns'
  <2>1. tid' = tid
    BY <1>9 DEF GetInstruction, RecvOther, RecvData, Put
  <2>2. \A d \in Conns : tpc[d] \in Live => tpc'[d] \in Live
    BY <1>9 DEF GetInstruction, RecvOther, RecvData, Put, Live, IInv, RecvOK
  <2> QED BY <1>1, <1>9, <2>1, <2>2
<1>10. CASE list' = list /\ tpc' = tpc /\ tid' = tid
  BY <1>1, <1>2, <1>10
<1>11. ListSteps \/ list' = list
  BY ListWriters
<1>12. \/ tpc' = tpc /\ tid' = tid
       \/ \E c \in Conns : \/ Accept(c) \/ CheckThread(c) \/ Start(c) \/ GetInstruction(c)
                            \/ RecvOther(c) \/ RecvData(c) \/ Put(c) \/ SetStatus(c) \/ SetThread(c)
                            \/ DeleteNode(c) \/ SetDown(c) \/ ClearThread(c)
  BY DEF Next, vars, Config, Db, Receiver, ReadNodes, AddNode, RemoveNode,
         Connect, ConnectFails, GetItem, Query, QueryFails, recvvars
<1> QED BY <1>3, <1>4, <1>5, <1>6, <1>7, <1>8, <1>9, <1>10, <1>11, <1>12 DEF ListSteps

\* A receiver's locals keep their types, and its name is its peer's.
LEMMA PeerStep == IInv /\ [Next]_vars => RecvOK' /\ PeerKnown'
<1> SUFFICES ASSUME IInv, [Next]_vars PROVE RecvOK' /\ PeerKnown'
  OBVIOUS
<1>0. RecvOK /\ PeerKnown /\ 0 \in Slots
  BY CollectordConstants DEF IInv, Slots
<1>1. CASE svc' = svc /\ tpc' = tpc /\ tip' = tip /\ tid' = tid /\ tname' = tname
  BY <1>0, <1>1 DEF RecvOK, PeerKnown
<1>2. ASSUME NEW c \in Conns, Accept(c) PROVE RecvOK' /\ PeerKnown'
  <2>1. PICK ip \in IPs :
          LET i == nl_find_node_by_nd_ip(ip)
          IN /\ tip' = [tip EXCEPT ![c] = ip]
             /\ svc' = IF i > 0 THEN [conn |-> c, node |-> i] ELSE svc
             /\ tpc' = IF i > 0 THEN tpc ELSE [tpc EXCEPT ![c] = "gone"]
    BY <1>2 DEF Accept
  <2>2. /\ tpc[c] = "none" /\ svc.conn = "none" /\ tid' = tid /\ tname' = tname
    BY <1>2 DEF Accept
  <2>3. nl_find_node_by_nd_ip(ip) = -2 \/ nl_find_node_by_nd_ip(ip) \in Slots
    BY FindNode DEF IInv
  <2>4. CASE svc' = [conn |-> c, node |-> nl_find_node_by_nd_ip(ip)] /\ tpc' = tpc
             /\ nl_find_node_by_nd_ip(ip) > 0
    <3>1. nl_find_node_by_nd_ip(ip) \in Slots
      BY <2>3, <2>4
    <3>2. RecvOK'
      BY <1>0, <2>1, <2>2, <2>4, <3>1 DEF RecvOK
    <3> QED BY <1>0, <2>1, <2>2, <2>4, <3>2, CollectordConstants DEF RecvOK, PeerKnown, Found
  <2>5. CASE svc' = svc /\ tpc' = [tpc EXCEPT ![c] = "gone"]
    BY <1>0, <2>1, <2>2, <2>5, CollectordConstants DEF RecvOK, PeerKnown, Found, RecvPcs
  <2> QED BY <2>1, <2>4, <2>5
<1>3. ASSUME NEW c \in Conns, CheckThread(c) PROVE RecvOK' /\ PeerKnown'
  <2>1. /\ svc.conn = c /\ svc' = NoService /\ tip' = tip /\ tid' = tid /\ tname' = tname
        /\ tpc' = [tpc EXCEPT ![c] = "gone"] \/ tpc' = [tpc EXCEPT ![c] = "start"]
    BY <1>3 DEF CheckThread
  <2> QED BY <1>0, <2>1, CollectordConstants DEF RecvOK, PeerKnown, Found, RecvPcs, NoService
<1>4. ASSUME NEW c \in Conns, Start(c) PROVE RecvOK' /\ PeerKnown'
  <2>1. /\ tpc[c] = "start" /\ tip[c] \in IPs /\ svc' = svc /\ tip' = tip
    BY <1>0, <1>4 DEF Start, svcvars, PeerKnown
  <2>2. PICK i : /\ i = nl_find_node_by_nd_ip(tip[c])
                 /\ \/ i < 0 /\ Exit(c)
                    \/ /\ i >= 0 /\ tpc' = [tpc EXCEPT ![c] = "status"]
                       /\ tid' = [tid EXCEPT ![c] = i]
                       /\ tname' = [tname EXCEPT ![c] = list[i].ip]
    <3>1. nl_find_node_by_nd_ip(tip[c]) \in Int
      BY <2>1, FindNode, CollectordConstants DEF IInv, Slots
    <3> QED BY <1>4, <3>1 DEF Start
  <2>3. i = -2 \/ (i \in Slots /\ list[i].ip = tip[c])
    <3>1. \/ nl_find_node_by_nd_ip(tip[c]) = -2 /\ ~InList(tip[c])
          \/ /\ nl_find_node_by_nd_ip(tip[c]) \in Slots
             /\ list[nl_find_node_by_nd_ip(tip[c])].ip = tip[c]
      BY <2>1, FindNode DEF IInv
    <3> QED BY <2>2, <3>1
  <2>4. CASE Exit(c)
    BY <1>0, <2>1, <2>4 DEF Exit, RecvOK, PeerKnown, Found, RecvPcs
  <2>5. CASE ~Exit(c)
    <3>1. /\ tpc' = [tpc EXCEPT ![c] = "status"] /\ i \in Slots
          /\ tid' = [tid EXCEPT ![c] = i] /\ tname' = [tname EXCEPT ![c] = tip[c]]
      BY <2>2, <2>3, <2>5
    <3> QED BY <1>0, <2>1, <3>1 DEF RecvOK, PeerKnown, Found, RecvPcs
  <2> QED BY <2>4, <2>5
<1>5. ASSUME NEW c \in Conns, SetStatus(c) \/ SetThread(c) \/ GetInstruction(c)
                               \/ RecvOther(c) \/ RecvData(c) \/ Put(c) \/ SetDown(c)
      PROVE  RecvOK' /\ PeerKnown'
  <2>1. svc' = svc /\ tip' = tip /\ tid' = tid /\ tname' = tname
    BY <1>5 DEF SetStatus, SetThread, GetInstruction, RecvOther, RecvData, Put, SetDown, svcvars
  <2>2. tpc[c] \in Found /\ \E p \in Found : tpc' = [tpc EXCEPT ![c] = p]
    BY <1>5 DEF SetStatus, SetThread, GetInstruction, RecvOther, RecvData, Put, SetDown, Found
  <2>3. PICK p \in Found : tpc' = [tpc EXCEPT ![c] = p]
    BY <2>2
  <2> QED BY <1>0, <2>1, <2>2, <2>3 DEF RecvOK, PeerKnown, Found, RecvPcs
<1>6. ASSUME NEW c \in Conns, DeleteNode(c) \/ ClearThread(c) PROVE RecvOK' /\ PeerKnown'
  <2>1. svc' = svc /\ tip' = tip /\ Exit(c) /\ tpc[c] \in Found
    BY <1>6 DEF DeleteNode, ClearThread, svcvars, Found
  <2> QED BY <1>0, <2>1 DEF Exit, RecvOK, PeerKnown, Found, RecvPcs
<1> QED BY <1>1, <1>2, <1>3, <1>4, <1>5, <1>6
        DEF Next, vars, Config, Db, Receiver, ReadNodes, AddNode, RemoveNode,
            Connect, ConnectFails, GetItem, Query, QueryFails, recvvars, svcvars

\* The configuration thread's locals keep their types.
LEMMA ConfStep == IInv /\ [Next]_vars => ConfOK'
<1> SUFFICES ASSUME IInv, [Next]_vars PROVE ConfOK'
  OBVIOUS
<1> USE DEF ConfOK
<1>1. CASE ReadNodes
  <2>1. PICK file \in SUBSET IPs :
          /\ dy' = dy_diff_nodes(file)
          /\ cpc' = IF dy_diff_nodes(file) = NoDiff THEN "sleep" ELSE "changed"
    BY <1>1 DEF ReadNodes
  <2>2. changes' \in 0 .. MaxChanges
    BY <1>1, CollectordConstants DEF ReadNodes, IInv
  <2>3. \A i \in Slots : list[i].ip # "none" => list[i].ip \in IPs
    BY DEF IInv, ListOK, NodeRecord
  <2>4. dy_diff_nodes(file) \in [added : SUBSET IPs, reduced : SUBSET IPs]
    <3>1. {list[i].ip : i \in {j \in Slots : list[j].ip # "none"}} \ file \subseteq IPs
      BY <2>3
    <3>2. {ip \in file : ~InList(ip)} \subseteq IPs
      OBVIOUS
    <3> QED BY <3>1, <3>2 DEF dy_diff_nodes
  <2> QED BY <2>1, <2>2, <2>4
<1>2. CASE AddNode \/ RemoveNode
  <2>1. PICK ip : \/ dy' = [dy EXCEPT !.added = @ \ {ip}]
                  \/ dy' = [dy EXCEPT !.reduced = @ \ {ip}]
    BY <1>2 DEF AddNode, RemoveNode, Updating
  <2>2. cpc' \in {"sleep", "update"} /\ changes' = changes
    BY <1>2 DEF AddNode, RemoveNode, Updating
  <2> QED BY <2>1, <2>2 DEF IInv
<1>3. CASE ~(ReadNodes \/ AddNode \/ RemoveNode)
  <2>1. UNCHANGED confvars
    BY <1>3 DEF Next, vars, Config, Db, Receiver, Accept, CheckThread, Start, SetStatus, SetThread,
         GetInstruction, DeleteNode, RecvOther, RecvData, Put, SetDown, ClearThread,
         Connect, ConnectFails, GetItem, Query, QueryFails
  <2> QED BY <2>1 DEF confvars, IInv
<1> QED BY <1>1, <1>2, <1>3

\* The items that arrived on a connection are counted in Arrived.
LEMMA ArrivedBound ==
  ASSUME arrived \in [Conns -> 0 .. MaxItems], NEW c \in Conns
  PROVE  Cardinality(Arrived) \in Nat /\ arrived[c] <= Cardinality(Arrived)
<1>1. Arrived \subseteq Conns \X (1 .. MaxItems)
  BY CollectordConstants DEF Arrived
<1>2. IsFiniteSet(1 .. MaxItems)
  BY FS_Interval, CollectordConstants
<1>3. IsFiniteSet(Arrived)
  <2>1. IsFiniteSet(Conns \X (1 .. MaxItems))
    BY <1>2, FS_Product, CollectordConstants
  <2> QED BY <1>1, <2>1, FS_Subset
<1>4. {c} \X (1 .. arrived[c]) \subseteq Arrived
  BY DEF Arrived
<1>5. Cardinality({c} \X (1 .. arrived[c])) = arrived[c]
  <2>1. IsFiniteSet({c}) /\ Cardinality({c}) = 1
    BY FS_Singleton
  <2>2. IsFiniteSet(1 .. arrived[c]) /\ Cardinality(1 .. arrived[c]) = arrived[c]
    <3>1. arrived[c] \in Nat
      BY CollectordConstants
    <3>2. PICK n \in Nat : n = arrived[c]
      BY <3>1
    <3>3. IsFiniteSet(1 .. n) /\ Cardinality(1 .. n) = IF 1 > n THEN 0 ELSE n - 1 + 1
      BY FS_Interval
    <3> QED BY <3>2, <3>3
  <2>3. Cardinality({c} \X (1 .. arrived[c])) = Cardinality({c}) * Cardinality(1 .. arrived[c])
    BY <2>1, <2>2, FS_Product
  <2> QED BY <2>1, <2>2, <2>3, CollectordConstants
<1> QED BY <1>3, <1>4, <1>5, FS_Subset, FS_CardinalityType

\* A receiver has something to put exactly while it is putting it.
LEMMA TodoStep == IInv /\ [Next]_vars => TodoOK'
<1> SUFFICES ASSUME IInv, [Next]_vars PROVE TodoOK'
  OBVIOUS
<1>0. TodoOK /\ tpc \in [Conns -> RecvPcs]
  BY DEF IInv, RecvOK
<1>1. ASSUME NEW c \in Conns, NEW p \in RecvPcs \ {"put"}, tpc[c] # "put",
             todo' = todo, arrived' = arrived, tpc' = [tpc EXCEPT ![c] = p]
      PROVE  TodoOK'
  BY <1>0, <1>1 DEF TodoOK
<1>2. CASE todo' = todo /\ arrived' = arrived /\ tpc' = tpc
  BY <1>0, <1>2 DEF TodoOK
<1>3. ASSUME NEW c \in Conns,
             \/ Accept(c) \/ CheckThread(c) \/ Start(c) \/ SetStatus(c) \/ SetThread(c)
             \/ GetInstruction(c) \/ DeleteNode(c) \/ RecvOther(c) \/ SetDown(c) \/ ClearThread(c)
      PROVE  TodoOK'
  <2>1. todo' = todo /\ arrived' = arrived
    BY <1>3 DEF Accept, CheckThread, Start, SetStatus, SetThread, GetInstruction, DeleteNode,
                RecvOther, SetDown, ClearThread
  <2>2. tpc[c] # "put"
    BY <1>3 DEF Accept, CheckThread, Start, SetStatus, SetThread, GetInstruction, DeleteNode,
                RecvOther, SetDown, ClearThread, IInv, PeerKnown
  <2>3. tpc' = tpc \/ \E p \in RecvPcs \ {"put"} : tpc' = [tpc EXCEPT ![c] = p]
    BY <1>3 DEF Accept, CheckThread, Start, SetStatus, SetThread, GetInstruction, DeleteNode,
                RecvOther, SetDown, ClearThread, Exit, RecvPcs
  <2> QED BY <1>1, <1>2, <2>1, <2>2, <2>3
<1>4. ASSUME NEW c \in Conns, RecvData(c) PROVE TodoOK'
  <2>1. PICK k \in 1 .. MaxItems - Cardinality(Arrived) :
          /\ todo' = [todo EXCEPT ![c] = k] /\ arrived' = [arrived EXCEPT ![c] = @ + k]
    BY <1>4 DEF RecvData
  <2>2. Cardinality(Arrived) \in Nat /\ arrived[c] <= Cardinality(Arrived)
    BY <1>0, ArrivedBound DEF TodoOK
  <2>3. k \in 1 .. MaxItems /\ arrived[c] + k \in 0 .. MaxItems /\ k <= arrived[c] + k
    BY <1>0, <2>2, CollectordConstants DEF TodoOK
  <2>4. tpc' = [tpc EXCEPT ![c] = "put"]
    BY <1>4 DEF RecvData
  <2> QED BY <1>0, <2>1, <2>3, <2>4 DEF TodoOK
<1>5. ASSUME NEW c \in Conns, Put(c) PROVE TodoOK'
  <2>1. PICK k : /\ k \in IF todo[c] > 1 THEN {todo[c] - 1} ELSE {0, TokensLeft(c)}
                 /\ todo' = [todo EXCEPT ![c] = k]
                 /\ tpc' = [tpc EXCEPT ![c] = IF k > 0 THEN "put" ELSE "istn"]
    BY <1>5 DEF Put
  <2>2. tpc[c] = "put" /\ arrived' = arrived
    BY <1>5 DEF Put
  <2>3. todo[c] \in 1 .. arrived[c] /\ arrived[c] \in 0 .. MaxItems
    BY <1>0, <2>2 DEF TodoOK
  <2>4. k \in 0 .. arrived[c] /\ k \in 0 .. MaxItems
    BY <2>1, <2>3, CollectordConstants DEF TokensLeft
  <2>5. IF tpc'[c] = "put" THEN k \in 1 .. arrived[c] ELSE k = 0
    BY <1>0, <2>1, <2>3, <2>4, CollectordConstants
  <2> QED BY <1>0, <2>1, <2>2, <2>4, <2>5 DEF TodoOK
<1> QED BY <1>2, <1>3, <1>4, <1>5
        DEF Next, vars, Config, Db, Receiver, ReadNodes, AddNode, RemoveNode,
            Connect, ConnectFails, GetItem, Query, QueryFails, recvvars

\* What a step does to the contents of the buffer: nothing, a put of one item
\* of the step's receiver, or a get of the oldest.
Putting(c, x) ==
  /\ Put(c) /\ Size < q_size - 1 /\ Contents' = Append(Contents, x)
  /\ x = [node |-> tname[c], conn |-> c, n |-> arrived[c] - todo[c] + 1] /\ x \in Item
Getting ==
  /\ GetItem /\ Contents # <<>> /\ Contents' = Tail(Contents)
  /\ batch' = Append(batch, Head(Contents)) /\ Head(Contents) \in Item
LEMMA BufferChange ==
  ASSUME IInv, [Next]_vars
  PROVE  /\ BufOK'
         /\ \A c \in Conns : Put(c) => \E x \in Item : Putting(c, x)
         /\ GetItem => Getting
         /\ ~GetItem /\ (\A c \in Conns : ~Put(c)) => Contents' = Contents
<1> DEFINE T == Item \cup {NoItem}
<1>0. buffer \in [Places -> T] /\ start \in Places /\ end \in Places /\ Contents \in Seq(Item)
  BY DEF IInv, BufOK
<1>1. ASSUME NEW c \in Conns, Put(c)
      PROVE  BufOK' /\ \E x \in Item : Putting(c, x)
  <2>1. PICK x : x = [node |-> tname[c], conn |-> c, n |-> arrived[c] - todo[c] + 1]
    OBVIOUS
  <2>2. x \in Item
    <3>1. tpc[c] = "put"
      BY <1>1 DEF Put
    <3>2. tname[c] \in IPs
      BY <3>1 DEF IInv, PeerKnown, Found
    <3>3. arrived[c] - todo[c] + 1 \in 1 .. MaxItems
      BY <3>1, CollectordConstants DEF IInv, TodoOK
    <3> QED BY <2>1, <3>2, <3>3 DEF Item
  <2>3. /\ end' # start /\ buffer' = [buffer EXCEPT ![end] = x]
        /\ end' = (end + 1) % q_size /\ start' = start
    BY <1>1, <2>1 DEF Put, u_queue_is_full, u_enqueue
  <2>4. /\ Ring(buffer', start, end') = Append(Ring(buffer, start, end), x)
        /\ RingSize(start, end) < q_size - 1 /\ end' \in Places
    <3>1. Appended(buffer, start, end, x, buffer', end')
      BY <1>0, <2>3, RingPut
    <3> QED BY <3>1 DEF Appended
  <2>5. Contents' = Ring(buffer', start', end')
    BY DEF Contents, Size, Ring, RingSize
  <2>6. Contents' = Append(Contents, x)
    BY <2>3, <2>4, <2>5, ContentsIsRing
  <2>7. Contents' \in Seq(Item)
    BY <1>0, <2>2, <2>6, AppendProperties
  <2>8. buffer' \in [Places -> T] /\ start' \in Places /\ end' \in Places
    BY <1>0, <2>2, <2>3, <2>4
  <2>9. Size < q_size - 1
    BY <2>4 DEF Size, RingSize
  <2> QED BY <1>1, <2>1, <2>2, <2>6, <2>7, <2>8, <2>9 DEF BufOK, Putting
<1>2. ASSUME GetItem PROVE BufOK' /\ Getting
  <2>1. /\ start # end /\ start' = (start + 1) % q_size /\ buffer' = buffer /\ end' = end
        /\ batch' = Append(batch, buffer[start])
    BY <1>2 DEF GetItem, u_queue_is_empty, u_dequeue
  <2>2. /\ Ring(buffer, (start + 1) % q_size, end) = Tail(Ring(buffer, start, end))
        /\ Ring(buffer, start, end) # <<>> /\ Head(Ring(buffer, start, end)) = buffer[start]
        /\ (start + 1) % q_size \in Places
    BY <1>0, <2>1, RingGet
  <2>3. Contents' = Ring(buffer', start', end')
    BY DEF Contents, Size, Ring, RingSize
  <2>4. Contents # <<>> /\ Contents' = Tail(Contents) /\ Head(Contents) = buffer[start]
    BY <2>1, <2>2, <2>3, ContentsIsRing
  <2>5. Contents' \in Seq(Item) /\ Head(Contents) \in Item
    BY <1>0, <2>4, HeadTailProperties
  <2>6. BufOK'
    BY <1>0, <2>1, <2>2, <2>5 DEF BufOK
  <2> QED BY <1>2, <2>1, <2>4, <2>5, <2>6 DEF Getting
<1>3. ASSUME ~GetItem /\ (\A c \in Conns : ~Put(c))
      PROVE  BufOK' /\ Contents' = Contents
  <2>1. buffer' = buffer /\ start' = start /\ end' = end
    BY <1>3 DEF Next, vars, Config, Db, Receiver, ReadNodes, AddNode, RemoveNode, Accept,
         CheckThread, Start, SetStatus, SetThread, GetInstruction, DeleteNode, RecvOther, RecvData,
         SetDown, ClearThread, Connect, ConnectFails, Query, QueryFails, bufvars
  <2>2. Contents' = Ring(buffer', start', end')
    BY DEF Contents, Size, Ring, RingSize
  <2>3. Contents' = Contents
    BY <2>1, <2>2, ContentsIsRing
  <2> QED BY <1>0, <1>3, <2>1, <2>3 DEF BufOK
<1>4. BufOK'
  BY <1>1, <1>2, <1>3
<1>5. ASSUME ~GetItem /\ (\A c \in Conns : ~Put(c)) PROVE Contents' = Contents
  BY <1>3, <1>5
<1> QED BY <1>1, <1>2, <1>4, <1>5

\* The database thread's variables keep their types.
LEMMA DbStep == IInv /\ [Next]_vars => DbOK'
<1> SUFFICES ASSUME IInv, [Next]_vars PROVE DbOK'
  OBVIOUS
<1>0. DbOK
  BY DEF IInv
<1>1. CASE GetItem
  <2>1. batch' = Append(batch, Head(Contents)) /\ Head(Contents) \in Item
    BY <1>1, BufferChange DEF Getting, Putting
  <2>2. batch' \in Seq(Item)
    BY <1>0, <2>1, AppendProperties DEF DbOK
  <2> QED BY <1>0, <1>1, <2>2 DEF GetItem, DbOK
<1>2. CASE Query \/ QueryFails
  <2>1. rows \o batch \in Seq(Item) /\ <<>> \in Seq(Item)
    BY <1>0, ConcatProperties, EmptySeq DEF DbOK
  <2> QED BY <1>0, <1>2, <2>1 DEF Query, QueryFails, DbOK
<1>3. CASE Connect
  BY <1>0, <1>3 DEF Connect, DbOK
<1>4. CASE ConnectFails
  <2>1. up' \in BOOLEAN /\ db' \in [first : BOOLEAN, con : BOOLEAN]
    BY <1>0, <1>4 DEF ConnectFails, DbOK
  <2> QED BY <1>0, <1>4, <2>1 DEF ConnectFails, DbOK
<1>5. CASE ~Db
  <2>1. up' = up /\ dbpc' = dbpc /\ db' = db /\ batch' = batch /\ rows' = rows
    BY <1>5 DEF Next, vars, Config, Receiver, ReadNodes, AddNode, RemoveNode, Accept,
         CheckThread, Start, SetStatus, SetThread, GetInstruction, DeleteNode, RecvOther, RecvData,
         Put, SetDown, ClearThread, dbvars
  <2> QED BY <1>0, <2>1 DEF DbOK
<1> QED BY <1>1, <1>2, <1>3, <1>4, <1>5 DEF Db

\* The invariant is inductive.
LEMMA NextInv == IInv /\ [Next]_vars => IInv'
BY ListStep, NodesStep, ThreadStep, PeerStep, ConfStep, TodoStep, BufferChange, DbStep DEF IInv

\* It holds in every reachable state.
LEMMA Invariant == Spec => []IInv
BY InitInv, NextInv, PTL DEF Spec

\* The locals of the threads, the node list and the ring buffer keep their
\* types; no index leaves its array, even one that is stale (d_recv.c, u_queue.c).
THEOREM TypeCorrect == Spec => []TypeOK
BY Invariant, PartsGiveTypes, PTL

\* An address never has two slots of the node list, although thread_config
\* compares and updates in two critical sections (d_config.c, d_nodes.c).
THEOREM SlotsUnique == Spec => []OneSlotPerNode
<1>1. IInv => OneSlotPerNode
  BY DEF IInv
<1> QED BY <1>1, Invariant, PTL

\* A thread id in the node list names a receiver that runs, with that slot
\* (d_recv.c, d_service.c): no node is refused for a thread that is gone.
THEOREM ThreadsRun == Spec => []ThreadRuns
<1>1. IInv => ThreadRuns
  BY DEF IInv
<1> QED BY <1>1, Invariant, PTL

\* The ring buffer of u_queue.c implements the bounded queue of d_datas.h.
THEOREM RingImplementsFifo == Spec => RingIsFifo
<1>1. Init => Fifo!Init
  <2>1. Init => Contents = <<>>
    <3> SUFFICES ASSUME Init PROVE Contents = <<>>
      OBVIOUS
    <3>1. buffer \in [Places -> Item \cup {NoItem}] /\ start \in Places /\ end = start
      BY CollectordConstants DEF Init, Places
    <3> QED BY <3>1, ContentsIsRing, EmptyRing
  <2> QED BY <2>1 DEF Fifo!Init
<1>2. IInv /\ [Next]_vars => [Fifo!Next]_Contents
  <2> SUFFICES ASSUME IInv, [Next]_vars PROVE [Fifo!Next]_Contents
    OBVIOUS
  <2>1. ASSUME NEW c \in Conns, NEW x \in Item, Putting(c, x) PROVE Fifo!Put(x)
    <3>1. Len(Contents) = Size
      <4>1. RingFacts(Item \cup {NoItem}, buffer, start, end)
        BY RingSeq DEF IInv, BufOK
      <4> QED BY <4>1, ContentsIsRing DEF RingFacts, RingSize, Size
    <3> QED BY <2>1, <3>1 DEF Putting, Fifo!Put
  <2>2. Getting => Fifo!Get
    BY DEF Getting, Fifo!Get
  <2> QED BY <2>1, <2>2, BufferChange DEF Fifo!Next
<1> QED BY <1>1, <1>2, Invariant, PTL DEF Spec, RingIsFifo, Fifo!Spec

-----------------------------------------------------------------------------
(* The items between the receivers and the database.                         *)

\* The items of a connection that are in the pipeline or went through it.
Sent(c) == arrived[c] - todo[c]
NoneAhead == \A k \in 1 .. Len(Pipeline) : Pipeline[k].n <= Sent(Pipeline[k].conn)
PipeInv == NamedBySender /\ ItemsOnceInOrder /\ NoneAhead

\* Appending to the second of two sequences appends to both together.
LEMMA AppendRight ==
  ASSUME NEW S, NEW s \in Seq(S), NEW t \in Seq(S), NEW x \in S
  PROVE  s \o Append(t, x) = Append(s \o t, x)
<1>1. <<x>> \in Seq(S)
  OBVIOUS
<1>2. Append(t, x) = t \o <<x>>
  BY AppendIsConcat
<1>3. s \o t \in Seq(S)
  BY ConcatProperties
<1>4. Append(s \o t, x) = (s \o t) \o <<x>>
  BY <1>3, AppendIsConcat
<1> QED BY <1>1, <1>2, <1>4, ConcatAssociative

\* Moving the head of one sequence to the end of the other changes nothing.
LEMMA MoveHead ==
  ASSUME NEW S, NEW s \in Seq(S), NEW t \in Seq(S), t # <<>>
  PROVE  Append(s, Head(t)) \o Tail(t) = s \o t
<1>1. Head(t) \in S /\ Tail(t) \in Seq(S) /\ <<Head(t)>> \in Seq(S)
  BY HeadTailProperties
<1>2. Append(s, Head(t)) = s \o <<Head(t)>>
  BY <1>1, AppendIsConcat
<1>3. t = <<Head(t)>> \o Tail(t)
  <2> DEFINE u == <<Head(t)>> \o Tail(t)
  <2>1. Len(t) >= 1 /\ Len(t) \in Nat /\ Len(Tail(t)) = Len(t) - 1 /\ Len(<<Head(t)>>) = 1
    BY EmptySeq, HeadTailProperties
  <2>2. u \in Seq(S) /\ Len(u) = Len(t)
    BY <1>1, <2>1, ConcatProperties
  <2>3. \A i \in 1 .. Len(t) : u[i] = IF i <= 1 THEN <<Head(t)>>[i] ELSE Tail(t)[i - 1]
    BY <1>1, <2>1, ConcatProperties
  <2>4. \A i \in 1 .. Len(t) : u[i] = t[i]
    BY <2>1, <2>3
  <2> HIDE DEF u
  <2>5. t = u
    BY <2>2, <2>4, SeqEqual
  <2> QED BY <2>5 DEF u
<1>4. (s \o <<Head(t)>>) \o Tail(t) = s \o (<<Head(t)>> \o Tail(t))
  BY <1>1, ConcatAssociative
<1> QED BY <1>2, <1>3, <1>4

\* What a step does to the pipeline.
LEMMA PipelineChange ==
  ASSUME IInv, [Next]_vars
  PROVE  /\ Pipeline \in Seq(Item)
         /\ \/ \E c \in Conns : \E x \in Item : Putting(c, x) /\ Pipeline' = Append(Pipeline, x)
            \/ (\A c \in Conns : ~Put(c)) /\ Pipeline' \in {Pipeline, rows \o Contents}
<1>0. rows \in Seq(Item) /\ batch \in Seq(Item) /\ Contents \in Seq(Item) /\ rows \o batch \in Seq(Item)
  BY ConcatProperties DEF IInv, DbOK, BufOK
<1>1. Pipeline \in Seq(Item)
  BY <1>0, ConcatProperties DEF Pipeline
<1>2. ASSUME NEW c \in Conns, Put(c)
      PROVE  \E x \in Item : Putting(c, x) /\ Pipeline' = Append(Pipeline, x)
  <2>1. PICK x \in Item : Putting(c, x)
    BY <1>2, BufferChange
  <2>2. rows' = rows /\ batch' = batch
    BY <1>2 DEF Put, dbvars
  <2>3. Pipeline' = (rows \o batch) \o Append(Contents, x)
    BY <2>1, <2>2 DEF Pipeline, Putting
  <2>4. (rows \o batch) \o Append(Contents, x) = Append((rows \o batch) \o Contents, x)
    BY <1>0, AppendRight
  <2> QED BY <2>1, <2>3, <2>4 DEF Pipeline
<1>3. ASSUME \A c \in Conns : ~Put(c)
      PROVE  Pipeline' \in {Pipeline, rows \o Contents}
  <2>1. CASE GetItem
    <3>1. /\ Contents # <<>> /\ Contents' = Tail(Contents) /\ Head(Contents) \in Item
          /\ batch' = Append(batch, Head(Contents)) /\ rows' = rows
      BY <2>1, BufferChange DEF Getting, GetItem
    <3>2. Pipeline' = (rows \o Append(batch, Head(Contents))) \o Tail(Contents)
      BY <3>1 DEF Pipeline
    <3>3. rows \o Append(batch, Head(Contents)) = Append(rows \o batch, Head(Contents))
      BY <1>0, <3>1, AppendRight
    <3>4. Append(rows \o batch, Head(Contents)) \o Tail(Contents) = (rows \o batch) \o Contents
      BY <1>0, <3>1, MoveHead
    <3> QED BY <3>2, <3>3, <3>4 DEF Pipeline
  <2>2. CASE ~GetItem
    <3>1. Contents' = Contents
      BY <1>3, <2>2, BufferChange
    <3>2. (rows \o batch) \o <<>> = rows \o batch /\ rows \o <<>> = rows
      BY <1>0, ConcatEmptySeq
    <3>3. \/ rows' = rows /\ batch' = batch
          \/ rows' = rows /\ batch' = <<>>
          \/ rows' = rows \o batch /\ batch' = <<>>
      BY <1>3, <2>2 DEF Next, vars, Config, Db, Receiver, ReadNodes, AddNode, RemoveNode, Accept,
         CheckThread, Start, SetStatus, SetThread, GetInstruction, DeleteNode, RecvOther, RecvData,
         SetDown, ClearThread, Connect, ConnectFails, Query, QueryFails, dbvars
    <3> QED BY <3>1, <3>2, <3>3 DEF Pipeline
  <2> QED BY <2>1, <2>2
<1> QED BY <1>1, <1>2, <1>3

\* A connection keeps its peer, and the count of what it sent grows with a put
\* and only then: reading a packet adds to arrived and to todo alike.
LEMMA CountsChange ==
  ASSUME IInv, [Next]_vars, NEW c \in Conns
  PROVE  /\ tip[c] # "none" => tip'[c] = tip[c]
         /\ Put(c) => Sent(c)' = Sent(c) + 1
         /\ ~Put(c) => Sent(c)' = Sent(c)
         /\ Sent(c) \in Int
<1>0. /\ TodoOK /\ tip \in [Conns -> IPs \cup {"none"}]
      /\ todo \in [Conns -> 0 .. MaxItems] /\ arrived \in [Conns -> 0 .. MaxItems]
  BY DEF IInv, RecvOK, TodoOK
<1>1. tip[c] # "none" => tip'[c] = tip[c]
  BY <1>0 DEF Next, vars, Config, Db, Receiver, ReadNodes, AddNode, RemoveNode, Accept,
       CheckThread, Start, SetStatus, SetThread, GetInstruction, DeleteNode, RecvOther, RecvData,
       Put, SetDown, ClearThread, Connect, ConnectFails, GetItem, Query, QueryFails, recvvars
<1>2. ASSUME NEW d \in Conns, RecvData(d) PROVE Sent(c)' = Sent(c)
  <2>1. PICK k \in 1 .. MaxItems - Cardinality(Arrived) :
          todo' = [todo EXCEPT ![d] = k] /\ arrived' = [arrived EXCEPT ![d] = @ + k]
    BY <1>2 DEF RecvData
  <2>2. k \in Int /\ arrived[d] \in Int
    BY <1>0, CollectordConstants
  <2>3. todo[d] = 0
    BY <1>0, <1>2 DEF TodoOK, RecvData
  <2> QED BY <1>0, <2>1, <2>2, <2>3, CollectordConstants DEF Sent
<1>3. ASSUME NEW d \in Conns, Put(d)
      PROVE  Sent(c)' = IF c = d THEN Sent(c) + 1 ELSE Sent(c)
  <2>1. PICK k : /\ k \in IF todo[d] > 1 THEN {todo[d] - 1} ELSE {0, TokensLeft(d)}
                 /\ todo' = [todo EXCEPT ![d] = k]
    BY <1>3 DEF Put
  <2>2. tpc[d] = "put" /\ arrived' = arrived
    BY <1>3 DEF Put
  <2>3. todo[d] \in 1 .. arrived[d] /\ arrived[d] \in Int
    BY <1>0, <2>2, CollectordConstants DEF TodoOK
  <2>4. k = todo[d] - 1
    BY <2>1, <2>3 DEF TokensLeft
  <2> QED BY <1>0, <2>1, <2>2, <2>3, <2>4, CollectordConstants DEF Sent
<1>4. \/ todo' = todo /\ arrived' = arrived
      \/ \E d \in Conns : RecvData(d) \/ Put(d)
  BY DEF Next, vars, Config, Db, Receiver, ReadNodes, AddNode, RemoveNode, Accept,
       CheckThread, Start, SetStatus, SetThread, GetInstruction, DeleteNode, RecvOther,
       SetDown, ClearThread, Connect, ConnectFails, GetItem, Query, QueryFails, recvvars
<1>5. Sent(c) \in Int
  BY <1>0, CollectordConstants DEF Sent
<1>6. Put(c) => Sent(c)' = Sent(c) + 1
  BY <1>3
<1>7. ~Put(c) => Sent(c)' = Sent(c)
  BY <1>2, <1>3, <1>4 DEF Sent
<1> QED BY <1>1, <1>5, <1>6, <1>7

\* The three facts about the pipeline, of a sequence and the state they refer to.
PipeOK(s) ==
  /\ \A k \in 1 .. Len(s) : s[k].node = tip[s[k].conn] /\ s[k].n <= Sent(s[k].conn)
  /\ \A k, m \in 1 .. Len(s) : k < m /\ s[k].conn = s[m].conn => s[k].n < s[m].n

\* They are the facts about the pipeline.
LEMMA PipeIsOK == PipeInv <=> PipeOK(Pipeline)
BY DEF PipeInv, PipeOK, NamedBySender, ItemsOnceInOrder, NoneAhead

\* A batch that is lost leaves the order of the rest as it was.
LEMMA DropMiddle ==
  ASSUME NEW r \in Seq(Item), NEW b \in Seq(Item), NEW q \in Seq(Item), PipeOK(r \o b \o q)
  PROVE  PipeOK(r \o q)
<1> DEFINE P == r \o b \o q
           Q == r \o q
           f(k) == IF k <= Len(r) THEN k ELSE k + Len(b)
<1>1. /\ Len(r) \in Nat /\ Len(b) \in Nat /\ Len(q) \in Nat /\ r \o b \in Seq(Item)
      /\ Len(r \o b) = Len(r) + Len(b)
      /\ Len(P) = Len(r) + Len(b) + Len(q) /\ Len(Q) = Len(r) + Len(q)
  BY ConcatProperties
<1>2. ASSUME NEW k \in 1 .. Len(Q) PROVE f(k) \in 1 .. Len(P) /\ Q[k] = P[f(k)]
  <2>1. f(k) \in 1 .. Len(P)
    BY <1>1
  <2>2. CASE k <= Len(r)
    <3>1. Q[k] = r[k]
      BY <1>1, <2>2
    <3>2. P[k] = r[k]
      BY <1>1, <2>2
    <3> QED BY <2>1, <2>2, <3>1, <3>2
  <2>3. CASE ~(k <= Len(r))
    <3>1. Q[k] = q[k - Len(r)]
      BY <1>1, <2>3
    <3>2. P[k + Len(b)] = q[k - Len(r)]
      BY <1>1, <2>3
    <3> QED BY <2>1, <2>3, <3>1, <3>2
  <2> QED BY <2>2, <2>3
<1>3. ASSUME NEW k \in 1 .. Len(Q), NEW m \in 1 .. Len(Q), k < m PROVE f(k) < f(m)
  BY <1>1, <1>3
<1>4. PipeOK(P)
  OBVIOUS
<1> HIDE DEF P, Q, f
<1>5. ASSUME NEW k \in 1 .. Len(Q)
      PROVE  Q[k].node = tip[Q[k].conn] /\ Q[k].n <= Sent(Q[k].conn)
  BY <1>2, <1>4 DEF PipeOK
<1>6. ASSUME NEW k \in 1 .. Len(Q), NEW m \in 1 .. Len(Q), k < m, Q[k].conn = Q[m].conn
      PROVE  Q[k].n < Q[m].n
  <2>1. /\ f(k) \in 1 .. Len(P) /\ f(m) \in 1 .. Len(P) /\ f(k) < f(m)
        /\ Q[k] = P[f(k)] /\ Q[m] = P[f(m)]
    BY <1>2, <1>3, <1>6
  <2>2. P[f(k)].n < P[f(m)].n
    BY <1>4, <1>6, <2>1 DEF PipeOK
  <2> QED BY <2>1, <2>2
<1>7. PipeOK(Q)
  BY <1>5, <1>6 DEF PipeOK
<1> QED BY <1>7 DEF Q

\* What is in the pipeline stays as it should be when counts and peers change.
LEMMA PipeKept ==
  ASSUME IInv, [Next]_vars, NEW s \in Seq(Item), PipeOK(s)
  PROVE  /\ \A k \in 1 .. Len(s) : s[k].node = tip'[s[k].conn] /\ s[k].n <= Sent(s[k].conn)'
         /\ \A k, m \in 1 .. Len(s) : k < m /\ s[k].conn = s[m].conn => s[k].n < s[m].n
<1>1. ASSUME NEW k \in 1 .. Len(s)
      PROVE  s[k].node = tip'[s[k].conn] /\ s[k].n <= Sent(s[k].conn)'
  <2>1. s[k].node \in IPs /\ s[k].conn \in Conns /\ s[k].n \in Int
    <3>1. s[k] \in Item
      BY ElementOfSeq
    <3> QED BY <3>1, CollectordConstants DEF Item
  <2>2. PICK c \in Conns : c = s[k].conn
    BY <2>1
  <2>3. s[k].node = tip[c] /\ s[k].n <= Sent(c)
    BY <2>2 DEF PipeOK
  <2>4. tip[c] # "none"
    BY <2>1, <2>3, CollectordConstants
  <2>5. tip'[c] = tip[c] /\ Sent(c)' \in {Sent(c), Sent(c) + 1} /\ Sent(c) \in Int
    BY <2>4, CountsChange
  <2>6. s[k].n <= Sent(c)'
    BY <2>1, <2>3, <2>5
  <2> QED BY <2>2, <2>3, <2>5, <2>6
<1> QED BY <1>1 DEF PipeOK

\* The pipeline keeps the three facts.
LEMMA PipeStep == IInv /\ PipeInv /\ [Next]_vars => PipeInv'
<1> SUFFICES ASSUME IInv, PipeInv, [Next]_vars PROVE PipeInv'
  OBVIOUS
<1>0. PipeOK(Pipeline) /\ Pipeline \in Seq(Item)
  BY PipeIsOK, PipelineChange
<1>1. ASSUME NEW s \in Seq(Item), PipeOK(s), Pipeline' = s PROVE PipeInv'
  <2>1. /\ \A k \in 1 .. Len(s) : s[k].node = tip'[s[k].conn] /\ s[k].n <= Sent(s[k].conn)'
        /\ \A k, m \in 1 .. Len(s) : k < m /\ s[k].conn = s[m].conn => s[k].n < s[m].n
    BY <1>1, PipeKept
  <2> QED BY <1>1, <2>1 DEF PipeInv, NamedBySender, ItemsOnceInOrder, NoneAhead, Sent
<1>2. CASE Pipeline' = Pipeline
  BY <1>0, <1>1, <1>2
<1>3. CASE Pipeline' = rows \o Contents
  <2>1. rows \in Seq(Item) /\ batch \in Seq(Item) /\ Contents \in Seq(Item)
    BY DEF IInv, DbOK, BufOK
  <2>2. PipeOK(rows \o Contents)
    BY <1>0, <2>1, DropMiddle DEF Pipeline
  <2>3. rows \o Contents \in Seq(Item)
    BY <2>1, ConcatProperties
  <2> QED BY <1>1, <1>3, <2>2, <2>3
<1>4. ASSUME NEW c \in Conns, NEW x \in Item, Putting(c, x), Pipeline' = Append(Pipeline, x)
      PROVE  PipeInv'
  <2>1. PICK s \in Seq(Item) : s = Pipeline
    BY <1>0
  <2>2. /\ \A k \in 1 .. Len(s) : s[k].node = tip'[s[k].conn] /\ s[k].n <= Sent(s[k].conn)'
        /\ \A k, m \in 1 .. Len(s) : k < m /\ s[k].conn = s[m].conn => s[k].n < s[m].n
    BY <1>0, <2>1, PipeKept
  <2>3. tpc[c] = "put" /\ tip[c] \in IPs /\ tname[c] = tip[c]
    BY <1>4 DEF Putting, Put, IInv, PeerKnown, Found
  <2>4. tip'[c] = tip[c] /\ Sent(c)' = Sent(c) + 1 /\ Sent(c) \in Int
    BY <1>4, <2>3, CountsChange, CollectordConstants DEF Putting
  <2>5. x.node = tip'[c] /\ x.conn = c /\ x.n = Sent(c)' /\ x.n = Sent(c) + 1
    BY <1>4, <2>3, <2>4 DEF Putting, Sent
  <2>6. \A k \in 1 .. Len(s) : s[k].conn = c => s[k].n < x.n
    <3> SUFFICES ASSUME NEW k \in 1 .. Len(s), s[k].conn = c PROVE s[k].n < x.n
      OBVIOUS
    <3>1. s[k] \in Item /\ s[k].n <= Sent(c)
      BY <1>0, <2>1, ElementOfSeq DEF PipeOK
    <3>2. s[k].n \in Int
      BY <3>1, CollectordConstants DEF Item
    <3> QED BY <2>4, <2>5, <3>1, <3>2
  <2>7. PICK t \in Seq(Item) : t = Append(s, x)
    BY AppendProperties
  <2>8. /\ Len(t) = Len(s) + 1 /\ t[Len(s) + 1] = x /\ Len(s) \in Nat
        /\ \A k \in 1 .. Len(s) : t[k] = s[k]
    BY <2>7, AppendProperties, LenProperties
  <2>9. \A k \in 1 .. Len(t) : t[k].node = tip'[t[k].conn] /\ t[k].n <= Sent(t[k].conn)'
    <3> SUFFICES ASSUME NEW k \in 1 .. Len(t)
                 PROVE  t[k].node = tip'[t[k].conn] /\ t[k].n <= Sent(t[k].conn)'
      OBVIOUS
    <3>1. CASE k \in 1 .. Len(s)
      BY <2>2, <2>8, <3>1
    <3>2. CASE k = Len(s) + 1
      <4>1. t[k] = x
        BY <2>8, <3>2
      <4>2. x.n <= Sent(c)'
        BY <2>4, <2>5
      <4> QED BY <2>5, <4>1, <4>2
    <3>3. k \in 1 .. Len(s) \/ k = Len(s) + 1
      BY <2>8
    <3> QED BY <3>1, <3>2, <3>3
  <2>10. \A k, m \in 1 .. Len(t) : k < m /\ t[k].conn = t[m].conn => t[k].n < t[m].n
    <3> SUFFICES ASSUME NEW k \in 1 .. Len(t), NEW m \in 1 .. Len(t), k < m, t[k].conn = t[m].conn
                 PROVE  t[k].n < t[m].n
      OBVIOUS
    <3>1. k \in 1 .. Len(s) /\ t[k] = s[k]
      BY <2>8
    <3>2. CASE m \in 1 .. Len(s)
      BY <2>2, <2>8, <3>1, <3>2
    <3>3. CASE m = Len(s) + 1
      <4>1. t[m] = x
        BY <2>8, <3>3
      <4> QED BY <2>5, <2>6, <3>1, <4>1
    <3>4. m \in 1 .. Len(s) \/ m = Len(s) + 1
      BY <2>8
    <3> QED BY <3>2, <3>3, <3>4
  <2>11. Pipeline' = t
    BY <1>4, <2>1, <2>7
  <2> QED BY <2>9, <2>10, <2>11 DEF PipeInv, NamedBySender, ItemsOnceInOrder, NoneAhead, Sent
<1> QED BY <1>2, <1>3, <1>4, PipelineChange

\* The pipeline is empty at first.
LEMMA PipeInit == Init => PipeInv
<1> SUFFICES ASSUME Init PROVE PipeInv
  OBVIOUS
<1>1. Contents = <<>>
  <2>1. buffer \in [Places -> Item \cup {NoItem}] /\ start \in Places /\ end = start
    BY CollectordConstants DEF Init, Places
  <2> QED BY <2>1, ContentsIsRing, EmptyRing
<1>2. Pipeline = <<>>
  <2>1. rows = <<>> /\ batch = <<>>
    BY DEF Init
  <2>2. <<>> \o <<>> = <<>>
    BY EmptySeq, ConcatEmptySeq
  <2> QED BY <1>1, <2>1, <2>2 DEF Pipeline
<1> QED BY <1>2 DEF PipeInv, NamedBySender, ItemsOnceInOrder, NoneAhead

\* The facts hold in every reachable state.
LEMMA PipeInvariant == Spec => []PipeInv
BY PipeInit, PipeStep, Invariant, PTL DEF Spec

\* Every row, and every item on its way, carries the name of the node that
\* sent it, whatever becomes of that node's slot (d_recv.c, d_datas.c, d_db.c).
THEOREM RowsNamedBySender == Spec => []NamedBySender
<1>1. PipeInv => NamedBySender
  BY DEF PipeInv
<1> QED BY <1>1, PipeInvariant, PTL

\* No item is stored twice and the items of a connection are stored in order,
\* whatever the database refuses (d_recv.c, d_db.c).
THEOREM RowsOnceInOrder == Spec => []ItemsOnceInOrder
<1>1. PipeInv => ItemsOnceInOrder
  BY DEF PipeInv
<1> QED BY <1>1, PipeInvariant, PTL
=============================================================================
