-------------------------- MODULE TsceOrderProofs --------------------------
(***************************************************************************)
(* Theorems about what the buffers and the database writer of TsceServer   *)
(* do to the order and the times of a node's samples.                      *)
(***************************************************************************)
EXTENDS TsceServerProofs

\* The statements the database already has, and those that still carry a sample
\* of node n to it.
Sent == IF dbpc = "query" THEN db.x ELSE 0
Waits(n, i) == i > Sent /\ sql[i].row[n] # 0

\* Samples are numbered as they arrive: no number anywhere is ahead of arrivals.
Numbered(n) ==
  /\ rows[n].seq <= arrivals
  /\ \A i \in 1..Len(sql) : sql[i].row[n] <= arrivals
  /\ \A i \in 1..Len(node_data[n]) : node_data[n][i] <= arrivals

\* The samples in the buffer of n, oldest first.
BufferSorted(n) ==
  /\ \A i \in 1..Len(node_data[n]) : \A j \in 1..(i - 1) : node_data[n][j] < node_data[n][i]
  /\ \A i \in 1..Len(node_data[n]) : exist_recent[n] /\ node_data[n][i] <= recent[n]

\* What the database has of n is no newer than what is on its way.
StoredFirst(n) ==
  /\ \A i \in 1..Len(sql) : Waits(n, i) => rows[n].seq <= sql[i].row[n]
  /\ \A i \in 1..Len(node_data[n]) : rows[n].seq <= node_data[n][i]

\* What is on its way is sorted and no newer than the buffer.
StatementsSorted(n) ==
  /\ \A i, j \in 1..Len(sql) :
       Waits(n, i) /\ Waits(n, j) /\ i < j => sql[i].row[n] <= sql[j].row[n]
  /\ \A i \in 1..Len(node_data[n]) : \A j \in 1..Len(sql) :
       Waits(n, j) => sql[j].row[n] <= node_data[n][i]

OrderOf(n) == Numbered(n) /\ BufferSorted(n) /\ StoredFirst(n) /\ StatementsSorted(n)
OInv == \A n \in Nodes : OrderOf(n)

\* Outside a round thread_db holds no statement; within one, statement i is for
\* the time n - i + 1 intervals before the round's.
RoundPc == {"scan", "unlock", "query"}
TimeOf(i) == db.t + (i - 1 - db.n) * INTERVAL
StatementTimes ==
  /\ dbpc \notin RoundPc \/ db.n = 0 => sql = <<>>
  /\ \A i \in 1..Len(sql) : sql[i].time = TimeOf(i)

\* A statement with a row is later than last_db_time, and that is no earlier
\* than any row, except the rows the round in hand has just stored.
LastTime ==
  /\ \A i \in 1..Len(sql) : \A n \in Nodes : sql[i].row[n] # 0 => db.last < sql[i].time
  /\ \A n \in Nodes : \/ rows[n].time <= db.last
                      \/ dbpc = "query" /\ rows[n].time <= TimeOf(db.x)

\* last_db_time stays an interval behind the clock and the round's time.
ClockAhead ==
  /\ INTERVAL <= clock
  /\ db.t <= clock
  /\ db.last + INTERVAL <= clock
  /\ dbpc \in RoundPc /\ db.n > 0 => db.last + INTERVAL <= db.t

SessionInv == StatementTimes /\ LastTime /\ ClockAhead

\* RowsInOrder and RecentIsNewest are what OInv says of the samples' order.
LEMMA OInvOrder == OInv => RecentIsNewest /\ RowsInOrder
<1> SUFFICES ASSUME OInv PROVE RecentIsNewest /\ RowsInOrder
  OBVIOUS
<1>1. RecentIsNewest
  BY DEF RecentIsNewest, OInv, OrderOf, BufferSorted
<1>2. ASSUME NEW n \in Nodes
      PROVE  LET pending == {i \in 1..Len(sql) : i > (IF dbpc = "query" THEN db.x ELSE 0)
                                                  /\ sql[i].row[n] # 0}
             IN /\ \A i \in pending : rows[n].seq <= sql[i].row[n]
                /\ \A i, j \in pending : i < j => sql[i].row[n] <= sql[j].row[n]
                /\ \A i \in 1..Len(node_data[n]) :
                     /\ rows[n].seq <= node_data[n][i]
                     /\ \A j \in pending : sql[j].row[n] <= node_data[n][i]
                     /\ \A j \in 1..(i - 1) : node_data[n][j] < node_data[n][i]
  <2> DEFINE pending == {i \in 1..Len(sql) : i > Sent /\ sql[i].row[n] # 0}
  <2>0. OrderOf(n)
    BY DEF OInv
  <2>1. \A i \in pending : i \in 1..Len(sql) /\ Waits(n, i)
    BY DEF Waits
  <2> HIDE DEF pending
  <2>2. \A i \in pending : rows[n].seq <= sql[i].row[n]
    BY <2>0, <2>1 DEF OrderOf, StoredFirst
  <2>3. \A i, j \in pending : i < j => sql[i].row[n] <= sql[j].row[n]
    BY <2>0, <2>1 DEF OrderOf, StatementsSorted
  <2>4. ASSUME NEW i \in 1..Len(node_data[n])
        PROVE  /\ rows[n].seq <= node_data[n][i]
               /\ \A j \in pending : sql[j].row[n] <= node_data[n][i]
               /\ \A j \in 1..(i - 1) : node_data[n][j] < node_data[n][i]
    BY <2>0, <2>1 DEF OrderOf, StoredFirst, StatementsSorted, BufferSorted
  <2>5. QED BY <2>2, <2>3, <2>4 DEF pending, Sent
<1>3. RowsInOrder
  BY <1>2 DEF RowsInOrder
<1>4. QED BY <1>1, <1>3

\* The types the order is about.
LEMMA SampleTypes ==
  ASSUME IInv, NEW n \in Nodes
  PROVE  /\ node_data[n] \in Seq(Nat \ {0}) /\ arrivals \in Nat /\ recent[n] \in Nat
         /\ sql \in Seq(Statements) /\ rows[n] \in Rows /\ rows[n].seq \in Nat
         /\ \A i \in 1..Len(sql) : sql[i].row[n] \in Nat
         /\ db.x \in Nat /\ db.n \in Nat /\ db.k \in Nodes
<1>1. BufferType /\ DbType /\ EnvType
  BY DEF IInv, TypeOK
<1>2. db.x \in Nat /\ db.n \in Nat /\ db.k \in Nodes
  BY <1>1 DEF DbType, DbLocals
<1>3. sql \in Seq(Statements) /\ rows[n] \in Rows
  BY <1>1 DEF DbType
<1>4. rows[n].seq \in Nat
  BY <1>3 DEF Rows
<1>5. ASSUME NEW i \in 1..Len(sql) PROVE sql[i].row[n] \in Nat
  <2>1. sql[i] \in Statements
    BY <1>3
  <2>2. QED BY <2>1 DEF Statements
<1>6. QED BY <1>1, <1>2, <1>3, <1>4, <1>5 DEF BufferType, EnvType

\* A step that changes nothing a node's order is about.
LEMMA OrderFrame ==
  ASSUME NEW n \in Nodes, OrderOf(n), UNCHANGED <<arrivals, sql>>, Sent' = Sent,
         rows'[n].seq = rows[n].seq, node_data'[n] = node_data[n],
         recent'[n] = recent[n], exist_recent'[n] = exist_recent[n]
  PROVE  OrderOf(n)'
<1>1. \A i : Waits(n, i)' <=> Waits(n, i)
  BY DEF Waits
<1>2. QED BY <1>1 DEF OrderOf, Numbered, BufferSorted, StoredFirst, StatementsSorted

\* The same when packets for other nodes have arrived.
LEMMA OrderArrival ==
  ASSUME IInv, NEW n \in Nodes, OrderOf(n), arrivals' = arrivals + 1, UNCHANGED dbvars,
         node_data'[n] = node_data[n],
         recent'[n] = recent[n], exist_recent'[n] = exist_recent[n]
  PROVE  OrderOf(n)'
<1>0. sql' = sql /\ rows' = rows /\ Sent' = Sent
  BY DEF dbvars, Sent
<1>1. \A i : Waits(n, i)' <=> Waits(n, i)
  BY <1>0 DEF Waits
<1>2. Numbered(n)'
  BY <1>0, SampleTypes DEF OrderOf, Numbered
<1>3. QED BY <1>0, <1>1, <1>2 DEF OrderOf, BufferSorted, StoredFirst, StatementsSorted

\* clear_node: nothing waits in the buffer any more.
LEMMA OrderCleared ==
  ASSUME NEW n \in Nodes, OrderOf(n), UNCHANGED <<arrivals, dbvars>>, node_data'[n] = <<>>
  PROVE  OrderOf(n)'
<1>0. sql' = sql /\ rows' = rows /\ Sent' = Sent
  BY DEF dbvars, Sent
<1>1. \A i : Waits(n, i)' <=> Waits(n, i)
  BY <1>0 DEF Waits
<1>2. Len(node_data'[n]) = 0
  OBVIOUS
<1>3. QED BY <1>0, <1>1, <1>2 DEF OrderOf, Numbered, BufferSorted, StoredFirst, StatementsSorted

\* A packet is stored: it is newer than all there is, and most recent.
LEMMA OrderStored ==
  ASSUME IInv, NEW n \in Nodes, OrderOf(n), UNCHANGED dbvars, arrivals' = arrivals + 1,
         put_data_in_buffer(n, arrivals + 1), set_node_recent_data(n, arrivals + 1)
  PROVE  OrderOf(n)'
<1> DEFINE a == arrivals + 1
           L == node_data[n]
<1>0. sql' = sql /\ rows' = rows /\ Sent' = Sent
  BY DEF dbvars, Sent
<1>1. \A i : Waits(n, i)' <=> Waits(n, i)
  BY <1>0 DEF Waits
<1>2. /\ L \in Seq(Nat \ {0}) /\ arrivals \in Nat /\ rows[n].seq \in Nat
      /\ \A i \in 1..Len(sql) : sql[i].row[n] \in Nat
  BY SampleTypes
<1>3. /\ rows[n].seq <= arrivals
      /\ \A i \in 1..Len(sql) : sql[i].row[n] <= arrivals
      /\ \A i \in 1..Len(L) : L[i] \in Nat /\ L[i] <= arrivals
  BY <1>2 DEF OrderOf, Numbered
<1>4. recent'[n] = a /\ exist_recent'[n]
  BY DEF set_node_recent_data, IInv, TypeOK, BufferType
<1>5. CASE node_data' = node_data
  <2>1. Numbered(n)' /\ BufferSorted(n)'
    BY <1>0, <1>2, <1>3, <1>4, <1>5 DEF OrderOf, Numbered, BufferSorted
  <2>2. QED BY <1>0, <1>1, <1>5, <2>1 DEF OrderOf, StoredFirst, StatementsSorted
<1>6. CASE node_data' = [node_data EXCEPT ![n] = Append(@, a)]
  <2>1. node_data'[n] = Append(L, a)
    BY <1>6 DEF IInv, TypeOK, BufferType
  <2>2. /\ Len(node_data'[n]) = Len(L) + 1 /\ Len(L) \in Nat
        /\ \A i \in 1..Len(L) : node_data'[n][i] = L[i]
        /\ node_data'[n][Len(L) + 1] = a
    BY <1>2, <2>1
  <2> HIDE DEF L
  <2>3. \A i \in 1..(Len(L) + 1) : /\ node_data'[n][i] \in Nat /\ node_data'[n][i] <= a
                                   /\ i \in 1..Len(L) \/ node_data'[n][i] = a
    BY <1>2, <1>3, <2>2
  <2>4. Numbered(n)'
    BY <1>0, <1>2, <1>3, <2>2, <2>3 DEF Numbered
  <2>5. BufferSorted(n)'
    <3>1. ASSUME NEW i \in 1..(Len(L) + 1), NEW j \in 1..(i - 1)
          PROVE  node_data'[n][j] < node_data'[n][i]
      <4>1. j \in 1..Len(L) /\ node_data'[n][j] = L[j] /\ L[j] <= arrivals /\ L[j] \in Nat
        BY <1>3, <2>2
      <4>2. CASE i \in 1..Len(L)
        BY <2>2, <4>1, <4>2 DEF OrderOf, BufferSorted, L
      <4>3. CASE node_data'[n][i] = a
        BY <1>2, <4>1, <4>3
      <4>4. QED BY <2>3, <4>2, <4>3
    <3>2. QED BY <1>4, <2>2, <2>3, <3>1 DEF BufferSorted
  <2>6. ASSUME NEW i \in 1..(Len(L) + 1)
        PROVE  /\ rows[n].seq <= node_data'[n][i]
               /\ \A j \in 1..Len(sql) : Waits(n, j) => sql[j].row[n] <= node_data'[n][i]
    <3>1. CASE i \in 1..Len(L)
      BY <2>2, <3>1 DEF OrderOf, StoredFirst, StatementsSorted, L
    <3>2. CASE node_data'[n][i] = a
      BY <1>2, <1>3, <3>2
    <3>3. QED BY <2>3, <3>1, <3>2
  <2>7. StoredFirst(n)' /\ StatementsSorted(n)'
    BY <1>0, <1>1, <2>2, <2>6 DEF OrderOf, StoredFirst, StatementsSorted
  <2>8. QED BY <2>4, <2>5, <2>7 DEF OrderOf
<1>7. QED BY <1>5, <1>6 DEF put_data_in_buffer

-----------------------------------------------------------------------------
(* A step of the loop over statements and nodes.                            *)

\* A node of a statement is handled: its first sample may leave the buffer, and
\* the statement keeps its sample of the node, or has none, or gets that one.
LEMMA OrderScanned ==
  ASSUME IInv, NEW n \in Nodes, OrderOf(n), dbpc = "scan", ScanStep,
         NEW st, SetStatement(st), rows' = rows, arrivals' = arrivals,
         recent'[n] = recent[n], exist_recent'[n] = exist_recent[n],
         \/ node_data'[n] = node_data[n]
         \/ node_data[n] # <<>> /\ node_data'[n] = Tail(node_data[n]),
         \/ st.row[n] = 0
         \/ db.k # 1 /\ st.row[n] = sql[db.x + 1].row[n]
         \/ node_data[n] # <<>> /\ st.row[n] = Head(node_data[n])
  PROVE  OrderOf(n)'
<1> DEFINE L == node_data[n]
           M == node_data'[n]
           s(i) == sql[i].row[n]
           r == rows[n].seq
<1>1. /\ L \in Seq(Nat \ {0}) /\ arrivals \in Nat /\ recent[n] \in Nat
      /\ sql \in Seq(Statements) /\ r \in Nat
      /\ \A i \in 1..Len(sql) : s(i) \in Nat
      /\ db.x \in Nat /\ db.n \in Nat /\ db.k \in Nodes
  BY SampleTypes
<1>2. db.x < db.n /\ Len(sql) = IF db.k = 1 THEN db.x ELSE db.x + 1
  BY DEF IInv, SqlLength
<1>3. dbpc' \in {"scan", "unlock"}
  BY DEF ScanStep
<1>4. Sent = 0 /\ Sent' = 0
  BY <1>3 DEF Sent
<1>5. /\ sql' = [i \in 1..(db.x + 1) |-> IF i = db.x + 1 THEN st ELSE sql[i]]
      /\ Len(sql') = db.x + 1
  BY <1>1 DEF SetStatement
\* What the node's old samples are, as far as they matter here.
<1>6. /\ r <= arrivals
      /\ \A i \in 1..Len(sql) : s(i) <= arrivals
      /\ \A i \in 1..Len(sql) : s(i) # 0 => r <= s(i)
      /\ \A i, j \in 1..Len(sql) : s(i) # 0 /\ s(j) # 0 /\ i < j => s(i) <= s(j)
  BY <1>4 DEF OrderOf, Numbered, StoredFirst, StatementsSorted, Waits
<1>7. /\ \A i \in 1..Len(L) : /\ L[i] \in Nat /\ L[i] <= arrivals /\ r <= L[i]
                              /\ exist_recent[n] /\ L[i] <= recent[n]
                              /\ \A j \in 1..Len(sql) : s(j) # 0 => s(j) <= L[i]
      /\ \A i \in 1..Len(L) : \A j \in 1..(i - 1) : L[j] < L[i]
  BY <1>1, <1>4 DEF OrderOf, Numbered, BufferSorted, StoredFirst, StatementsSorted, Waits
\* The samples left in the buffer are old ones, in their order.
<1>8. \E d \in {0, 1} : /\ Len(L) \in Nat /\ Len(M) = Len(L) - d
                        /\ \A i \in 1..Len(M) : i + d \in 1..Len(L) /\ M[i] = L[i + d]
  <2>1. CASE M = L
    BY <1>1, <2>1
  <2>2. CASE L # <<>> /\ M = Tail(L)
    <3>1. ASSUME NEW q \in Seq(Nat \ {0}), q # <<>>
          PROVE  /\ Len(q) \in Nat /\ Len(Tail(q)) = Len(q) - 1
                 /\ \A i \in 1..Len(Tail(q)) : i + 1 \in 1..Len(q) /\ Tail(q)[i] = q[i + 1]
      BY <3>1
    <3>2. QED BY <1>1, <2>2, <3>1
  <2>3. QED BY <2>1, <2>2
\* The statement's new value.
<1>9. \/ st.row[n] = 0
      \/ db.x + 1 \in 1..Len(sql) /\ st.row[n] = s(db.x + 1)
      \/ 1 \in 1..Len(L) /\ st.row[n] = L[1]
  <2>1. L # <<>> => 1 \in 1..Len(L) /\ Head(L) = L[1]
    BY <1>1
  <2>2. db.k # 1 => db.x + 1 \in 1..Len(sql)
    BY <1>1, <1>2
  <2>3. QED BY <2>1, <2>2
<1> HIDE DEF L, M, r, s
<1>10. /\ st.row[n] \in Nat /\ st.row[n] <= arrivals
       /\ st.row[n] # 0 => r <= st.row[n]
       /\ st.row[n] # 0 => \A i \in 1..db.x : s(i) # 0 => s(i) <= st.row[n]
       /\ \A i \in 1..Len(L) : st.row[n] <= L[i]
  <2>1. ASSUME NEW i \in 1..Len(L) PROVE L[1] <= L[i]
    <3>1. CASE i = 1
      BY <1>7, <3>1
    <3>2. CASE i # 1
      <4>1. 1 \in 1..(i - 1) /\ 1 \in 1..Len(L)
        BY <1>1, <3>2
      <4>2. L[1] < L[i] /\ L[1] \in Nat /\ L[i] \in Nat
        BY <1>7, <4>1
      <4>3. QED BY <4>2
    <3>3. QED BY <3>1, <3>2
  <2>2. \A i \in 1..db.x : i \in 1..Len(sql)
    BY <1>1, <1>2
  <2>3. CASE st.row[n] = 0
    BY <1>1, <1>7, <2>3
  <2>4. CASE db.x + 1 \in 1..Len(sql) /\ st.row[n] = s(db.x + 1)
    BY <1>1, <1>6, <1>7, <2>2, <2>4
  <2>5. CASE 1 \in 1..Len(L) /\ st.row[n] = L[1]
    BY <1>1, <1>7, <2>1, <2>2, <2>5
  <2>6. QED BY <1>9, <2>3, <2>4, <2>5
\* The statements after the step.
<1>11. \A i \in 1..(db.x + 1) :
          \/ i \in 1..db.x /\ i \in 1..Len(sql) /\ sql'[i].row[n] = s(i)
          \/ i = db.x + 1 /\ sql'[i].row[n] = st.row[n]
  BY <1>1, <1>2, <1>5 DEF s
<1>12. \A i \in 1..(db.x + 1) : /\ sql'[i].row[n] \in Nat
                                /\ sql'[i].row[n] <= arrivals
                                /\ sql'[i].row[n] # 0 => r <= sql'[i].row[n]
                                /\ sql'[i].row[n] # 0 =>
                                     \A j \in 1..Len(L) : sql'[i].row[n] <= L[j]
  <2>1. SUFFICES ASSUME NEW i \in 1..(db.x + 1), NEW v, v = sql'[i].row[n]
                 PROVE  /\ v \in Nat /\ v <= arrivals
                        /\ v # 0 => r <= v
                        /\ v # 0 => \A j \in 1..Len(L) : v <= L[j]
    OBVIOUS
  <2>2. CASE i \in 1..Len(sql) /\ v = s(i)
    BY <1>1, <1>6, <1>7, <2>2
  <2>3. CASE v = st.row[n]
    BY <1>10, <2>3
  <2>4. QED BY <1>11, <2>1, <2>2, <2>3
<1>13. \A i, j \in 1..(db.x + 1) : sql'[i].row[n] # 0 /\ sql'[j].row[n] # 0 /\ i < j
                                    => sql'[i].row[n] <= sql'[j].row[n]
  <2>1. SUFFICES ASSUME NEW i \in 1..(db.x + 1), NEW j \in 1..(db.x + 1), i < j,
                        NEW v, v = sql'[i].row[n], NEW w, w = sql'[j].row[n], v # 0, w # 0
                 PROVE  v <= w
    OBVIOUS
  <2>2. i \in 1..db.x /\ i \in 1..Len(sql) /\ v = s(i)
    BY <1>1, <1>11, <2>1
  <2>3. CASE j \in 1..Len(sql) /\ w = s(j)
    BY <1>6, <2>1, <2>2, <2>3
  <2>4. CASE w = st.row[n]
    BY <1>10, <2>1, <2>2, <2>4
  <2>5. QED BY <1>11, <2>1, <2>3, <2>4
<1>14. PICK d \in {0, 1} : /\ Len(L) \in Nat /\ Len(M) = Len(L) - d
                           /\ \A i \in 1..Len(M) : i + d \in 1..Len(L) /\ M[i] = L[i + d]
  BY <1>8
<1>15. \A i \in 1..Len(M) : \A j \in 1..(i - 1) : M[j] < M[i]
  <2>1. SUFFICES ASSUME NEW i \in 1..Len(M), NEW j \in 1..(i - 1) PROVE M[j] < M[i]
    OBVIOUS
  <2>2. j \in 1..Len(M)
    BY <1>14
  <2>3. j + d \in 1..((i + d) - 1)
    BY <1>14
  <2>4. QED BY <1>7, <1>14, <2>2, <2>3
<1>16. Numbered(n)'
  BY <1>5, <1>6, <1>7, <1>12, <1>14 DEF Numbered, M, r
<1>17. BufferSorted(n)'
  BY <1>7, <1>14, <1>15 DEF BufferSorted, M
<1>18. StoredFirst(n)'
  BY <1>5, <1>7, <1>12, <1>14 DEF StoredFirst, Waits, M, r
<1>19. StatementsSorted(n)'
  BY <1>5, <1>12, <1>13, <1>14 DEF StatementsSorted, Waits, M
<1>20. QED BY <1>16, <1>17, <1>18, <1>19 DEF OrderOf

\* A statement is sent: its row is stored or lost, and waits no more.
LEMMA OrderQueried ==
  ASSUME IInv, NEW n \in Nodes, OrderOf(n), DbQuery
  PROVE  OrderOf(n)'
<1> DEFINE end == db.x + 1 >= db.n
           s(i) == sql[i].row[n]
<1>1. PICK ok \in BOOLEAN :
        /\ rows' = [m \in Nodes |-> IF ok /\ sql[db.x + 1].row[m] # 0
                         THEN [seq |-> sql[db.x + 1].row[m], time |-> sql[db.x + 1].time]
                         ELSE rows[m]]
        /\ IF end THEN EndRound(~ok) ELSE dbpc' = "query"
        /\ db' = [db EXCEPT !.reconnect = ~ok, !.x = IF end THEN 0 ELSE db.x + 1,
                            !.last = IF end THEN LastDbTime ELSE db.last]
        /\ sql' = IF end THEN <<>> ELSE sql
  BY DEF DbQuery
<1>2. /\ UNCHANGED bufvars /\ arrivals' = arrivals /\ dbpc = "query"
      /\ db \in DbLocals
  BY DEF DbQuery, envvars, IInv, TypeOK, DbType
<1>3. /\ sql \in Seq(Statements) /\ rows[n].seq \in Nat
      /\ \A i \in 1..Len(sql) : s(i) \in Nat
      /\ db.x \in Nat /\ db.n \in Nat
  BY SampleTypes
<1>4. db.x < db.n /\ Len(sql) = db.n
  BY <1>2 DEF IInv, SqlLength
<1>5. db.x + 1 \in 1..Len(sql) /\ Sent = db.x
  BY <1>2, <1>3, <1>4 DEF Sent
<1>6. /\ rows[n].seq <= arrivals
      /\ \A i \in 1..Len(sql) : s(i) <= arrivals
      /\ \A i \in 1..Len(sql) : i > db.x /\ s(i) # 0 => rows[n].seq <= s(i)
      /\ \A i, j \in 1..Len(sql) :
           i > db.x /\ s(i) # 0 /\ j > db.x /\ s(j) # 0 /\ i < j => s(i) <= s(j)
  BY <1>5 DEF OrderOf, Numbered, StoredFirst, StatementsSorted, Waits
<1>7. /\ node_data'[n] = node_data[n] /\ recent' = recent /\ exist_recent' = exist_recent
      /\ \A i \in 1..Len(node_data[n]) :
            /\ node_data[n][i] <= arrivals /\ rows[n].seq <= node_data[n][i]
            /\ \A j \in 1..Len(sql) : j > db.x /\ s(j) # 0 => s(j) <= node_data[n][i]
  BY <1>2, <1>5 DEF OrderOf, Numbered, StoredFirst, StatementsSorted, Waits, bufvars
<1>8. rows'[n].seq = IF ok /\ s(db.x + 1) # 0 THEN s(db.x + 1) ELSE rows[n].seq
  BY <1>1
<1>9. BufferSorted(n)'
  BY <1>7 DEF OrderOf, BufferSorted
<1> HIDE DEF s, end
<1>10. /\ rows'[n].seq <= arrivals
       /\ \A i \in 1..Len(node_data[n]) : rows'[n].seq <= node_data[n][i]
       /\ \A i \in 1..Len(sql) : i > db.x + 1 /\ s(i) # 0 => rows'[n].seq <= s(i)
  BY <1>3, <1>5, <1>6, <1>7, <1>8
<1>11. CASE end
  <2>1. sql' = <<>> /\ Len(sql') = 0
    BY <1>1, <1>11
  <2>2. QED BY <1>2, <1>7, <1>9, <1>10, <2>1
    DEF OrderOf, Numbered, StoredFirst, StatementsSorted
<1>12. CASE ~end
  <2>1. sql' = sql /\ dbpc' = "query" /\ Sent' = db.x + 1
    BY <1>1, <1>2, <1>12 DEF Sent, DbLocals
  <2>2. \A i \in 1..Len(sql) : Waits(n, i)' <=> i > db.x + 1 /\ s(i) # 0
    BY <2>1 DEF Waits, s
  <2>3. \A i \in 1..Len(sql) : i > db.x + 1 => i > db.x
    BY <1>3
  <2>4. Numbered(n)'
    BY <1>2, <1>6, <1>7, <1>10, <2>1 DEF Numbered, s
  <2>5. StoredFirst(n)'
    BY <1>7, <1>10, <2>1, <2>2 DEF StoredFirst, s
  <2>6. StatementsSorted(n)'
    BY <1>6, <1>7, <2>1, <2>2, <2>3 DEF StatementsSorted, s
  <2>7. QED BY <1>9, <2>4, <2>5, <2>6 DEF OrderOf
<1>13. QED BY <1>11, <1>12

-----------------------------------------------------------------------------
(* Every step.                                                              *)

\* A step of the accept loop, of a query thread or of the clock.
LEMMA OrderElsewhere ==
  ASSUME OInv, UNCHANGED <<bufvars, dbvars, arrivals>>
  PROVE  OInv'
BY OrderFrame DEF OInv, bufvars, dbvars, Sent

\* The steps of all the others leave alone what the order is about.
LEMMA StepElsewhere ==
  ASSUME \/ \E c \in Conns : Accept(c) \/ Handshake(c) \/ Rtd(c)
         \/ AcceptAborted \/ AcceptFails \/ HelloFails \/ Tick \/ UNCHANGED vars
  PROVE  UNCHANGED <<bufvars, dbvars, arrivals>> /\ (UNCHANGED clock \/ Tick)
<1>1. ASSUME NEW c \in Conns, Accept(c) \/ Handshake(c) \/ Rtd(c)
      PROVE  UNCHANGED <<bufvars, dbvars, arrivals, clock>>
  BY <1>1 DEF Accept, Handshake, Rtd, RtdAdmit, RtdNoData, handle_get_status, handle_exit,
    handle_request_data, UnknownIndex, RtdLock, RtdStatus, RtdAssert, RtdUnlock, RtdDone, envvars
<1>2. ASSUME AcceptAborted \/ AcceptFails \/ HelloFails \/ Tick \/ UNCHANGED vars
      PROVE  UNCHANGED <<bufvars, dbvars, arrivals>> /\ (UNCHANGED clock \/ Tick)
  BY <1>2 DEF AcceptAborted, AcceptFails, HelloFails, Tick, vars, envvars
<1>3. QED BY <1>1, <1>2

\* A step of a receiver.
LEMMA OrderRecv ==
  ASSUME IInv, OInv, NEW c \in Conns, Recv(c)
  PROVE  OInv'
<1>1. CASE UNCHANGED <<bufvars, dbvars, arrivals>>
  BY <1>1, OrderElsewhere
<1>2. CASE RecvExit(c)
  <2>1. tnode[c] \in Nodes
    BY <1>2 DEF RecvExit, IInv, ReceiverNode
  <2>2. SUFFICES ASSUME NEW n \in Nodes PROVE OrderOf(n)'
    BY DEF OInv
  <2>3. OrderOf(n) /\ UNCHANGED <<arrivals, dbvars>> /\ node_data \in [Nodes -> Seq(Nat \ {0})]
    BY <1>2 DEF OInv, RecvExit, envvars, IInv, TypeOK, BufferType
  <2>4. CASE n = tnode[c]
    BY <1>2, <2>3, <2>4, OrderCleared DEF RecvExit, clear_node
  <2>5. CASE n # tnode[c]
    <3>1. /\ node_data'[n] = node_data[n] /\ recent'[n] = recent[n]
          /\ exist_recent'[n] = exist_recent[n]
      BY <1>2, <2>1, <2>5 DEF RecvExit, clear_node, IInv, TypeOK, BufferType
    <3>2. QED BY <2>3, <3>1, OrderFrame DEF dbvars, Sent
  <2>6. QED BY <2>4, <2>5
<1>3. CASE RecvStore(c)
  <2>1. tnode[c] \in Nodes
    BY <1>3 DEF RecvStore, IInv, ReceiverNode, RecvLive
  <2>2. SUFFICES ASSUME NEW n \in Nodes PROVE OrderOf(n)'
    BY DEF OInv
  <2>3. OrderOf(n) /\ UNCHANGED dbvars /\ BufferType
    BY <1>3 DEF OInv, RecvStore, IInv, TypeOK
  <2>4. CASE clear_node(tnode[c]) /\ UNCHANGED arrivals
    <3>1. CASE n = tnode[c]
      BY <2>3, <2>4, <3>1, OrderCleared DEF clear_node, BufferType
    <3>2. CASE n # tnode[c]
      <4>1. /\ node_data'[n] = node_data[n] /\ recent'[n] = recent[n]
            /\ exist_recent'[n] = exist_recent[n]
        BY <2>1, <2>3, <2>4, <3>2 DEF clear_node, BufferType
      <4>2. QED BY <2>3, <2>4, <4>1, OrderFrame DEF dbvars, Sent
    <3>3. QED BY <3>1, <3>2
  <2>5. CASE /\ put_data_in_buffer(tnode[c], arrivals + 1)
             /\ set_node_recent_data(tnode[c], arrivals + 1)
             /\ arrivals' = arrivals + 1
    <3>1. CASE n = tnode[c]
      BY <2>3, <2>5, <3>1, OrderStored
    <3>2. CASE n # tnode[c]
      <4>1. node_data'[n] = node_data[n]
        BY <2>1, <2>3, <2>5, <3>2 DEF put_data_in_buffer, BufferType
      <4>2. recent'[n] = recent[n] /\ exist_recent'[n] = exist_recent[n]
        BY <2>1, <2>3, <2>5, <3>2 DEF set_node_recent_data, BufferType
      <4>3. QED BY <2>3, <2>5, <4>1, <4>2, OrderArrival
    <3>3. QED BY <3>1, <3>2
  <2>6. QED BY <1>3, <2>4, <2>5 DEF RecvStore
<1>4. QED BY <1>1, <1>2, <1>3
  DEF Recv, RecvStart, RecvTimeout, RecvEnds, RecvData, bufvars, dbvars, envvars

\* A node of a statement: the head of the buffer goes, or nothing.
LEMMA PopOrder ==
  ASSUME BufferType, BufferBound, NEW k \in Nodes, NEW n \in Nodes, pop_first(k)
  PROVE  /\ recent'[n] = recent[n] /\ exist_recent'[n] = exist_recent[n]
         /\ n # k => node_data'[n] = node_data[n]
         /\ \/ node_data'[n] = node_data[n]
            \/ node_data[n] # <<>> /\ node_data'[n] = Tail(node_data[n])
<1>1. CASE data_count[k] > 1
  <2>1. node_data' = [node_data EXCEPT ![k] = Tail(@)]
    BY <1>1 DEF pop_first
  <2>2. Len(node_data[k]) = data_count[k] /\ node_data[k] \in Seq(Nat \ {0})
    BY DEF BufferBound, BufferType
  <2>3. node_data[k] # <<>>
    BY <1>1, <2>2
  <2>4. QED BY <2>1, <2>3 DEF BufferType, pop_first
<1>2. CASE ~(data_count[k] > 1)
  BY <1>2 DEF pop_first
<1>3. QED BY <1>1, <1>2

\* A statement in hand, extended by the scan, keeps its type.
LEMMA StatementTyped == ASSUME IInv, dbpc = "scan" PROVE Statement \in Statements
<1>1. /\ db.k \in Nodes /\ db.n \in Nat /\ db.x \in Nat /\ db.t \in Nat
      /\ sql \in Seq(Statements) /\ INTERVAL \in Nat
  BY ConstantsTyped DEF IInv, TypeOK, DbType, DbLocals
<1>2. CASE db.k = 1
  <2>1. DataTime \in Int
    BY <1>1 DEF DataTime
  <2>2. QED BY <1>2, <2>1 DEF Statement, Statements
<1>3. CASE db.k # 1
  <2>1. Len(sql) = db.x + 1
    BY <1>3 DEF IInv, SqlLength
  <2>2. db.x + 1 \in 1..Len(sql)
    BY <1>1, <2>1
  <2>3. QED BY <1>1, <1>3, <2>2 DEF Statement
<1>4. QED BY <1>2, <1>3

\* A step of thread_db.
LEMMA OrderDb ==
  ASSUME IInv, OInv, Db
  PROVE  OInv'
<1>0. BufferType /\ BufferBound /\ DbType
  BY DEF IInv, TypeOK
<1>1. SUFFICES ASSUME NEW n \in Nodes PROVE OrderOf(n)'
  BY DEF OInv
<1>2. OrderOf(n) /\ db.k \in Nodes /\ db \in DbLocals /\ rows \in [Nodes -> Rows]
  BY <1>0, SampleTypes DEF OInv, DbType
<1>3. ASSUME UNCHANGED <<bufvars, sql, arrivals>>, rows'[n].seq = rows[n].seq,
             dbpc # "query", dbpc' = "query" => db'.x = 0
      PROVE  OrderOf(n)'
  <2>1. Sent' = Sent
    BY <1>3 DEF Sent
  <2>2. QED BY <1>2, <1>3, <2>1, OrderFrame DEF bufvars
<1>4. CASE DbConnect
  <2>1. rows'[n].seq = rows[n].seq
    BY <1>2, <1>4 DEF DbConnect, Rows
  <2>2. QED BY <1>3, <1>4, <2>1 DEF DbConnect
<1>5. CASE DbLock \/ DbFirst \/ DbWake
  BY <1>3, <1>5 DEF DbLock, DbFirst, DbWake, envvars
<1>6. CASE DbMin
  <2>1. /\ sql' = <<>> /\ rows' = rows /\ UNCHANGED bufvars /\ arrivals' = arrivals
        /\ Len(sql') = 0
    BY <1>6 DEF DbMin, envvars
  <2>2. QED BY <1>2, <2>1
    DEF OrderOf, Numbered, BufferSorted, StoredFirst, StatementsSorted, bufvars
<1>m. CASE DbNoMemory
  BY <1>3, <1>m DEF DbNoMemory, dbvars
<1>7. CASE DbUnlock
  <2>1. dbpc' = "query" => db'.x = 0
    BY <1>2, <1>7 DEF DbUnlock, DbLocals
  <2>2. QED BY <1>3, <1>7, <2>1 DEF DbUnlock, envvars
<1>8. CASE DbQuery
  BY <1>2, <1>8, OrderQueried
<1>9. Statement.row[n] = 0 \/ (db.k # 1 /\ Statement.row[n] = sql[db.x + 1].row[n])
  BY DEF Statement
<1>10. ASSUME dbpc = "scan", ScanStep, UNCHANGED <<bufvars, rows, arrivals>>,
              SetStatement(Statement)
       PROVE  OrderOf(n)'
  BY <1>2, <1>9, <1>10, OrderScanned DEF bufvars
<1>11. CASE DbDiscard
  <2>1. CASE pop_first(db.k)
    BY <1>0, <1>2, <1>9, <1>11, <2>1, PopOrder, OrderScanned DEF DbDiscard, envvars
  <2>2. CASE UNCHANGED bufvars
    BY <1>10, <1>11, <2>2 DEF DbDiscard, envvars
  <2>3. QED BY <1>11, <2>1, <2>2 DEF DbDiscard
<1>12. CASE DbConvert
  <2> DEFINE st == [Statement EXCEPT !.row[db.k] = Head(node_data[db.k])]
  <2>0. dbpc = "scan" /\ rows' = rows /\ arrivals' = arrivals
    BY <1>12 DEF DbConvert
  <2>1. CASE SetStatement(Statement) /\ ScanStep /\ UNCHANGED bufvars
    BY <1>10, <2>0, <2>1
  <2>2. CASE node_data[db.k] # <<>> /\ SetStatement(st) /\ pop_first(db.k) /\ ScanStep
    <3>1. Statement \in Statements
      BY <2>0, StatementTyped
    <3>2. /\ n = db.k => st.row[n] = Head(node_data[n])
          /\ n # db.k => st.row[n] = Statement.row[n]
      BY <1>2, <3>1 DEF Statements
    <3> HIDE DEF st
    <3>3. /\ recent'[n] = recent[n] /\ exist_recent'[n] = exist_recent[n]
          /\ n # db.k => node_data'[n] = node_data[n]
          /\ \/ node_data'[n] = node_data[n]
             \/ node_data[n] # <<>> /\ node_data'[n] = Tail(node_data[n])
      BY <1>0, <1>2, <2>2, PopOrder
    <3>4. QED BY <1>2, <1>9, <2>0, <2>2, <3>2, <3>3, OrderScanned
  <2>3. CASE UNCHANGED <<bufvars, dbpc, db, sql>>
    BY <1>3, <2>0, <2>3
  <2>4. QED BY <1>12, <2>1, <2>2, <2>3 DEF DbConvert
<1>13. QED BY <1>4, <1>5, <1>6, <1>m, <1>7, <1>8, <1>11, <1>12 DEF Db

\* A restarted process has nothing on its way; the rows stay.
LEMMA OrderRestart == ASSUME IInv, OInv, Restart PROVE OInv'
<1>1. SUFFICES ASSUME NEW n \in Nodes PROVE OrderOf(n)'
  BY DEF OInv
<1>2. /\ node_data'[n] = <<>> /\ Len(node_data'[n]) = 0
      /\ sql' = <<>> /\ Len(sql') = 0 /\ arrivals' = arrivals
  BY DEF Restart, AllNodes
<1>3. rows \in [Nodes -> Rows]
  BY DEF IInv, TypeOK, DbType
<1>4. rows'[n].seq = rows[n].seq
  BY <1>3 DEF Restart, Rows
<1>5. QED BY <1>2, <1>4
  DEF OInv, OrderOf, Numbered, BufferSorted, StoredFirst, StatementsSorted

\* create_data_buffer: nothing is stored.
LEMMA InitOInv == Init => OInv
BY DEF Init, AllNodes, OInv, OrderOf, Numbered, BufferSorted, StoredFirst, StatementsSorted

\* OInv is inductive together with IInv.
THEOREM OrderInductive == Spec => []OInv
<1>1. IInv /\ OInv /\ [Next]_vars => OInv'
  <2>1. SUFFICES ASSUME IInv, OInv, [Next]_vars PROVE OInv'
    OBVIOUS
  <2>2. QED BY <2>1, StepElsewhere, OrderElsewhere, OrderRecv, OrderDb, OrderRestart
    DEF Next
<1>2. QED BY InitOInv, Inductive, <1>1, PTL DEF Spec

\* What a real-time query copies is at least as new as everything that waits
\* for the database, and is there whenever anything waits, for any number of
\* nodes, receivers and queries and any limit of the buffers.
THEOREM RecentNewest == Spec => []RecentIsNewest
<1>1. OInv => RecentIsNewest BY OInvOrder
<1>2. QED BY OrderInductive, <1>1, PTL

\* The database, the statements in hand and the buffer hold a node's samples in
\* the order they arrived, through reconnections, lost statements and restarts:
\* thread_db never writes an older sample of a node after a newer one.
THEOREM RowsOrdered == Spec => []RowsInOrder
<1>1. OInv => RowsInOrder BY OInvOrder
<1>2. QED BY OrderInductive, <1>1, PTL

-----------------------------------------------------------------------------
(* Times within a database session.                                         *)

\* Multiples of INTERVAL keep their order.
LEMMA Multiples ==
  ASSUME NEW a \in Int, NEW b \in Int, a < b
  PROVE  a * INTERVAL \in Int /\ b * INTERVAL \in Int /\ a * INTERVAL < b * INTERVAL
<1>1. INTERVAL \in Int /\ INTERVAL > 0
  BY ConstantsTyped
<1>2. b - a \in Int /\ b - a > 0
  OBVIOUS
<1>3. ASSUME NEW d \in Int, NEW e \in Int, d > 0, e > 0 PROVE d * e > 0
  BY <1>3
<1>4. (b - a) * INTERVAL > 0
  BY <1>1, <1>2, <1>3
<1>5. (b - a) * INTERVAL = b * INTERVAL - a * INTERVAL
  BY <1>1
<1>6. a * INTERVAL \in Int /\ b * INTERVAL \in Int
  BY <1>1
<1>7. QED BY <1>4, <1>5, <1>6

\* The types the times are about.
LEMMA TimeTypes ==
  ASSUME IInv
  PROVE  /\ db \in DbLocals /\ rows \in [Nodes -> Rows] /\ sql \in Seq(Statements)
         /\ db.k \in Nodes /\ db.n \in Nat /\ db.x \in Nat /\ db.t \in Nat /\ db.last \in Int
         /\ clock \in Nat /\ INTERVAL \in Nat /\ INTERVAL > 0
         /\ \A n \in Nodes : rows[n].time \in Int
         /\ \A i \in 1..Len(sql) : sql[i].time \in Int
<1>1. db \in DbLocals /\ rows \in [Nodes -> Rows] /\ sql \in Seq(Statements) /\ clock \in Nat
  BY DEF IInv, TypeOK, DbType, EnvType
<1>2. /\ db.k \in Nodes /\ db.n \in Nat /\ db.x \in Nat /\ db.t \in Nat /\ db.last \in Int
  BY <1>1 DEF DbLocals
<1>3. \A n \in Nodes : rows[n].time \in Int
  BY <1>1 DEF Rows
<1>4. \A i \in 1..Len(sql) : sql[i].time \in Int
  <2>1. ASSUME NEW i \in 1..Len(sql) PROVE sql[i] \in Statements
    BY <1>1
  <2>2. QED BY <2>1 DEF Statements
<1>5. QED BY <1>1, <1>2, <1>3, <1>4, ConstantsTyped

\* Later statements have later times, and the last one's is LastDbTime.
LEMMA TimesGrow ==
  ASSUME IInv, NEW i \in Int, NEW j \in Int, i < j
  PROVE  TimeOf(i) \in Int /\ TimeOf(j) \in Int /\ TimeOf(i) < TimeOf(j)
<1>1. i - 1 - db.n \in Int /\ j - 1 - db.n \in Int /\ i - 1 - db.n < j - 1 - db.n
  BY TimeTypes
<1>2. /\ (i - 1 - db.n) * INTERVAL \in Int /\ (j - 1 - db.n) * INTERVAL \in Int
      /\ (i - 1 - db.n) * INTERVAL < (j - 1 - db.n) * INTERVAL
  BY <1>1, Multiples
<1>3. QED BY <1>2, TimeTypes DEF TimeOf

\* DataTime is the time of the statement in hand.
LEMMA TimeOfStatement ==
  ASSUME IInv
  PROVE  /\ DataTime = TimeOf(db.x + 1) /\ DataTime \in Int
         /\ TimeOf(db.n) = LastDbTime
<1>1. db.n \in Nat /\ db.x \in Nat /\ db.t \in Nat /\ INTERVAL \in Nat
  BY TimeTypes
<1>2. (db.x + 1) - 1 - db.n = db.x - db.n /\ db.n - 1 - db.n = -1
  BY <1>1
<1>3. (-1) * INTERVAL = -INTERVAL
  BY <1>1
<1>4. QED BY <1>1, <1>2, <1>3 DEF DataTime, TimeOf, LastDbTime

\* RowTimesGrow is what SessionInv says of the statements not yet sent.
LEMMA SessionTimes == IInv /\ SessionInv => RowTimesGrow
<1> SUFFICES ASSUME IInv, SessionInv,
                    NEW i \in 1..Len(sql), NEW n \in Nodes, dbpc \in RoundPc,
                    i > (IF dbpc = "query" THEN db.x ELSE 0), sql[i].row[n] # 0
             PROVE  /\ rows[n].time < sql[i].time
                    /\ \A j \in 1..(i - 1) : sql[j].time < sql[i].time
  BY DEF RowTimesGrow, RoundPc
<1>1. /\ db.n \in Nat /\ db.x \in Nat /\ db.t \in Nat /\ db.last \in Int /\ Len(sql) \in Nat
      /\ rows[n].time \in Int /\ sql[i].time \in Int
  BY TimeTypes
<1>2. /\ \A j \in 1..Len(sql) : sql[j].time = TimeOf(j)
      /\ db.last < sql[i].time
      /\ \/ rows[n].time <= db.last
         \/ dbpc = "query" /\ rows[n].time <= TimeOf(db.x)
  BY DEF SessionInv, StatementTimes, LastTime
<1>3. ASSUME NEW j \in Int, j < i
      PROVE  TimeOf(j) \in Int /\ TimeOf(j) < sql[i].time
  <2>1. i \in Int /\ sql[i].time = TimeOf(i)
    BY <1>1, <1>2
  <2>2. TimeOf(j) \in Int /\ TimeOf(j) < TimeOf(i)
    BY <1>3, <2>1, TimesGrow
  <2>3. QED BY <2>1, <2>2
<1>4. rows[n].time < sql[i].time
  <2>1. CASE rows[n].time <= db.last
    BY <1>1, <1>2, <2>1
  <2>2. CASE dbpc = "query" /\ rows[n].time <= TimeOf(db.x)
    <3>1. TimeOf(db.x) \in Int /\ TimeOf(db.x) < sql[i].time
      BY <1>1, <1>3, <2>2
    <3>2. QED BY <1>1, <2>2, <3>1
  <2>3. QED BY <1>2, <2>1, <2>2
<1>5. ASSUME NEW j \in 1..(i - 1) PROVE sql[j].time < sql[i].time
  <2>1. j \in Int /\ j < i /\ j \in 1..Len(sql)
    BY <1>1
  <2>2. QED BY <1>2, <1>3, <2>1
<1>6. QED BY <1>4, <1>5

\* A step that moves thread_db outside the rounds' loops.
LEMMA SessionMoves ==
  ASSUME IInv, SessionInv, UNCHANGED <<sql, rows, clock>>,
         db'.t = db.t, db'.last = db.last,
         \/ /\ dbpc \notin RoundPc /\ (dbpc' \notin RoundPc \/ db'.n = 0)
         \/ /\ dbpc = "unlock" /\ db'.n = db.n
            /\ dbpc' \in {"unlock", "sleep", "connect", "query"}
            /\ dbpc' \in {"sleep", "connect"} => db.n = 0
  PROVE  SessionInv'
<1>1. CASE dbpc \notin RoundPc
  <2>1. sql = <<>> /\ sql' = <<>> /\ Len(sql') = 0
    BY <1>1 DEF SessionInv, StatementTimes
  <2>2. dbpc # "query" /\ dbpc # "unlock"
    BY <1>1 DEF RoundPc
  <2>3. StatementTimes' /\ LastTime'
    BY <2>1, <2>2 DEF SessionInv, StatementTimes, LastTime
  <2>4. ClockAhead'
    BY <2>2 DEF SessionInv, ClockAhead
  <2>5. QED BY <2>3, <2>4 DEF SessionInv
<1>2. CASE dbpc = "unlock" /\ db'.n = db.n
  <2>1. StatementTimes'
    BY <1>2 DEF SessionInv, StatementTimes, RoundPc, TimeOf
  <2>2. LastTime' /\ ClockAhead'
    BY <1>2 DEF SessionInv, LastTime, ClockAhead, RoundPc
  <2>3. QED BY <2>1, <2>2 DEF SessionInv
<1>3. QED BY <1>1, <1>2

\* A node of a statement is handled: the statement gets the time of its
\* position, and a row only if that is later than last_db_time.
LEMMA SessionScanned ==
  ASSUME IInv, SessionInv, dbpc = "scan", ScanStep, UNCHANGED <<rows, clock>>,
         NEW st, SetStatement(st), st.time = Statement.time,
         \A n \in Nodes : st.row[n] = Statement.row[n] \/ DataTime > db.last
  PROVE  SessionInv'
<1>1. db \in DbLocals /\ db.n \in Nat /\ db.x \in Nat /\ db.t \in Nat /\ db.last \in Int
      /\ sql \in Seq(Statements) /\ INTERVAL \in Nat
  BY TimeTypes
<1>2. db.x < db.n /\ Len(sql) = IF db.k = 1 THEN db.x ELSE db.x + 1
  BY DEF IInv, SqlLength
<1>3. /\ dbpc' \in {"scan", "unlock"}
      /\ db'.n = db.n /\ db'.t = db.t /\ db'.last = db.last
  BY <1>1 DEF ScanStep, DbLocals
<1>4. /\ sql' = [i \in 1..(db.x + 1) |-> IF i = db.x + 1 THEN st ELSE sql[i]]
      /\ Len(sql') = db.x + 1
  BY <1>1 DEF SetStatement
<1>5. DataTime = TimeOf(db.x + 1) /\ DataTime \in Int /\ \A i : TimeOf(i)' = TimeOf(i)
  BY <1>3, TimeOfStatement DEF TimeOf
<1>6. Statement.time = DataTime
  <2>1. CASE db.k = 1
    BY <2>1 DEF Statement
  <2>2. CASE db.k # 1
    <3>1. db.x + 1 \in 1..Len(sql)
      BY <1>1, <1>2, <2>2
    <3>2. QED BY <1>5, <2>2, <3>1 DEF Statement, SessionInv, StatementTimes
  <2>3. QED BY <2>1, <2>2
<1>7. ASSUME NEW i \in 1..(db.x + 1)
      PROVE  \/ i \in 1..Len(sql) /\ sql'[i] = sql[i]
             \/ i = db.x + 1 /\ sql'[i] = st
  BY <1>1, <1>2, <1>4
<1>8. ASSUME NEW i \in 1..(db.x + 1) PROVE sql'[i].time = TimeOf(i)
  BY <1>5, <1>6, <1>7 DEF SessionInv, StatementTimes
<1>9. StatementTimes'
  <2>1. dbpc' \in RoundPc /\ db'.n # 0
    BY <1>1, <1>2, <1>3 DEF RoundPc
  <2>2. \A i \in 1..Len(sql') : sql'[i].time = TimeOf(i)'
    BY <1>4, <1>5, <1>8
  <2>3. QED BY <2>1, <2>2 DEF StatementTimes
<1>10. ASSUME NEW n \in Nodes, st.row[n] # 0 PROVE db.last < st.time
  <2>1. CASE DataTime > db.last
    BY <1>1, <1>5, <1>6, <2>1
  <2>2. CASE st.row[n] = Statement.row[n]
    <3>1. db.k # 1 /\ Statement = sql[db.x + 1]
      BY <1>10, <2>2 DEF Statement
    <3>2. db.x + 1 \in 1..Len(sql)
      BY <1>1, <1>2, <3>1
    <3>3. QED BY <1>10, <2>2, <3>1, <3>2 DEF SessionInv, LastTime
  <2>3. QED BY <2>1, <2>2
<1>11. ASSUME NEW i \in 1..(db.x + 1), NEW n \in Nodes, sql'[i].row[n] # 0
       PROVE  db.last < sql'[i].time
  BY <1>7, <1>10, <1>11 DEF SessionInv, LastTime
<1>12. LastTime'
  BY <1>3, <1>4, <1>11 DEF SessionInv, LastTime
<1>13. ClockAhead'
  BY <1>1, <1>2, <1>3 DEF SessionInv, ClockAhead, RoundPc
<1>14. QED BY <1>9, <1>12, <1>13 DEF SessionInv

\* A statement is sent: its rows, if stored, have the statement's time, and the
\* last one's time becomes last_db_time.
LEMMA SessionQueried ==
  ASSUME IInv, SessionInv, DbQuery
  PROVE  SessionInv'
<1> DEFINE end == db.x + 1 >= db.n
<1>1. PICK ok \in BOOLEAN :
        /\ rows' = [m \in Nodes |-> IF ok /\ sql[db.x + 1].row[m] # 0
                         THEN [seq |-> sql[db.x + 1].row[m], time |-> sql[db.x + 1].time]
                         ELSE rows[m]]
        /\ IF end THEN EndRound(~ok) ELSE dbpc' = "query"
        /\ db' = [db EXCEPT !.reconnect = ~ok, !.x = IF end THEN 0 ELSE db.x + 1,
                            !.last = IF end THEN LastDbTime ELSE db.last]
        /\ sql' = IF end THEN <<>> ELSE sql
  BY DEF DbQuery
<1>2. clock' = clock /\ dbpc = "query"
  BY DEF DbQuery, envvars
<1>3. /\ db \in DbLocals /\ db.n \in Nat /\ db.x \in Nat /\ db.t \in Nat /\ db.last \in Int
      /\ sql \in Seq(Statements) /\ INTERVAL \in Nat /\ clock \in Nat
      /\ \A n \in Nodes : rows[n].time \in Int
  BY TimeTypes
<1>4. db.x < db.n /\ Len(sql) = db.n
  BY <1>2 DEF IInv, SqlLength
<1>5. db.x + 1 \in 1..Len(sql)
  BY <1>3, <1>4
<1>6. /\ db'.n = db.n /\ db'.t = db.t
      /\ \A i : TimeOf(i)' = TimeOf(i)
      /\ db'.x = IF end THEN 0 ELSE db.x + 1
      /\ db'.last = IF end THEN db.t - INTERVAL ELSE db.last
  BY <1>1, <1>3 DEF DbLocals, LastDbTime, TimeOf
<1>7. sql[db.x + 1].time = TimeOf(db.x + 1)
  BY <1>5 DEF SessionInv, StatementTimes
<1>8. ASSUME NEW n \in Nodes
      PROVE  rows'[n].time = TimeOf(db.x + 1) \/ rows'[n].time = rows[n].time
  BY <1>1, <1>7
<1>9. TimeOf(db.x) \in Int /\ TimeOf(db.x + 1) \in Int /\ TimeOf(db.x) < TimeOf(db.x + 1)
  BY <1>3, TimesGrow
<1>10. ASSUME NEW n \in Nodes
       PROVE  /\ rows'[n].time \in Int
              /\ rows'[n].time <= db.last \/ rows'[n].time <= TimeOf(db.x + 1)
  <2>1. rows[n].time <= db.last \/ rows[n].time <= TimeOf(db.x)
    BY <1>2 DEF SessionInv, LastTime
  <2>2. QED BY <1>3, <1>8, <1>9, <2>1
<1>11. /\ INTERVAL <= clock /\ db.t <= clock
       /\ db.last + INTERVAL <= clock /\ db.last + INTERVAL <= db.t
  BY <1>2, <1>3, <1>4 DEF SessionInv, ClockAhead, RoundPc
<1>12. CASE end
  <2>1. sql' = <<>> /\ Len(sql') = 0 /\ dbpc' \notin RoundPc
    BY <1>1, <1>12 DEF EndRound, RoundPc
  <2>2. db'.last = db.t - INTERVAL
    BY <1>6, <1>12
  <2>3. TimeOf(db.x + 1) = db.t - INTERVAL
    <3>1. db.x + 1 = db.n
      BY <1>3, <1>4, <1>12
    <3>2. QED BY <3>1, TimeOfStatement DEF LastDbTime
  <2>4. \A n \in Nodes : rows'[n].time <= db'.last
    BY <1>3, <1>10, <1>11, <2>2, <2>3
  <2>5. LastTime'
    BY <2>1, <2>4 DEF LastTime
  <2>6. StatementTimes'
    BY <2>1 DEF StatementTimes
  <2>7. ClockAhead'
    BY <1>2, <1>3, <1>6, <1>11, <2>1, <2>2 DEF ClockAhead
  <2>8. QED BY <2>5, <2>6, <2>7 DEF SessionInv
<1>13. CASE ~end
  <2>1. sql' = sql /\ dbpc' = "query" /\ db'.x = db.x + 1 /\ db'.last = db.last
    BY <1>1, <1>6, <1>13
  <2>2. StatementTimes'
    BY <1>2, <1>6, <2>1 DEF SessionInv, StatementTimes
  <2>3. LastTime'
    BY <1>6, <1>10, <2>1 DEF SessionInv, LastTime
  <2>4. ClockAhead'
    BY <1>2, <1>6, <1>11, <2>1 DEF ClockAhead
  <2>5. QED BY <2>2, <2>3, <2>4 DEF SessionInv
<1>14. QED BY <1>12, <1>13

\* A step of thread_db.
LEMMA SessionDb ==
  ASSUME IInv, SessionInv, Db
  PROVE  SessionInv'
<1>1. /\ db \in DbLocals /\ rows \in [Nodes -> Rows] /\ sql \in Seq(Statements)
      /\ db.n \in Nat /\ db.t \in Nat /\ db.last \in Int /\ clock \in Nat
      /\ INTERVAL \in Nat /\ INTERVAL > 0 /\ \A n \in Nodes : rows[n].time \in Int
  BY TimeTypes
<1>2. /\ INTERVAL <= clock /\ db.t <= clock /\ db.last + INTERVAL <= clock
      /\ db.n > 0 /\ dbpc \in RoundPc => db.last + INTERVAL <= db.t
  BY DEF SessionInv, ClockAhead
<1>3. CASE DbConnect
  <2>1. /\ sql' = sql /\ clock' = clock /\ dbpc \notin RoundPc
        /\ sql' = <<>> /\ Len(sql') = 0
    BY <1>3 DEF DbConnect, RoundPc, SessionInv, StatementTimes
  <2>2. CASE UNCHANGED <<dbpc, db, rows>>
    BY <2>1, <2>2, SessionMoves
  <2>3. CASE /\ dbpc' = "lock"
             /\ db' = [db EXCEPT !.k = 1, !.last = 0]
             /\ rows' = [n \in Nodes |-> [rows[n] EXCEPT !.time = 0]]
    <3>1. db'.t = db.t /\ db'.last = 0 /\ dbpc' \notin RoundPc
      BY <1>1, <2>3 DEF DbLocals, RoundPc
    <3>2. \A n \in Nodes : rows'[n].time = 0
      BY <1>1, <2>3 DEF Rows
    <3>3. INTERVAL <= clock'
      BY <1>2, <2>1
    <3>4. StatementTimes' /\ LastTime'
      BY <2>1, <3>1, <3>2 DEF StatementTimes, LastTime
    <3>5. ClockAhead'
      BY <1>1, <1>2, <2>1, <3>1, <3>3 DEF ClockAhead
    <3>6. QED BY <3>4, <3>5 DEF SessionInv
  <2>4. QED BY <1>3, <2>2, <2>3 DEF DbConnect
<1>4. CASE DbLock \/ DbWake
  <2>1. /\ UNCHANGED <<sql, rows, clock>> /\ dbpc \notin RoundPc /\ dbpc' \notin RoundPc
        /\ db'.t = db.t /\ db'.last = db.last
    BY <1>1, <1>4 DEF DbLock, DbWake, RoundPc, DbLocals, envvars
  <2>2. QED BY <2>1, SessionMoves
<1>5. CASE DbFirst
  <2>1. /\ UNCHANGED <<sql, rows, clock>> /\ dbpc \notin RoundPc
        /\ db'.t = db.t /\ db'.last = db.last /\ (dbpc' \notin RoundPc \/ db'.n = 0)
    BY <1>1, <1>5 DEF DbFirst, RoundPc, DbLocals, envvars
  <2>2. QED BY <2>1, SessionMoves
<1>6. CASE DbMin
  <2>1. /\ sql' = <<>> /\ Len(sql') = 0 /\ rows' = rows /\ clock' = clock
        /\ dbpc = "min" /\ db'.last = db.last /\ db'.t \in {db.t, clock}
        /\ dbpc' \in RoundPc => db'.t = clock
    BY <1>1, <1>6 DEF DbMin, RoundPc, DbLocals, envvars
  <2>2. \A n \in Nodes : rows[n].time <= db.last
    BY <2>1 DEF SessionInv, LastTime
  <2>3. StatementTimes' /\ LastTime'
    BY <2>1, <2>2 DEF StatementTimes, LastTime
  <2>4. ClockAhead'
    BY <1>1, <1>2, <2>1 DEF ClockAhead
  <2>5. QED BY <2>3, <2>4 DEF SessionInv
<1>m. CASE DbNoMemory
  <2>1. UNCHANGED <<dbvars, clock>>
    BY <1>m DEF DbNoMemory
  <2>2. SessionInv' <=> SessionInv
    BY <2>1 DEF SessionInv, StatementTimes, LastTime, ClockAhead, TimeOf, dbvars
  <2>3. QED BY <2>2
<1>7. CASE DbUnlock
  <2>1. /\ UNCHANGED <<sql, rows, clock>> /\ dbpc = "unlock"
        /\ db'.t = db.t /\ db'.last = db.last /\ db'.n = db.n
        /\ dbpc' \in {"unlock", "sleep", "connect", "query"}
        /\ dbpc' \in {"sleep", "connect"} => db.n = 0
    BY <1>1, <1>7 DEF DbUnlock, EndRound, DbLocals, envvars
  <2>2. QED BY <2>1, SessionMoves
<1>8. CASE DbQuery
  BY <1>8, SessionQueried
<1>9. ASSUME dbpc = "scan", ScanStep, UNCHANGED <<rows, clock>>, SetStatement(Statement)
      PROVE  SessionInv'
  BY <1>9, SessionScanned
<1>10. CASE DbDiscard
  BY <1>9, <1>10 DEF DbDiscard, envvars
<1>11. CASE DbConvert
  <2> DEFINE st == [Statement EXCEPT !.row[db.k] = Head(node_data[db.k])]
  <2>0. dbpc = "scan" /\ rows' = rows /\ clock' = clock /\ DataTime > db.last
    BY <1>11 DEF DbConvert
  <2>1. CASE SetStatement(Statement) /\ ScanStep
    BY <1>9, <2>0, <2>1
  <2>2. CASE SetStatement(st) /\ ScanStep
    <3>1. st.time = Statement.time
      BY <2>0, StatementTyped DEF Statements
    <3> HIDE DEF st
    <3>2. QED BY <2>0, <2>2, <3>1, SessionScanned
  <2>3. CASE UNCHANGED <<dbpc, db, sql>>
    <3>1. SessionInv' <=> SessionInv
      BY <2>0, <2>3 DEF SessionInv, StatementTimes, LastTime, ClockAhead, TimeOf
    <3>2. QED BY <3>1
  <2>4. QED BY <1>11, <2>1, <2>2, <2>3 DEF DbConvert
<1>12. QED BY <1>3, <1>4, <1>5, <1>6, <1>m, <1>7, <1>8, <1>10, <1>11 DEF Db

\* The clock only advances.
LEMMA SessionTick == ASSUME IInv, SessionInv, Tick PROVE SessionInv'
<1>1. UNCHANGED dbvars /\ clock' \in Int /\ clock' >= clock
  BY TimeTypes, ConstantsTyped DEF Tick
<1>2. StatementTimes' /\ LastTime'
  BY <1>1 DEF SessionInv, StatementTimes, LastTime, TimeOf, dbvars
<1>3. ClockAhead'
  BY <1>1, TimeTypes DEF SessionInv, ClockAhead, dbvars
<1>4. QED BY <1>2, <1>3 DEF SessionInv

\* A restarted process starts a session, an interval after time 0 or later.
LEMMA SessionRestart == ASSUME IInv, SessionInv, Restart PROVE SessionInv'
<1>1. /\ sql' = <<>> /\ Len(sql') = 0 /\ clock' = clock /\ dbpc' = "connect"
      /\ db'.t = 0 /\ db'.last = 0
  BY DEF Restart, FreshDb
<1>2. \A n \in Nodes : rows'[n].time = 0
  BY TimeTypes DEF Restart, Rows
<1>3. StatementTimes' /\ LastTime'
  BY <1>1, <1>2 DEF StatementTimes, LastTime
<1>4. ClockAhead'
  BY <1>1, TimeTypes DEF SessionInv, ClockAhead, RoundPc
<1>5. QED BY <1>3, <1>4 DEF SessionInv

\* The first session starts like that too.
LEMMA InitSession == Init => SessionInv
<1> SUFFICES ASSUME Init PROVE SessionInv
  OBVIOUS
<1>1. /\ sql = <<>> /\ Len(sql) = 0 /\ clock = Epoch /\ dbpc = "connect"
      /\ db.t = 0 /\ db.last = 0 /\ \A n \in Nodes : rows[n].time = 0
  BY DEF Init, FreshDb, AllNodes
<1>2. INTERVAL <= Epoch
  <2>1. 1 < MAX_NODE_DATA_COUNT + 2 /\ MAX_NODE_DATA_COUNT + 2 \in Int /\ INTERVAL \in Nat
    BY ConstantsTyped
  <2>2. 1 * INTERVAL \in Int /\ Epoch \in Int /\ 1 * INTERVAL < Epoch
    BY <2>1, Multiples DEF Epoch
  <2>3. 1 * INTERVAL = INTERVAL
    BY <2>1
  <2>4. QED BY <2>1, <2>2, <2>3
<1>3. StatementTimes /\ LastTime
  BY <1>1 DEF StatementTimes, LastTime
<1>4. ClockAhead
  BY <1>1, <1>2, ConstantsTyped DEF ClockAhead, RoundPc
<1>5. QED BY <1>3, <1>4 DEF SessionInv

\* SessionInv is inductive together with IInv.
THEOREM SessionInductive == Spec => []SessionInv
<1>1. IInv /\ SessionInv /\ [Next]_vars => SessionInv'
  <2>1. SUFFICES ASSUME IInv, SessionInv, [Next]_vars PROVE SessionInv'
    OBVIOUS
  <2>2. CASE UNCHANGED <<dbvars, clock>>
    <3>1. /\ dbpc' = dbpc /\ db' = db /\ sql' = sql /\ rows' = rows /\ clock' = clock
          /\ \A i : TimeOf(i)' = TimeOf(i)
      BY <2>2 DEF dbvars, TimeOf
    <3>2. QED BY <2>1, <3>1 DEF SessionInv, StatementTimes, LastTime, ClockAhead
  <2>3. ASSUME NEW c \in Conns, Recv(c)
        PROVE  UNCHANGED <<dbvars, clock>>
    BY <2>3 DEF Recv, RecvStart, RecvTimeout, RecvEnds, RecvData, RecvStore, RecvExit, envvars
  <2>4. QED BY <2>1, <2>2, <2>3, StepElsewhere, SessionDb, SessionTick, SessionRestart DEF Next
<1>2. QED BY InitSession, Inductive, <1>1, PTL DEF Spec

\* Within one database session the times of a node's rows strictly grow, for any
\* INTERVAL, any length of a round and any number of nodes: the comparison with
\* last_db_time keeps out every sample whose time the session has used.
THEOREM RowTimesOrdered == Spec => []RowTimesGrow
<1>1. IInv /\ SessionInv => RowTimesGrow BY SessionTimes
<1>2. QED BY Inductive, SessionInductive, <1>1, PTL

-----------------------------------------------------------------------------
(* What a step may do to the database.                                      *)

\* A row is never replaced by one of an older sample, and within a session only
\* by one with a later time.
RowsAdvance ==
  \A n \in Nodes : /\ rows[n].seq <= rows'[n].seq
                   /\ Up /\ dbpc # "connect" /\ rows'[n] # rows[n]
                      => rows[n].time < rows'[n].time

\* Only a statement that succeeds, a new session and a restart touch the rows.
LEMMA RowsChange ==
  ASSUME [Next]_vars
  PROVE  UNCHANGED rows \/ DbConnect \/ DbQuery \/ (Restart /\ ~Up)
<1>1. ASSUME NEW c \in Conns, Recv(c) PROVE UNCHANGED rows
  BY <1>1 DEF Recv, RecvStart, RecvTimeout, RecvEnds, RecvData, RecvStore, RecvExit, dbvars
<1>2. CASE Db
  BY <1>2 DEF Db, DbLock, DbFirst, DbMin, DbNoMemory, DbDiscard, DbConvert, DbUnlock, DbWake,
       dbvars
<1>3. CASE Restart
  BY <1>3 DEF Restart
<1>4. QED BY <1>1, <1>2, <1>3, StepElsewhere DEF Next, dbvars

\* DbQuery stores the statement in hand, which is newer and later.
LEMMA QueryAdvances ==
  ASSUME IInv, OInv, SessionInv, DbQuery, NEW n \in Nodes
  PROVE  /\ rows[n].seq <= rows'[n].seq
         /\ rows'[n] # rows[n] => rows[n].time < rows'[n].time
<1>1. PICK ok \in BOOLEAN :
        rows' = [m \in Nodes |-> IF ok /\ sql[db.x + 1].row[m] # 0
                      THEN [seq |-> sql[db.x + 1].row[m], time |-> sql[db.x + 1].time]
                      ELSE rows[m]]
  BY DEF DbQuery
<1>2. /\ rows[n].seq \in Nat /\ dbpc = "query" /\ db.x \in Nat /\ db.n \in Nat
      /\ db.x < db.n /\ Len(sql) = db.n
  BY SampleTypes DEF DbQuery, IInv, SqlLength
<1>3. db.x + 1 \in 1..Len(sql) /\ db.x + 1 > Sent
  BY <1>2 DEF Sent
<1>4. ASSUME sql[db.x + 1].row[n] # 0
      PROVE  /\ rows[n].seq <= sql[db.x + 1].row[n]
             /\ rows[n].time < sql[db.x + 1].time
  <2>1. rows[n].seq <= sql[db.x + 1].row[n]
    BY <1>3, <1>4 DEF OInv, OrderOf, StoredFirst, Waits
  <2>2. rows[n].time < sql[db.x + 1].time
    BY <1>2, <1>3, <1>4, SessionTimes DEF RowTimesGrow, Sent
  <2>3. QED BY <2>1, <2>2
<1>5. CASE ok /\ sql[db.x + 1].row[n] # 0
  BY <1>1, <1>4, <1>5
<1>6. CASE ~(ok /\ sql[db.x + 1].row[n] # 0)
  BY <1>1, <1>2, <1>6
<1>7. QED BY <1>5, <1>6

\* Whatever the step, and across reconnections and restarts, the database's
\* last row of a node never goes back to an older sample; and within a session
\* its time grows with every row.
THEOREM RowsOnlyAdvance == Spec => [][RowsAdvance]_vars
<1>1. IInv /\ OInv /\ SessionInv /\ [Next]_vars => RowsAdvance
  <2>1. SUFFICES ASSUME IInv, OInv, SessionInv, [Next]_vars, NEW n \in Nodes
                 PROVE  /\ rows[n].seq <= rows'[n].seq
                        /\ Up /\ dbpc # "connect" /\ rows'[n] # rows[n]
                           => rows[n].time < rows'[n].time
    BY DEF RowsAdvance
  <2>2. rows \in [Nodes -> Rows] /\ rows[n].seq \in Nat
    BY <2>1, SampleTypes, TimeTypes
  <2>3. CASE UNCHANGED rows
    BY <2>2, <2>3
  <2>4. CASE DbConnect
    <3>1. rows'[n].seq = rows[n].seq
      BY <2>2, <2>4 DEF DbConnect, Rows
    <3>2. QED BY <2>2, <2>4, <3>1 DEF DbConnect
  <2>5. CASE Restart /\ ~Up
    <3>1. rows'[n].seq = rows[n].seq
      BY <2>2, <2>5 DEF Restart, Rows
    <3>2. QED BY <2>2, <2>5, <3>1
  <2>6. CASE DbQuery
    BY <2>1, <2>6, QueryAdvances
  <2>7. QED BY <2>1, <2>3, <2>4, <2>5, <2>6, RowsChange
<1>2. QED BY Inductive, OrderInductive, SessionInductive, <1>1, PTL DEF Spec

=============================================================================
