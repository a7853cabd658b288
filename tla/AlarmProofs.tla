----------------------------- MODULE AlarmProofs -----------------------------
(***************************************************************************)
(* The levels of an alarm node exclude each other, and the buffer's length *)
(* covers its messages, for every set of nodes, items, conditions, threads *)
(* and every value of the other constants of Alarm.                        *)
(***************************************************************************)
EXTENDS Alarm, TLAPS

\* What OneAlarming and SeriousStopsTimers say of one alarm node.
GoodNode(a) ==
  /\ \A l, m \in Levels : a.flag[l] = "ALARMING" /\ a.flag[m] = "ALARMING" => l = m
  /\ a.flag[0] = "ALARMING" => a.timer[1] = -1 /\ a.timer[2] = -1

\* A thread that may still put a message has one left to put.
Sending == {"script", "put", "check", "sleep"}
CountsPositive == \A t \in Threads : thread[t].pc \in Sending => thread[t].count > 0

AInv == /\ TypeOK /\ (\A k \in Keys : GoodNode(node[k])) /\ LengthCoversBuffer
        /\ CountsPositive

-----------------------------------------------------------------------------
(* What the main thread makes of an alarm node.                             *)

\* process_alarm_data stops at one of the three levels, or falls through all.
LEMMA FirstLevel ==
  ASSUME NEW M \in SUBSET Levels
  PROVE  First(M) \in 0..3 /\ (First(M) # 3 => First(M) \in Levels)
<1>1. \E h \in 0..3 : (h \in M \/ h = 3) /\ \A l \in M : h <= l
  <2>1. CASE 0 \in M
    BY <2>1 DEF Levels
  <2>2. CASE 0 \notin M /\ 1 \in M
    BY <2>2 DEF Levels
  <2>3. CASE 0 \notin M /\ 1 \notin M /\ 2 \in M
    BY <2>3 DEF Levels
  <2>4. CASE 0 \notin M /\ 1 \notin M /\ 2 \notin M
    BY <2>4 DEF Levels
  <2> QED
    BY <2>1, <2>2, <2>3, <2>4
<1>2. First(M) \in 0..3
  BY <1>1 DEF First
<1> QED
  BY <1>2 DEF Levels

\* Clearing the levels more serious than the matching one.
LEMMA ClearedGood ==
  ASSUME NEW a \in AlarmNodes, GoodNode(a), NEW h \in 0..3
  PROVE  /\ Cleared(a, h) \in AlarmNodes
         /\ GoodNode(Cleared(a, h))
         /\ \A l \in Levels : l < h => Cleared(a, h).flag[l] = "HAVE_NOT_ALARM"
<1> DEFINE ti == [l \in Levels |-> IF l < h THEN -1 ELSE a.timer[l]]
           fl == [l \in Levels |-> IF l < h THEN "HAVE_NOT_ALARM" ELSE a.flag[l]]
           ca == [l \in Levels |-> IF l < h /\ a.flag[l] = "ALARMING" THEN 1 ELSE a.cancel[l]]
<1>1. a.timer \in [Levels -> Int] /\ a.flag \in [Levels -> Flags] /\ a.cancel \in [Levels -> {0, 1}]
  BY DEF AlarmNodes
<1>2. ti \in [Levels -> Int]
  BY <1>1
<1>3. fl \in [Levels -> Flags]
  BY <1>1 DEF Flags
<1>4. ca \in [Levels -> {0, 1}]
  BY <1>1
<1>5. Cleared(a, h) = [timer |-> ti, flag |-> fl, cancel |-> ca]
  BY DEF Cleared
<1>6. \A l \in Levels : l < h => fl[l] = "HAVE_NOT_ALARM"
  OBVIOUS
<1>7. \A l, m \in Levels : fl[l] = "ALARMING" /\ fl[m] = "ALARMING" => l = m
  BY DEF GoodNode
<1>8. fl[0] = "ALARMING" => ti[1] = -1 /\ ti[2] = -1
  BY DEF GoodNode, Levels
<1> HIDE DEF ti, fl, ca
<1>9. Cleared(a, h) \in AlarmNodes
  BY <1>2, <1>3, <1>4, <1>5 DEF AlarmNodes
<1>10. Cleared(a, h).timer = ti /\ Cleared(a, h).flag = fl
  BY <1>5
<1> QED
  BY <1>6, <1>7, <1>8, <1>9, <1>10 DEF GoodNode

\* Starting timers at the matching level.
LEMMA StartedGood ==
  ASSUME NEW a \in AlarmNodes, GoodNode(a), NEW h \in Levels,
         \A l \in Levels : l < h => a.flag[l] = "HAVE_NOT_ALARM"
  PROVE  Started(a, h) \in AlarmNodes /\ GoodNode(Started(a, h))
<1> DEFINE ti == [l \in Levels |->
                    IF a.timer[l] = -1 /\ (l = h \/ (l > h /\ a.flag[h] = "HAVE_NOT_ALARM"))
                    THEN 0 ELSE a.timer[l]]
<1>1. a.timer \in [Levels -> Int]
  BY DEF AlarmNodes
<1>2. ti \in [Levels -> Int]
  BY <1>1
<1>3. Started(a, h) = [a EXCEPT !.timer = ti]
  BY DEF Started
<1>4. a.flag[0] = "ALARMING" => ti[1] = -1 /\ ti[2] = -1
  <2> SUFFICES ASSUME a.flag[0] = "ALARMING"
               PROVE  ti[1] = -1 /\ ti[2] = -1
    OBVIOUS
  <2>1. h = 0
    BY DEF Levels
  <2> QED
    BY <2>1 DEF GoodNode, Levels
<1> HIDE DEF ti
<1>5. Started(a, h) \in AlarmNodes /\ Started(a, h).flag = a.flag /\ Started(a, h).timer = ti
  BY <1>2, <1>3 DEF AlarmNodes
<1> QED
  BY <1>4, <1>5 DEF GoodNode

\* Alarming at the matching level.
LEMMA RaisedGood ==
  ASSUME NEW a \in AlarmNodes, NEW h \in Levels
  PROVE  Raised(a, h) \in AlarmNodes /\ GoodNode(Raised(a, h))
<1> DEFINE ti == [l \in Levels |-> IF l # h THEN -1 ELSE a.timer[l]]
           fl == [l \in Levels |-> IF l = h THEN "ALARMING"
                                   ELSE IF a.flag[l] = "ALARMING" THEN "HAVE_NOT_ALARM"
                                   ELSE a.flag[l]]
           ca == [l \in Levels |-> IF l # h /\ a.flag[l] = "ALARMING" THEN 1 ELSE a.cancel[l]]
<1>1. a.timer \in [Levels -> Int] /\ a.flag \in [Levels -> Flags] /\ a.cancel \in [Levels -> {0, 1}]
  BY DEF AlarmNodes
<1>2. ti \in [Levels -> Int]
  BY <1>1
<1>3. fl \in [Levels -> Flags]
  BY <1>1 DEF Flags
<1>4. ca \in [Levels -> {0, 1}]
  BY <1>1
<1>5. Raised(a, h) = [timer |-> ti, flag |-> fl, cancel |-> ca]
  BY DEF Raised
<1>6. \A l \in Levels : fl[l] = "ALARMING" => l = h
  OBVIOUS
<1>7. fl[0] = "ALARMING" => ti[1] = -1 /\ ti[2] = -1
  BY <1>6 DEF Levels
<1> HIDE DEF ti, fl, ca
<1>8. Raised(a, h) \in AlarmNodes
  BY <1>2, <1>3, <1>4, <1>5 DEF AlarmNodes
<1>9. Raised(a, h).timer = ti /\ Raised(a, h).flag = fl
  BY <1>5
<1> QED
  BY <1>6, <1>7, <1>8, <1>9 DEF GoodNode

\* An alarm thread that resets the flag of its level, or sets it to ALARMED.
LEMMA WrittenGood ==
  ASSUME NEW a \in AlarmNodes, GoodNode(a), NEW l \in Levels,
         NEW f \in {"HAVE_NOT_ALARM", "ALARMED"}, NEW c \in {0, 1}
  PROVE  Written(a, l, f, c) \in AlarmNodes /\ GoodNode(Written(a, l, f, c))
<1> DEFINE fl == [a.flag EXCEPT ![l] = f]
           ca == [a.cancel EXCEPT ![l] = c]
<1>1. a.timer \in [Levels -> Int] /\ a.flag \in [Levels -> Flags] /\ a.cancel \in [Levels -> {0, 1}]
  BY DEF AlarmNodes
<1>2. fl \in [Levels -> Flags]
  BY <1>1 DEF Flags
<1>3. ca \in [Levels -> {0, 1}]
  BY <1>1
<1>4. \A m \in Levels : fl[m] = "ALARMING" => a.flag[m] = "ALARMING"
  BY <1>1
<1>5. Written(a, l, f, c) = [timer |-> a.timer, flag |-> fl, cancel |-> ca]
  BY DEF Written
<1>6. 0 \in Levels
  BY DEF Levels
<1> HIDE DEF fl, ca
<1>7. Written(a, l, f, c) \in AlarmNodes
  BY <1>1, <1>2, <1>3, <1>5 DEF AlarmNodes
<1>8. Written(a, l, f, c).flag = fl /\ Written(a, l, f, c).timer = a.timer
  BY <1>5
<1> QED
  BY <1>4, <1>6, <1>7, <1>8 DEF GoodNode

\* A second passes for the timers of an alarm node.
LEMMA AgedGood ==
  ASSUME NEW a \in AlarmNodes, GoodNode(a)
  PROVE  Aged(a) \in AlarmNodes /\ GoodNode(Aged(a))
<1> DEFINE ti == [l \in Levels |-> IF a.timer[l] \in 0..(Secs[l] - 1) THEN a.timer[l] + 1
                                                                     ELSE a.timer[l]]
<1>1. a.timer \in [Levels -> Int]
  BY DEF AlarmNodes
<1>2. ti \in [Levels -> Int]
  BY <1>1
<1>3. Aged(a) = [a EXCEPT !.timer = ti]
  BY DEF Aged
<1>4. \A l \in Levels : a.timer[l] = -1 => ti[l] = -1
  BY AlarmConstants DEF AlarmConstants
<1> HIDE DEF ti
<1>5. Aged(a) \in AlarmNodes /\ Aged(a).flag = a.flag /\ Aged(a).timer = ti
  BY <1>2, <1>3 DEF AlarmNodes
<1>6. 1 \in Levels /\ 2 \in Levels
  BY DEF Levels
<1> QED
  BY <1>4, <1>5, <1>6 DEF GoodNode

-----------------------------------------------------------------------------
(* The inductive invariant.                                                 *)

\* What TypeOK says of one variable each.
MainOK ==
  /\ main \in [rows : 0..MaxRows, items : SUBSET UNION {Watches[n] : n \in Nodes},
               node : Nodes \cup {"none"}, pc : {"sleep", "rows"}]
  /\ main.items # {} => main.node \in Nodes /\ main.items \subseteq Watches[main.node]
Messages == [key : Keys, level : Levels, end : BOOLEAN]
Senders == [pc : {"connect", "take", "insert", "mail", "sms"}, retry : -1..DbTimes,
            mail : BOOLEAN, tries : 0..EmailTimes]
NodesGood == node \in [Keys -> AlarmNodes] /\ \A k \in Keys : GoodNode(node[k])
ThreadsOK == thread \in [Threads -> Running \cup {NoThread}] /\ CountsPositive
BufferOK == buf \in Seq(Messages)
LenOK == len \in BOOLEAN /\ (buf # <<>> => len)
SenderOK == sender \in Senders /\ lock = IF sender.pc = "insert" THEN "sender" ELSE "free"

\* AInv, in the parts the steps below preserve one by one.
LEMMA InvParts == AInv <=> /\ alive \in BOOLEAN /\ MainOK /\ NodesGood
                           /\ ThreadsOK /\ BufferOK /\ LenOK /\ SenderOK
BY Zenon DEF AInv, TypeOK, LengthCoversBuffer, MainOK, NodesGood, ThreadsOK, BufferOK, LenOK, SenderOK,
             Messages, Senders

\* The memory of a fresh process satisfies the invariant.
LEMMA FreshGood ==
  /\ NewNode \in AlarmNodes /\ GoodNode(NewNode)
  /\ FreshSender \in Senders /\ FreshSender.pc = "connect"
  /\ FreshMain \in [rows : 0..MaxRows, items : SUBSET UNION {Watches[n] : n \in Nodes},
                     node : Nodes \cup {"none"}, pc : {"sleep", "rows"}]
  /\ FreshMain.items = {}
<1>1. NewNode \in AlarmNodes /\ GoodNode(NewNode)
  BY DEF NewNode, AlarmNodes, GoodNode, Levels, Flags
<1>2. FreshSender \in Senders /\ FreshSender.pc = "connect"
  BY AlarmConstants DEF AlarmConstants, FreshSender, Senders
<1>3. FreshMain \in [rows : 0..MaxRows, items : SUBSET UNION {Watches[n] : n \in Nodes},
                     node : Nodes \cup {"none"}, pc : {"sleep", "rows"}]
  BY AlarmConstants DEF AlarmConstants, FreshMain
<1>4. FreshMain.items = {}
  BY DEF FreshMain
<1> QED
  BY <1>1, <1>2, <1>3, <1>4

\* The start of main.
LEMMA InitGood == Init => AInv
<1> SUFFICES ASSUME Init PROVE AInv
  OBVIOUS
<1>1. NodesGood
  BY FreshGood DEF Init, NodesGood
<1>2. ThreadsOK
  BY DEF Init, ThreadsOK, CountsPositive, Sending, NoThread
<1>3. SenderOK
  BY FreshGood DEF Init, SenderOK
<1>4. MainOK
  BY FreshGood DEF Init, MainOK
<1>5. BufferOK
  BY DEF Init, BufferOK
<1>8. LenOK
  BY Zenon DEF Init, LenOK
<1> QED
  BY <1>1, <1>2, <1>3, <1>4, <1>5, <1>8, InvParts DEF Init

\* So does what is left when the process dies.
LEMMA DiesGood == Dies => AInv'
<1> SUFFICES ASSUME Dies PROVE AInv'
  OBVIOUS
<1>1. NodesGood'
  BY FreshGood DEF Dies, NodesGood
<1>2. ThreadsOK'
  BY DEF Dies, ThreadsOK, CountsPositive, Sending, NoThread
<1>3. SenderOK'
  BY FreshGood DEF Dies, SenderOK
<1>4. MainOK'
  BY FreshGood DEF Dies, MainOK
<1>5. BufferOK'
  BY DEF Dies, BufferOK
<1>8. LenOK'
  BY Zenon DEF Dies, LenOK
<1>6. (alive \in BOOLEAN)'
  BY DEF Dies
<1>7. (/\ alive \in BOOLEAN /\ MainOK /\ NodesGood /\ ThreadsOK /\ BufferOK /\ LenOK /\ SenderOK)'
  BY <1>1, <1>2, <1>3, <1>4, <1>5, <1>6, <1>8
<1> QED
  BY <1>7, InvParts, PTL

\* The item and node of the row in hand name an alarm node.
LEMMA KeyOK ==
  ASSUME MainOK, NEW i \in main.items
  PROVE  <<i, main.node>> \in Keys
BY DEF MainOK, Keys

\* Steps of the main thread.
LEMMA MainGood ==
  ASSUME AInv, Main
  PROVE  AInv'
<1> USE InvParts
<1>1. ASSUME get_data_from_db PROVE AInv'
  <2>1. MainOK'
    BY <1>1 DEF get_data_from_db, MainOK
  <2>2. /\ alive' = alive /\ node' = node /\ thread' = thread /\ buf' = buf
        /\ len' = len /\ lock' = lock /\ sender' = sender
    BY <1>1 DEF get_data_from_db
  <2>3. (/\ alive \in BOOLEAN /\ NodesGood /\ ThreadsOK /\ BufferOK /\ LenOK /\ SenderOK)'
    BY <2>2 DEF NodesGood, ThreadsOK, CountsPositive, BufferOK, LenOK, SenderOK
  <2> QED
    BY <2>1, <2>3, PTL
<1>2. ASSUME fetch_alarm_data PROVE AInv'
  <2>1. MainOK'
    <3>1. PICK n \in Nodes : main' = [main EXCEPT !.rows = main.rows - 1, !.items = Watches[n], !.node = n]
      BY <1>2 DEF fetch_alarm_data
    <3>2. main.rows \in 0..MaxRows /\ main.rows > 0
      BY <1>2 DEF fetch_alarm_data, MainOK
    <3>3. main.rows - 1 \in 0..MaxRows /\ Watches[n] \subseteq UNION {Watches[x] : x \in Nodes}
      BY <3>2, AlarmConstants DEF AlarmConstants
    <3> QED
      BY <3>1, <3>3 DEF MainOK
  <2>2. /\ alive' = alive /\ node' = node /\ thread' = thread /\ buf' = buf
        /\ len' = len /\ lock' = lock /\ sender' = sender
    BY <1>2 DEF fetch_alarm_data
  <2>3. (/\ alive \in BOOLEAN /\ NodesGood /\ ThreadsOK /\ BufferOK /\ LenOK /\ SenderOK)'
    BY <2>2 DEF NodesGood, ThreadsOK, CountsPositive, BufferOK, LenOK, SenderOK
  <2> QED
    BY <2>1, <2>3, PTL
<1>3. ASSUME MainSleeps PROVE AInv'
  <2>1. MainOK'
    BY <1>3 DEF MainSleeps, MainOK
  <2>2. /\ alive' = alive /\ node' = node /\ thread' = thread /\ buf' = buf
        /\ len' = len /\ lock' = lock /\ sender' = sender
    BY <1>3 DEF MainSleeps
  <2>3. (/\ alive \in BOOLEAN /\ NodesGood /\ ThreadsOK /\ BufferOK /\ LenOK /\ SenderOK)'
    BY <2>2 DEF NodesGood, ThreadsOK, CountsPositive, BufferOK, LenOK, SenderOK
  <2> QED
    BY <2>1, <2>3, PTL
<1>4. ASSUME MainDies PROVE AInv'
  BY <1>4, DiesGood DEF MainDies
<1>5. ASSUME NEW i \in main.items, NEW M \in Samples, process_alarm_data(i, M) PROVE AInv'
  <2> DEFINE k == <<i, main.node>>
             h == First(M)
             a == Cleared(node[k], h)
  <2>1. k \in Keys
    BY KeyOK
  <2>2. h \in 0..3 /\ (h # 3 => h \in Levels)
    BY FirstLevel, AlarmConstants DEF AlarmConstants
  <2>3. node[k] \in AlarmNodes /\ GoodNode(node[k])
    BY <2>1 DEF NodesGood
  <2>4. /\ a \in AlarmNodes /\ GoodNode(a)
        /\ \A l \in Levels : l < h => a.flag[l] = "HAVE_NOT_ALARM"
    BY <2>2, <2>3, ClearedGood
  <2>5. \E b \in AlarmNodes : GoodNode(b) /\ node' = [node EXCEPT ![k] = b]
    <3>1. CASE h = 3
      BY <1>5, <2>4, <3>1 DEF process_alarm_data
    <3>2. CASE h # 3 /\ ~Due(a, h)
      <4>1. Started(a, h) \in AlarmNodes /\ GoodNode(Started(a, h))
        BY <2>2, <2>4, <3>2, StartedGood
      <4>2. node' = [node EXCEPT ![k] = Started(a, h)]
        BY <1>5, <3>2 DEF process_alarm_data
      <4> QED
        BY <4>1, <4>2
    <3>3. CASE h # 3 /\ Due(a, h)
      <4>1. Raised(a, h) \in AlarmNodes /\ GoodNode(Raised(a, h))
        BY <2>2, <2>4, <3>3, RaisedGood
      <4>2. node' = [node EXCEPT ![k] = Raised(a, h)]
        BY <1>5, <3>3 DEF process_alarm_data
      <4> QED
        BY <4>1, <4>2
    <3> QED
      BY <3>1, <3>2, <3>3
  <2>6. NodesGood'
    BY <2>1, <2>5 DEF NodesGood
  <2>7. ThreadsOK'
    <3>1. CASE thread' = thread
      BY <3>1 DEF ThreadsOK, CountsPositive
    <3>2. CASE h # 3 /\ \E t \in Threads : thread' = [thread EXCEPT ![t] = NewThread(k, h)]
      <4>1. 0 \in 0..SleepSecs /\ Times \in 0..Times
        BY AlarmConstants DEF AlarmConstants
      <4>2. NewThread(k, h) \in Running
        BY <2>1, <2>2, <3>2, <4>1 DEF NewThread, Running
      <4>3. NewThread(k, h).count > 0
        BY AlarmConstants DEF AlarmConstants, NewThread
      <4> QED
        BY <3>2, <4>2, <4>3 DEF ThreadsOK, CountsPositive
    <3> QED
      BY <1>5, <3>1, <3>2 DEF process_alarm_data
  <2>8. MainOK'
    BY <1>5 DEF process_alarm_data, MainOK
  <2>9. alive' = alive /\ buf' = buf /\ len' = len /\ lock' = lock /\ sender' = sender
    BY <1>5 DEF process_alarm_data
  <2>10. (alive \in BOOLEAN /\ BufferOK /\ LenOK /\ SenderOK)'
    BY <2>9 DEF BufferOK, LenOK, SenderOK
  <2> QED
    BY <2>6, <2>7, <2>8, <2>10, PTL
<1> QED
  BY <1>1, <1>2, <1>3, <1>4, <1>5 DEF Main

\* A running thread: its record is not the one of a free slot.
LEMMA RunningThread ==
  ASSUME ThreadsOK, NEW t \in Threads, thread[t].pc # "none"
  PROVE  thread[t] \in Running
BY DEF ThreadsOK, NoThread

\* Changing the record of one thread.
LEMMA ThreadStep ==
  ASSUME ThreadsOK, NEW t \in Threads, NEW r \in Running \cup {NoThread},
         r.pc \in Sending => r.count > 0,
         thread' = [thread EXCEPT ![t] = r]
  PROVE  ThreadsOK'
BY DEF ThreadsOK, CountsPositive

\* A message put in the buffer.
LEMMA EnqueueGood ==
  ASSUME BufferOK, LenOK, NEW t \in Threads, thread[t] \in Running, NEW e \in BOOLEAN, Enqueue(t, e)
  PROVE  BufferOK' /\ LenOK'
<1>1. [key |-> thread[t].key, level |-> thread[t].level, end |-> e] \in Messages
  BY DEF Running, Messages
<1>2. BufferOK'
  BY <1>1 DEF Enqueue, BufferOK
<1>3. LenOK'
  BY Zenon DEF Enqueue, LenOK
<1> QED
  BY <1>2, <1>3

\* Steps of the alarm threads.
LEMMA ThreadGood ==
  ASSUME AInv, NEW t \in Threads, Thread(t)
  PROVE  AInv'
<1> USE InvParts
<1>1. ASSUME c_execute(t) PROVE AInv'
  <2>1. thread[t] \in Running
    BY <1>1, RunningThread DEF c_execute
  <2>2. [thread[t] EXCEPT !.pc = "put"] \in Running
    BY <2>1 DEF Running
  <2>3. \E r \in Running \cup {NoThread} : /\ thread' = [thread EXCEPT ![t] = r]
                                           /\ r.pc \in Sending => r.count > 0
    <3>1. thread[t].count > 0
      BY <1>1 DEF c_execute, ThreadsOK, CountsPositive, Sending
    <3>2. [thread[t] EXCEPT !.pc = "put"].count = thread[t].count
      BY <2>1 DEF Running
    <3>3. NoThread.pc \notin Sending
      BY DEF NoThread, Sending
    <3> QED
      BY <1>1, <2>2, <3>1, <3>2, <3>3 DEF c_execute, Exit
  <2>4. ThreadsOK'
    BY <2>3, ThreadStep
  <2>5. alive' = alive /\ main' = main /\ node' = node /\ buf' = buf /\ len' = len /\ lock' = lock /\ sender' = sender
    BY <1>1 DEF c_execute
  <2>6. (alive \in BOOLEAN /\ MainOK /\ NodesGood /\ BufferOK /\ LenOK /\ SenderOK)'
    BY <2>5 DEF MainOK, NodesGood, BufferOK, LenOK, SenderOK
  <2> QED
    BY <2>4, <2>6, PTL
<1>2. ASSUME PutMessage(t) PROVE AInv'
  <2>1. thread[t] \in Running
    BY <1>2, RunningThread DEF PutMessage
  <2> DEFINE n == thread[t].count - 1
             p == IF thread[t].count > 1 THEN "check" ELSE "alarmed"
             r == [thread[t] EXCEPT !.count = n, !.secs = SleepSecs, !.pc = p]
  <2>2. n \in 0..Times
    <3>1. thread[t].count > 0
      BY <1>2 DEF PutMessage, ThreadsOK, CountsPositive, Sending
    <3> QED
      BY <2>1, <3>1, AlarmConstants DEF AlarmConstants, Running
  <2>10. p \in Sending => n > 0
    BY <2>1 DEF Running, Sending
  <2>3. p \in {"check", "alarmed"} /\ SleepSecs \in 0..SleepSecs
    BY AlarmConstants DEF AlarmConstants
  <2>4. thread' = [thread EXCEPT ![t] = r]
    BY <1>2 DEF PutMessage
  <2> HIDE DEF n, p
  <2>5. r \in Running
    BY <2>1, <2>2, <2>3 DEF Running
  <2>11. r.pc = p /\ r.count = n
    BY <2>1 DEF Running
  <2> HIDE DEF r
  <2>6. ThreadsOK'
    BY <2>4, <2>5, <2>10, <2>11, ThreadStep
  <2>7. BufferOK' /\ LenOK'
    BY <1>2, <2>1, EnqueueGood DEF PutMessage
  <2>8. alive' = alive /\ main' = main /\ node' = node /\ lock' = lock /\ sender' = sender
    BY <1>2 DEF PutMessage
  <2>9. (alive \in BOOLEAN /\ MainOK /\ NodesGood /\ SenderOK)'
    BY <2>8 DEF MainOK, NodesGood, SenderOK
  <2> QED
    BY <2>6, <2>7, <2>9, PTL
<1>3. ASSUME CheckCancel(t) PROVE AInv'
  <2>1. thread[t] \in Running
    BY <1>3, RunningThread DEF CheckCancel
  <2> DEFINE c == node[thread[t].key].cancel[thread[t].level]
             p == IF thread[t].secs = 0 THEN "put" ELSE IF c = 1 THEN "cancelled" ELSE "sleep"
             n == IF thread[t].secs = 0 THEN 0 ELSE thread[t].secs - 1
             r == [thread[t] EXCEPT !.pc = p, !.secs = n]
  <2>2. n \in 0..SleepSecs
    BY <2>1, AlarmConstants DEF AlarmConstants, Running
  <2>9. thread[t].count > 0
    BY <1>3 DEF CheckCancel, ThreadsOK, CountsPositive, Sending
  <2>3. p \in {"put", "cancelled", "sleep"}
    OBVIOUS
  <2>4. thread' = [thread EXCEPT ![t] = r]
    BY <1>3 DEF CheckCancel
  <2> HIDE DEF n, p
  <2>5. r \in Running
    BY <2>1, <2>2, <2>3 DEF Running
  <2>10. r.count = thread[t].count
    BY <2>1 DEF Running
  <2> HIDE DEF r
  <2>6. ThreadsOK'
    BY <2>4, <2>5, <2>9, <2>10, ThreadStep
  <2>7. alive' = alive /\ main' = main /\ node' = node /\ buf' = buf /\ len' = len /\ lock' = lock /\ sender' = sender
    BY <1>3 DEF CheckCancel
  <2>8. (alive \in BOOLEAN /\ MainOK /\ NodesGood /\ BufferOK /\ LenOK /\ SenderOK)'
    BY <2>7 DEF MainOK, NodesGood, BufferOK, LenOK, SenderOK
  <2> QED
    BY <2>6, <2>8, PTL
<1>4. ASSUME Cancelled(t) PROVE AInv'
  <2> DEFINE k == thread[t].key
             l == thread[t].level
             b == Written(node[k], l, "HAVE_NOT_ALARM", 0)
  <2>1. thread[t] \in Running
    BY <1>4, RunningThread DEF Cancelled
  <2>2. k \in Keys /\ l \in Levels /\ [thread[t] EXCEPT !.pc = "end"] \in Running
    BY <2>1 DEF Running
  <2>3. node[k] \in AlarmNodes /\ GoodNode(node[k])
    BY <2>2 DEF NodesGood
  <2>4. node' = [node EXCEPT ![k] = b]
    BY <1>4 DEF Cancelled
  <2>5. b \in AlarmNodes /\ GoodNode(b)
    BY <2>2, <2>3, WrittenGood
  <2> HIDE DEF b
  <2>6. NodesGood'
    BY <2>2, <2>4, <2>5 DEF NodesGood
  <2>7. thread' = [thread EXCEPT ![t] = [thread[t] EXCEPT !.pc = "end"]]
    BY <1>4 DEF Cancelled
  <2>8. ThreadsOK'
    <3>1. [thread[t] EXCEPT !.pc = "end"].pc \notin Sending
      BY <2>1 DEF Running, Sending
    <3> QED
      BY <2>2, <2>7, <3>1, ThreadStep
  <2>9. alive' = alive /\ main' = main /\ buf' = buf /\ len' = len /\ lock' = lock /\ sender' = sender
    BY <1>4 DEF Cancelled
  <2>10. (alive \in BOOLEAN /\ MainOK /\ BufferOK /\ LenOK /\ SenderOK)'
    BY <2>9 DEF MainOK, BufferOK, LenOK, SenderOK
  <2> QED
    BY <2>6, <2>8, <2>10, PTL
<1>5. ASSUME Alarmed(t) PROVE AInv'
  <2> DEFINE k == thread[t].key
             l == thread[t].level
             c == node[k].cancel[l]
             b == Written(node[k], l, "ALARMED", c)
  <2>1. thread[t] \in Running
    BY <1>5, RunningThread DEF Alarmed
  <2>2. k \in Keys /\ l \in Levels /\ [thread[t] EXCEPT !.pc = "end"] \in Running
    BY <2>1 DEF Running
  <2>3. node[k] \in AlarmNodes /\ GoodNode(node[k])
    BY <2>2 DEF NodesGood
  <2>4. c \in {0, 1}
    BY <2>2, <2>3 DEF AlarmNodes
  <2>5. node' = [node EXCEPT ![k] = b]
    BY <1>5 DEF Alarmed
  <2>6. b \in AlarmNodes /\ GoodNode(b)
    BY <2>2, <2>3, <2>4, WrittenGood
  <2> HIDE DEF b
  <2>7. NodesGood'
    BY <2>2, <2>5, <2>6 DEF NodesGood
  <2>8. thread' = [thread EXCEPT ![t] = [thread[t] EXCEPT !.pc = "end"]]
    BY <1>5 DEF Alarmed
  <2>9. ThreadsOK'
    <3>1. [thread[t] EXCEPT !.pc = "end"].pc \notin Sending
      BY <2>1 DEF Running, Sending
    <3> QED
      BY <2>2, <2>8, <3>1, ThreadStep
  <2>10. alive' = alive /\ main' = main /\ buf' = buf /\ len' = len /\ lock' = lock /\ sender' = sender
    BY <1>5 DEF Alarmed
  <2>11. (alive \in BOOLEAN /\ MainOK /\ BufferOK /\ LenOK /\ SenderOK)'
    BY <2>10 DEF MainOK, BufferOK, LenOK, SenderOK
  <2> QED
    BY <2>7, <2>9, <2>11, PTL
<1>6. ASSUME PutEnd(t) PROVE AInv'
  <2>1. thread[t] \in Running
    BY <1>6, RunningThread DEF PutEnd
  <2>2. ThreadsOK'
    BY <1>6, ThreadStep DEF PutEnd, Exit, NoThread, Sending
  <2>3. BufferOK' /\ LenOK'
    BY <1>6, <2>1, EnqueueGood DEF PutEnd
  <2>4. alive' = alive /\ main' = main /\ node' = node /\ lock' = lock /\ sender' = sender
    BY <1>6 DEF PutEnd
  <2>5. (alive \in BOOLEAN /\ MainOK /\ NodesGood /\ SenderOK)'
    BY <2>4 DEF MainOK, NodesGood, SenderOK
  <2> QED
    BY <2>2, <2>3, <2>5, PTL
<1>7. ASSUME MallocFails(t) PROVE AInv'
  <2>1. ThreadsOK'
    BY <1>7, ThreadStep DEF MallocFails, Exit, NoThread, Sending
  <2>2. alive' = alive /\ main' = main /\ node' = node /\ buf' = buf /\ len' = len /\ lock' = lock /\ sender' = sender
    BY <1>7 DEF MallocFails
  <2>3. (alive \in BOOLEAN /\ MainOK /\ NodesGood /\ BufferOK /\ LenOK /\ SenderOK)'
    BY <2>2 DEF MainOK, NodesGood, BufferOK, LenOK, SenderOK
  <2> QED
    BY <2>1, <2>3, PTL
<1>8. ASSUME NullNode(t) PROVE AInv'
  BY <1>8, DiesGood DEF NullNode
<1> QED
  BY <1>1, <1>2, <1>3, <1>4, <1>5, <1>6, <1>7, <1>8 DEF Thread, Proceeds

\* Steps of the sender that only change its own record, outside the buffer.
LEMMA SenderStep ==
  ASSUME AInv, sender' \in Senders, sender.pc # "insert", sender'.pc # "insert",
         UNCHANGED <<alive, main, node, thread, buf, len, lock>>
  PROVE  AInv'
<1> USE InvParts
<1>1. SenderOK'
  BY DEF SenderOK
<1>2. (alive \in BOOLEAN /\ MainOK /\ NodesGood /\ ThreadsOK /\ BufferOK /\ LenOK)'
  BY DEF MainOK, NodesGood, ThreadsOK, CountsPositive, BufferOK, LenOK
<1> QED
  BY <1>1, <1>2, PTL

\* Steps of the sender.
LEMMA SenderGood ==
  ASSUME AInv, Sender
  PROVE  AInv'
<1> USE InvParts
<1>0. sender \in Senders
  BY DEF SenderOK
<1>1. ASSUME mysql_get_connection PROVE AInv'
  <2>1. CASE sender' = [sender EXCEPT !.pc = "take", !.retry = DbTimes]
    <3>1. DbTimes \in -1..DbTimes
      BY AlarmConstants DEF AlarmConstants
    <3>2. sender' \in Senders /\ sender'.pc = "take"
      BY <1>0, <2>1, <3>1 DEF Senders
    <3> QED
      BY <1>1, <3>2, SenderStep DEF mysql_get_connection
  <2>2. CASE sender.retry >= 0 /\ sender' = [sender EXCEPT !.retry = sender.retry - 1]
    <3>1. sender.retry - 1 \in -1..DbTimes
      BY <1>0, <2>2, AlarmConstants DEF AlarmConstants, Senders
    <3>2. sender' \in Senders /\ sender'.pc = sender.pc
      BY <1>0, <2>2, <3>1 DEF Senders
    <3> QED
      BY <1>1, <3>2, SenderStep DEF mysql_get_connection
  <2> QED
    BY <1>1, <2>1, <2>2 DEF mysql_get_connection
<1>2. ASSUME NoDatabase \/ SenderDies PROVE AInv'
  BY <1>2, DiesGood DEF NoDatabase, SenderDies
<1>3. ASSUME Take PROVE AInv'
  <2>1. 0 \in 0..EmailTimes
    BY AlarmConstants DEF AlarmConstants
  <2>2. SenderOK'
    BY <1>0, <1>3, <2>1 DEF Take, Senders, SenderOK
  <2>3. alive' = alive /\ main' = main /\ node' = node /\ thread' = thread /\ buf' = buf /\ len' = len
    BY <1>3 DEF Take
  <2>4. (alive \in BOOLEAN /\ MainOK /\ NodesGood /\ ThreadsOK /\ CountsPositive /\ BufferOK /\ LenOK)'
    BY <2>3 DEF MainOK, NodesGood, ThreadsOK, CountsPositive, BufferOK, LenOK
  <2> QED
    BY <2>2, <2>4, PTL
<1>4. ASSUME Insert PROVE AInv'
  <2>1. Head(buf) \in Messages /\ Tail(buf) \in Seq(Messages)
    BY <1>4 DEF Insert, BufferOK
  <2>2. (sender.mail \/ ~Head(buf).end) \in BOOLEAN
    BY Zenon
  <2>3. SenderOK'
    <3>1. PICK x \in BOOLEAN : sender' = [sender EXCEPT !.mail = x]
      BY <1>4, <2>2 DEF Insert
    <3>2. sender' \in Senders /\ sender'.pc = sender.pc
      BY <1>0, <3>1 DEF Senders
    <3>3. lock' = lock
      BY <1>4 DEF Insert
    <3> QED
      BY <3>2, <3>3 DEF SenderOK
  <2>4. BufferOK'
    BY <1>4, <2>1 DEF Insert, BufferOK
  <2>5. LenOK'
    BY <1>4, Zenon DEF Insert, LenOK
  <2>6. alive' = alive /\ main' = main /\ node' = node /\ thread' = thread
    BY <1>4 DEF Insert
  <2>7. (alive \in BOOLEAN /\ MainOK /\ NodesGood /\ ThreadsOK /\ CountsPositive)'
    BY <2>6 DEF MainOK, NodesGood, ThreadsOK, CountsPositive
  <2> QED
    BY <2>3, <2>4, <2>5, <2>7, PTL
<1>5. ASSUME InsertFails PROVE AInv'
  <2>1. Tail(buf) \in Seq(Messages)
    BY <1>5 DEF InsertFails, BufferOK
  <2>2. SenderOK'
    BY <1>0, <1>5 DEF InsertFails, Senders, SenderOK
  <2>3. BufferOK'
    BY <1>5, <2>1 DEF InsertFails, BufferOK
  <2>4. LenOK'
    BY <1>5, Zenon DEF InsertFails, LenOK
  <2>5. alive' = alive /\ main' = main /\ node' = node /\ thread' = thread
    BY <1>5 DEF InsertFails
  <2>6. (alive \in BOOLEAN /\ MainOK /\ NodesGood /\ ThreadsOK /\ CountsPositive)'
    BY <2>5 DEF MainOK, NodesGood, ThreadsOK, CountsPositive
  <2> QED
    BY <2>2, <2>3, <2>4, <2>6, PTL
<1>6. ASSUME InsertDone PROVE AInv'
  <2>1. PICK x \in {"mail", "take"} : sender' = [sender EXCEPT !.pc = x]
    BY <1>6 DEF InsertDone
  <2>2. SenderOK'
    BY <1>0, <1>6, <2>1 DEF InsertDone, Senders, SenderOK
  <2>3. BufferOK'
    BY <1>6 DEF InsertDone, BufferOK
  <2>4. LenOK'
    BY <1>6, Zenon DEF InsertDone, LenOK
  <2>5. alive' = alive /\ main' = main /\ node' = node /\ thread' = thread
    BY <1>6 DEF InsertDone
  <2>6. (alive \in BOOLEAN /\ MainOK /\ NodesGood /\ ThreadsOK /\ CountsPositive)'
    BY <2>5 DEF MainOK, NodesGood, ThreadsOK, CountsPositive
  <2> QED
    BY <2>2, <2>3, <2>4, <2>6, PTL
<1>7. ASSUME send_email PROVE AInv'
  <2>1. CASE sender' = [sender EXCEPT !.pc = "sms"]
    <3>1. sender' \in Senders /\ sender'.pc = "sms"
      BY <1>0, <2>1 DEF Senders
    <3> QED
      BY <1>7, <3>1, SenderStep DEF send_email
  <2>2. CASE sender.tries < EmailTimes /\ sender' = [sender EXCEPT !.tries = sender.tries + 1]
    <3>1. sender.tries + 1 \in 0..EmailTimes
      BY <1>0, <2>2, AlarmConstants DEF AlarmConstants, Senders
    <3>2. sender' \in Senders /\ sender'.pc = sender.pc
      BY <1>0, <2>2, <3>1 DEF Senders
    <3> QED
      BY <1>7, <3>2, SenderStep DEF send_email
  <2> QED
    BY <1>7, <2>1, <2>2 DEF send_email
<1>8. ASSUME send_sms PROVE AInv'
  <2>1. sender' \in Senders /\ sender'.pc = "take"
    BY <1>0, <1>8 DEF send_sms, Senders
  <2> QED
    BY <1>8, <2>1, SenderStep DEF send_sms
<1> QED
  BY <1>1, <1>2, <1>3, <1>4, <1>5, <1>6, <1>7, <1>8 DEF Sender

\* A second passes.
LEMMA TickGood ==
  ASSUME AInv, Tick
  PROVE  AInv'
<1> USE InvParts
<1>1. NodesGood'
  <2>1. \A k \in Keys : Aged(node[k]) \in AlarmNodes /\ GoodNode(Aged(node[k]))
    BY AgedGood DEF NodesGood
  <2> QED
    BY <2>1 DEF Tick, NodesGood
<1>2. ThreadsOK'
  <2> DEFINE woken(t) == IF thread[t].pc = "sleep" THEN [thread[t] EXCEPT !.pc = "check"] ELSE thread[t]
  <2>1. ASSUME NEW t \in Threads
        PROVE  /\ woken(t) \in Running \cup {NoThread}
               /\ woken(t).pc \in Sending => woken(t).count > 0
    <3>1. CASE thread[t].pc = "sleep"
      <4>1. thread[t] \in Running
        BY <3>1, RunningThread
      <4>2. thread[t].count > 0
        BY <3>1 DEF ThreadsOK, CountsPositive, Sending
      <4>3. woken(t) = [thread[t] EXCEPT !.pc = "check"]
        BY <3>1
      <4> QED
        BY <4>1, <4>2, <4>3 DEF Running
    <3>2. CASE thread[t].pc # "sleep"
      BY <3>2 DEF ThreadsOK, CountsPositive
    <3> QED
      BY <3>1, <3>2
  <2>2. thread' = [t \in Threads |-> woken(t)]
    BY DEF Tick
  <2> HIDE DEF woken
  <2> QED
    BY <2>1, <2>2 DEF ThreadsOK, CountsPositive
<1>3. alive' = alive /\ main' = main /\ buf' = buf /\ len' = len /\ lock' = lock /\ sender' = sender
  BY DEF Tick
<1>4. (alive \in BOOLEAN /\ MainOK /\ BufferOK /\ LenOK /\ SenderOK)'
  BY <1>3 DEF MainOK, BufferOK, LenOK, SenderOK
<1> QED
  BY <1>1, <1>2, <1>4, PTL

\* AInv is an invariant: the types, the exclusion of levels, the timers, the
\* length of the buffer and the counts hold together.
THEOREM AlarmInductive == Spec => []AInv
<1>1. AInv /\ [Next]_vars => AInv'
  <2> SUFFICES ASSUME AInv, [Next]_vars PROVE AInv'
    OBVIOUS
  <2>1. CASE Next
    BY <2>1, MainGood, ThreadGood, SenderGood, TickGood DEF Next
  <2>2. CASE UNCHANGED vars
    BY <2>2 DEF vars, AInv, TypeOK, LengthCoversBuffer, CountsPositive
  <2> QED
    BY <2>1, <2>2
<1> QED
  BY <1>1, InitGood, PTL DEF Spec

\* Every variable of the alarm daemon keeps its type.
THEOREM AlarmTypes == Spec => []TypeOK
<1>1. AInv => TypeOK
  BY DEF AInv
<1> QED
  BY <1>1, AlarmInductive, PTL

\* At most one level of an alarm node is ALARMING, whatever alarm threads are
\* left over.
THEOREM LevelsExclude == Spec => []OneAlarming
<1>1. AInv => OneAlarming
  BY DEF AInv, GoodNode, OneAlarming
<1> QED
  BY <1>1, AlarmInductive, PTL

\* A serious alarm stops the timers of the other levels.
THEOREM TimersStopped == Spec => []SeriousStopsTimers
<1>1. AInv => SeriousStopsTimers
  BY DEF AInv, GoodNode, SeriousStopsTimers
<1> QED
  BY <1>1, AlarmInductive, PTL

\* The sender never sleeps on a message.
THEOREM LengthCovers == Spec => []LengthCoversBuffer
<1>1. AInv => LengthCoversBuffer
  BY DEF AInv
<1> QED
  BY <1>1, AlarmInductive, PTL
=============================================================================
