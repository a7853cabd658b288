-------------------------------- MODULE Alarm --------------------------------
(***************************************************************************)
(* The alarm daemon (alarm_for_v4/ex_alarm_tstor/src).  The main thread    *)
(* (ex_alarm.c) reads the samples the server wrote to DataInfo and decides *)
(* per item and node which level to alarm at; each alarm is a thread that  *)
(* puts messages in a buffer at an interval, until it is cancelled; one    *)
(* more thread empties the buffer into the table AlarmInfo and mails it    *)
(* (alarm.c).                                                              *)
(***************************************************************************)
EXTENDS Integers, Sequences, FiniteSets

CONSTANTS
  Nodes,      \* names of nodes
  Watches,    \* Watches[n]: the alarm items that list node n
  Samples,    \* the sets of levels whose condition one value may match
  Secs,       \* Secs[l]: seconds of the condition of level l
  Times,      \* alarm_freq.times
  SleepSecs,  \* alarm_freq.interval, in seconds
  Methods,    \* alarm_method: part of {"email", "sms", "tel"}
  EmailTimes, \* EMAIL_RE_SEND_TIMES
  DbTimes,    \* DB_RETRY_TIMES
  Threads,    \* alarm threads there can be at once; none free: pthread_create fails
  MaxRows,    \* bound: rows of one result set
  MaxBuf      \* bound: messages in the buffer

\* The enum values of ALARM_LEVEL_SERIOUS, _COMMON and _WARN.
Levels == 0..2

ASSUME AlarmConstants ==
  /\ Samples \subseteq SUBSET Levels
  /\ Secs \in [Levels -> Nat \ {0}]
  /\ Times \in Nat \ {0} /\ SleepSecs \in Nat \ {0}
  /\ Methods \subseteq {"email", "sms", "tel"}
  /\ EmailTimes \in Nat \ {0} /\ DbTimes \in Nat
  /\ MaxRows \in Nat /\ MaxBuf \in Nat

Keys == UNION {{<<i, n>> : i \in Watches[n]} : n \in Nodes}

VARIABLES
  alive,    \* the process runs
  main,     \* the main thread: rows left of the result set, items left of the row
  node,     \* the alarm nodes: timer_start (as its age, -1: 0), alarm_flag, thread_cancel
  thread,   \* the threads in send_alarm_msg_to_buffer
  buf,      \* g_alarm_msg_buf
  len,      \* its message length is not 0
  lock,     \* holder of mutex_g_alarm_msg_buf between steps
  sender    \* the thread in send_alarm_msg_from_buffer

vars == <<alive, main, node, thread, buf, len, lock, sender>>

NewNode == [timer  |-> [l \in Levels |-> -1],
            flag   |-> [l \in Levels |-> "HAVE_NOT_ALARM"],
            cancel |-> [l \in Levels |-> 0]]
NoThread == [pc |-> "none"]

FreshMain == [rows |-> 0, items |-> {}, node |-> "none", pc |-> "sleep"]
FreshSender == [pc |-> "connect", retry |-> DbTimes, mail |-> FALSE, tries |-> 0]

Init ==
  /\ alive = TRUE
  /\ main = FreshMain /\ sender = FreshSender
  /\ node = [k \in Keys |-> NewNode]
  /\ thread = [t \in Threads |-> NoThread]
  /\ buf = <<>> /\ len = FALSE /\ lock = "free"

\* The process exits or is killed; its memory is gone.
Dies ==
  /\ alive' = FALSE
  /\ main' = FreshMain /\ sender' = FreshSender
  /\ node' = [k \in Keys |-> NewNode]
  /\ thread' = [t \in Threads |-> NoThread]
  /\ buf' = <<>> /\ len' = FALSE /\ lock' = "free"

-----------------------------------------------------------------------------
(* Main thread: what one value does to an alarm node.  The code does the    *)
(* same at each level, in process_alarm_data, process_common_level_alarm_   *)
(* data and process_warn_level_alarm_data, each called by the one before if *)
(* its own level does not match.                                            *)

\* The most serious level that matches; 3 if none does.
First(M) == CHOOSE h \in 0..3 : (h \in M \/ h = 3) /\ \A l \in M : h <= l

\* The levels more serious than h, which do not match.
Cleared(a, h) ==
  [timer  |-> [l \in Levels |-> IF l < h THEN -1 ELSE a.timer[l]],
   flag   |-> [l \in Levels |-> IF l < h THEN "HAVE_NOT_ALARM" ELSE a.flag[l]],
   cancel |-> [l \in Levels |-> IF l < h /\ a.flag[l] = "ALARMING" THEN 1 ELSE a.cancel[l]]]

\* Level h matches: its timer starts, and those of the less serious levels if h
\* has not alarmed.
StartedAgain(a, h) ==
  [a EXCEPT !.timer = [l \in Levels |->
     IF l = h \/ (a.timer[l] = -1 /\ l > h /\ a.flag[h] = "HAVE_NOT_ALARM")
     THEN 0 ELSE a.timer[l]]]
Started(a, h) ==
  [a EXCEPT !.timer = [l \in Levels |->
     IF a.timer[l] = -1 /\ (l = h \/ (l > h /\ a.flag[h] = "HAVE_NOT_ALARM"))
     THEN 0 ELSE a.timer[l]]]

Due(a, h) == a.timer[h] >= Secs[h] /\ a.flag[h] = "HAVE_NOT_ALARM"

\* Level h alarms; another level that is alarming is cancelled.
RaisedOverWarn(a, h) ==
  [timer  |-> [l \in Levels |-> IF l # h THEN -1 ELSE a.timer[l]],
   flag   |-> [l \in Levels |-> IF l = h THEN "ALARMING"
                                ELSE IF l = 1 /\ a.flag[l] = "ALARMING" THEN "HAVE_NOT_ALARM"
                                ELSE a.flag[l]],
   cancel |-> [l \in Levels |-> IF l = 1 /\ l # h /\ a.flag[l] = "ALARMING" THEN 1
                                ELSE a.cancel[l]]]
RaisedKeepsTimers(a, h) ==
  [timer  |-> a.timer,
   flag   |-> [l \in Levels |-> IF l = h THEN "ALARMING"
                                ELSE IF a.flag[l] = "ALARMING" THEN "HAVE_NOT_ALARM"
                                ELSE a.flag[l]],
   cancel |-> [l \in Levels |-> IF l # h /\ a.flag[l] = "ALARMING" THEN 1 ELSE a.cancel[l]]]
Raised(a, h) ==
  [timer  |-> [l \in Levels |-> IF l # h THEN -1 ELSE a.timer[l]],
   flag   |-> [l \in Levels |-> IF l = h THEN "ALARMING"
                                ELSE IF a.flag[l] = "ALARMING" THEN "HAVE_NOT_ALARM"
                                ELSE a.flag[l]],
   cancel |-> [l \in Levels |-> IF l # h /\ a.flag[l] = "ALARMING" THEN 1 ELSE a.cancel[l]]]

NewThread(k, h) == [pc |-> "script", key |-> k, level |-> h, count |-> Times, secs |-> 0]

-----------------------------------------------------------------------------
(* Main thread: its loop.                                                   *)

get_data_from_db ==
  /\ main.pc = "sleep"
  /\ \E r \in 0..MaxRows : main' = [main EXCEPT !.pc = "rows", !.rows = r]
  /\ UNCHANGED <<alive, node, thread, buf, len, lock, sender>>

fetch_alarm_data ==
  /\ main.pc = "rows" /\ main.items = {} /\ main.rows > 0
  /\ \E n \in Nodes :
       main' = [main EXCEPT !.rows = main.rows - 1, !.items = Watches[n], !.node = n]
  /\ UNCHANGED <<alive, node, thread, buf, len, lock, sender>>

\* The three mutexes of the alarm node are held to the end.  The result of
\* pthread_create is ignored.
process_alarm_data(i, M) ==
  LET k == <<i, main.node>>
      h == First(M)
      a == Cleared(node[k], h)
  IN
  /\ main.pc = "rows" /\ i \in main.items
  /\ main' = [main EXCEPT !.items = main.items \ {i}]
  /\ \/ /\ h = 3
        /\ node' = [node EXCEPT ![k] = a]
        /\ UNCHANGED thread
     \/ /\ h # 3 /\ ~Due(a, h)
        /\ node' = [node EXCEPT ![k] = Started(a, h)]
        /\ UNCHANGED thread
     \/ /\ h # 3 /\ Due(a, h)
        /\ node' = [node EXCEPT ![k] = Raised(a, h)]
        /\ \/ \E t \in Threads : /\ thread[t] = NoThread
                                 /\ thread' = [thread EXCEPT ![t] = NewThread(k, h)]
           \/ UNCHANGED thread
  /\ UNCHANGED <<alive, buf, len, lock, sender>>

MainSleeps ==
  /\ main.pc = "rows" /\ main.items = {} /\ main.rows = 0
  /\ main' = [main EXCEPT !.pc = "sleep"]
  /\ UNCHANGED <<alive, node, thread, buf, len, lock, sender>>

\* A query or malloc fails, or the row is gone: exit, return or a null pointer.
MainDies ==
  /\ main.pc = "sleep" \/ main.items # {}
  /\ Dies

Main ==
  \/ get_data_from_db \/ fetch_alarm_data \/ MainSleeps \/ MainDies
  \/ \E i \in main.items, M \in Samples : process_alarm_data(i, M)

-----------------------------------------------------------------------------
(* send_alarm_msg_to_buffer.                                                *)

Exit(t) == thread' = [thread EXCEPT ![t] = NoThread]

\* The alarm script; if it fails the thread ends and the flag stays ALARMING.
c_execute(t) ==
  /\ thread[t].pc = "script"
  /\ thread' = [thread EXCEPT ![t].pc = "put"] \/ Exit(t)
  /\ UNCHANGED <<alive, main, node, buf, len, lock, sender>>

EnqueueForgetsLen(t, end) ==
  /\ lock = "free" /\ Len(buf) < MaxBuf
  /\ buf' = Append(buf, [key |-> thread[t].key, level |-> thread[t].level, end |-> end])
  /\ len' = (len \/ ~end)

Enqueue(t, end) ==
  /\ lock = "free" /\ Len(buf) < MaxBuf
  /\ buf' = Append(buf, [key |-> thread[t].key, level |-> thread[t].level, end |-> end])
  /\ len' = TRUE

PutMessage(t) ==
  /\ thread[t].pc = "put"
  /\ Enqueue(t, FALSE)
  /\ thread' = [thread EXCEPT ![t] =
       [thread[t] EXCEPT !.count = thread[t].count - 1, !.secs = SleepSecs,
                         !.pc = IF thread[t].count > 1 THEN "check" ELSE "alarmed"]]
  /\ UNCHANGED <<alive, main, node, lock, sender>>

\* thread_cancel is read without the mutex.
CheckCancel(t) ==
  LET c == node[thread[t].key].cancel[thread[t].level] IN
  /\ thread[t].pc = "check"
  /\ thread' = [thread EXCEPT ![t] = [thread[t] EXCEPT
       !.pc = IF thread[t].secs = 0 THEN "put" ELSE IF c = 1 THEN "cancelled" ELSE "sleep",
       !.secs = IF thread[t].secs = 0 THEN 0 ELSE thread[t].secs - 1]]
  /\ UNCHANGED <<alive, main, node, buf, len, lock, sender>>

\* alarm_flag and thread_cancel of level l, written under its mutex.
Written(a, l, f, c) ==
  [timer |-> a.timer, flag |-> [a.flag EXCEPT ![l] = f], cancel |-> [a.cancel EXCEPT ![l] = c]]

Cancelled(t) ==
  LET k == thread[t].key
      l == thread[t].level
  IN
  /\ thread[t].pc = "cancelled"
  /\ node' = [node EXCEPT ![k] = Written(node[k], l, "HAVE_NOT_ALARM", 0)]
  /\ thread' = [thread EXCEPT ![t].pc = "end"]
  /\ UNCHANGED <<alive, main, buf, len, lock, sender>>

Alarmed(t) ==
  LET k == thread[t].key
      l == thread[t].level
  IN
  /\ thread[t].pc = "alarmed"
  /\ node' = [node EXCEPT ![k] = Written(node[k], l, "ALARMED", node[k].cancel[l])]
  /\ thread' = [thread EXCEPT ![t].pc = "end"]
  /\ UNCHANGED <<alive, main, buf, len, lock, sender>>

PutEnd(t) ==
  /\ thread[t].pc = "end"
  /\ Enqueue(t, TRUE)
  /\ Exit(t)
  /\ UNCHANGED <<alive, main, node, lock, sender>>

MallocFails(t) ==
  /\ thread[t].pc \in {"put", "end"}
  /\ Exit(t)
  /\ UNCHANGED <<alive, main, node, buf, len, lock, sender>>

\* malloc fails for the node of the buffer, which is used unchecked.
NullNode(t) ==
  /\ thread[t].pc \in {"put", "end"} /\ lock = "free"
  /\ Dies

Proceeds(t) ==
  c_execute(t) \/ PutMessage(t) \/ CheckCancel(t) \/ Cancelled(t) \/ Alarmed(t) \/ PutEnd(t)

Thread(t) == Proceeds(t) \/ MallocFails(t) \/ NullNode(t)

-----------------------------------------------------------------------------
(* send_alarm_msg_from_buffer.                                              *)

mysql_retried_forever ==
  /\ sender.pc = "connect"
  /\ \/ sender' = [sender EXCEPT !.pc = "take", !.retry = DbTimes]
     \/ sender' = [sender EXCEPT !.retry = sender.retry - 1]
  /\ UNCHANGED <<alive, main, node, thread, buf, len, lock>>

mysql_get_connection ==
  /\ sender.pc = "connect"
  /\ \/ sender' = [sender EXCEPT !.pc = "take", !.retry = DbTimes]
     \/ sender.retry >= 0 /\ sender' = [sender EXCEPT !.retry = sender.retry - 1]
  /\ UNCHANGED <<alive, main, node, thread, buf, len, lock>>

NoDatabase ==
  /\ sender.pc = "connect" /\ sender.retry < 0
  /\ Dies

Take ==
  /\ sender.pc = "take" /\ lock = "free" /\ len
  /\ lock' = "sender"
  /\ sender' = [sender EXCEPT !.pc = "insert", !.mail = FALSE, !.tries = 0]
  /\ UNCHANGED <<alive, main, node, thread, buf, len>>

Insert ==
  /\ sender.pc = "insert" /\ buf # <<>>
  /\ buf' = Tail(buf)
  /\ sender' = [sender EXCEPT !.mail = sender.mail \/ ~Head(buf).end]
  /\ UNCHANGED <<alive, main, node, thread, len, lock>>

\* mysql_query fails: the message and the text gathered for the mail are lost.
InsertFailsLocked ==
  /\ sender.pc = "insert" /\ buf # <<>>
  /\ buf' = Tail(buf)
  /\ sender' = [sender EXCEPT !.pc = "connect", !.mail = FALSE]
  /\ UNCHANGED <<alive, main, node, thread, len, lock>>

InsertFails ==
  /\ sender.pc = "insert" /\ buf # <<>>
  /\ buf' = Tail(buf)
  /\ lock' = "free"
  /\ sender' = [sender EXCEPT !.pc = "connect", !.mail = FALSE]
  /\ UNCHANGED <<alive, main, node, thread, len>>

InsertDone ==
  /\ sender.pc = "insert" /\ buf = <<>>
  /\ len' = FALSE /\ lock' = "free"
  /\ sender' = [sender EXCEPT !.pc = IF sender.mail THEN "mail" ELSE "take"]
  /\ UNCHANGED <<alive, main, node, thread, buf>>

\* malloc fails for the statement or the text.
SenderDies ==
  /\ sender.pc = "insert"
  /\ Dies

send_email ==
  /\ sender.pc = "mail"
  /\ \/ /\ "email" \notin Methods \/ sender.tries = EmailTimes
        /\ sender' = [sender EXCEPT !.pc = "sms"]
     \/ /\ "email" \in Methods /\ sender.tries < EmailTimes
        /\ \/ sender' = [sender EXCEPT !.pc = "sms"]
           \/ sender' = [sender EXCEPT !.tries = sender.tries + 1]
  /\ UNCHANGED <<alive, main, node, thread, buf, len, lock>>

\* send_sms and send_tel: what they return is only logged.
send_sms ==
  /\ sender.pc = "sms"
  /\ sender' = [sender EXCEPT !.pc = "take", !.mail = FALSE]
  /\ UNCHANGED <<alive, main, node, thread, buf, len, lock>>

Sender ==
  \/ mysql_get_connection \/ NoDatabase \/ Take \/ Insert \/ InsertFails \/ InsertDone
  \/ SenderDies \/ send_email \/ send_sms

-----------------------------------------------------------------------------
\* A second passes: timers age, up to the seconds they are compared with, and
\* sleep(1) returns.
Aged(a) == [a EXCEPT !.timer = [l \in Levels |->
  IF a.timer[l] \in 0..(Secs[l] - 1) THEN a.timer[l] + 1 ELSE a.timer[l]]]

Tick ==
  /\ node' = [k \in Keys |-> Aged(node[k])]
  /\ thread' = [t \in Threads |-> IF thread[t].pc = "sleep"
                                  THEN [thread[t] EXCEPT !.pc = "check"] ELSE thread[t]]
  /\ UNCHANGED <<alive, main, buf, len, lock, sender>>

Next == alive /\ (Main \/ (\E t \in Threads : Thread(t)) \/ Sender \/ Tick)

Spec == Init /\ [][Next]_vars

\* The threads run, and time passes.  mutex_g_alarm_msg_buf is not handed past
\* a waiting thread forever.  No thread is helped out by a failing malloc.
FairSpec ==
  /\ Spec
  /\ WF_vars(alive /\ Main) /\ WF_vars(alive /\ Sender) /\ WF_vars(alive /\ Tick)
  /\ \A t \in Threads : SF_vars(alive /\ Proceeds(t))

-----------------------------------------------------------------------------
Flags == {"HAVE_NOT_ALARM", "ALARMING", "ALARMED"}
AlarmNodes == [timer : [Levels -> Int], flag : [Levels -> Flags], cancel : [Levels -> {0, 1}]]
Running == [pc : {"script", "put", "check", "sleep", "cancelled", "alarmed", "end"},
            key : Keys, level : Levels, count : 0..Times, secs : 0..SleepSecs]

\* Every variable keeps its type: a thread never counts below zero, and the
\* buffer mutex is held exactly while the sender inserts.
TypeOK ==
  /\ alive \in BOOLEAN
  /\ main \in [rows : 0..MaxRows, items : SUBSET UNION {Watches[n] : n \in Nodes},
               node : Nodes \cup {"none"}, pc : {"sleep", "rows"}]
  /\ main.items # {} => main.node \in Nodes /\ main.items \subseteq Watches[main.node]
  /\ node \in [Keys -> AlarmNodes]
  /\ thread \in [Threads -> Running \cup {NoThread}]
  /\ buf \in Seq([key : Keys, level : Levels, end : BOOLEAN])
  /\ len \in BOOLEAN
  /\ sender \in [pc : {"connect", "take", "insert", "mail", "sms"}, retry : -1..DbTimes,
                 mail : BOOLEAN, tries : 0..EmailTimes]
  /\ lock = IF sender.pc = "insert" THEN "sender" ELSE "free"

\* An alarm node is alarming at one level at most, although the main thread and
\* the alarm threads of three levels all write alarm_flag.
OneAlarming ==
  \A k \in Keys : \A l, m \in Levels :
    node[k].flag[l] = "ALARMING" /\ node[k].flag[m] = "ALARMING" => l = m

\* While the serious level is alarming the timers of the other levels stand
\* still: a worsening that subsides starts them anew.
SeriousStopsTimers ==
  \A k \in Keys : node[k].flag[0] = "ALARMING" => node[k].timer[1] = -1 /\ node[k].timer[2] = -1

\* The sender, which sleeps while the length it keeps beside the buffer is 0,
\* never sleeps on a message; a failed insert leaves the rest for the next turn.
LengthCoversBuffer == buf # <<>> => len

\* If from some time on every value of an alarm node matches its serious
\* condition, and values keep coming, the node stops being HAVE_NOT_ALARM at the
\* serious level for good, whatever threads and cancellations are left over.
SeriousAlarmSticks ==
  \A n \in Nodes : \A i \in Watches[n] :
    LET sampled(S) == \E M \in S : main.node = n /\ process_alarm_data(i, M) IN
    (/\ []<><<sampled(Samples)>>_vars
     /\ <>[][~sampled({M \in Samples : 0 \notin M})]_vars)
      => <>[](node[<<i, n>>].flag[0] # "HAVE_NOT_ALARM")

\* Every alarm thread ends, also when the database fails while it waits for the
\* buffer.
ThreadEnds == \A t \in Threads : thread[t].pc # "none" ~> (thread[t].pc = "none" \/ ~alive)

=============================================================================
