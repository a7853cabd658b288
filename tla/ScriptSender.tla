---------------------------- MODULE ScriptSender ----------------------------
(***************************************************************************)
(* The script process of the first-generation collector                    *)
(* (TSCE4.0/.trunk/src/collector, c_proc_sct.c) and the receiver of        *)
(* collectord that it talks to (d_recv.c).  Every round the process runs   *)
(* the scripts of its node and sends what each one prints; the server      *)
(* answers at once.  What could not be sent is appended to a buffer file   *)
(* and sent again when there is a connection, also by the next process.    *)
(* Collectord has the server's side in full, for any peer; here one        *)
(* receiver is enough.                                                     *)
(*                                                                         *)
(* A result is a number.  How a script is run (c_execute: pipe, timeout,   *)
(* exit code, format) comes to a result or none; a result is one line, as  *)
(* the buffer file is read in lines.  Left out: log, copies of the         *)
(* scripts, short sends, and the command process but for its "reconfig".   *)
(***************************************************************************)
EXTENDS Integers, Sequences, FiniteSets

CONSTANTS
  Intervals,    \* values of collect_interval
  MaxScripts,   \* scripts of the node
  MaxMade,      \* bound: results that are followed, any of all the results
  MaxFile,      \* lines that fit on the disk
  MaxFaults,    \* bound: failures of network, server and processes
  MaxReconfigs  \* bound: reconfig commands

ASSUME SenderConstants ==
  /\ Intervals # {} /\ Intervals \subseteq 1 .. 600  \* MIN_CL_INTERVAL .. MAX_CL_INTERVAL
  /\ MaxScripts \in Nat \ {0} /\ MaxMade \in Nat /\ MaxFile \in Nat
  /\ MaxFaults \in Nat /\ MaxReconfigs \in Nat

VARIABLES
  pc,           \* where process_sct_main is
  ok, told,     \* connection_is_ok, interval_have_send
  need,         \* need_read_data_from_file
  flag,         \* g_sct_update_flag
  interval,     \* clr_interval
  head,         \* two bytes of sct_interval_data_head: data_status, exit_code
  num, left,    \* g_scl.sc_num, and the scripts left in this round
  sret, rret,   \* send_ret with send_errno, recv_ret
  cur,          \* the result in the buffer, or 0
  pos,          \* next line of the file
  file,         \* DATA_BUFFER_FILE
  link,         \* the connection: none, up, deaf (nobody reads), fin (closed by the
                \* server), dying (something was sent since), rst
  wire,         \* sent and not read by the server
  answers,      \* sent by the server and not read
  known,        \* discard_time of the node at the server
  old,          \* the receiver of an earlier connection has not ended
  made,         \* results followed so far
  confirmed, handed, excused, \* of them: answered; sent from the file; lost in a known way
  faults, reconfigs

conf == <<flag, interval, num>>
round == <<left, sret, rret>>
net == <<link, wire, answers>>
ghosts == <<made, confirmed, handed, excused>>
bounds == <<faults, reconfigs>>
vars == <<pc, ok, told, need, conf, head, round, cur, pos, file, net, known, old, ghosts, bounds>>

Other == MaxMade + 1
Result == 1 .. Other
Followed == 1 .. MaxMade
Byte == 0 .. 255
Word == 0 .. 255 + 256 * 255
Packet == [kind : {"interval"}, v : Word] \cup [kind : {"memory", "file"}, v : Result]
Answer == [v : Result, status : BOOLEAN]
FirstHead == [status |-> 1, exit |-> 0]
Lines == {file[i] : i \in 1 .. Len(file)}

Fault == faults < MaxFaults /\ faults' = faults + 1 /\ UNCHANGED reconfigs
NoFault == UNCHANGED bounds

Init ==
  /\ pc = "down" /\ ok = FALSE /\ told = FALSE /\ need = FALSE /\ flag = FALSE
  /\ interval \in Intervals /\ head = FirstHead
  /\ num = 1 /\ left = 0 /\ sret = "none" /\ rret = "none" /\ cur = 0 /\ pos = 1
  /\ file = <<>> /\ link = "none" /\ wire = <<>> /\ answers = <<>>
  /\ known = 0 /\ old = FALSE
  /\ made = 0 /\ confirmed = {} /\ handed = {} /\ excused = {}
  /\ faults = 0 /\ reconfigs = 0

-----------------------------------------------------------------------------
(* The process starts and ends.                                             *)

\* A buffer file left by an earlier process has to be sent.
need_forgets_file == FALSE
need_at_start == file # <<>>

Restart ==
  /\ pc = "down"
  /\ pc' = "connect"
  /\ need' = need_at_start
  /\ interval' \in Intervals /\ num' \in 1 .. MaxScripts
  /\ UNCHANGED <<ok, told, flag, head, round, cur, pos, file, net, known, old, ghosts, bounds>>

\* close, by the process or by its end: the receiver finds out later.
Close ==
  /\ link' = "none" /\ wire' = <<>> /\ answers' = <<>>
  /\ old' = (old \/ link = "up")

\* The end of the process: what it kept in memory is gone.
Down ==
  /\ pc' = "down"
  /\ ok' = FALSE /\ told' = FALSE /\ need' = FALSE /\ flag' = FALSE
  /\ num' = 1 /\ head' = FirstHead /\ left' = 0 /\ sret' = "none" /\ rret' = "none"
  /\ cur' = 0 /\ pos' = 1
  /\ Close

Kill ==
  /\ pc # "down" /\ Fault
  /\ Down
  /\ excused' = excused \cup ({cur} \cap Followed)
  /\ UNCHANGED <<interval, file, known, made, confirmed, handed>>

-----------------------------------------------------------------------------
(* Connecting.                                                              *)

\* The server reads the interval from data_status and exit_code, low byte first.
LowByte(i) == i % 256
IntervalPacket(h) == [kind |-> "interval", v |-> h.status + 256 * h.exit]
SetBoth == [status |-> LowByte(interval), exit |-> interval \div 256]

\* send() succeeds until the reset that answers it has come.
CanSend == link \notin {"none", "rst"}
Put(p) ==
  /\ CanSend
  /\ wire' = IF link = "up" THEN Append(wire, p) ELSE wire
  /\ link' = IF link = "fin" THEN "dying" ELSE link

\* The server closes at once while it takes another thread to be running.
Connect ==
  /\ pc = "connect"
  /\ pc' = "loop" /\ ok' = TRUE
  /\ head' = IF told THEN head ELSE SetBoth
  /\ answers' = <<>>
  /\ \/ /\ link' = "up" /\ told' = TRUE /\ NoFault
        /\ wire' = IF told THEN <<>> ELSE <<IntervalPacket(SetBoth)>>
     \/ /\ link' = "up" /\ ~told /\ UNCHANGED told /\ Fault
        /\ wire' = <<>>
     \/ /\ old /\ link' = "fin" /\ told' \in {told, TRUE} /\ NoFault
        /\ wire' = <<>>
  /\ UNCHANGED <<need, conf, round, cur, pos, file, known, old, ghosts>>

ConnectFails ==
  /\ pc = "connect" /\ Fault
  /\ pc' = "loop" /\ ok' = FALSE /\ told' = FALSE
  /\ UNCHANGED <<need, conf, head, round, cur, pos, file, net, known, old, ghosts>>

-----------------------------------------------------------------------------
(* The update block.  Only exit_code is set before the interval is sent.    *)

SetExit(i) == [head EXCEPT !.exit = LowByte(i)]

\* update_clr_sct_config, and send on whatever client_sockfd is.
UpdateConfig ==
  \/ UNCHANGED <<interval, head, told, link, wire>> /\ NoFault
  \/ \E i \in Intervals :
       /\ interval' = i /\ head' = SetExit(i)
       /\ \/ Put(IntervalPacket(SetExit(i))) /\ told' = TRUE /\ NoFault
          \/ /\ told' = FALSE /\ UNCHANGED <<link, wire>>
             /\ IF CanSend THEN Fault ELSE NoFault

\* update_script_list: a list with a script that can not be run is ignored.
Update ==
  /\ pc = "loop" /\ flag
  /\ pc' = "update"
  /\ UpdateConfig
  /\ num' \in 1 .. MaxScripts
  /\ UNCHANGED <<ok, need, flag, round, cur, pos, file, answers, known, old, ghosts>>

\* The node is not in the list any more, or has no script: close and exit.
UpdateExits ==
  /\ pc = "update"
  /\ Down
  /\ UNCHANGED <<interval, file, known, ghosts, bounds>>

\* What arrived during the block is forgotten with it.
UpdateEnds ==
  /\ pc = "update"
  /\ pc' = "check" /\ flag' = FALSE
  /\ UNCHANGED <<ok, told, need, interval, num, head, round, cur, pos, file, net, known, old,
                 ghosts, bounds>>

NoUpdate ==
  /\ pc = "loop" /\ ~flag
  /\ pc' = "check"
  /\ UNCHANGED <<ok, told, need, conf, head, round, cur, pos, file, net, known, old, ghosts, bounds>>

-----------------------------------------------------------------------------
(* The buffer file is sent.                                                 *)

StartRound ==
  /\ pc' = "script" /\ left' = num /\ sret' = "none" /\ rret' = "none"
  /\ pos' = 1

Check ==
  /\ pc = "check"
  /\ IF ok /\ need THEN pc' = "replay" /\ UNCHANGED <<round, pos>>
                   ELSE StartRound
  /\ UNCHANGED <<ok, told, need, conf, head, cur, file, net, known, old, ghosts, bounds>>

ReplayLine ==
  /\ pc = "replay" /\ pos <= Len(file)
  /\ Put([kind |-> "file", v |-> file[pos]])
  /\ handed' = handed \cup ({file[pos]} \cap Followed)
  /\ need' = FALSE /\ pos' = pos + 1
  /\ UNCHANGED <<pc, ok, told, conf, head, round, cur, file, answers, known, old,
                 made, confirmed, excused, bounds>>

need_unless_sent == need
need_after_failure == TRUE

\* The loop is left: sent lines stay in the file, too, and are sent again.
ReplayFails ==
  /\ pc = "replay" /\ pos <= Len(file)
  /\ \/ ~CanSend /\ NoFault
     \/ Fault
  /\ need' = need_after_failure
  /\ file' = IF need_after_failure THEN file ELSE <<>>
  /\ StartRound
  /\ UNCHANGED <<ok, told, conf, head, cur, net, known, old, ghosts>>

ReplayEnds ==
  /\ pc = "replay" /\ pos > Len(file)
  /\ file' = IF need THEN file ELSE <<>>
  /\ StartRound
  /\ UNCHANGED <<ok, told, need, conf, head, cur, net, known, old, ghosts, bounds>>

-----------------------------------------------------------------------------
(* The scripts of a round.                                                  *)

ScriptFails ==
  /\ pc = "script" /\ left > 0
  /\ left' = left - 1
  /\ UNCHANGED <<pc, ok, told, need, conf, head, sret, rret, cur, pos, file, net, known, old,
                 ghosts, bounds>>

ScriptResult ==
  /\ pc = "script" /\ left > 0
  /\ pc' = "send" /\ left' = left - 1
  /\ \/ cur' = made + 1 /\ made < MaxMade /\ made' = made + 1
     \/ cur' = Other /\ UNCHANGED made
  /\ UNCHANGED <<ok, told, need, conf, head, sret, rret, pos, file, net, known, old,
                 confirmed, handed, excused, bounds>>

send_regardless == TRUE
send_if_connected == ok

Send ==
  /\ pc = "send" /\ send_if_connected
  /\ pc' = "recv" /\ sret' = "sent"
  /\ Put([kind |-> "memory", v |-> cur])
  /\ UNCHANGED <<ok, told, need, conf, head, left, rret, cur, pos, file, answers, known, old,
                 ghosts, bounds>>

\* ENOTCONN without a connection, EPIPE or ECONNRESET, a timeout, or a signal.
SendFails ==
  /\ pc = "send"
  /\ \/ (~send_if_connected \/ ~CanSend) /\ sret' = "lost" /\ NoFault
     \/ ok /\ sret' \in {"lost", "intr"} /\ Fault
  /\ pc' = "save"
  /\ UNCHANGED <<ok, told, need, conf, head, left, rret, cur, pos, file, net, known, old, ghosts>>

\* recv takes all that has come.  An answer with status 0 asks for the interval.
RecvAnswer ==
  /\ pc = "recv" /\ answers # <<>>
  /\ pc' = "save" /\ rret' = "got"
  /\ answers' = <<>>
  /\ confirmed' = confirmed \cup ({answers[i].v : i \in 1 .. Len(answers)} \cap Followed)
  /\ IF Len(answers) = 1 /\ ~answers[1].status
     THEN /\ head' = SetExit(interval)
          /\ \/ Put(IntervalPacket(SetExit(interval)))
             \/ ~CanSend /\ UNCHANGED <<link, wire>>
     ELSE UNCHANGED <<head, link, wire>>
  /\ UNCHANGED <<ok, told, need, conf, left, sret, cur, pos, file, known, old,
                 made, handed, excused, bounds>>

\* The server has closed the connection: 0 is no failure for the code.
RecvEnd ==
  /\ pc = "recv" /\ link \in {"fin", "dying"} /\ answers = <<>>
  /\ pc' = "save" /\ rret' = "zero"
  /\ excused' = excused \cup ({cur} \cap Followed)
  /\ UNCHANGED <<ok, told, need, conf, head, left, sret, cur, pos, file, net, known, old,
                 made, confirmed, handed, bounds>>

RecvError ==
  /\ pc = "recv"
  /\ pc' = "save" /\ rret' = "fail" /\ ok' = FALSE

\* A reset, or CLR_RECV_TIMEOUT: nobody reads, the packet was dropped, or the server
\* is slow.
RecvFails ==
  /\ RecvError /\ answers = <<>>
  /\ \/ link \in {"rst", "deaf"} /\ NoFault
     \/ link = "up" /\ wire = <<>> /\ NoFault
     \/ link = "up" /\ Fault
  /\ UNCHANGED <<told, need, conf, head, left, sret, cur, pos, file, net, known, old, ghosts>>

\* WRITE_DATA_TO_FILE.  What write_data_to_file returns is not looked at.
Save ==
  /\ pc = "save"
  /\ pc' = "script" /\ cur' = 0
  /\ IF sret # "sent" \/ rret = "fail"
     THEN /\ ok' = FALSE /\ need' = TRUE
          /\ IF Len(file) < MaxFile
             THEN file' = Append(file, cur) /\ UNCHANGED excused
             ELSE excused' = excused \cup ({cur} \cap Followed) /\ UNCHANGED file
     ELSE UNCHANGED <<ok, need, file, excused>>
  /\ UNCHANGED <<told, conf, head, round, pos, net, known, old, made, confirmed, handed, bounds>>

\* After the sleep.  An interrupted send is not a reason to connect again.
EndRound ==
  /\ pc = "script" /\ left = 0
  /\ IF sret = "lost" \/ rret = "fail"
     THEN pc' = "connect" /\ ok' = FALSE /\ Close
     ELSE pc' = "loop" /\ UNCHANGED <<ok, net, old>>
  /\ UNCHANGED <<told, need, conf, head, round, cur, pos, file, known, ghosts, bounds>>

-----------------------------------------------------------------------------
(* c_proc_cmd.c and c_signal.c: reconfig is a signal.  The socket has a     *)
(* timeout, so that recv is not started again after it.                     *)

Reconfig ==
  /\ pc # "down" /\ reconfigs < MaxReconfigs
  /\ reconfigs' = reconfigs + 1 /\ UNCHANGED faults
  /\ flag' = TRUE
  /\ \/ UNCHANGED <<pc, ok, rret>>
     \/ answers = <<>> /\ RecvError
  /\ UNCHANGED <<told, need, interval, num, head, left, sret, cur, pos, file, net, known, old, ghosts>>

-----------------------------------------------------------------------------
(* d_recv.c.                                                                *)

answer_always_known == TRUE
send_response == known # 0

\* One recv takes one packet or more; of several the first is processed, again and
\* again, and the others are lost.
ServerRead ==
  /\ link = "up" /\ wire # <<>>
  /\ \E n \in 1 .. Len(wire) : wire' = SubSeq(wire, n + 1, Len(wire))
  /\ LET p == Head(wire)
     IN /\ known' = IF p.kind = "interval" /\ p.v > 0 THEN p.v ELSE known
        /\ answers' = IF p.kind = "memory"
                      THEN Append(answers, [v |-> p.v, status |-> send_response])
                      ELSE answers
  /\ UNCHANGED <<pc, ok, told, need, conf, head, round, cur, pos, file, link, old, ghosts, bounds>>

\* THREAD_EXIT after a timeout or an error: the node's data are deleted, the socket is
\* left open.
ServerLeaves ==
  /\ link = "up" /\ Fault
  /\ link' = "deaf" /\ wire' = <<>> /\ known' = 0
  /\ UNCHANGED <<pc, ok, told, need, conf, head, round, cur, pos, file, answers, old, ghosts>>

\* The receiver is told to exit, or the server ends: a reset if it had not read all.
ServerCloses ==
  /\ link \in {"up", "deaf"} /\ Fault
  /\ link' = IF wire = <<>> THEN "fin" ELSE "rst"
  /\ wire' = <<>> /\ known' = 0
  /\ UNCHANGED <<pc, ok, told, need, conf, head, round, cur, pos, file, answers, old, ghosts>>

RstArrives ==
  /\ link = "dying"
  /\ link' = "rst"
  /\ UNCHANGED <<pc, ok, told, need, conf, head, round, cur, pos, file, wire, answers, known, old,
                 ghosts, bounds>>

\* The receiver of an earlier connection ends, and deletes the data of the node although
\* another receiver may be serving it by now.
OldEnds ==
  /\ old
  /\ old' = FALSE /\ known' = 0
  /\ UNCHANGED <<pc, ok, told, need, conf, head, round, cur, pos, file, net, ghosts, bounds>>

-----------------------------------------------------------------------------
UpdateBlock == Update \/ UpdateExits \/ UpdateEnds \/ NoUpdate
Replay == Check \/ ReplayLine \/ ReplayFails \/ ReplayEnds
Script == ScriptFails \/ ScriptResult \/ Send \/ SendFails \/ RecvAnswer \/ RecvEnd \/ RecvFails
          \/ Save \/ EndRound
Sender == Connect \/ ConnectFails \/ UpdateBlock \/ Replay \/ Script
Server == ServerRead \/ OldEnds \/ RstArrives

Next == Restart \/ Kill \/ Sender \/ Reconfig \/ Server \/ ServerLeaves \/ ServerCloses

Spec == Init /\ [][Next]_vars

\* The process and the server run.  Some script gives a result now and then: without one
\* the code never connects again.
Fairness ==
  /\ WF_vars(Sender) /\ SF_vars(ScriptResult)
  /\ WF_vars(ServerRead) /\ WF_vars(OldEnds) /\ WF_vars(RstArrives)

FairSpec == Spec /\ Fairness

-----------------------------------------------------------------------------
\* Every variable has its type: the bytes of the interval header stay bytes, the list is
\* never empty (the script timeout is divided by its length), the file fits on the disk.
TypeOK ==
  /\ pc \in {"down", "connect", "loop", "update", "check", "replay", "script", "send", "recv",
            "save"}
  /\ ok \in BOOLEAN /\ told \in BOOLEAN /\ need \in BOOLEAN /\ flag \in BOOLEAN /\ old \in BOOLEAN
  /\ interval \in Intervals /\ head \in [status : Byte, exit : Byte]
  /\ num \in 1 .. MaxScripts /\ left \in 0 .. MaxScripts
  /\ sret \in {"none", "sent", "lost", "intr"} /\ rret \in {"none", "got", "zero", "fail"}
  /\ cur \in 0 .. Other /\ pos \in Nat \ {0}
  /\ file \in Seq(Result) /\ Len(file) <= MaxFile
  /\ link \in {"none", "up", "deaf", "fin", "dying", "rst"}
  /\ wire \in Seq(Packet) /\ answers \in Seq(Answer)
  /\ known \in Word
  /\ made \in 0 .. MaxMade
  /\ confirmed \subseteq Followed /\ handed \subseteq Followed /\ excused \subseteq Followed
  /\ faults \in 0 .. MaxFaults /\ reconfigs \in 0 .. MaxReconfigs

\* What recv finds after a send is the answer to that packet: an answer that came too late
\* for an earlier one is never taken for it, although packets carry no number.  The code
\* relies on it when it takes any answer for "sent".
AnswerForThis == pc = "recv" => \A i \in 1 .. Len(answers) : answers[i].v = cur

\* No result gets lost silently: the server has answered it, or it was sent from the file,
\* or it is in the file, or in hand; else the end of the connection was read instead of
\* an answer, the disk was full, or the process died with it.  Under broken connections,
\* replays that fail half-way, lost packets and restarts.
Accounted == \A r \in 1 .. made : r \in confirmed \cup handed \cup excused \cup Lines \cup {cur}

\* Every result in the buffer file is sent from it in the end, unless the process ends:
\* by the process that wrote it or by a later one.
FileDrains == \A r \in Followed : (r \in Lines) ~> (r \notin Lines \/ pc = "down")

\* A server that has no collect interval of the node asks for it, with its answer to a
\* result, until it is sent one again: also after a restart of the server and after a
\* late receiver has deleted it, although the process takes it for known.  (Unless the
\* low byte of the interval is 0.)  Which number arrives is another question.
IntervalAskedAgain == (link = "up" /\ known = 0) ~> (known # 0 \/ link # "up")
=============================================================================
