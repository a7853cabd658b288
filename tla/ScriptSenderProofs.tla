-------------------------- MODULE ScriptSenderProofs --------------------------
(***************************************************************************)
(* Proofs about ScriptSender: answers belong to the packet just sent, and  *)
(* no result is lost silently.  The invariant is proved a part at a time,  *)
(* one step per action.                                                    *)
(***************************************************************************)
EXTENDS ScriptSender, TLAPS, SequenceTheorems

\* No packet under way asks for an answer, and no answer is under way.
NoMemory(w) == \A i \in 1 .. Len(w) : w[i].kind # "memory"
Quiet == answers = <<>> /\ NoMemory(wire)

\* The packet just sent is the last one under way, unless it was answered.
Waiting ==
  /\ \A i \in 1 .. Len(wire) : wire[i].kind = "memory" =>
       i = Len(wire) /\ wire[i].v = cur /\ answers = <<>>
  /\ \A i \in 1 .. Len(answers) : answers[i].v = cur

\* An answer that is late finds a process that sends nothing until it has closed.
ChanOK ==
  /\ pc = "recv" => Waiting
  /\ pc \in {"save", "script", "send"} => Quiet \/ (rret = "fail" /\ ~ok)
  /\ pc \in {"down", "connect", "loop", "update", "check", "replay"} => Quiet
  /\ link # "up" => wire = <<>>

CurOK == (pc \in {"send", "recv", "save"}) <=> (cur # 0)

PosOK ==
  /\ pc # "replay" => pos = 1
  /\ pc = "replay" => \A i \in 1 .. Len(file) : i < pos => file[i] \in handed \cup {Other}

SavedOK ==
  pc = "save" /\ sret = "sent" /\ rret # "fail" => cur \in confirmed \cup excused \cup {Other}

\* The type invariant in parts: flags, control, header, channel, results.
FlagsOK ==
  /\ ok \in BOOLEAN /\ told \in BOOLEAN /\ need \in BOOLEAN /\ flag \in BOOLEAN /\ old \in BOOLEAN
CtlOK ==
  /\ pc \in {"down", "connect", "loop", "update", "check", "replay", "script", "send", "recv",
            "save"}
  /\ num \in 1 .. MaxScripts /\ left \in 0 .. MaxScripts
  /\ sret \in {"none", "sent", "lost", "intr"} /\ rret \in {"none", "got", "zero", "fail"}
  /\ faults \in 0 .. MaxFaults /\ reconfigs \in 0 .. MaxReconfigs
Links == {"none", "up", "deaf", "fin", "dying", "rst"}
Header == [status : Byte, exit : Byte]
HeadOK == interval \in Intervals /\ head \in Header
NetOK == wire \in Seq(Packet) /\ link \in Links /\ answers \in Seq(Answer) /\ known \in Word
FileOK ==
  /\ cur \in 0 .. Other /\ pos \in Nat \ {0}
  /\ file \in Seq(Result) /\ Len(file) <= MaxFile
  /\ made \in 0 .. MaxMade
  /\ confirmed \subseteq Followed /\ handed \subseteq Followed /\ excused \subseteq Followed

IInv ==
  /\ FlagsOK /\ CtlOK /\ HeadOK /\ NetOK /\ FileOK
  /\ CurOK /\ PosOK /\ ChanOK /\ SavedOK /\ Accounted

-----------------------------------------------------------------------------
(* The interval header, the channel.                                        *)

\* Two bytes are a number the server can read.
LEMMA WordFacts ==
  /\ 0 \in Word
  /\ \A s, e \in Byte : s + 256 * e \in Word
<1>1. ASSUME NEW s \in Byte, NEW e \in Byte
      PROVE  s \in Nat /\ e \in Nat /\ s <= 255 /\ e <= 255
  BY DEF Byte
<1>2. ASSUME NEW s \in Nat, NEW e \in Nat, s <= 255, e <= 255
      PROVE  s + 256 * e \in Nat /\ s + 256 * e <= 255 + 256 * 255
  BY <1>2
<1> DEFINE w == 255 + 256 * 255
<1>3. w \in Nat /\ Word = 0 .. w
  BY DEF Word
<1>4. \A s, e \in Byte : s + 256 * e \in Nat /\ s + 256 * e <= w
  BY <1>1, <1>2
<1> HIDE DEF w
<1> QED BY <1>3, <1>4

\* The two bytes of the header are a packet.
LEMMA HeadPacket ==
  ASSUME NEW h \in Header
  PROVE  IntervalPacket(h) \in Packet
<1>1. h.status \in Byte /\ h.exit \in Byte
  BY DEF Header
<1> DEFINE n == h.status + 256 * h.exit
<1>2. n \in Word
  BY <1>1, WordFacts
<1> HIDE DEF n
<1>3. [kind |-> "interval", v |-> n] \in Packet
  BY <1>2 DEF Packet
<1> QED BY <1>3 DEF IntervalPacket, n

\* process_sct_main sets both bytes when it connects.
LEMMA BothBytes ==
  ASSUME interval \in Intervals
  PROVE  SetBoth \in Header
<1>1. interval \in 1 .. 600
  BY SenderConstants
<1>2. interval % 256 \in 0 .. 255 /\ interval \div 256 \in 0 .. 255
  BY <1>1
<1> QED BY <1>2 DEF SetBoth, LowByte, Byte, Header

\* ... and only one of them later.
LEMMA ExitByte ==
  ASSUME NEW i \in Intervals, head \in Header
  PROVE  SetExit(i) \in Header
<1>1. i \in 1 .. 600
  BY SenderConstants
<1>2. i % 256 \in 0 .. 255
  BY <1>1
<1> DEFINE b == i % 256
<1>3. b \in Byte /\ SetExit(i) = [head EXCEPT !.exit = b]
  BY <1>2 DEF SetExit, LowByte, Byte
<1> HIDE DEF b, Byte
<1> QED BY <1>3 DEF Header

\* send() keeps the channel well typed.
LEMMA PutType ==
  ASSUME wire \in Seq(Packet), link \in Links, NEW p \in Packet, Put(p)
  PROVE  wire' \in Seq(Packet) /\ link' \in Links
<1> HIDE DEF Packet
<1>1. wire' \in Seq(Packet)
  BY DEF Put
<1>2. link' \in Links
  BY DEF Put, Links
<1> QED BY <1>1, <1>2

\* A sequence of one packet.
LEMMA OnePacket == ASSUME NEW S, NEW x \in S PROVE <<x>> \in Seq(S) /\ <<>> \in Seq(S)
  OBVIOUS

\* A packet that asks for no answer leaves none of those that do on the channel.
LEMMA PutQuiet ==
  ASSUME wire \in Seq(Packet), NoMemory(wire), link # "up" => wire = <<>>,
         NEW p \in Packet, p.kind # "memory", Put(p)
  PROVE  NoMemory(wire') /\ (link' # "up" => wire' = <<>>)
<1>1. CASE link = "up"
  <2>1. wire' = Append(wire, p) /\ link' = "up"
    BY <1>1 DEF Put
  <2>2. ASSUME NEW i \in 1 .. Len(wire') PROVE wire'[i].kind # "memory"
    <3>1. Len(wire') = Len(wire) + 1
      BY <2>1
    <3>2. CASE i <= Len(wire)
      <4>1. i \in 1 .. Len(wire) /\ wire'[i] = wire[i]
        BY <2>1, <3>1, <3>2
      <4> QED BY <4>1 DEF NoMemory
    <3>3. CASE i = Len(wire) + 1
      <4>1. wire'[i] = p
        BY <2>1, <3>3
      <4> QED BY <4>1
    <3> QED BY <3>1, <3>2, <3>3
  <2> QED BY <2>1, <2>2 DEF NoMemory
<1>2. CASE link # "up"
  <2>1. wire' = wire /\ wire = <<>>
    BY <1>2 DEF Put
  <2> QED BY <2>1 DEF NoMemory
<1> QED BY <1>1, <1>2

\* The interval packet does not.
LEMMA IntervalKind == \A h : IntervalPacket(h).kind # "memory"
  BY DEF IntervalPacket

\* The packets behind the ones a recv has taken.
Rest(w, w2, n) ==
  /\ w2 \in Seq(Packet) /\ Len(w2) = Len(w) - n
  /\ \A i \in 1 .. Len(w2) : w2[i] = w[i + n]
LEMMA RestType ==
  ASSUME NEW w \in Seq(Packet), NEW n \in 1 .. Len(w)
  PROVE  Rest(w, SubSeq(w, n + 1, Len(w)), n)
<1> HIDE DEF Packet
<1> QED BY SubSeqProperties DEF Rest

-----------------------------------------------------------------------------
(* The steps.                                                               *)

\* The flags are Booleans.
LEMMA FlagsStep ==
  ASSUME FlagsOK, [Next]_vars
  PROVE  FlagsOK'
<1>1. CASE Restart
  BY <1>1, Zenon DEF FlagsOK, Restart, need_at_start, conf, round, net, ghosts, bounds
<1>2. CASE Kill
  BY <1>2, Zenon DEF FlagsOK, Kill, Down, Close, Fault, ghosts
<1>3. CASE Connect
  BY <1>3, Zenon DEF FlagsOK, Connect, SetBoth, Fault, NoFault, bounds, conf, round, ghosts
<1>4. CASE ConnectFails
  BY <1>4, Zenon DEF FlagsOK, ConnectFails, Fault, conf, round, net, ghosts
<1>5. CASE Update
  BY <1>5, Zenon DEF FlagsOK, Update, UpdateConfig, Put, CanSend, SetExit, round, ghosts, bounds
<1>6. CASE UpdateExits
  BY <1>6, Zenon DEF FlagsOK, UpdateExits, Down, Close, ghosts, bounds
<1>7. CASE UpdateEnds
  BY <1>7, Zenon DEF FlagsOK, UpdateEnds, round, net, ghosts, bounds
<1>8. CASE ReplayLine
  BY <1>8, Zenon DEF FlagsOK, ReplayLine, Put, CanSend, conf, round, bounds
<1>9. CASE ReplayFails
  BY <1>9, Zenon DEF FlagsOK, ReplayFails, StartRound, need_after_failure, Fault, NoFault,
    bounds, conf, net, ghosts
<1>10. CASE RecvFails
  BY <1>10, Zenon DEF FlagsOK, RecvFails, RecvError, Fault, NoFault, bounds, conf, net, ghosts
<1>11. CASE Save
  BY <1>11, Zenon DEF FlagsOK, Save, conf, round, net, bounds
<1>12. CASE EndRound
  BY <1>12, Zenon DEF FlagsOK, EndRound, Close, conf, round, net, ghosts, bounds
<1>13. CASE Reconfig
  BY <1>13, Zenon DEF FlagsOK, Reconfig, RecvError, net, ghosts
<1>14. CASE OldEnds
  BY <1>14, Zenon DEF FlagsOK, OldEnds, conf, round, net, ghosts, bounds
<1>15. CASE NoUpdate \/ Check \/ ReplayEnds \/ ScriptFails \/ ScriptResult \/ Send \/ SendFails
           \/ RecvAnswer \/ RecvEnd \/ ServerRead \/ RstArrives \/ ServerLeaves \/ ServerCloses
           \/ UNCHANGED vars
  <2>1. UNCHANGED <<ok, told, need, flag, old>>
    BY <1>15 DEF NoUpdate, Check, ReplayEnds, ScriptFails, ScriptResult, Send, SendFails,
            RecvAnswer, RecvEnd, ServerRead, RstArrives, ServerLeaves, ServerCloses,
            CanSend, Fault, NoFault, Put, SetExit, StartRound, bounds, conf, ghosts, net,
            round, send_if_connected, send_response, vars
  <2> QED BY <2>1 DEF FlagsOK
<1> QED
  BY <1>1, <1>2, <1>3, <1>4, <1>5, <1>6, <1>7, <1>8, <1>9, <1>10, <1>11, <1>12, <1>13, <1>14,
     <1>15
  DEF Next, Sender, UpdateBlock, Replay, Script, Server

\* The control state keeps its types.
LEMMA CtlStep ==
  ASSUME CtlOK, [Next]_vars
  PROVE  CtlOK'
<1> USE SenderConstants
<1>1. CASE Restart
  BY <1>1 DEF CtlOK, Restart, conf, round, bounds
<1>2. CASE Kill
  BY <1>2 DEF CtlOK, Kill, Down, Fault
<1>3. CASE Connect
  <2>1. pc' = "loop" /\ UNCHANGED <<num, left, sret, rret>>
    BY <1>3 DEF Connect, conf, round
  <2>2. Fault \/ NoFault
    BY <1>3 DEF Connect
  <2>3. faults' \in 0 .. MaxFaults /\ UNCHANGED reconfigs
    BY <2>2 DEF CtlOK, Fault, NoFault, bounds
  <2> QED BY <2>1, <2>3 DEF CtlOK
<1>4. CASE ConnectFails
  BY <1>4 DEF CtlOK, ConnectFails, Fault, conf, round
<1>5. CASE Update
  <2>1. pc' = "update" /\ num' \in 1 .. MaxScripts /\ UNCHANGED <<left, sret, rret>>
    BY <1>5 DEF Update, round
  <2>2. Fault \/ NoFault
    BY <1>5 DEF Update, UpdateConfig
  <2>3. faults' \in 0 .. MaxFaults /\ UNCHANGED reconfigs
    BY <2>2 DEF CtlOK, Fault, NoFault, bounds
  <2> QED BY <2>1, <2>3 DEF CtlOK
<1>6. CASE UpdateExits
  BY <1>6 DEF CtlOK, UpdateExits, Down, bounds
<1>7. CASE UpdateEnds
  BY <1>7 DEF CtlOK, UpdateEnds, round, bounds
<1>8. CASE NoUpdate
  BY <1>8 DEF CtlOK, NoUpdate, conf, round, bounds
<1>9. CASE Check
  BY <1>9 DEF CtlOK, Check, StartRound, conf, round, bounds
<1>10. CASE ReplayLine
  BY <1>10 DEF CtlOK, ReplayLine, conf, round, bounds
<1>11. CASE ReplayFails
  BY <1>11 DEF CtlOK, ReplayFails, StartRound, Fault, NoFault, bounds, conf
<1>12. CASE ReplayEnds
  BY <1>12 DEF CtlOK, ReplayEnds, StartRound, conf, bounds
<1>13. CASE ScriptFails
  BY <1>13 DEF CtlOK, ScriptFails, conf, bounds
<1>14. CASE ScriptResult
  BY <1>14 DEF CtlOK, ScriptResult, conf, bounds
<1>15. CASE Send
  BY <1>15 DEF CtlOK, Send, conf, bounds
<1>16. CASE SendFails
  BY <1>16 DEF CtlOK, SendFails, Fault, NoFault, bounds, conf
<1>17. CASE RecvAnswer
  BY <1>17 DEF CtlOK, RecvAnswer, conf, bounds
<1>18. CASE RecvEnd
  BY <1>18 DEF CtlOK, RecvEnd, conf, bounds
<1>19. CASE RecvFails
  BY <1>19 DEF CtlOK, RecvFails, RecvError, Fault, NoFault, bounds, conf
<1>20. CASE Save
  BY <1>20 DEF CtlOK, Save, conf, round, bounds
<1>21. CASE EndRound
  BY <1>21 DEF CtlOK, EndRound, conf, round, bounds
<1>22. CASE Reconfig
  BY <1>22 DEF CtlOK, Reconfig, RecvError
<1>23. CASE ServerRead
  BY <1>23 DEF CtlOK, ServerRead, conf, round, bounds
<1>24. CASE OldEnds
  BY <1>24 DEF CtlOK, OldEnds, conf, round, bounds
<1>25. CASE ServerLeaves
  BY <1>25 DEF CtlOK, ServerLeaves, Fault, conf, round
<1>26. CASE ServerCloses
  BY <1>26 DEF CtlOK, ServerCloses, Fault, conf, round
<1>27. CASE RstArrives \/ UNCHANGED vars
  <2>1. UNCHANGED <<pc, num, left, sret, rret, faults, reconfigs>>
    BY <1>27 DEF RstArrives, bounds, conf, ghosts, net, round, vars
  <2> QED BY <2>1 DEF CtlOK
<1> QED
  BY <1>1, <1>2, <1>3, <1>4, <1>5, <1>6, <1>7, <1>8, <1>9, <1>10, <1>11, <1>12, <1>13, <1>14,
     <1>15, <1>16, <1>17, <1>18, <1>19, <1>20, <1>21, <1>22, <1>23, <1>24, <1>25, <1>26,
     <1>27
  DEF Next, Sender, UpdateBlock, Replay, Script, Server

\* The header keeps its bytes.
LEMMA HeadStep ==
  ASSUME HeadOK, [Next]_vars
  PROVE  HeadOK'
<1> USE SenderConstants
<1>1. CASE Restart
  BY <1>1 DEF HeadOK, Restart
<1>2. CASE Kill
  BY <1>2 DEF HeadOK, Kill, Down, FirstHead, Header, Byte
<1>3. CASE Connect
  <2>1. SetBoth \in Header
    BY BothBytes DEF HeadOK
  <2> QED BY <1>3, <2>1 DEF HeadOK, Connect, conf
<1>4. CASE Update
  <2>1. CASE UNCHANGED <<interval, head>>
    BY <2>1 DEF HeadOK
  <2>2. ASSUME NEW i \in Intervals, interval' = i, head' = SetExit(i)
        PROVE  HeadOK'
    <3>1. SetExit(i) \in Header
      BY ExitByte DEF HeadOK
    <3> QED BY <2>2, <3>1 DEF HeadOK
  <2> QED BY <1>4, <2>1, <2>2 DEF Update, UpdateConfig
<1>5. CASE UpdateExits
  BY <1>5 DEF HeadOK, UpdateExits, Down, FirstHead, Header, Byte
<1>6. CASE RecvAnswer
  <2>1. SetExit(interval) \in Header
    BY ExitByte DEF HeadOK
  <2> QED BY <1>6, <2>1 DEF HeadOK, RecvAnswer, conf
<1>7. CASE ConnectFails \/ UpdateEnds \/ NoUpdate \/ Check \/ ReplayLine \/ ReplayFails \/
           ReplayEnds \/ ScriptFails \/ ScriptResult \/ Send \/ SendFails \/ RecvEnd \/
           RecvFails \/ Save \/ EndRound \/ Reconfig \/ ServerRead \/ OldEnds \/ RstArrives \/
           ServerLeaves \/ ServerCloses \/ UNCHANGED vars
  <2>1. UNCHANGED <<interval, head>>
    BY <1>7 DEF ConnectFails, UpdateEnds, NoUpdate, Check, ReplayLine, ReplayFails, ReplayEnds,
            ScriptFails, ScriptResult, Send, SendFails, RecvEnd, RecvFails, Save, EndRound,
            Reconfig, ServerRead, OldEnds, RstArrives, ServerLeaves, ServerCloses, CanSend,
            Close, Fault, NoFault, Put, RecvError, StartRound, bounds, conf, ghosts,
            need_after_failure, net, round, send_if_connected, send_response, vars
  <2> QED BY <2>1 DEF HeadOK
<1> QED
  BY <1>1, <1>2, <1>3, <1>4, <1>5, <1>6, <1>7
  DEF Next, Sender, UpdateBlock, Replay, Script, Server

\* The channel keeps its types.
LEMMA NetStep ==
  ASSUME CtlOK, HeadOK, NetOK, FileOK, CurOK, [Next]_vars
  PROVE  NetOK'
<1> USE WordFacts
<1>1. CASE Kill
  BY <1>1 DEF NetOK, Kill, Down, Close, Links
<1>2. CASE Connect
  <2>1. IntervalPacket(SetBoth) \in Packet
    BY BothBytes, HeadPacket DEF HeadOK
  <2>2. /\ wire' = <<>> \/ wire' = <<IntervalPacket(SetBoth)>>
        /\ link' \in {"up", "fin"} /\ answers' = <<>> /\ known' = known
    BY <1>2, Zenon DEF Connect
  <2>3. wire' \in Seq(Packet) /\ link' \in Links
    <3>1. <<IntervalPacket(SetBoth)>> \in Seq(Packet) /\ <<>> \in Seq(Packet)
      BY <2>1, OnePacket
    <3>2. wire' \in Seq(Packet)
      BY <2>2, <3>1, Zenon
    <3> QED BY <2>2, <3>2 DEF Links
  <2> QED BY <2>2, <2>3 DEF NetOK
<1>3. CASE Update
  <2>1. CASE UNCHANGED <<link, wire>>
    BY <1>3, <2>1 DEF NetOK, Update
  <2>2. ASSUME NEW i \in Intervals, Put(IntervalPacket(SetExit(i)))
        PROVE  NetOK'
    <3>1. IntervalPacket(SetExit(i)) \in Packet
      BY ExitByte, HeadPacket DEF HeadOK
    <3>2. wire' \in Seq(Packet) /\ link' \in Links
      BY <2>2, <3>1, PutType DEF NetOK
    <3> QED BY <1>3, <3>2 DEF NetOK, Update
  <2> QED BY <1>3, <2>1, <2>2 DEF Update, UpdateConfig
<1>4. CASE UpdateExits
  BY <1>4 DEF NetOK, UpdateExits, Down, Close, Links
<1>5. CASE ReplayLine
  <2>1. [kind |-> "file", v |-> file[pos]] \in Packet
    BY <1>5 DEF FileOK, ReplayLine, Packet
  <2>2. wire' \in Seq(Packet) /\ link' \in Links
    BY <1>5, <2>1, PutType DEF NetOK, ReplayLine
  <2> QED BY <1>5, <2>2 DEF NetOK, ReplayLine
<1>6. CASE Send
  <2>1. [kind |-> "memory", v |-> cur] \in Packet
    BY <1>6, SenderConstants DEF FileOK, CurOK, Send, Packet, Result, Other
  <2>2. wire' \in Seq(Packet) /\ link' \in Links
    BY <1>6, <2>1, PutType DEF NetOK, Send
  <2> QED BY <1>6, <2>2 DEF NetOK, Send
<1>7. CASE RecvAnswer
  <2>1. IntervalPacket(SetExit(interval)) \in Packet
    BY ExitByte, HeadPacket DEF HeadOK
  <2>2. Put(IntervalPacket(SetExit(interval))) \/ UNCHANGED <<link, wire>>
    BY <1>7 DEF RecvAnswer
  <2>3. wire' \in Seq(Packet) /\ link' \in Links
    BY <2>1, <2>2, PutType DEF NetOK
  <2> QED BY <1>7, <2>3 DEF NetOK, RecvAnswer
<1>8. CASE EndRound
  <2>1. CASE UNCHANGED <<link, wire, answers, known>>
    BY <2>1 DEF NetOK
  <2>2. CASE link' = "none" /\ wire' = <<>> /\ answers' = <<>> /\ known' = known
    BY <2>2 DEF NetOK, Links
  <2> QED BY <1>8, <2>1, <2>2 DEF EndRound, Close, net
<1>9. CASE ServerRead
  <2>1. Head(wire) \in Packet /\ link' \in Links
    BY <1>9 DEF NetOK, ServerRead
  <2>2. PICK n \in 1 .. Len(wire) : wire' = SubSeq(wire, n + 1, Len(wire))
    BY <1>9 DEF ServerRead
  <2>3. wire' \in Seq(Packet)
    BY <2>2, RestType DEF NetOK, Rest
  <2>4. known' \in Word
    BY <1>9, <2>1 DEF NetOK, ServerRead, Packet
  <2>5. Head(wire).kind = "memory" => [v |-> Head(wire).v, status |-> send_response] \in Answer
    BY <2>1 DEF Packet, Answer, send_response
  <2>6. answers' \in Seq(Answer)
    BY <1>9, <2>5 DEF NetOK, ServerRead
  <2> QED BY <2>1, <2>3, <2>4, <2>6 DEF NetOK
<1>10. CASE OldEnds
  BY <1>10 DEF NetOK, OldEnds, net
<1>11. CASE RstArrives
  BY <1>11 DEF NetOK, RstArrives, Links
<1>12. CASE ServerLeaves
  BY <1>12 DEF NetOK, ServerLeaves, Links
<1>13. CASE ServerCloses
  BY <1>13 DEF NetOK, ServerCloses, Links
<1>14. CASE Restart \/ ConnectFails \/ UpdateEnds \/ NoUpdate \/ Check \/ ReplayFails \/
           ReplayEnds \/ ScriptFails \/ ScriptResult \/ SendFails \/ RecvEnd \/ RecvFails \/
           Save \/ Reconfig \/ UNCHANGED vars
  <2>1. UNCHANGED <<link, wire, answers, known>>
    BY <1>14 DEF Restart, ConnectFails, UpdateEnds, NoUpdate, Check, ReplayFails, ReplayEnds,
            ScriptFails, ScriptResult, SendFails, RecvEnd, RecvFails, Save, Reconfig,
            CanSend, Fault, NoFault, RecvError, StartRound, bounds, conf, ghosts,
            need_after_failure, need_at_start, net, round, send_if_connected, vars
  <2> QED BY <2>1 DEF NetOK
<1> QED
  BY <1>1, <1>2, <1>3, <1>4, <1>5, <1>6, <1>7, <1>8, <1>9, <1>10, <1>11, <1>12, <1>13, <1>14
  DEF Next, Sender, UpdateBlock, Replay, Script, Server

\* The results keep their types, and the file fits on the disk.
LEMMA FileStep ==
  ASSUME FileOK, CurOK, [Next]_vars
  PROVE  FileOK'
<1> USE SenderConstants DEF Other, Followed
<1>1. CASE Kill
  BY <1>1 DEF FileOK, Kill, Down
<1>2. CASE UpdateExits
  BY <1>2 DEF FileOK, UpdateExits, Down, ghosts
<1>3. CASE Check
  BY <1>3 DEF FileOK, Check, StartRound, ghosts
<1>4. CASE ReplayLine
  <2>1. pos' = pos + 1 /\ UNCHANGED <<cur, file, made, confirmed, excused>>
    BY <1>4 DEF ReplayLine
  <2>2. handed' \subseteq Followed
    BY <1>4 DEF FileOK, ReplayLine
  <2> QED BY <2>1, <2>2 DEF FileOK
<1>5. CASE ReplayFails
  BY <1>5 DEF FileOK, ReplayFails, StartRound, ghosts
<1>6. CASE ReplayEnds
  BY <1>6 DEF FileOK, ReplayEnds, StartRound, ghosts
<1>7. CASE ScriptResult
  BY <1>7 DEF FileOK, ScriptResult
<1>8. CASE RecvAnswer
  BY <1>8 DEF FileOK, RecvAnswer
<1>9. CASE RecvEnd
  BY <1>9 DEF FileOK, RecvEnd
<1>10. CASE Save
  <2>1. cur \in Result
    BY <1>10 DEF FileOK, CurOK, Save, Result
  <2>2. file' \in Seq(Result) /\ Len(file') <= MaxFile
    BY <1>10, <2>1 DEF FileOK, Save
  <2>3. cur' = 0 /\ UNCHANGED <<pos, made, confirmed, handed>>
    BY <1>10 DEF Save
  <2>4. excused' \subseteq Followed
    BY <1>10 DEF FileOK, Save
  <2> QED BY <2>2, <2>3, <2>4 DEF FileOK
<1>11. CASE Restart \/ Connect \/ ConnectFails \/ Update \/ UpdateEnds \/ NoUpdate \/
           ScriptFails \/ Send \/ SendFails \/ RecvFails \/ EndRound \/ Reconfig \/ ServerRead
           \/ OldEnds \/ RstArrives \/ ServerLeaves \/ ServerCloses \/ UNCHANGED vars
  <2>1. UNCHANGED <<cur, pos, file, made, confirmed, handed, excused>>
    BY <1>11 DEF Restart, Connect, ConnectFails, Update, UpdateEnds, NoUpdate, ScriptFails, Send,
            SendFails, RecvFails, EndRound, Reconfig, ServerRead, OldEnds, RstArrives,
            ServerLeaves, ServerCloses, CanSend, Close, Fault, NoFault, Put, RecvError,
            SetBoth, SetExit, UpdateConfig, bounds, conf, ghosts, need_at_start, net, round,
            send_if_connected, send_response, vars
  <2> QED BY <2>1 DEF FileOK
<1> QED
  BY <1>1, <1>2, <1>3, <1>4, <1>5, <1>6, <1>7, <1>8, <1>9, <1>10, <1>11
  DEF Next, Sender, UpdateBlock, Replay, Script, Server

\* There is a result in hand exactly from the script to the buffer file.
LEMMA CurStep ==
  ASSUME CtlOK, FileOK, CurOK, [Next]_vars
  PROVE  CurOK'
<1> USE SenderConstants DEF Other
<1>1. CASE Restart
  BY <1>1 DEF FileOK, CurOK, Restart
<1>2. CASE Kill
  BY <1>2 DEF FileOK, CurOK, Kill, Down
<1>3. CASE Connect
  BY <1>3 DEF FileOK, CurOK, Connect
<1>4. CASE ConnectFails
  BY <1>4 DEF FileOK, CurOK, ConnectFails
<1>5. CASE Update
  BY <1>5 DEF FileOK, CurOK, Update
<1>6. CASE UpdateExits
  BY <1>6 DEF FileOK, CurOK, UpdateExits, Down
<1>7. CASE UpdateEnds
  BY <1>7 DEF FileOK, CurOK, UpdateEnds
<1>8. CASE NoUpdate
  BY <1>8 DEF FileOK, CurOK, NoUpdate
<1>9. CASE Check
  BY <1>9 DEF FileOK, CurOK, Check, StartRound
<1>10. CASE ReplayLine
  BY <1>10 DEF FileOK, CurOK, ReplayLine
<1>11. CASE ReplayFails
  BY <1>11 DEF FileOK, CurOK, ReplayFails, StartRound
<1>12. CASE ReplayEnds
  BY <1>12 DEF FileOK, CurOK, ReplayEnds, StartRound
<1>13. CASE ScriptFails
  BY <1>13 DEF FileOK, CurOK, ScriptFails
<1>14. CASE ScriptResult
  BY <1>14 DEF FileOK, CurOK, ScriptResult
<1>15. CASE Send
  BY <1>15 DEF FileOK, CurOK, Send
<1>16. CASE SendFails
  BY <1>16 DEF FileOK, CurOK, SendFails
<1>17. CASE RecvAnswer
  BY <1>17 DEF FileOK, CurOK, RecvAnswer
<1>18. CASE RecvEnd
  BY <1>18 DEF FileOK, CurOK, RecvEnd
<1>19. CASE RecvFails
  BY <1>19 DEF FileOK, CurOK, RecvFails, RecvError
<1>20. CASE Save
  BY <1>20 DEF FileOK, CurOK, Save
<1>21. CASE EndRound
  BY <1>21 DEF FileOK, CurOK, EndRound
<1>22. CASE Reconfig
  BY <1>22 DEF FileOK, CurOK, Reconfig, RecvError
<1>23. CASE ServerRead \/ OldEnds \/ RstArrives \/ ServerLeaves \/ ServerCloses \/ UNCHANGED
           vars
  <2>1. UNCHANGED <<pc, cur>>
    BY <1>23 DEF ServerRead, OldEnds, RstArrives, ServerLeaves, ServerCloses, Fault, bounds,
            conf, ghosts, net, round, send_response, vars
  <2> QED BY <2>1 DEF CurOK
<1> QED
  BY <1>1, <1>2, <1>3, <1>4, <1>5, <1>6, <1>7, <1>8, <1>9, <1>10, <1>11, <1>12, <1>13, <1>14,
     <1>15, <1>16, <1>17, <1>18, <1>19, <1>20, <1>21, <1>22, <1>23
  DEF Next, Sender, UpdateBlock, Replay, Script, Server

\* The lines in front of the position have been sent.
LEMMA PosStep ==
  ASSUME CtlOK, FileOK, PosOK, [Next]_vars
  PROVE  PosOK'
<1> USE SenderConstants DEF Followed, Result, Other
<1>1. CASE Restart
  BY <1>1 DEF FileOK, PosOK, Restart, ghosts
<1>2. CASE Kill
  BY <1>2 DEF FileOK, PosOK, Kill, Down, ghosts
<1>3. CASE Connect
  BY <1>3 DEF FileOK, PosOK, Connect, ghosts
<1>4. CASE ConnectFails
  BY <1>4 DEF FileOK, PosOK, ConnectFails, ghosts
<1>5. CASE Update
  BY <1>5 DEF FileOK, PosOK, Update, ghosts
<1>6. CASE UpdateExits
  BY <1>6 DEF FileOK, PosOK, UpdateExits, Down, ghosts
<1>7. CASE UpdateEnds
  BY <1>7 DEF FileOK, PosOK, UpdateEnds, ghosts
<1>8. CASE NoUpdate
  BY <1>8 DEF FileOK, PosOK, NoUpdate, ghosts
<1>9. CASE Check
  BY <1>9 DEF FileOK, PosOK, Check, StartRound, ghosts
<1>10. CASE ReplayLine
  <2>1. pos' = pos + 1 /\ file' = file /\ pc' = "replay"
    BY <1>10 DEF ReplayLine
  <2>2. file[pos] \in handed' \cup {Other}
    BY <1>10 DEF FileOK, ReplayLine
  <2>3. ASSUME NEW i \in 1 .. Len(file), i < pos + 1
        PROVE  file[i] \in handed' \cup {Other}
    <3>1. CASE i < pos
      BY <1>10, <3>1 DEF PosOK, ReplayLine
    <3>2. CASE i = pos
      BY <2>2, <3>2
    <3> QED BY <2>3, <3>1, <3>2 DEF FileOK
  <2> QED BY <2>1, <2>3 DEF PosOK
<1>11. CASE ReplayFails
  BY <1>11 DEF FileOK, PosOK, ReplayFails, StartRound, ghosts
<1>12. CASE ReplayEnds
  BY <1>12 DEF FileOK, PosOK, ReplayEnds, StartRound, ghosts
<1>13. CASE ScriptFails
  BY <1>13 DEF FileOK, PosOK, ScriptFails, ghosts
<1>14. CASE ScriptResult
  BY <1>14 DEF FileOK, PosOK, ScriptResult
<1>15. CASE Send
  BY <1>15 DEF FileOK, PosOK, Send, ghosts
<1>16. CASE SendFails
  BY <1>16 DEF FileOK, PosOK, SendFails, ghosts
<1>17. CASE RecvAnswer
  BY <1>17 DEF FileOK, PosOK, RecvAnswer
<1>18. CASE RecvEnd
  BY <1>18 DEF FileOK, PosOK, RecvEnd
<1>19. CASE RecvFails
  BY <1>19 DEF FileOK, PosOK, RecvFails, RecvError, ghosts
<1>20. CASE Save
  BY <1>20 DEF FileOK, PosOK, Save
<1>21. CASE EndRound
  BY <1>21 DEF FileOK, PosOK, EndRound, ghosts
<1>22. CASE Reconfig
  BY <1>22 DEF FileOK, PosOK, Reconfig, RecvError, ghosts
<1>23. CASE ServerRead \/ OldEnds \/ RstArrives \/ ServerLeaves \/ ServerCloses \/ UNCHANGED
           vars
  <2>1. UNCHANGED <<pc, pos, file, handed>>
    BY <1>23 DEF ServerRead, OldEnds, RstArrives, ServerLeaves, ServerCloses, Fault, bounds,
            conf, ghosts, net, round, send_response, vars
  <2> QED BY <2>1 DEF PosOK
<1> QED
  BY <1>1, <1>2, <1>3, <1>4, <1>5, <1>6, <1>7, <1>8, <1>9, <1>10, <1>11, <1>12, <1>13, <1>14,
     <1>15, <1>16, <1>17, <1>18, <1>19, <1>20, <1>21, <1>22, <1>23
  DEF Next, Sender, UpdateBlock, Replay, Script, Server

\* What the channel holds, in every step.
LEMMA ChanStep ==
  ASSUME CtlOK, HeadOK, NetOK, ChanOK, [Next]_vars
  PROVE  ChanOK'
<1> USE DEF Quiet, NoMemory, Waiting
<1>1. CASE Restart
  BY <1>1 DEF CtlOK, NetOK, ChanOK, Restart, round, net
<1>2. CASE Kill
  BY <1>2 DEF CtlOK, NetOK, ChanOK, Kill, Down, Close
<1>3. CASE Connect
  <2>1. /\ pc' = "loop" /\ answers' = <<>>
        /\ wire' = <<>> \/ wire' = <<IntervalPacket(SetBoth)>>
        /\ link' = "up" \/ wire' = <<>>
    BY <1>3, Zenon DEF Connect
  <2>2. NoMemory(wire')
    <3>1. CASE wire' = <<>>
      BY <3>1
    <3>2. CASE wire' = <<IntervalPacket(SetBoth)>>
      BY <3>2, IntervalKind
    <3> QED BY <2>1, <3>1, <3>2
  <2> QED BY <2>1, <2>2 DEF ChanOK
<1>4. CASE ConnectFails
  BY <1>4 DEF CtlOK, NetOK, ChanOK, ConnectFails, round, net
<1>5. CASE Update
  <2>1. /\ pc = "loop" /\ pc' = "update" /\ answers = <<>> /\ answers' = <<>>
        /\ NoMemory(wire) /\ (link # "up" => wire = <<>>)
    BY <1>5 DEF Update, ChanOK
  <2>2. CASE UNCHANGED <<link, wire>>
    BY <2>1, <2>2 DEF ChanOK
  <2>3. ASSUME NEW i \in Intervals, Put(IntervalPacket(SetExit(i)))
        PROVE  ChanOK'
    <3>1. IntervalPacket(SetExit(i)) \in Packet
      BY ExitByte, HeadPacket DEF HeadOK
    <3> HIDE DEF NoMemory
    <3>2. NoMemory(wire') /\ (link' # "up" => wire' = <<>>)
      BY <2>1, <2>3, <3>1, IntervalKind, PutQuiet DEF NetOK
    <3> QED BY <2>1, <3>2 DEF ChanOK
  <2> QED BY <1>5, <2>2, <2>3 DEF Update, UpdateConfig
<1>6. CASE UpdateExits
  BY <1>6 DEF CtlOK, NetOK, ChanOK, UpdateExits, Down, Close
<1>7. CASE UpdateEnds
  BY <1>7 DEF CtlOK, NetOK, ChanOK, UpdateEnds, round, net
<1>8. CASE NoUpdate
  BY <1>8 DEF CtlOK, NetOK, ChanOK, NoUpdate, round, net
<1>9. CASE Check
  BY <1>9 DEF CtlOK, NetOK, ChanOK, Check, StartRound, round, net
<1>10. CASE ReplayLine
  BY <1>10 DEF CtlOK, NetOK, ChanOK, ReplayLine, Put, CanSend, round
<1>11. CASE ReplayFails
  BY <1>11 DEF CtlOK, NetOK, ChanOK, ReplayFails, StartRound, net
<1>12. CASE ReplayEnds
  BY <1>12 DEF CtlOK, NetOK, ChanOK, ReplayEnds, StartRound, net
<1>13. CASE ScriptFails
  BY <1>13 DEF CtlOK, NetOK, ChanOK, ScriptFails, net
<1>14. CASE ScriptResult
  BY <1>14 DEF CtlOK, NetOK, ChanOK, ScriptResult, net
<1>15. CASE Send
  BY <1>15 DEF CtlOK, NetOK, ChanOK, Send, Put, CanSend, send_if_connected
<1>16. CASE SendFails
  BY <1>16 DEF CtlOK, NetOK, ChanOK, SendFails, send_if_connected, CanSend, net
<1>17. CASE RecvAnswer
  <2>1. /\ pc = "recv" /\ pc' = "save" /\ answers # <<>> /\ answers' = <<>>
        /\ Put(IntervalPacket(SetExit(interval))) \/ UNCHANGED <<link, wire>>
    BY <1>17 DEF RecvAnswer
  <2>2. NoMemory(wire) /\ (link # "up" => wire = <<>>)
    BY <2>1 DEF ChanOK
  <2>3. IntervalPacket(SetExit(interval)) \in Packet
    BY ExitByte, HeadPacket DEF HeadOK
  <2> HIDE DEF NoMemory
  <2>4. NoMemory(wire') /\ (link' # "up" => wire' = <<>>)
    <3>1. CASE Put(IntervalPacket(SetExit(interval)))
      BY <2>2, <2>3, <3>1, IntervalKind, PutQuiet DEF NetOK
    <3>2. CASE UNCHANGED <<link, wire>>
      BY <2>2, <3>2
    <3> QED BY <2>1, <3>1, <3>2
  <2> QED BY <2>1, <2>4 DEF ChanOK
<1>18. CASE RecvEnd
  BY <1>18 DEF CtlOK, NetOK, ChanOK, RecvEnd, net
<1>19. CASE RecvFails
  BY <1>19 DEF CtlOK, NetOK, ChanOK, RecvFails, RecvError, net
<1>20. CASE Save
  BY <1>20 DEF CtlOK, NetOK, ChanOK, Save, round, net
<1>21. CASE EndRound
  BY <1>21 DEF CtlOK, NetOK, ChanOK, EndRound, Close, round, net
<1>22. CASE Reconfig
  BY <1>22 DEF CtlOK, NetOK, ChanOK, Reconfig, RecvError, net
<1>23. CASE ServerRead
  <2>1. UNCHANGED <<pc, ok, rret, cur, link>> /\ link = "up"
    BY <1>23 DEF ServerRead, round
  <2>2. PICK n \in 1 .. Len(wire) : wire' = SubSeq(wire, n + 1, Len(wire))
    BY <1>23 DEF ServerRead
  <2>3. Rest(wire, wire', n)
    BY <2>2, RestType DEF NetOK
  <2>4. Len(wire') = Len(wire) - n /\ Len(wire') \in Nat
    BY <2>3 DEF Rest
  <2>5. /\ wire[1].kind # "memory" => answers' = answers
        /\ wire[1].kind = "memory" =>
             answers' = Append(answers, [v |-> wire[1].v, status |-> send_response])
    BY <1>23 DEF NetOK, ServerRead
  <2>6. NoMemory(wire) => NoMemory(wire') /\ answers' = answers
    BY <2>3, <2>5 DEF Rest, NetOK
  <2>7. ASSUME Waiting PROVE Waiting'
    <3>1. CASE wire[1].kind = "memory"
      <4>1. 1 \in 1 .. Len(wire) /\ n \in Nat /\ n >= 1
        BY <2>2 DEF NetOK
      <4>2. Len(wire) = 1 /\ wire[1].v = cur /\ answers = <<>>
        BY <2>7, <3>1, <4>1
      <4>3. Len(wire') = 0
        <5>1. n = 1
          BY <4>1, <4>2
        <5> QED BY <2>4, <4>2, <5>1
      <4>4. answers' = <<[v |-> wire[1].v, status |-> send_response]>>
        BY <2>5, <3>1, <4>2
      <4> QED BY <2>1, <4>2, <4>3, <4>4
    <3>2. CASE wire[1].kind # "memory"
      <4>1. ASSUME NEW i \in 1 .. Len(wire'), wire'[i].kind = "memory"
            PROVE  i = Len(wire') /\ wire'[i].v = cur /\ answers = <<>>
        <5>1. i + n \in 1 .. Len(wire) /\ wire'[i] = wire[i + n] /\ Len(wire') = Len(wire) - n
          BY <2>3 DEF Rest, NetOK
        <5>2. i + n = Len(wire) /\ wire[i + n].v = cur /\ answers = <<>>
          BY <2>7, <4>1, <5>1
        <5> QED BY <5>1, <5>2 DEF NetOK
      <4> QED BY <2>1, <2>5, <2>7, <3>2, <4>1
    <3> QED BY <3>1, <3>2
  <2> HIDE DEF Waiting, NoMemory
  <2> QED BY <2>1, <2>6, <2>7 DEF ChanOK
<1>24. CASE RstArrives
  BY <1>24 DEF CtlOK, NetOK, ChanOK, RstArrives, round
<1>25. CASE ServerLeaves
  BY <1>25 DEF CtlOK, NetOK, ChanOK, ServerLeaves, round
<1>26. CASE ServerCloses
  BY <1>26 DEF CtlOK, NetOK, ChanOK, ServerCloses, round
<1>27. CASE OldEnds \/ UNCHANGED vars
  <2>1. UNCHANGED <<pc, ok, rret, cur, link, wire, answers>>
    BY <1>27 DEF OldEnds, bounds, conf, ghosts, net, round, vars
  <2> QED BY <2>1 DEF ChanOK, Quiet, NoMemory, Waiting
<1> QED
  BY <1>1, <1>2, <1>3, <1>4, <1>5, <1>6, <1>7, <1>8, <1>9, <1>10, <1>11, <1>12, <1>13, <1>14,
     <1>15, <1>16, <1>17, <1>18, <1>19, <1>20, <1>21, <1>22, <1>23, <1>24, <1>25, <1>26,
     <1>27
  DEF Next, Sender, UpdateBlock, Replay, Script, Server

\* What Save may leave alone.
LEMMA SavedStep ==
  ASSUME CtlOK, NetOK, FileOK, CurOK, ChanOK, SavedOK, [Next]_vars
  PROVE  SavedOK'
<1> USE SenderConstants DEF Followed, Other
<1>1. CASE Restart
  BY <1>1 DEF FileOK, SavedOK, Restart, round, ghosts, bounds
<1>2. CASE Kill
  BY <1>2 DEF FileOK, SavedOK, Kill, Down, ghosts
<1>3. CASE Connect
  BY <1>3 DEF FileOK, SavedOK, Connect, bounds, round, ghosts
<1>4. CASE ConnectFails
  BY <1>4 DEF FileOK, SavedOK, ConnectFails, round, ghosts
<1>5. CASE Update
  BY <1>5 DEF FileOK, SavedOK, Update, round, ghosts, bounds
<1>6. CASE UpdateExits
  BY <1>6 DEF FileOK, SavedOK, UpdateExits, Down, ghosts, bounds
<1>7. CASE UpdateEnds
  BY <1>7 DEF FileOK, SavedOK, UpdateEnds, round, ghosts, bounds
<1>8. CASE NoUpdate
  BY <1>8 DEF FileOK, SavedOK, NoUpdate, round, ghosts, bounds
<1>9. CASE Check
  BY <1>9 DEF FileOK, SavedOK, Check, StartRound, round, ghosts, bounds
<1>10. CASE ReplayLine
  BY <1>10 DEF FileOK, SavedOK, ReplayLine, round, bounds
<1>11. CASE ReplayFails
  BY <1>11 DEF FileOK, SavedOK, ReplayFails, StartRound, bounds, ghosts
<1>12. CASE ReplayEnds
  BY <1>12 DEF FileOK, SavedOK, ReplayEnds, StartRound, ghosts, bounds
<1>13. CASE ScriptFails
  BY <1>13 DEF FileOK, SavedOK, ScriptFails, ghosts, bounds
<1>14. CASE ScriptResult
  BY <1>14 DEF FileOK, SavedOK, ScriptResult, bounds
<1>15. CASE Send
  BY <1>15 DEF FileOK, SavedOK, Send, ghosts, bounds
<1>16. CASE SendFails
  BY <1>16 DEF FileOK, SavedOK, SendFails, bounds, ghosts
<1>17. CASE RecvAnswer
  <2>1. cur \in 1 .. Other
    BY <1>17 DEF FileOK, CurOK, RecvAnswer
  <2>2. 1 \in 1 .. Len(answers)
    BY <1>17 DEF NetOK, RecvAnswer
  <2>3. answers[1].v = cur
    BY <1>17, <2>2 DEF ChanOK, Waiting, RecvAnswer
  <2>4. cur' = cur
       /\ confirmed' = confirmed \cup ({answers[i].v : i \in 1 .. Len(answers)} \cap Followed)
    BY <1>17 DEF RecvAnswer
  <2>5. cur \in {answers[i].v : i \in 1 .. Len(answers)}
    BY <2>2, <2>3
  <2>6. cur' \in confirmed' \cup {Other}
    BY <2>1, <2>4, <2>5
  <2> QED BY <2>6 DEF SavedOK
<1>18. CASE RecvEnd
  <2>1. cur \in 1 .. Other
    BY <1>18 DEF FileOK, CurOK, RecvEnd
  <2>2. cur' = cur /\ excused' = excused \cup ({cur} \cap Followed)
    BY <1>18 DEF RecvEnd
  <2>3. cur' \in excused' \cup {Other}
    BY <2>1, <2>2
  <2> QED BY <2>3 DEF SavedOK
<1>19. CASE RecvFails
  BY <1>19 DEF FileOK, SavedOK, RecvFails, RecvError, bounds, ghosts
<1>20. CASE Save
  BY <1>20 DEF FileOK, SavedOK, Save, round, bounds
<1>21. CASE EndRound
  BY <1>21 DEF FileOK, SavedOK, EndRound, round, ghosts, bounds
<1>22. CASE Reconfig
  BY <1>22 DEF FileOK, SavedOK, Reconfig, RecvError, ghosts
<1>23. CASE ServerRead \/ OldEnds \/ RstArrives \/ ServerLeaves \/ ServerCloses \/ UNCHANGED
           vars
  <2>1. UNCHANGED <<pc, sret, rret, cur, confirmed, excused>>
    BY <1>23 DEF ServerRead, OldEnds, RstArrives, ServerLeaves, ServerCloses, Fault, bounds,
            conf, ghosts, net, round, send_response, vars
  <2> QED BY <2>1 DEF SavedOK
<1> QED
  BY <1>1, <1>2, <1>3, <1>4, <1>5, <1>6, <1>7, <1>8, <1>9, <1>10, <1>11, <1>12, <1>13, <1>14,
     <1>15, <1>16, <1>17, <1>18, <1>19, <1>20, <1>21, <1>22, <1>23
  DEF Next, Sender, UpdateBlock, Replay, Script, Server

\* No step loses a result.
LEMMA AccountedStep ==
  ASSUME CtlOK, FileOK, CurOK, PosOK, SavedOK, Accounted, [Next]_vars
  PROVE  Accounted'
<1> USE SenderConstants DEF Followed, Other
<1>1. CASE Restart
  BY <1>1 DEF FileOK, CurOK, Accounted, Lines, Restart, ghosts
<1>2. CASE Kill
  <2>1. /\ cur' = 0 /\ excused' = excused \cup ({cur} \cap Followed)
        /\ UNCHANGED <<file, made, confirmed, handed>>
    BY <1>2 DEF Kill, Down
  <2>2. Lines' = Lines
    BY <2>1 DEF Lines
  <2> QED BY <2>1, <2>2 DEF FileOK, Accounted
<1>3. CASE Connect
  BY <1>3 DEF FileOK, CurOK, Accounted, Lines, Connect, ghosts
<1>4. CASE ConnectFails
  BY <1>4 DEF FileOK, CurOK, Accounted, Lines, ConnectFails, ghosts
<1>5. CASE Update
  BY <1>5 DEF FileOK, CurOK, Accounted, Lines, Update, ghosts
<1>6. CASE UpdateExits
  BY <1>6 DEF FileOK, CurOK, Accounted, Lines, UpdateExits, Down, ghosts
<1>7. CASE UpdateEnds
  BY <1>7 DEF FileOK, CurOK, Accounted, Lines, UpdateEnds, ghosts
<1>8. CASE NoUpdate
  BY <1>8 DEF FileOK, CurOK, Accounted, Lines, NoUpdate, ghosts
<1>9. CASE Check
  BY <1>9 DEF FileOK, CurOK, Accounted, Lines, Check, StartRound, ghosts
<1>10. CASE ReplayLine
  BY <1>10 DEF FileOK, CurOK, Accounted, Lines, ReplayLine
<1>11. CASE ReplayFails
  BY <1>11 DEF FileOK, CurOK, Accounted, Lines, ReplayFails, StartRound, need_after_failure, ghosts
<1>12. CASE ReplayEnds
  <2>1. /\ file' = (IF need THEN file ELSE <<>>)
        /\ UNCHANGED <<cur, made, confirmed, handed, excused>>
    BY <1>12 DEF ReplayEnds, ghosts
  <2>2. CASE file' = file
    BY <2>1, <2>2 DEF Accounted, Lines
  <2>3. CASE file' = <<>>
    <3>1. Lines \subseteq handed \cup {Other}
      BY <1>12 DEF Lines, FileOK, PosOK, ReplayEnds
    <3>2. Other \notin 1 .. made
      BY DEF FileOK
    <3> QED BY <2>1, <3>1, <3>2 DEF Accounted
  <2> QED BY <2>1, <2>2, <2>3
<1>13. CASE ScriptFails
  BY <1>13 DEF FileOK, CurOK, Accounted, Lines, ScriptFails, ghosts
<1>14. CASE ScriptResult
  BY <1>14 DEF FileOK, CurOK, Accounted, Lines, ScriptResult
<1>15. CASE Send
  BY <1>15 DEF FileOK, CurOK, Accounted, Lines, Send, ghosts
<1>16. CASE SendFails
  BY <1>16 DEF FileOK, CurOK, Accounted, Lines, SendFails, ghosts
<1>17. CASE RecvAnswer
  BY <1>17 DEF FileOK, CurOK, Accounted, Lines, RecvAnswer
<1>18. CASE RecvEnd
  BY <1>18 DEF FileOK, CurOK, Accounted, Lines, RecvEnd
<1>19. CASE RecvFails
  BY <1>19 DEF FileOK, CurOK, Accounted, Lines, RecvFails, RecvError, ghosts
<1>20. CASE Save
  <2>1. /\ pc = "save" /\ cur' = 0 /\ UNCHANGED <<made, confirmed, handed>>
        /\ \A r \in 1 .. made : r # Other /\ (r = cur => r \in {cur} \cap Followed)
    BY <1>20 DEF Save, FileOK
  <2>2. CASE file' = Append(file, cur) /\ excused' = excused
    <3>1. Lines' = Lines \cup {cur}
      BY <2>2, <1>20 DEF FileOK, CurOK, Save, Lines, Result
    <3> QED BY <2>1, <2>2, <3>1 DEF Accounted
  <2>3. CASE file' = file /\ excused' = excused \cup ({cur} \cap Followed)
    <3>1. Lines' = Lines
      BY <2>3 DEF Lines
    <3> QED BY <2>1, <2>3, <3>1 DEF Accounted
  <2>4. CASE sret = "sent" /\ rret # "fail" /\ UNCHANGED <<file, excused>>
    <3>1. Lines' = Lines /\ cur \in confirmed \cup excused \cup {Other}
      BY <2>1, <2>4 DEF Lines, SavedOK
    <3> QED BY <2>1, <2>4, <3>1 DEF Accounted
  <2> QED BY <1>20, <2>2, <2>3, <2>4 DEF Save
<1>21. CASE EndRound
  BY <1>21 DEF FileOK, CurOK, Accounted, Lines, EndRound, ghosts
<1>22. CASE Reconfig
  BY <1>22 DEF FileOK, CurOK, Accounted, Lines, Reconfig, RecvError, ghosts
<1>23. CASE ServerRead \/ OldEnds \/ RstArrives \/ ServerLeaves \/ ServerCloses \/ UNCHANGED
           vars
  <2>1. UNCHANGED <<file, cur, made, confirmed, handed, excused>>
    BY <1>23 DEF ServerRead, OldEnds, RstArrives, ServerLeaves, ServerCloses, Fault, bounds,
            conf, ghosts, net, round, send_response, vars
  <2> QED BY <2>1 DEF Accounted, Lines
<1> QED
  BY <1>1, <1>2, <1>3, <1>4, <1>5, <1>6, <1>7, <1>8, <1>9, <1>10, <1>11, <1>12, <1>13, <1>14,
     <1>15, <1>16, <1>17, <1>18, <1>19, <1>20, <1>21, <1>22, <1>23
  DEF Next, Sender, UpdateBlock, Replay, Script, Server

-----------------------------------------------------------------------------
(* The theorems.                                                            *)

\* The invariant holds in every state.
THEOREM Invariant == Spec => []IInv
<1>1. Init => IInv
  <2> SUFFICES ASSUME Init PROVE IInv
    OBVIOUS
  <2> USE SenderConstants DEF Init
  <2>1. FlagsOK /\ CtlOK
    <3>1. /\ 1 \in 1 .. MaxScripts /\ 0 \in 0 .. MaxScripts
          /\ 0 \in 0 .. MaxFaults /\ 0 \in 0 .. MaxReconfigs
      OBVIOUS
    <3>2. FlagsOK
      BY Zenon DEF FlagsOK
    <3>3. /\ pc = "down" /\ num = 1 /\ left = 0 /\ sret = "none" /\ rret = "none"
          /\ faults = 0 /\ reconfigs = 0
      OBVIOUS
    <3> HIDE DEF Init
    <3>4. CtlOK
      BY <3>1, <3>3 DEF CtlOK
    <3> QED BY <3>2, <3>4
  <2>2. HeadOK
    BY DEF HeadOK, Header, FirstHead, Byte
  <2>3. NetOK
    BY WordFacts DEF NetOK, Links
  <2>4. FileOK
    BY DEF FileOK, Other
  <2>5. CurOK /\ PosOK /\ ChanOK /\ SavedOK
    BY DEF CurOK, PosOK, ChanOK, SavedOK, Quiet, NoMemory
  <2>6. Accounted
    BY DEF Accounted
  <2> QED BY <2>1, <2>2, <2>3, <2>4, <2>5, <2>6 DEF IInv
<1>2. IInv /\ [Next]_vars => IInv'
  <2> SUFFICES ASSUME IInv, [Next]_vars PROVE IInv'
    OBVIOUS
  <2> QED BY FlagsStep, CtlStep, HeadStep, NetStep, FileStep, CurStep, PosStep, ChanStep,
            SavedStep, AccountedStep DEF IInv
<1> QED BY <1>1, <1>2, PTL DEF Spec

\* Every variable of the collector keeps its type: header bytes stay bytes, the script
\* list is never empty.
THEOREM TypeCorrect == Spec => []TypeOK
<1>1. IInv => TypeOK
  BY DEF IInv, FlagsOK, CtlOK, HeadOK, Header, NetOK, Links, FileOK, TypeOK
<1> QED BY <1>1, Invariant, PTL

\* recv never takes the late answer to an earlier packet for the one it waits for.
THEOREM AnswersMatch == Spec => []AnswerForThis
<1>1. IInv => AnswerForThis
  BY DEF IInv, ChanOK, Waiting, AnswerForThis
<1> QED BY <1>1, Invariant, PTL

\* No result of a script gets lost silently, under broken connections, failing replays,
\* lost packets and restarts, for any number of scripts and failures.
THEOREM ResultsAccounted == Spec => []Accounted
<1>1. IInv => Accounted
  BY DEF IInv
<1> QED BY <1>1, Invariant, PTL
=============================================================================
