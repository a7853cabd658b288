---------------------------- MODULE SampleColumns ----------------------------
(***************************************************************************)
(* The columns of a sample.  A sample is a line of values without names:   *)
(* tscecd puts them together from its plug-ins and scripts in the order of *)
(* its own list of monitored modules (clr_config.c, framework.c, data.c),  *)
(* and tscesd finds a value again by its position only: the database       *)
(* writer counts along the monitor list (db.c), a real-time query along    *)
(* base_index.conf (rtd.c).                                                *)
(*                                                                         *)
(* The lists of base_index.conf are linked lists; monitor_data builds the  *)
(* list of monitored modules by relinking the very list it walks, so the   *)
(* pointers are part of the state.                                         *)
(***************************************************************************)
EXTENDS Integers, Sequences, SequencesExt

CONSTANTS
  BaseFiles,     \* contents of base_index.conf: sequences of lines [mod, ix, ok],
                 \* ok: every index has its unit and its type
  MonitorLists,  \* [monitorlist] of tsce_index.conf: sequences of module names
  Installs,      \* what the node has installed: module name -> [kind, hdrs]
  ScriptLines(_), \* the lines a script may print: sequences of keys, or BadLine
  MaxRounds      \* bound: samples per behaviour

ASSUME ColumnsConstants ==
  /\ BaseFiles \subseteq Seq([mod : STRING, ix : Seq(STRING), ok : BOOLEAN])
  /\ MonitorLists \subseteq Seq(STRING)
  /\ \A f \in BaseFiles : \A p \in DOMAIN f : ScriptLines(f[p].mod) \subseteq Seq(STRING)
  /\ MaxRounds \in Nat

\* A line without ":" and "=".
BadLine == <<"none">>

M == -1                    \* monitor_mod_info_head
H == 0                     \* mod_info_head; 1, 2, ...: the lines of base_index.conf
Null == -2

\* A value of index ix read in round at; at = 0: index_data is still "".
Mask == [ix |-> "error", at |-> 0]
Value(x, r) == [ix |-> x, at |-> r]

VARIABLES
  file, monitor, installed,   \* the inputs
  pc,
  info,          \* the parsed lines, info[p] at list node p
  nxt,           \* next pointer of every list node
  j, head, hm,   \* monitor_data: monitor_list position, head, head_monitor
  t,             \* list node a walk has reached
  mods,          \* app_clr_module.mods: [name, flag]
  script_path,   \* script_t.script_path
  i, js,         \* collect_data_from_modules: module and script counters
  buffer,        \* script_t.buffer
  script_j,      \* script_t.script_j
  index_data,    \* what the loaded plug-ins hold: index -> round of its value
  round, sample

inputs   == <<file, monitor, installed>>
lists    == <<info, nxt>>
walk     == <<j, head, hm>>
loaded   == <<mods, script_path>>
readings == <<i, js, buffer, index_data, round>>
vars == <<inputs, pc, lists, walk, t, loaded, readings, script_j, sample>>

Indexes(f) == UNION {ToSet(f[p].ix) : p \in DOMAIN f}

Init ==
  /\ file \in BaseFiles /\ monitor \in MonitorLists /\ installed \in Installs
  /\ pc = "parse"
  /\ info = <<>>
  /\ nxt = [p \in M..Len(file) |-> Null]
  /\ j = 1 /\ head = Null /\ hm = M /\ t = Null
  /\ mods = <<>> /\ script_path = <<>>
  /\ i = 1 /\ js = 1 /\ buffer = <<>> /\ script_j = 0
  /\ index_data = [x \in Indexes(file) |-> 0]
  /\ round = 0 /\ sample = <<>>

-----------------------------------------------------------------------------
(* con_config.c: base_index.conf.                                           *)

check_modinfo(p, earlier) ==
  \A q \in ToSet(earlier) :
    /\ p.mod # q.mod
    /\ ToSet(p.ix) \cap ToSet(q.ix) = {}

\* One line: appended to the list, or the start-up fails (err_exit).
analyse_index_info_config ==
  LET p == file[Len(info) + 1] IN
  /\ pc = "parse" /\ Len(info) < Len(file)
  /\ IF p.ok /\ check_modinfo(p, info)
     THEN /\ info' = Append(info, p)
          /\ nxt' = [nxt EXCEPT ![Len(info)] = Len(info) + 1]
          /\ UNCHANGED pc
     ELSE /\ pc' = "exit"
          /\ UNCHANGED lists
  /\ UNCHANGED <<inputs, walk, t, loaded, readings, script_j, sample>>

ParseEnds ==
  /\ pc = "parse" /\ Len(info) = Len(file)
  /\ pc' = "monitor"
  /\ head' = nxt[H]
  /\ UNCHANGED <<inputs, lists, j, hm, t, loaded, readings, script_j, sample>>

-----------------------------------------------------------------------------
(* clr_config.c: monitor_data, which links the monitored modules.           *)

MatchContinues ==
  /\ pc = "monitor" /\ j <= Len(monitor) /\ head # Null
  /\ IF info[head].mod = monitor[j]
     THEN nxt' = [nxt EXCEPT ![hm] = head] /\ hm' = head /\ UNCHANGED head
     ELSE head' = nxt[head] /\ UNCHANGED <<nxt, hm>>
  /\ UNCHANGED <<inputs, pc, info, j, t, loaded, readings, script_j, sample>>

\* The while loop over the base list.  The match changes the next pointer of
\* the last monitored module, which may be the one head goes on from.
monitor_data_step ==
  /\ pc = "monitor" /\ j <= Len(monitor) /\ head # Null
  /\ IF info[head].mod = monitor[j]
     THEN /\ nxt' = [nxt EXCEPT ![hm] = head]
          /\ hm' = head
     ELSE UNCHANGED <<nxt, hm>>
  /\ head' = nxt'[head]
  /\ UNCHANGED <<inputs, pc, info, j, t, loaded, readings, script_j, sample>>

\* The for loop over the monitor list.
monitor_data_next ==
  /\ pc = "monitor" /\ j <= Len(monitor) /\ head = Null
  /\ j' = j + 1
  /\ head' = nxt[H]
  /\ UNCHANGED <<inputs, pc, lists, hm, t, loaded, readings, script_j, sample>>

monitor_data_end ==
  /\ pc = "monitor" /\ j > Len(monitor)
  /\ nxt' = [nxt EXCEPT ![hm] = Null]
  /\ pc' = "load"
  /\ t' = nxt'[M]
  /\ UNCHANGED <<inputs, info, walk, loaded, readings, script_j, sample>>

-----------------------------------------------------------------------------
(* init_module_array (clr.c) and load_modules (framework.c).                *)

\* The shared library is tried first, then the script of that name.
Flag(m) ==
  IF m \notin DOMAIN installed THEN "NOT_EXIST" ELSE installed[m].kind

load_modules ==
  /\ pc = "load" /\ t # Null
  /\ LET m == info[t].mod IN
       /\ mods' = Append(mods, [name |-> m, flag |-> Flag(m)])
       /\ script_path' = IF Flag(m) = "SCRIPT" THEN Append(script_path, m) ELSE script_path
       /\ buffer' = IF Flag(m) = "SCRIPT" THEN Append(buffer, BadLine) ELSE buffer
  /\ t' = nxt[t]
  /\ UNCHANGED <<inputs, pc, lists, walk, i, js, index_data, round, script_j, sample>>

\* The handshake is Collector's; begin_collect_data leaves no value behind.
LoadEnds ==
  /\ pc = "load" /\ t = Null
  /\ pc' = "collect" /\ round' = 1
  /\ UNCHANGED <<inputs, lists, walk, t, loaded, i, js, buffer, index_data, script_j, sample>>

-----------------------------------------------------------------------------
(* data.c: collect_data_from_modules, complete_app_data.                    *)

\* c_read of a plug-in: it stores its values, or returns early and they stay.
ReadPlugin(m) ==
  /\ mods[i].flag = "NORMAL"
  /\ \E ok \in BOOLEAN :
       index_data' = [x \in DOMAIN index_data |->
                        IF ok /\ x \in installed[m].hdrs THEN round ELSE index_data[x]]
  /\ i' = i + 1
  /\ UNCHANGED <<pc, js, buffer>>

\* popen of the next script: a line without a value ends the daemon.
ReadScript(m) ==
  /\ mods[i].flag = "SCRIPT"
  /\ \E line \in ScriptLines(script_path[js]) :
       IF line = BadLine
       THEN pc' = "exit" /\ UNCHANGED <<i, js, buffer>>
       ELSE /\ buffer' = [buffer EXCEPT ![js] = line]
            /\ js' = js + 1 /\ i' = i + 1
            /\ UNCHANGED pc
  /\ UNCHANGED index_data

ReadNothing ==
  /\ mods[i].flag \notin {"NORMAL", "SCRIPT"}
  /\ i' = i + 1
  /\ UNCHANGED <<pc, js, buffer, index_data>>

collect_data_from_modules ==
  /\ pc = "collect" /\ i <= Len(mods)
  /\ \/ ReadPlugin(mods[i].name) \/ ReadScript(mods[i].name) \/ ReadNothing
  /\ UNCHANGED <<inputs, lists, walk, t, loaded, round, script_j, sample>>

CollectEnds ==
  /\ pc = "collect" /\ i > Len(mods)
  /\ pc' = "complete"
  /\ i' = 1 /\ js' = 1
  /\ t' = nxt[M] /\ sample' = <<>>
  /\ UNCHANGED <<inputs, lists, walk, loaded, buffer, index_data, round, script_j>>

\* A plug-in's values in the configured order, looked up by name.
compare_drops_unknown(m, ix) ==
  LET known == SelectSeq(ix, LAMBDA x : x \in installed[m].hdrs) IN
  [p \in DOMAIN known |-> Value(known[p], index_data[known[p]])]
compare_index_data(m, ix) ==
  [p \in DOMAIN ix |->
     IF ix[p] \in installed[m].hdrs THEN Value(ix[p], index_data[ix[p]]) ELSE Mask]

\* A script's values in the order it printed them, one for every key it
\* printed: a key that is not the configured one, or has no value, is masked.
deal_script_data(line, ix) ==
  [p \in DOMAIN line |->
     IF p \in DOMAIN ix /\ line[p] = ix[p] THEN Value(ix[p], round) ELSE Mask]

add_error_mask(ix) == [p \in DOMAIN ix |-> Mask]

complete_module_data ==
  LET item == info[t]
      known == {q \in DOMAIN mods : mods[q].name = item.mod}
      flag == IF known = {} THEN "NOT_EXIST" ELSE mods[CHOOSE q \in known : TRUE].flag
  IN
  /\ pc = "complete" /\ t # Null
  /\ \/ /\ flag = "NORMAL"
        /\ sample' = sample \o compare_index_data(item.mod, item.ix)
        /\ UNCHANGED script_j
     \/ /\ flag = "SCRIPT"
        /\ sample' = sample \o deal_script_data(buffer[script_j + 1], item.ix)
        /\ script_j' = script_j + 1
     \/ /\ flag \notin {"NORMAL", "SCRIPT"}
        /\ sample' = sample \o add_error_mask(item.ix)
        /\ UNCHANGED script_j
  /\ t' = nxt[t]
  /\ UNCHANGED <<inputs, pc, lists, walk, loaded, readings>>

\* The sample is sent, and the counter of the scripts starts again.
SampleSent ==
  /\ pc = "complete" /\ t = Null
  /\ pc' = "sent"
  /\ script_j' = 0
  /\ UNCHANGED <<inputs, lists, walk, t, loaded, readings, sample>>

NextRound ==
  /\ pc = "sent" /\ round < MaxRounds
  /\ pc' = "collect"
  /\ round' = round + 1
  /\ UNCHANGED <<inputs, lists, walk, t, loaded, i, js, buffer, index_data, script_j, sample>>

Next ==
  \/ analyse_index_info_config \/ ParseEnds
  \/ monitor_data_step \/ monitor_data_next \/ monitor_data_end
  \/ load_modules \/ LoadEnds
  \/ collect_data_from_modules \/ CollectEnds
  \/ complete_module_data \/ SampleSent \/ NextRound

Spec == Init /\ [][Next]_vars
FairSpec == Spec /\ WF_vars(Next)

-----------------------------------------------------------------------------
(* The server's side: it has read the same two files.                       *)

\* strtok_r takes two commas for one: a value that is "" disappears.
split_index_data(s) ==
  FlattenSeq([p \in DOMAIN s |-> IF s[p].ix = "error" \/ s[p].at > 0 THEN <<s[p]>> ELSE <<>>])

\* The index names of module m, if base_index.conf has it.
IndexNames(m) ==
  FlattenSeq([p \in DOMAIN file |-> IF file[p].mod = m THEN file[p].ix ELSE <<>>])

\* The columns of the INSERT statement: along the monitor list.
generate_index_name_sql == FlattenSeq([k \in DOMAIN monitor |-> IndexNames(monitor[k])])

\* curr_ix + i of a requested index: along base_index.conf, a module counted
\* once for each of its occurrences in the monitor list.
QueryOrder ==
  FlattenSeq([p \in DOMAIN file |->
    FlattenSeq([k \in DOMAIN monitor |->
      IF file[p].mod = monitor[k] THEN file[p].ix ELSE <<>>])])
QueryOrderAllModules == FlattenSeq([p \in DOMAIN file |-> file[p].ix])
get_index_ix_unmonitored(x) == SelectInSeq(QueryOrderAllModules, LAMBDA y : y = x)
get_index_ix_by_name(x) == SelectInSeq(QueryOrder, LAMBDA y : y = x)

-----------------------------------------------------------------------------
(* Properties.                                                              *)

\* The monitored modules are listed in the order of base_index.conf, each once
\* (names base_index.conf does not have are ignored on both sides).
InOrder ==
  LET at(m) == {p \in DOMAIN file : file[p].mod = m} IN
  \A a, b \in DOMAIN monitor : a < b =>
    \A p \in at(monitor[a]), q \in at(monitor[b]) : p < q

\* Every script printed as many keys as base_index.conf gives it.
ScriptsComplete ==
  \A k \in DOMAIN script_path : Len(buffer[k]) = Len(IndexNames(script_path[k]))

\* No plug-in's read failed before it ever succeeded.
ValuesSet == \A p \in DOMAIN sample : sample[p] = Mask \/ sample[p].at > 0

\* For a monitor list in the order of base_index.conf, scripts that print all
\* their keys and plug-ins that were read once, the columns the database writer
\* names (db.c:324-349) are, one by one, the columns of the sample tscecd sent:
\* the value of that index or an error mask, never the value of another index.
RowColumnsAgree ==
  pc = "sent" /\ InOrder /\ ScriptsComplete /\ ValuesSet =>
    LET names == generate_index_name_sql
        values == split_index_data(sample)
    IN /\ Len(values) = Len(names)
       /\ \A p \in DOMAIN names : values[p].ix \in {names[p], "error"}

\* Under the same conditions a real-time query for any monitored index
\* (rtd.c:322-348) reads the column of that index.
QueryColumnsAgree ==
  pc = "sent" /\ InOrder /\ ScriptsComplete /\ ValuesSet =>
    \A x \in ToSet(QueryOrder) :
      split_index_data(sample)[get_index_ix_by_name(x)].ix \in {x, "error"}

\* monitor_data (clr_config.c:503-516) walks a list it is relinking: with a
\* monitor list in the order of base_index.conf it comes to an end.  (Others lose
\* modules, or make it walk for ever: B before A.)
StartUpEnds == InOrder => <>(pc \in {"collect", "exit"})
=============================================================================
