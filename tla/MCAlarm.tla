------------------------------- MODULE MCAlarm -------------------------------
(* Alarm on small instances.                                                *)
EXTENDS Alarm, TLC

\* One item on every node.
OneItem == [n \in Nodes |-> {"item"}]

\* Thresholds of one direction: what matches a level matches the lower ones.
OffOn == {{}, {0, 1, 2}}
TwoLevels == {{}, {2}, {0, 1, 2}}

OneSec == [l \in Levels |-> 1]
TwoSecs == [l \in Levels |-> IF l = 0 THEN 2 ELSE 1]

Symmetry == Permutations(Threads)
=============================================================================
