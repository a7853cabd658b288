----------------------------- MODULE MCNodeState -----------------------------
(* NodeState on small instances.                                            *)
EXTENDS NodeState, TLC

\* Bound: all three nodes and two changes of NodeInfo while everything runs, or two nodes,
\* one change and failures.
FewerFaults ==
  \/ faults = 0 /\ \A ip \in IPs : client[ip] = "up"
  \/ changes <= 1 /\ Cardinality(table \cup Listed) <= 2

Symmetry == Permutations(IPs)
=============================================================================
