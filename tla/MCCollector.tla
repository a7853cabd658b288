----------------------------- MODULE MCCollector -----------------------------
(* Collector on a small instance: Collector.cfg.                            *)
EXTENDS Collector, TLC

\* Bound: both daemons, two samples, and every recv takes whole messages; or one daemon
\* alone, which opens at most two connections, with recvs that end inside a message, at
\* most two on each.
SplitsAlone ==
  \/ sent <= 2 /\ \A c \in Collectors : chan[c].splits = 0
  \/ /\ \A c, d \in Collectors : 0 \notin {chan[c].node, chan[d].node} => chan[c].node = chan[d].node
     /\ Cardinality({c \in Collectors : chan[c].node # 0}) <= 2
     /\ \A c \in Collectors : chan[c].splits <= 2

Symmetry == Permutations(Collectors)
=============================================================================
