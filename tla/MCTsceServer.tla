---------------------------- MODULE MCTsceServer ----------------------------
(* TsceServer on small instances: Server*.cfg.                             *)
EXTENDS TsceServer, TLC

\* Bound: two collectors and all packets and ticks without a query; or two queries, one
\* collector, one packet and one tick while app_service runs.
FewerPeers ==
  \/ \A q \in Queriers : fd[q] = "none"
  \/ /\ \A c, d \in Collectors : fd[c] # "none" /\ fd[d] # "none" => c = d
     /\ arrivals <= 1 /\ clock <= Epoch + 1 /\ svc.pc # "dead"

Symmetry == Permutations(Collectors) \cup Permutations(Queriers)
=============================================================================
