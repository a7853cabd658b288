---------------------------- MODULE MCCollectord ----------------------------
(* A small instance of Collectord for TLC. *)
EXTENDS Collectord, TLC

CONSTANTS a, b

TwoNodes == <<a, b>>
Symmetry == Permutations(Conns)
=============================================================================
