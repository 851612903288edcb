---------------------------- MODULE MCSmsBudget ----------------------------
(* Small instances of Settings and SmsBudget for TLC.                      *)
EXTENDS SmsBudget, TLC

Symmetry == Permutations(Replicas) \cup Permutations(Tasks)
=============================================================================
