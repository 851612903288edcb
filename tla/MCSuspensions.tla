--------------------------- MODULE MCSuspensions ---------------------------
(* Small instances of Suspensions for TLC.                                  *)
EXTENDS Suspensions, TLC

Symmetry == Permutations(Txns) \cup Permutations(Ids)
=============================================================================
