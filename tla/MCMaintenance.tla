--------------------------- MODULE MCMaintenance ---------------------------
(* A small instance of Maintenance for TLC.                                 *)
EXTENDS Maintenance, TLC

CONSTANTS p1, s1

OnePlace == p1 :> s1
JustOne  == {1}

JobOps == {"create", "cancel", "addSlot", "removeSlot", "closeAndRemove", "slotExpiry",
           "delete", "restore", "purge"}

Symmetry == Permutations(Users) \cup Permutations(Ids) \cup Permutations(Txns)
=============================================================================
