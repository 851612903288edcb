---------------------------- MODULE MCBookings ----------------------------
(* Small instances of Bookings for TLC.                                     *)
EXTENDS Bookings, TLC

CONSTANTS p1, p2, s1

OnePlace   == p1 :> s1
OneSlot    == (p1 :> s1) @@ (p2 :> s1)    \* two time entries of one slot document

OneOrNone  == {1, NoLimit}
JustOne    == {1}

CapacityOps  == {"create", "cancel", "setStatus", "checkIn", "markNoShow", "reschedule",
                 "setLimit", "delete"}
WaitlistOps  == {"create", "cancel", "withdraw", "joinWaitlist", "leaveWaitlist", "close",
                 "addSlot", "removeSlot", "closeAndRemove", "slotExpiry",
                 "delete", "restore", "purge"}
FreedOps     == {"create", "cancel", "joinWaitlist"}
TrashOps     == {"create", "cancel", "delete", "restore"}
ArrivedOps   == {"create", "cancel", "checkIn", "close"}

Symmetry == Permutations(Users) \cup Permutations(Ids) \cup Permutations(Txns)

\* The two times of OneSlot are interchangeable as well.
SlotSymmetry == Symmetry \cup Permutations(Places)
=============================================================================
