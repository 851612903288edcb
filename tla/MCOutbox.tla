----------------------------- MODULE MCOutbox -----------------------------
(* Small instances of Outbox for TLC.                                       *)
EXTENDS Outbox

OneTick  == [a \in 1 .. MaxAttempts |-> 1]
=============================================================================
