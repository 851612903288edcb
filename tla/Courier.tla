---------------------------- MODULE Courier ----------------------------
(***************************************************************************)
(* What the outbox promises to whoever commits an event, without leases,   *)
(* passes, workers or clocks: an event is committed once, its targets      *)
(* acknowledge it one by one, and an attempt is settled by recording the   *)
(* targets that have - targets it really reached, and never fewer than     *)
(* were recorded before.  An event recorded as delivered is finished: it   *)
(* is never handed over, settled or opened again.                          *)
(***************************************************************************)
EXTENDS Naturals

CONSTANTS
    Events,     \* events that may be committed
    Targets     \* handlers and webhooks an event fans out to

VARIABLES
    state,      \* of each event: "none", "pending", "delivered" or "failed"
    ledger,     \* the targets recorded as reached
    got         \* successful deliveries of each event to each target, 2 for more

courier == <<state, ledger, got>>

CourierInit ==
    /\ state = [e \in Events |-> "none"]
    /\ ledger = [e \in Events |-> {}]
    /\ got = [k \in Events \X Targets |-> 0]

\* The transaction that changes a booking, a service, an account... commits.
CommitEvent(e) ==
    /\ state[e] = "none"
    /\ state' = [state EXCEPT ![e] = "pending"]
    /\ UNCHANGED <<ledger, got>>

\* A target that is not on record acknowledges the event.
Hand(e, x) ==
    /\ state[e] = "pending" /\ x \notin ledger[e]
    /\ got' = [got EXCEPT ![<<e, x>>] = IF @ < 2 THEN @ + 1 ELSE @]
    /\ UNCHANGED <<state, ledger>>

\* An attempt ends: the targets of `reached` are on record from now on.
Settle(e, reached, outcome) ==
    /\ state[e] = "pending"
    /\ ledger[e] \subseteq reached
    /\ \A x \in reached : got[<<e, x>>] > 0
    /\ outcome = "delivered" <=> reached = Targets
    /\ state' = [state EXCEPT ![e] = outcome]
    /\ ledger' = [ledger EXCEPT ![e] = reached]
    /\ UNCHANGED got

\* An administrator replays a failed event: what is on record stays there.
Reopen(e) ==
    /\ state[e] = "failed"
    /\ state' = [state EXCEPT ![e] = "pending"]
    /\ UNCHANGED <<ledger, got>>

CourierNext ==
    \E e \in Events :
        \/ CommitEvent(e) \/ Reopen(e)
        \/ \E x \in Targets : Hand(e, x)
        \/ \E reached \in SUBSET Targets, outcome \in {"pending", "delivered", "failed"} :
              Settle(e, reached, outcome)

CourierSpec == CourierInit /\ [][CourierNext]_courier
=============================================================================
