---------------------------- MODULE MCVisits ----------------------------
(***************************************************************************)
(* A small slot: a day of four grid steps, two clients, two bookings.      *)
(***************************************************************************)
EXTENDS Visits, TLC

MCHours == {Interval(0, 2)}
MCSpecs ==
    {[span |-> Interval(0, 3), step |-> 1, min |-> 1, max |-> 2, here |-> TRUE],
     [span |-> Unset, step |-> 2, min |-> 2, max |-> NoMax, here |-> TRUE],
     [span |-> Interval(0, 1), step |-> 1, min |-> 1, max |-> 2, here |-> FALSE]}
MCEntries == {[times |-> {0, 1}], [times |-> {}]}
MCShifts == {-1, 1}
MCTimeSets == {{0, 2}, {1}}
Scenario(kinds, ops) == {[kind |-> k, ops |-> ops] : k \in kinds}
Both == {"time_range", "date_time"}
MCScenarios ==
    Scenario(Both, {"key", "book", "cancel"})
    \cup Scenario(Both, {"book", "cancel", "staff", "recurrence", "recurrent_slots"})
    \cup Scenario(Both, {"book", "move", "staff", "recurrent_slots"})
    \cup Scenario(Both, {"book", "devices", "move", "cancel", "limit", "closed"})
    \cup Scenario({"time_range"}, {"book", "move", "cancel", "shift", "recurrent_slots"})
    \cup Scenario({"date_time"}, {"book", "move", "cancel", "shift", "times", "closed"})
    \cup Scenario(Both, {"key", "shift"})
    \cup Scenario({"date_time"}, {"book", "move", "cancel", "times", "option"})
    \cup Scenario(Both, {"book", "move", "visit", "booking_reminders", "auto_no_show", "time", "interval"})

\* For visits_twins: the job adds a time that the staff add, or move the slot
\* to, after it has read the slot.
MCTwins == Scenario({"date_time"}, {"book", "cancel", "times", "shift", "recurrence", "recurrent_slots"})

\* For visits_orphans: the job gives the option a slot, and a client books
\* it, while a removal of the option that saw no slot is under way.
MCOrphans == Scenario({"date_time"}, {"book", "option", "recurrent_slots"})

MCSymmetry == Permutations(Users) \cup Permutations(Ids)
=============================================================================
