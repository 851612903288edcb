---------------------------- MODULE MCNotices ----------------------------
(***************************************************************************)
(* A client and a member of staff, two events, one message; every scenario *)
(* offers the operations that meet each other.                             *)
(***************************************************************************)
EXTENDS Notices, TLC

Off == [enabled |-> FALSE, fallback |-> FALSE]
On(fallback) == [enabled |-> TRUE, fallback |-> fallback]
Scenario(does, phones, templates, emails, bounds) ==
    [does |-> does, viber |-> phones, templates |-> templates, emails |-> emails, bounds |-> bounds]

\* Bounds: events committed by what the scenario offers, changes by people,
\* workers and requests that die, refusals of the providers.
Few(e, c, d, f) == [events |-> e, changes |-> c, crashes |-> d, failures |-> f]

MCScenarios == <<
    \* Addresses that change while the event is on its way.
    Scenario({"cancel", "change_account"}, {Off}, {"none"}, BOOLEAN, Few(1, 2, 1, 1)),
    Scenario({"remind", "change_account"}, {Off, On(TRUE)}, {"none"}, BOOLEAN, Few(1, 2, 1, 1)),
    Scenario({"free_place", "suspend", "change_template"}, {On(FALSE)}, {"broken", "empty"}, BOOLEAN, Few(1, 1, 0, 1)),
    \* Who is told of what.
    Scenario({"book", "confirm", "mark"}, {Off}, {"none"}, {FALSE}, Few(1, 1, 1, 1)),
    Scenario({"reschedule", "lift", "close", "move"}, {Off}, {"none"}, {FALSE}, Few(1, 1, 1, 1)),
    \* The inbox: rows come, are read and are trimmed.
    Scenario({"lift", "message", "read"}, {Off}, {"none"}, {FALSE}, Few(2, 2, 0, 0)),
    Scenario({"lift", "read"}, {Off}, {"none"}, {FALSE}, Few(2, 1, 1, 0)),
    Scenario({"lift", "message"}, {Off}, {"none"}, {FALSE}, Few(1, 2, 1, 1)),
    Scenario({"lift", "delete_organization"}, {Off}, {"none"}, {FALSE}, Few(2, 1, 0, 1)),
    Scenario({"book", "delete_account"}, {Off}, {"none"}, {FALSE}, Few(1, 2, 1, 0)),
    Scenario({"message", "delete_organization"}, {Off}, {"none"}, {FALSE}, Few(0, 3, 1, 0)) >>

\* TLC evaluates a definition given to a constant by name once, and one given in
\* full at every use.
AllScenarios == MCScenarios

MCOrder == <<"inbox", "mail", "phone">>
Alike == Permutations(Events)
=============================================================================
