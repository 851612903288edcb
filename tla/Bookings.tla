---------------------------- MODULE Bookings ----------------------------
(***************************************************************************)
(* The booking transactions of one service: bookings, the places they      *)
(* take, the waiting list of every place and the service document, as the  *)
(* API handlers and the administration handlers change them.               *)
(*                                                                         *)
(* Every handler runs inside TransactionRunner.run, that is, inside a      *)
(* MongoDB transaction: it reads ONE snapshot, and its writes take effect  *)
(* at commit, unless a document it writes was written by someone else      *)
(* since the snapshot (write conflict), in which case the driver runs the  *)
(* handler again on a new snapshot.  So a transaction t here is            *)
(*   Begin(t)   it takes its snapshot;                                     *)
(*   an operation  its guards and its result are computed from snap[t],    *)
(*              and the result is merged into db in one step;              *)
(*   Abort(t)   it was refused, met a write conflict, or the process died. *)
(* Reads protect nothing: only documents that are WRITTEN conflict.  That  *)
(* asymmetry is what the properties of this module are about.              *)
(*                                                                         *)
(* A place is what a booking takes: a time entry of a timed slot, or a     *)
(* whole slot.  Several places may share one slot document (SlotOf), the   *)
(* unit of conflict.                                                       *)
(***************************************************************************)
EXTENDS Integers, FiniteSets

CONSTANTS
    Users,        \* clients
    Ids,          \* public ids of the bookings that may be made
    Places,       \* time entries and untimed slots of the service
    SlotDocs,     \* slot documents
    SlotOf,       \* the slot document of each place
    TimedSlots,   \* the slot documents whose places are time entries
    Limits,       \* the limits an administrator gives a place
    NoLimit,      \* `limit: null`
    Txns,         \* concurrent transactions
    Operations    \* the operations this instance offers

AllOperations ==
    {"create", "cancel", "withdraw", "setStatus", "checkIn", "markNoShow",
     "reschedule", "joinWaitlist", "leaveWaitlist", "addSlot", "setLimit",
     "removeSlot", "close", "closeAndRemove", "delete", "restore", "purge",
     "slotExpiry"}

ASSUME FiniteAssumption == IsFiniteSet(Users) /\ IsFiniteSet(Ids)
ASSUME SlotAssumption ==
    /\ SlotOf \in [Places -> SlotDocs]
    /\ TimedSlots \subseteq SlotDocs
ASSUME LimitAssumption == Limits \subseteq (Nat \ {0}) \cup {NoLimit} /\ NoLimit \notin Nat
ASSUME OperationsAssumption == Operations \subseteq AllOperations

VARIABLES
    db,      \* the committed database
    open,    \* the transactions under way
    snap,    \* the snapshot each of them reads
    dirty    \* the documents others have written since that snapshot

vars == <<db, open, snap, dirty>>

-----------------------------------------------------------------------------
(* Documents. *)

ActiveStatuses == {"pending", "confirmed"}
Statuses == ActiveStatuses \cup {"arrived", "completed", "no_show", "cancelled"}

\* The event every operation adds to the outbox is in its transaction: it
\* exists exactly when the row has changed, and is not kept here.
BookingRow(u, p, s) == [user |-> u, place |-> p, status |-> s]
NoBooking == [status |-> "none"]
BookingRows == [user : Users, place : Places, status : Statuses]

Slots == [exists : BOOLEAN, limit : (Nat \ {0}) \cup {NoLimit}, count : Nat]
NoSlot == [exists |-> FALSE, limit |-> NoLimit, count |-> 0]

Databases ==
    [booking : [Ids -> BookingRows \cup {NoBooking}],
     slot    : [Places -> Slots],
     wait    : [Users \X Places -> {"none", "waiting", "notified"}],
     since   : [Users \X Places -> Nat],    \* created_at, as a rank per place
     service : {"live", "trashed", "gone"}]

EmptyDb ==
    [booking |-> [b \in Ids |-> NoBooking],
     slot    |-> [p \in Places |-> NoSlot],
     wait    |-> [k \in Users \X Places |-> "none"],
     since   |-> [k \in Users \X Places |-> 0],
     service |-> "live"]

Docs == ({"slot"} \X SlotDocs) \cup ({"booking"} \X Ids)
            \cup ({"wait"} \X (Users \X Places)) \cup {<<"service">>}

PlacesOf(s) == {p \in Places : SlotOf[p] = s}
IsActive(d, b) == d.booking[b].status \in ActiveStatuses
Active(d, p) == {b \in Ids : IsActive(d, b) /\ d.booking[b].place = p}
ActiveOf(d, ps) == {b \in Ids : IsActive(d, b) /\ d.booking[b].place \in ps}
Waiting(d, p) == {u \in Users : d.wait[u, p] = "waiting"}

\* unique_booking_per_slot, partial on `active`.
IndexHolds(d) ==
    \A b, c \in Ids :
        /\ IsActive(d, b) /\ IsActive(d, c) /\ b # c
        => <<d.booking[b].user, d.booking[b].place>> # <<d.booking[c].user, d.booking[c].place>>

-----------------------------------------------------------------------------
(* The repositories' updates, each from one database to the next. *)

\* BookingsRepository.transition and cancelMany.
Transition(d, bs, to) ==
    [d EXCEPT !.booking = [b \in Ids |->
        IF b \in bs THEN BookingRow(d.booking[b].user, d.booking[b].place, to) ELSE d.booking[b]]]

\* (Mutant of MayTake: the limit compared one too high.)
MayTakeOneMore(d, p) ==
    /\ d.slot[p].exists
    /\ d.slot[p].limit # NoLimit => d.slot[p].count <= d.slot[p].limit

\* take: $inc of the counter, which the filter refuses at the limit.
MayTake(d, p) ==
    /\ d.slot[p].exists
    /\ d.slot[p].limit # NoLimit => d.slot[p].count < d.slot[p].limit
Take(d, p) == [d EXCEPT !.slot[p].count = @ + 1]

\* (Mutant of Release: every place given back twice.)
ReleaseTwice(d, ps) ==
    [d EXCEPT !.slot = [p \in Places |->
        IF p \in ps /\ d.slot[p].exists THEN [d.slot[p] EXCEPT !.count = @ - 2] ELSE d.slot[p]]]

\* releaseCapacity for one booking at each place of ps.
Release(d, ps) ==
    [d EXCEPT !.slot = [p \in Places |->
        IF p \in ps /\ d.slot[p].exists /\ d.slot[p].count > 0
        THEN [d.slot[p] EXCEPT !.count = @ - 1] ELSE d.slot[p]]]

ClearCounts(d, ps) ==
    [d EXCEPT !.slot = [p \in Places |->
        IF p \in ps /\ d.slot[p].exists THEN [d.slot[p] EXCEPT !.count = 0] ELSE d.slot[p]]]

DropSlots(d, ps) ==
    [d EXCEPT !.slot = [p \in Places |-> IF p \in ps THEN NoSlot ELSE d.slot[p]]]

DropWaits(d, keys) ==
    [d EXCEPT !.wait = [k \in Users \X Places |-> IF k \in keys THEN "none" ELSE d.wait[k]]]

DropBookings(d, bs) ==
    [d EXCEPT !.booking = [b \in Ids |-> IF b \in bs THEN NoBooking ELSE d.booking[b]]]

\* (Mutant of Notify: the youngest row is claimed.)
NotifyYoungest(d, freed) ==
    [d EXCEPT !.wait = [k \in Users \X Places |->
        IF /\ d.wait[k] = "waiting"
           /\ Cardinality({v \in Waiting(d, k[2]) : d.since[v, k[2]] > d.since[k]}) < freed[k[2]]
        THEN "notified" ELSE d.wait[k]]]

\* notifyWaitlist called freed[p] times for place p: each call claims the
\* oldest row still waiting.
Notify(d, freed) ==
    [d EXCEPT !.wait = [k \in Users \X Places |->
        IF /\ d.wait[k] = "waiting"
           /\ Cardinality({v \in Waiting(d, k[2]) : d.since[v, k[2]] < d.since[k]}) < freed[k[2]]
        THEN "notified" ELSE d.wait[k]]]

Once(p) == [q \in Places |-> IF q = p THEN 1 ELSE 0]

-----------------------------------------------------------------------------
(* Transactions. *)

Changed(old, new) ==
    {<<"slot", SlotOf[p]>> : p \in {q \in Places : old.slot[q] # new.slot[q]}}
    \cup {<<"booking", b>> : b \in {c \in Ids : old.booking[c] # new.booking[c]}}
    \cup {<<"wait", k>> : k \in {j \in Users \X Places : old.wait[j] # new.wait[j]}}
    \cup (IF old.service # new.service THEN {<<"service">>} ELSE {})

\* The order of the rows of each list: a row that joins is put after the
\* joined[k] oldest rows, the others keep their order.
Ranks(before, joined, wait) ==
    LET raw == [k \in Users \X Places |->
                   IF before.wait[k] = "none" THEN 2 * joined[k] + 1 ELSE 2 * before.since[k]]
    IN [k \in Users \X Places |->
            IF wait[k] = "none" THEN 0
            ELSE Cardinality({v \in Users : /\ wait[v, k[2]] # "none"
                                            /\ raw[v, k[2]] <= raw[k]})]

Merge(cur, old, new) ==
    LET wait == [k \in Users \X Places |->
                    IF old.wait[k] # new.wait[k] THEN new.wait[k] ELSE cur.wait[k]]
    IN [booking |-> [b \in Ids |->
                        IF old.booking[b] # new.booking[b] THEN new.booking[b] ELSE cur.booking[b]],
        slot    |-> [p \in Places |->
                        IF old.slot[p] # new.slot[p] THEN new.slot[p] ELSE cur.slot[p]],
        wait    |-> wait,
        since   |-> Ranks(cur, new.since, wait),
        service |-> IF old.service # new.service THEN new.service ELSE cur.service]

\* db becomes d; the open transactions learn that docs were written.
Write(d, docs, closed) ==
    /\ db' = d
    /\ open' = open \ closed
    /\ snap' = [x \in Txns |-> IF x \in closed THEN EmptyDb ELSE snap[x]]
    /\ dirty' = [x \in Txns |-> IF x \in open \ closed THEN dirty[x] \cup docs ELSE {}]

\* (Mutant of Commit: nobody checks that the documents are still the snapshot's.)
CommitUnchecked(t, new, touched) ==
    /\ t \in open
    /\ IndexHolds(new) /\ IndexHolds(Merge(db, snap[t], new))
    /\ Write(Merge(db, snap[t], new), Changed(snap[t], new) \cup touched, {t})

\* Transaction t commits the result `new` of its handler; `touched` are the
\* documents it writes whether or not a modelled field of them changes.
Commit(t, new, touched) ==
    LET docs == Changed(snap[t], new) \cup touched
        d    == Merge(db, snap[t], new)
    IN /\ t \in open
       /\ docs \cap dirty[t] = {}
       /\ IndexHolds(new) /\ IndexHolds(d)
       /\ Write(d, docs, {t})

Begin(t) ==
    /\ t \notin open
    /\ open' = open \cup {t}
    /\ snap' = [snap EXCEPT ![t] = db]
    /\ UNCHANGED <<db, dirty>>

Abort(t) ==
    /\ t \in open
    /\ Write(db, {}, {t})

-----------------------------------------------------------------------------
(* Client and staff operations on bookings. *)

\* create: insert, take, leave the waiting list of the place.  A client's
\* booking is pending or confirmed, as the policy of the service has it.
Create(t, u, b, p, s) ==
    LET d == snap[t]
    IN /\ "create" \in Operations
       /\ d.service = "live"
       /\ d.booking[b] = NoBooking
       /\ s \in ActiveStatuses
       /\ MayTake(d, p)
       /\ Commit(t, DropWaits(Take([d EXCEPT !.booking[b] = BookingRow(u, p, s)], p), {<<u, p>>}), {})

\* (Mutant of Cancel: the place is not given back.)
CancelKeepingPlace(t, b) ==
    LET d == snap[t]
        p == d.booking[b].place
    IN /\ "cancel" \in Operations
       /\ IsActive(d, b)
       /\ Commit(t, Notify(Transition(d, {b}, "cancelled"), Once(p)), {})

\* remove and setStatus(cancelled): finish.
Cancel(t, b) ==
    LET d == snap[t]
        p == d.booking[b].place
    IN /\ "cancel" \in Operations
       /\ IsActive(d, b)
       /\ Commit(t, Notify(Release(Transition(d, {b}, "cancelled"), {p}), Once(p)), {})

\* The account of u is deleted: its waiting-list rows go first, then each of
\* its active bookings (at most one per place) is withdrawn.
Withdraw(t, u) ==
    LET d     == snap[t]
        mine  == {b \in Ids : IsActive(d, b) /\ d.booking[b].user = u}
        freed == {d.booking[b].place : b \in mine}
    IN /\ "withdraw" \in Operations
       /\ Commit(t,
                 Notify(Release(Transition(DropWaits(d, {u} \X Places), mine, "cancelled"), freed),
                        [p \in Places |-> IF p \in freed THEN 1 ELSE 0]),
                 {})

\* (Mutant of Transitions: a missed booking may be confirmed again.)
TransitionsReopening ==
    {<<"pending", "confirmed">>, <<"confirmed", "completed">>, <<"confirmed", "no_show">>,
     <<"no_show", "confirmed">>}

\* TRANSITIONS, without the moves to cancelled (Cancel).
Transitions ==
    {<<"pending", "confirmed">>, <<"confirmed", "completed">>, <<"confirmed", "no_show">>,
     <<"arrived", "completed">>, <<"arrived", "no_show">>,
     <<"completed", "no_show">>, <<"no_show", "completed">>}

SetStatus(t, b, to) ==
    /\ "setStatus" \in Operations
    /\ <<snap[t].booking[b].status, to>> \in Transitions
    /\ Commit(t, Transition(snap[t], {b}, to), {})

\* checkIn and checkInByCode: arrive.
CheckIn(t, b) ==
    /\ "checkIn" \in Operations
    /\ snap[t].booking[b].status \in {"confirmed", "no_show"}
    /\ Commit(t, Transition(snap[t], {b}, "arrived"), {})

\* The auto_no_show job.
MarkNoShow(t, b) ==
    /\ "markNoShow" \in Operations
    /\ snap[t].booking[b].status = "confirmed"
    /\ Commit(t, Transition(snap[t], {b}, "no_show"), {})

\* The old place is released before the new one is taken.
Reschedule(t, b, p) ==
    LET d        == snap[t]
        row      == d.booking[b]
        released == Release(d, {row.place})
    IN /\ "reschedule" \in Operations
       /\ IsActive(d, b)
       /\ d.service = "live"
       /\ p # row.place
       /\ MayTake(released, p)
       /\ Commit(t,
                 Notify(Take([released EXCEPT !.booking[b] = BookingRow(row.user, p, row.status)], p),
                        Once(row.place)),
                 {})

\* joinWaitlist only READS the slot it finds full.  created_at is the time of
\* the insert and not of the commit: the row is younger than those the snapshot
\* had, and anywhere among those committed since.
JoinWaitlist(t, u, p) ==
    LET d     == snap[t]
        older == {v \in Users : d.wait[v, p] # "none" /\ <<"wait", <<v, p>>>> \notin dirty[t]}
    IN /\ "joinWaitlist" \in Operations
       /\ d.service = "live"
       /\ d.slot[p].exists
       /\ d.slot[p].limit # NoLimit /\ d.slot[p].count >= d.slot[p].limit
       /\ d.wait[u, p] = "none"
       /\ \E r \in 0 .. Cardinality({v \in Users : db.wait[v, p] # "none"}) :
              /\ \A v \in older : db.since[v, p] <= r
              /\ Commit(t, [d EXCEPT !.wait[<<u, p>>] = "waiting", !.since[<<u, p>>] = r], {})

\* One delete outside any transaction.
LeaveWaitlist(u, p) ==
    /\ "leaveWaitlist" \in Operations
    /\ db.wait[u, p] # "none"
    /\ Write(Merge(db, db, DropWaits(db, {<<u, p>>})), {<<"wait", <<u, p>>>>}, {})

-----------------------------------------------------------------------------
(* Administration of the slots and of the service. *)

\* What a request addresses: one place, or every place of a slot document.
Targets == {{p} : p \in Places} \cup {PlacesOf(s) : s \in SlotDocs}
SlotKeys(ps) == {<<"slot", SlotOf[p]>> : p \in ps}

\* addSlot, or updateSlot adding a time entry.
AddSlot(t, p, l) ==
    LET d == snap[t]
    IN /\ "addSlot" \in Operations
       /\ d.service = "live"
       /\ ~d.slot[p].exists
       /\ Commit(t, [d EXCEPT !.slot[p] = [exists |-> TRUE, limit |-> l, count |-> 0]],
                 {<<"service">>})

\* updateSlot giving a place another limit; the bookings made are not looked at.
SetLimit(t, p, l) ==
    LET d == snap[t]
    IN /\ "setLimit" \in Operations
       /\ d.service = "live"
       /\ d.slot[p].exists
       /\ d.slot[p].limit # l
       /\ Commit(t, [d EXCEPT !.slot[p].limit = l], {<<"service">>})

\* (Mutant of RemoveSlot: the bookings are not looked at.)
RemoveSlotBooked(t, ps) ==
    LET d == snap[t]
    IN /\ "removeSlot" \in Operations
       /\ d.service = "live"
       /\ \E p \in ps : d.slot[p].exists
       /\ Commit(t, DropSlots(d, ps), {<<"service">>})

\* removeSlot (a slot document), or updateSlot dropping a time entry.
RemoveSlot(t, ps) ==
    LET d == snap[t]
    IN /\ "removeSlot" \in Operations
       /\ d.service = "live"
       /\ \E p \in ps : d.slot[p].exists
       /\ ActiveOf(d, ps) = {}
       /\ Commit(t, DropSlots(d, ps), {<<"service">>})

\* (Mutant of Close: every counter of the service is reset, whatever was closed.)
CloseResettingAll(t, ps) ==
    LET d    == snap[t]
        gone == ActiveOf(d, ps)
    IN /\ "close" \in Operations
       /\ d.service = "live"
       /\ \E p \in ps : d.slot[p].exists
       /\ Commit(t, ClearCounts(Transition(d, gone, "cancelled"), Places), {})

\* slot close without `remove`: cancel, reset the counters, tell one waiter
\* per cancelled booking.
Close(t, ps) ==
    LET d    == snap[t]
        gone == ActiveOf(d, ps)
    IN /\ "close" \in Operations
       /\ d.service = "live"
       /\ \E p \in ps : d.slot[p].exists
       /\ Commit(t,
                 Notify(ClearCounts(Transition(d, gone, "cancelled"), ps),
                        [p \in Places |-> Cardinality({b \in gone : d.booking[b].place = p})]),
                 SlotKeys({p \in ps : d.slot[p].exists}))

\* slot close with `remove`.
CloseAndRemove(t, ps) ==
    LET d == snap[t]
    IN /\ "closeAndRemove" \in Operations
       /\ d.service = "live"
       /\ \E p \in ps : d.slot[p].exists
       /\ Commit(t,
                 DropWaits(DropSlots(Transition(d, ActiveOf(d, ps), "cancelled"), ps), Users \X ps),
                 {<<"service">>})

\* (Mutant of Delete: the counters are left as they were.)
DeleteKeepingCounts(t) ==
    LET d == snap[t]
    IN /\ "delete" \in Operations
       /\ d.service # "gone"
       /\ Commit(t, Transition([d EXCEPT !.service = "trashed"], ActiveOf(d, Places), "cancelled"),
                 {<<"service">>})

\* Moving the service to the trash.  That it was live is read before the
\* transaction begins, so by then it may be trashed already.  retire returns at
\* once when it sees no active booking; otherwise the request must carry
\* cancel_bookings.
Delete(t) ==
    LET d     == snap[t]
        gone  == ActiveOf(d, Places)
        trash == [d EXCEPT !.service = "trashed"]
        timed == {p \in Places : SlotOf[p] \in TimedSlots /\ d.slot[p].exists}
    IN /\ "delete" \in Operations
       /\ d.service # "gone"
       /\ IF gone = {}
          THEN Commit(t, trash, {<<"service">>})
          ELSE Commit(t,
                      ClearCounts(DropWaits(Transition(trash, gone, "cancelled"), Users \X Places),
                                  Places),
                      SlotKeys(timed) \cup {<<"service">>})

\* One update outside any transaction.
Restore ==
    /\ "restore" \in Operations
    /\ db.service = "trashed"
    /\ Write([db EXCEPT !.service = "live"], {<<"service">>}, {})

\* The cascade deletes whatever the service owns.
Purge(t) ==
    /\ "purge" \in Operations
    /\ snap[t].service # "gone"
    /\ Commit(t, [EmptyDb EXCEPT !.service = "gone"], {})

\* The slot_expiry job on a slot whose date has passed.
SlotExpiry(t, s) ==
    LET d == snap[t]
        ps == PlacesOf(s)
    IN /\ "slotExpiry" \in Operations
       /\ \E p \in ps : d.slot[p].exists
       /\ Commit(t, DropWaits(DropBookings(DropSlots(d, ps), ActiveOf(d, ps)), Users \X ps), {})

-----------------------------------------------------------------------------
Init ==
    /\ \E f \in [Places -> Limits] :
           db = [EmptyDb EXCEPT !.slot =
                    [p \in Places |-> [exists |-> TRUE, limit |-> f[p], count |-> 0]]]
    /\ open = {}
    /\ snap = [t \in Txns |-> EmptyDb]
    /\ dirty = [t \in Txns |-> {}]

BookingStep(t) ==
    \/ \E u \in Users, b \in Ids, p \in Places, s \in ActiveStatuses : Create(t, u, b, p, s)
    \/ \E b \in Ids : Cancel(t, b)
    \/ \E u \in Users : Withdraw(t, u)
    \/ \E b \in Ids, to \in Statuses : SetStatus(t, b, to)
    \/ \E b \in Ids : CheckIn(t, b)
    \/ \E b \in Ids : MarkNoShow(t, b)
    \/ \E b \in Ids, p \in Places : Reschedule(t, b, p)
    \/ \E u \in Users, p \in Places : JoinWaitlist(t, u, p)

AdminStep(t) ==
    \/ \E p \in Places, l \in Limits : AddSlot(t, p, l)
    \/ \E p \in Places, l \in Limits : SetLimit(t, p, l)
    \/ \E ps \in Targets : RemoveSlot(t, ps)
    \/ \E ps \in Targets : Close(t, ps)
    \/ \E ps \in Targets : CloseAndRemove(t, ps)
    \/ Delete(t)
    \/ Purge(t)
    \/ \E s \in SlotDocs : SlotExpiry(t, s)

Next ==
    \/ \E t \in Txns : Begin(t) \/ Abort(t) \/ BookingStep(t) \/ AdminStep(t)
    \/ \E u \in Users, p \in Places : LeaveWaitlist(u, p)
    \/ Restore

Spec == Init /\ [][Next]_vars

-----------------------------------------------------------------------------
(* Properties. *)

TypeOK ==
    /\ db \in Databases
    /\ open \subseteq Txns
    /\ snap \in [Txns -> Databases]
    /\ dirty \in [Txns -> SUBSET Docs]

\* A place never holds more active bookings than its counter says, and a
\* booked place exists: the counter is what `take` compares with the limit,
\* so a counter below the truth sells a place twice.  The counter and the
\* bookings are changed by different statements of handlers that interleave
\* with bulk resets (close, delete) and slot removals.
CounterCoversBookings ==
    \A p \in Places :
        Active(db, p) # {} =>
            db.slot[p].exists /\ Cardinality(Active(db, p)) <= db.slot[p].count

\* A counter never holds a place for no booking: each place counted belongs to
\* a booking that was not cancelled.  A counter above that would refuse
\* clients a place nobody has, for ever.
NoPhantomPlace ==
    \A p \in Places :
        db.slot[p].count <=
            Cardinality({b \in Ids : /\ db.booking[b] # NoBooking
                                     /\ db.booking[b].status # "cancelled"
                                     /\ db.booking[b].place = p})

\* A step that gives a place a booking it did not have leaves it within the
\* limit it has then, whatever other transactions did in the meantime
\* (another booking of the last place, a limit lowered, a slot closed).
NoOverbooking ==
    [][\A p \in Places :
          /\ ~(Active(db', p) \subseteq Active(db, p))
          /\ db'.slot[p].limit # NoLimit
          => Cardinality(Active(db', p)) <= db'.slot[p].limit]_vars

\* A booking that has ended never takes part again: no interleaving of status
\* changes, check-ins, the no-show job and bulk cancellations makes an
\* inactive booking active, and nothing at all follows `cancelled`.
EndedStaysEnded ==
    [][\A b \in Ids :
          /\ db.booking[b] # NoBooking /\ ~IsActive(db, b) => ~IsActive(db', b)
          /\ db.booking[b].status = "cancelled"
             => db'.booking[b].status \in {"cancelled", "none"}]_vars

\* Nobody on a waiting list is overtaken: when a row is claimed, no older row
\* that was waiting when the claiming transaction began is left waiting,
\* whatever was claimed, left or joined by others meanwhile.  (A row inserted
\* earlier but committed after that snapshot may be passed over.)
OldestFirst ==
    [][\A t \in open \ open', u, v \in Users, p \in Places :
          /\ snap[t].wait[u, p] = "waiting" /\ db.wait[u, p] = "waiting"
          /\ db.since[u, p] < db.since[v, p]
          /\ db.wait[v, p] = "waiting" /\ db'.wait[v, p] = "notified"
          => db'.wait[u, p] # "waiting"]_vars

\* A client is told of a place only when there is one to book: the step that
\* notifies leaves the counter below the limit.  (Where limits are not
\* lowered: SetLimit does not look at the counter.)
NoticeMeansRoom ==
    [][\A u \in Users, p \in Places :
          /\ db.wait[u, p] = "waiting" /\ db'.wait[u, p] = "notified"
          => db'.slot[p].limit = NoLimit \/ db'.slot[p].count < db'.slot[p].limit]_vars

\* docs/data-model.md:150-154: a service with active bookings is not trashed
\* without cancelling them.
TrashHasNoActiveBooking ==
    db.service # "live" => ActiveOf(db, Places) = {}

\* docs/data-model.md:199-200, 254-255: a place given up is freed and the
\* waiting list told, so a step that lowers a counter leaves no list of that
\* place entirely untold.
FreedPlaceIsTold ==
    [][\A p \in Places :
          /\ db'.slot[p].count < db.slot[p].count
          /\ Waiting(db, p) # {}
          => Waiting(db', p) # Waiting(db, p)]_vars

\* docs/data-model.md:219-220: an arrived booking is not active, yet its place
\* stays taken.
ArrivedKeepsPlace ==
    \A p \in Places :
        db.slot[p].exists =>
            Cardinality({b \in Ids : /\ db.booking[b].status \in ActiveStatuses \cup {"arrived"}
                                     /\ db.booking[b].place = p}) <= db.slot[p].count
=============================================================================
