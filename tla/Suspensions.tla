---------------------------- MODULE Suspensions ----------------------------
(***************************************************************************)
(* The no-show sanctions of one service, for one person: the marks on      *)
(* their bookings, the suspension row that counts them, their place on the *)
(* waiting list, and the accounts they have one after the other on one     *)
(* phone.  Rows of different clients share no document.  The policy has a  *)
(* limit, a length, no window, and `late_cancel: no_show`.                 *)
(*                                                                         *)
(* Every handler is a transaction of Transactions.  Only the account of a  *)
(* client is read outside it (users.findById takes no session).            *)
(*                                                                         *)
(* Dates are what they are compared for: `end` of a row is "none" once it  *)
(* is not in force (never set, lifted, or `until` passed), "timed" or      *)
(* "forever"; `before` holds the bookings finished before `counted_from`.  *)
(* A mark is made before the handler takes the time it stores in           *)
(* counted_from, and clocks agree.                                         *)
(***************************************************************************)
EXTENDS Transactions

CONSTANTS
    Accounts,       \* the person's accounts, one after the other
    Ids,            \* bookings
    NoShowLimit,    \* booking_policy.no_show_limit
    Operations      \* the operations this instance offers

AllOperations ==
    {"book", "onBehalf", "attend", "mark", "correct", "cancel", "late", "suspend", "lift",
     "join", "leave", "delete", "lapse"}

ASSUME IdsAssumption == IsFiniteSet(Ids)
ASSUME LimitAssumption == NoShowLimit \in Nat \ {0}
ASSUME OperationsAssumption == Operations \subseteq AllOperations

-----------------------------------------------------------------------------
(* Documents. *)

UserDoc(a) == <<"user", a>>
RowDoc(a)  == <<"row", a>>
WaitDoc(a) == <<"wait", a>>
BookingDoc(b) == <<"booking", b>>

Docs == ({"user", "row", "wait"} \X Accounts) \cup ({"booking"} \X Ids)

MissedStatuses == {"no_show", "late"}    \* "late": cancelled with late_cancel
Statuses == {"active", "attended", "cancelled"} \cup MissedStatuses
Kinds == {"none", "no_show", "manual"}

NoBooking == [status |-> "none"]
Booking(a, s) == [owner |-> a, status |-> s]
BookingRows == [owner : Accounts, status : Statuses] \cup {NoBooking}

\* What a row keeps of a suspension that is over is never read again.
NoRow == [exists |-> FALSE, end |-> "none", kind |-> "none",
          ids |-> {}, before |-> {}, phone |-> FALSE]
Rows == {NoRow} \cup
        {row \in [exists : {TRUE}, end : {"none", "timed", "forever"}, kind : Kinds,
                  ids : SUBSET Ids, before : SUBSET Ids, phone : BOOLEAN] :
            /\ row.end = "none" <=> row.kind = "none"
            /\ row.ids # {} => row.kind = "no_show"}

Over(row, missed) ==
    [row EXCEPT !.end = "none", !.kind = "none", !.ids = {}, !.before = missed]

InForce(row) == row.end # "none"

EmptyDoc(x) ==
    CASE x[1] = "user"    -> "new"
      [] x[1] = "row"     -> NoRow
      [] x[1] = "wait"    -> FALSE
      [] x[1] = "booking" -> NoBooking

EmptyDb == [x \in Docs |-> EmptyDoc(x)]

BookingsOf(d, a) == {b \in Ids : d[BookingDoc(b)] # NoBooking /\ d[BookingDoc(b)].owner = a}
With(d, a, statuses) == {b \in BookingsOf(d, a) : d[BookingDoc(b)].status \in statuses}
MissedBy(d, a) == With(d, a, MissedStatuses)

\* findNoShowIds since noShowCountedSince.
Counted(d, a) == MissedBy(d, a) \ d[RowDoc(a)].before

\* findForPerson: the account's row, and those kept for the phone.
Blocked(d, a) ==
    \E c \in Accounts : InForce(d[RowDoc(c)]) /\ (c = a \/ d[RowDoc(c)].phone)

-----------------------------------------------------------------------------
(* The suspension row. *)

Transition(d, b, to) == [d EXCEPT ![BookingDoc(b)] = Booking(d[BookingDoc(b)].owner, to)]

\* (Mutant of Touched: a row that is not there is not made.)
TouchedNoUpsert(row, marks) == [row EXCEPT !.before = @ \ marks]

\* touch: the row is written, and made if need be, even when the count changes
\* nothing.  The marks just made are newer than counted_from.
Touched(row, marks) == [row EXCEPT !.exists = TRUE, !.before = @ \ marks]

Suspended(row, end, kind, ids, missed) ==
    [row EXCEPT !.end = end, !.kind = kind, !.ids = ids, !.before = missed]

\* suspend: counted_from is now, and the client leaves the waiting list.
Suspend(d, a, end, kind, ids) ==
    [d EXCEPT ![RowDoc(a)] = Suspended(@, end, kind, ids, MissedBy(d, a)),
              ![WaitDoc(a)] = FALSE]

\* (Mutant of Sanction: a manual suspension in force becomes a no-show one.)
SanctionTakingOver(d, a) ==
    LET row == d[RowDoc(a)]
    IN IF Cardinality(Counted(d, a)) < NoShowLimit \/ row.end = "forever" THEN d
       ELSE Suspend(d, a, "timed", "no_show", Counted(d, a))

\* noShowSanction, and suspend when it changes anything.
Sanction(d, a) ==
    LET row == d[RowDoc(a)]
    IN IF Cardinality(Counted(d, a)) < NoShowLimit \/ row.end = "forever" THEN d
       ELSE IF InForce(row) /\ row.kind = "manual" THEN Suspend(d, a, "timed", "manual", {})
       ELSE Suspend(d, a, "timed", "no_show", Counted(d, a))

\* countNoShow after a mark on b, which the account or its row must outlive.
CountNoShow(d, b) ==
    LET a == d[BookingDoc(b)].owner
    IN IF db[UserDoc(a)] = "live" \/ d[RowDoc(a)].exists
       THEN Sanction([d EXCEPT ![RowDoc(a)] = Touched(@, {b})], a)
       ELSE d

\* The row that countNoShow writes.
Subject(d, b) == LET a == d[BookingDoc(b)].owner
                 IN IF db[UserDoc(a)] = "live" \/ d[RowDoc(a)].exists THEN {RowDoc(a)} ELSE {}

\* release: a row kept for a phone goes.
Release(d, a) ==
    [d EXCEPT ![RowDoc(a)] = IF @.phone THEN NoRow ELSE Over(@, MissedBy(d, a))]

-----------------------------------------------------------------------------
(* Bookings. *)

\* create by the client.
Book(t, a, b) ==
    LET d == work[t]
    IN /\ "book" \in Operations
       /\ AtStart(t)
       /\ db[UserDoc(a)] = "live"
       /\ d[BookingDoc(b)] = NoBooking
       /\ ~Blocked(d, a)
       /\ Commit(t, [d EXCEPT ![BookingDoc(b)] = Booking(a, "active")], {})

\* create on_behalf: staff are not stopped.
BookOnBehalf(t, a, b) ==
    /\ "onBehalf" \in Operations
    /\ AtStart(t)
    /\ work[t][UserDoc(a)] = "live"
    /\ work[t][BookingDoc(b)] = NoBooking
    /\ Commit(t, [work[t] EXCEPT ![BookingDoc(b)] = Booking(a, "active")], {})

\* (Mutant of Mark: the row is only read while the limit is not reached.)
MarkReadingOnly(t, b) ==
    LET d == Transition(work[t], b, "no_show")
    IN /\ "mark" \in Operations
       /\ AtStart(t)
       /\ work[t][BookingDoc(b)].status \in {"active", "attended"}
       /\ Commit(t, CountNoShow(d, b), {BookingDoc(b)})

\* markNoShow, and setStatus to no_show (from confirmed, arrived, completed).
Mark(t, b) ==
    LET d == Transition(work[t], b, "no_show")
    IN /\ "mark" \in Operations
       /\ AtStart(t)
       /\ work[t][BookingDoc(b)].status \in {"active", "attended"}
       /\ Commit(t, CountNoShow(d, b), Subject(d, b))

\* setStatus to completed and checkIn, from a booking not missed.
Attend(t, b) ==
    /\ "attend" \in Operations
    /\ AtStart(t)
    /\ work[t][BookingDoc(b)].status = "active"
    /\ Commit(t, Transition(work[t], b, "attended"), {})

\* setStatus to completed and checkIn, from no_show: liftedByCorrection.
Correct(t, b) ==
    LET d   == Transition(work[t], b, "attended")
        a   == d[BookingDoc(b)].owner
        row == d[RowDoc(a)]
        lifted == InForce(row) /\ row.kind = "no_show" /\ b \in row.ids
    IN /\ "correct" \in Operations
       /\ AtStart(t)
       /\ work[t][BookingDoc(b)].status = "no_show"
       /\ Commit(t, IF lifted THEN Release(d, a) ELSE d, {})

\* remove by staff, or in time.
Cancel(t, b) ==
    /\ "cancel" \in Operations
    /\ AtStart(t)
    /\ work[t][BookingDoc(b)].status = "active"
    /\ Commit(t, Transition(work[t], b, "cancelled"), {})

\* remove by the client past the deadline: onLateCancel.
CancelLate(t, b) ==
    LET d == Transition(work[t], b, "late")
    IN /\ "late" \in Operations
       /\ AtStart(t)
       /\ work[t][BookingDoc(b)].status = "active"
       /\ Commit(t, CountNoShow(d, b), Subject(d, b))

-----------------------------------------------------------------------------
(* The waiting list of a place that stays full: no booking here takes it. *)

JoinWaitlist(t, a) ==
    /\ "join" \in Operations
    /\ AtStart(t)
    /\ db[UserDoc(a)] = "live"
    /\ ~Blocked(work[t], a)
    /\ ~work[t][WaitDoc(a)]
    /\ Commit(t, [work[t] EXCEPT ![WaitDoc(a)] = TRUE], {})

LeaveWaitlist(a) ==
    /\ "leave" \in Operations
    /\ db[WaitDoc(a)]
    /\ Write(WaitDoc(a), FALSE)

-----------------------------------------------------------------------------
(* Staff. *)

\* create: the account is looked up before the transaction.
SuspendByHand(t, a, end) ==
    /\ "suspend" \in Operations
    /\ AtStart(t)
    /\ db[UserDoc(a)] = "live"
    /\ end \in {"timed", "forever"}
    /\ Commit(t, Suspend([work[t] EXCEPT ![RowDoc(a)] = Touched(@, {})], a, end, "manual", {}),
              {RowDoc(a)})

Lift(t, a) ==
    /\ "lift" \in Operations
    /\ AtStart(t)
    /\ InForce(work[t][RowDoc(a)])
    /\ Commit(t, Release(work[t], a), {})

-----------------------------------------------------------------------------
(* The account. *)

Register(a) ==
    /\ db[UserDoc(a)] = "new"
    /\ \A c \in Accounts : db[UserDoc(c)] # "live"
    /\ Write(UserDoc(a), "live")

\* bookings.withdraw: the next active booking of the account, late or not.
Withdraw(t, a, b, late) ==
    LET d == Transition([work[t] EXCEPT ![WaitDoc(a)] = FALSE], b,
                        IF late THEN "late" ELSE "cancelled")
    IN /\ "delete" \in Operations
       /\ t \in open
       /\ work[t][UserDoc(a)] = "live" /\ db[UserDoc(a)] = "live"
       /\ \/ AtStart(t)
          \/ \E c \in BookingsOf(work[t], a) :    \* this deletion is under way
                 work[t][BookingDoc(c)] # snap[t][BookingDoc(c)]
       /\ b \in With(work[t], a, {"active"})
       /\ Update(t, IF late THEN CountNoShow(d, b) ELSE d)

\* detachUser
Detached(row) == IF InForce(row) THEN [row EXCEPT !.phone = TRUE]
                 ELSE IF row.phone THEN row ELSE NoRow

\* (Mutant of DeleteAccount: anonymizeByUser leaves finished bookings alone.)
DeleteAccountActiveOnly(t, a) ==
    LET d == [work[t] EXCEPT ![WaitDoc(a)] = FALSE]
    IN /\ "delete" \in Operations
       /\ t \in open
       /\ d[UserDoc(a)] = "live"
       /\ With(d, a, {"active"}) = {}
       /\ Commit(t, [d EXCEPT ![RowDoc(a)] = Detached(@), ![UserDoc(a)] = "deleted"], {})

\* No active booking is left: every booking is anonymised, the suspension in
\* force is kept for the phone, any other row and the account go.
DeleteAccount(t, a) ==
    LET d == [work[t] EXCEPT ![WaitDoc(a)] = FALSE]
    IN /\ "delete" \in Operations
       /\ t \in open
       /\ d[UserDoc(a)] = "live"
       /\ With(d, a, {"active"}) = {}
       /\ Commit(t, [d EXCEPT ![RowDoc(a)] = Detached(@), ![UserDoc(a)] = "deleted"],
                 {BookingDoc(b) : b \in BookingsOf(d, a)})

-----------------------------------------------------------------------------
(* Time. *)

\* `until` of a timed suspension passes, in whatever copy it is compared.
Lapsed(d, a) ==
    [d EXCEPT ![RowDoc(a)] = IF @.end = "timed" THEN Over(@, @.before) ELSE @]

Lapse(a) ==
    /\ "lapse" \in Operations
    /\ db[RowDoc(a)].end = "timed"
    /\ db' = Lapsed(db, a)
    /\ snap' = [t \in Txns |-> IF t \in open THEN Lapsed(snap[t], a) ELSE NoDb]
    /\ work' = [t \in Txns |-> IF t \in open THEN Lapsed(work[t], a) ELSE NoDb]
    /\ UNCHANGED <<open, dirty>>

\* The TTL index removes a row kept for a phone once it is over.
Expire(a) ==
    /\ db[RowDoc(a)].phone /\ ~InForce(db[RowDoc(a)])
    /\ Write(RowDoc(a), NoRow)

-----------------------------------------------------------------------------
Init == TxInit(EmptyDb)

Next ==
    \/ \E t \in Txns : Begin(t) \/ Abort(t)
    \/ \E t \in Txns, a \in Accounts, b \in Ids :
           Book(t, a, b) \/ BookOnBehalf(t, a, b) \/ \E late \in BOOLEAN : Withdraw(t, a, b, late)
    \/ \E t \in Txns, b \in Ids :
           Mark(t, b) \/ Attend(t, b) \/ Correct(t, b) \/ Cancel(t, b) \/ CancelLate(t, b)
    \/ \E t \in Txns, a \in Accounts :
           \/ JoinWaitlist(t, a) \/ Lift(t, a) \/ DeleteAccount(t, a)
           \/ \E end \in {"timed", "forever"} : SuspendByHand(t, a, end)
    \/ \E a \in Accounts : LeaveWaitlist(a) \/ Register(a) \/ Lapse(a) \/ Expire(a)

Spec == Init /\ [][Next]_txVars

-----------------------------------------------------------------------------
TypeOK ==
    /\ \A a \in Accounts : /\ db[UserDoc(a)] \in {"new", "live", "deleted"}
                           /\ db[RowDoc(a)] \in Rows
                           /\ db[WaitDoc(a)] \in BOOLEAN
    /\ \A b \in Ids : db[BookingDoc(b)] \in BookingRows

\* A client of a live account never has NoShowLimit marks standing against
\* them: whichever mark comes last is counted with the others and they are
\* suspended, even when the marks are made at the same time (touch).
LimitSanctions ==
    \A a \in Accounts :
        db[UserDoc(a)] = "live"
        => Cardinality(Counted(db, a)) < NoShowLimit \/ db[RowDoc(a)].end = "forever"

\* A suspension for no-shows does not end with the account: it is kept, for
\* the phone, even if it was imposed while the account was being deleted.  (A
\* booking made during the deletion escapes it, and its marks with it.)
SanctionOutlivesAccount ==
    [][\A t \in Txns, a \in Accounts :
           /\ DeleteAccount(t, a)
           /\ BookingsOf(db, a) \subseteq BookingsOf(snap[t], a)
           => LET before == db[RowDoc(a)]
                  after  == db[RowDoc(a)]'
              IN /\ InForce(before) /\ before.kind = "no_show" => InForce(after)
                 /\ InForce(after) /\ after.kind = "no_show" => after.phone]_txVars

\* A manual suspension ends when staff lift it or its time is up, whatever
\* no-shows are marked or corrected meanwhile.
ManualStays ==
    [][\A a \in Accounts :
           LET row == db[RowDoc(a)]
           IN InForce(row) /\ row.kind = "manual"
              => \/ InForce(db[RowDoc(a)]') /\ (db[RowDoc(a)]').kind = "manual"
                 \/ Lapse(a)
                 \/ \E t \in Txns : Lift(t, a)]_txVars

\* Correcting one of the bookings a suspension counts lifts it
\* (docs/data-model.md, "No-show sanctions").  A correction only READS the
\* row, so it can miss the suspension that is being imposed.
CorrectedIsLifted ==
    \A a \in Accounts :
        LET row == db[RowDoc(a)]
        IN InForce(row) /\ row.kind = "no_show" => row.ids \subseteq MissedBy(db, a)
=============================================================================
