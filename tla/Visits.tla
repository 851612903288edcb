------------------------------ MODULE Visits ------------------------------
(***************************************************************************)
(* One slot of one date: the bookings of its intervals (time_range) or of  *)
(* its time entries (date_time), the Idempotency-Key of the requests that  *)
(* make them, the staff who change the slot and its schedule, and the      *)
(* three jobs that work on the same documents outside any transaction:     *)
(* recurrent_slots, booking_reminders and auto_no_show.                    *)
(*                                                                         *)
(* A handler runs in a transaction.  One whose reads are all documents it  *)
(* also writes is a single step here (it would meet a write conflict if    *)
(* one of them changed).  The others - a booking and a move read the other *)
(* bookings, a change or a removal of the slot reads its bookings - are    *)
(* two steps: the handler computes its writes on a snapshot (pend), and    *)
(* Commit applies them, unless a document it writes has been written by    *)
(* someone else, whereupon it is dropped and the driver runs it again.     *)
(*                                                                         *)
(* The clock `now` counts minutes; the slot's date is date 1, minutes Day  *)
(* to 2 * Day.  Of a booking that is no longer active only its status and, *)
(* unless it was cancelled, its client are kept: nothing reads the rest.   *)
(***************************************************************************)
EXTENDS Ranges, SequencesExt

CONSTANTS
    Users,         \* clients, each with one Idempotency-Key
    Ids,           \* public ids of bookings
    Staff,         \* the transactions of the staff under way at a time
    NoPlace, NoId,
    Buffer,        \* buffer_minutes of the service
    Duration,      \* duration_minutes of the service
    Lead,          \* booking_policy.lead_time_minutes
    Deadline,      \* booking_policy.cancel_deadline_minutes
    Advance,       \* booking_policy.max_advance_days
    MaxActive,     \* booking_policy.max_active_per_user
    EntryLimit,    \* the limit the schedule gives a time entry
    Specs,         \* the schedules of a resource (recurrent_ranges)
    Entries,       \* the schedules of the weekday (recurrent_dates)
    TimeSets,      \* the times the staff may give a slot
    Shifts,        \* shift_minutes of a move of the whole slot
    ClosedUntil,   \* closed_until, while the organization is temporarily_closed
    Horizon,       \* retention.recurrent_horizon_days
    ReminderTime,  \* bookings.reminder_hours, in minutes
    NoShowAfter,   \* booking_policy.no_show_after_minutes
    FirstMoment, LastMoment,    \* bounds of the clock
    MaxCrashes,    \* bound: jobs that die
    Scenarios      \* a child_type and the operations explored together

ASSUME BufferAssumption == Buffer \in Nat /\ Duration \in Nat \ {0}
ASSUME NowAssumption ==
    /\ FirstMoment \in 0 .. Day /\ LastMoment \in Nat
    /\ ClosedUntil \in Int /\ Horizon \in Nat \ {0}
ASSUME IdsAssumption == IsFiniteSet(Ids) /\ "slot" \notin Ids /\ "service" \notin Ids
ASSUME UsersAssumption == NoId \notin Users \cup Ids /\ Users \cap Staff = {}
ASSUME LimitsAssumption == MaxActive \in Nat /\ EntryLimit \in Nat
ASSUME SpecsAssumption ==
    /\ \A s \in Specs : /\ s.span # Unset => s.span \in [from : 0 .. Day, to : 0 .. Day]
                        /\ s.step \in Nat \ {0} /\ s.min \in Nat \ {0}
    /\ Shifts \subseteq Int

VARIABLES
    slot,       \* the slot document
    booking,    \* the bookings
    option,     \* the option of the slot, a part of the service document
    now,        \* the clock
    pend,       \* the writes of the transactions under way
    attempt,    \* the request of each client
    key,        \* its row of idempotency_keys
    job,        \* the job under way
    told,       \* reminders enqueued for each booking
    crashes,    \* runs of the reminder job that died
    made,       \* transactions committed for the request of each key
    kind,       \* the child_type of the slot
    offered     \* the operations this behaviour offers

vars == <<slot, booking, option, now, pend, attempt, key, job, told, crashes, made, kind, offered>>
docs == <<slot, booking>>
fixed == <<kind, offered>>

-----------------------------------------------------------------------------
(* Documents. *)

Can(op) == op \in offered

Today == now \div Day
Start(place) == Day + place.from

NoRange == [from |-> 0, to |-> 0]
\* `entries` gives each time the counters of its entries: one, unless two
\* writers push the same time, which nothing forbids.
Slot(range, count, entries) ==
    [exists |-> TRUE, range |-> range, count |-> count, entries |-> entries]
NoSlot == [exists |-> FALSE, range |-> NoRange, count |-> 0, entries |-> << >>]

\* `schedule` is its recurrence: empty, or one entry.
Option(enabled, schedule) == [exists |-> TRUE, enabled |-> enabled, schedule |-> schedule]
NoOption == [exists |-> FALSE, enabled |-> FALSE, schedule |-> {}]

\* What a booking takes: an interval, or a time entry (no slot_end).
Places == IF kind = "time_range" THEN Intervals ELSE {Interval(t, t) : t \in 0 .. Day}

Visit(u, place, sent) == [status |-> "confirmed", user |-> u, place |-> place, sent |-> sent]
Past(status, u) == [status |-> status, user |-> u, place |-> NoPlace, sent |-> FALSE]

Held(rows) == {b \in Ids : rows[b].status = "confirmed"}
Busy(rows) == {rows[b].place : b \in Held(rows)}
CountActiveBySlot(rows) == Cardinality(Held(rows))
CountActiveByTimes(rows, times) == Cardinality({b \in Held(rows) : rows[b].place.from \in times})
CountActiveByUser(rows, u) == Cardinality({b \in Held(rows) : rows[b].user = u})

\* (Mutant of IndexHolds: no unique index.)
NoIndex(rows) == TRUE

\* unique_booking_per_slot, partial on `active`.
IndexHolds(rows) ==
    \A b, c \in Held(rows) :
        b # c => <<rows[b].user, rows[b].place.from>> # <<rows[c].user, rows[c].place.from>>

-----------------------------------------------------------------------------
(* Transactions. *)

NoWork == [docs |-> {}, slot |-> NoSlot, option |-> NoOption, booking |-> << >>, id |-> NoId]
Clients == Users
Txns == Users \cup Staff

Compute(t, written, newSlot, newOption, rows, b) ==
    pend' = [pend EXCEPT ![t] =
        [docs |-> written, slot |-> newSlot, option |-> newOption,
         booking |-> [c \in written \cap Ids |-> rows[c]], id |-> b]]

\* The transactions that lose a document in `written` meet a write conflict.
Unhit(written) ==
    [t \in Txns |-> IF pend[t].docs \cap written = {} THEN pend[t] ELSE NoWork]

\* A write outside a transaction, or a transaction of one step.
Put(written, newSlot, rows) ==
    /\ slot' = newSlot
    /\ booking' = rows
    /\ pend' = Unhit(written)

Request(state, place, b) == [state |-> state, place |-> place, id |-> b]
Idle == Request("idle", NoPlace, NoId)
NoKey == Idle

Commit(t) ==
    /\ pend[t].docs # {}
    /\ Put(pend[t].docs,
           IF "slot" \in pend[t].docs THEN pend[t].slot ELSE slot,
           [b \in Ids |-> IF b \in pend[t].docs THEN pend[t].booking[b] ELSE booking[b]])
    /\ option' = IF "service" \in pend[t].docs THEN pend[t].option ELSE option
    /\ IF attempt[t].state # "handling" THEN UNCHANGED <<attempt, made>>
       ELSE /\ made' = [made EXCEPT ![t] = @ + 1]
            /\ \E outcome \in {"done", "failed"} :    \* "failed": the answer to the commit is lost
                  attempt' = [attempt EXCEPT ![t].state = outcome, ![t].id = pend[t].id]
    /\ UNCHANGED <<now, key, job, told, crashes, fixed>>

Abort(t) ==
    /\ pend[t].docs # {}
    /\ pend' = [pend EXCEPT ![t] = NoWork]
    /\ UNCHANGED <<docs, option, now, attempt, key, job, told, crashes, made, fixed>>

-----------------------------------------------------------------------------
(* Taking and giving back a place. *)

\* loadBookable, resolveTarget.
IsExpired == Today > 1
IsOpen == slot.exists /\ option.exists /\ option.enabled /\ ~IsExpired
Fits(place) ==
    IF kind = "time_range" THEN FitsRange(slot.range, place)
    ELSE place.from \in DOMAIN slot.entries

\* findOverlapping: the bookings an interval would come too close to.
Overlapping(rows, place, self) ==
    {b \in Held(rows) \ {self} : Clashes(place, rows[b].place, Buffer)}
BelowLimit(n) == n < EntryLimit

\* take: the interval must be clear of the other active bookings, or an
\* entry of the time below its limit; `self` is the booking made or moved.
MayTake(rows, place, self) ==
    IF kind = "time_range" THEN Overlapping(rows, place, self) = {}
    ELSE \E n \in Range(slot.entries[place.from]) : BelowLimit(n)

\* Every entry of the time that may take one more is counted up.
Counted(s, place) ==
    IF kind = "time_range" THEN [s EXCEPT !.count = @ + 1]
    ELSE IF place.from \in DOMAIN s.entries
         THEN [s EXCEPT !.entries[place.from] = [i \in DOMAIN @ |-> IF BelowLimit(@[i]) THEN @[i] + 1 ELSE @[i]]]
         ELSE s

\* releaseCapacity: counters above zero only.
Lower(n) == IF n > 0 THEN n - 1 ELSE n
Release(s, place) ==
    IF kind = "time_range" THEN [s EXCEPT !.count = Lower(@)]
    ELSE IF place.from \in DOMAIN s.entries
         THEN [s EXCEPT !.entries[place.from] = [i \in DOMAIN @ |-> Lower(@[i])]]
         ELSE s

\* (Mutant of Written: a booking does not write its slot.)
WrittenAlone(b) == {b}

\* The counter is in the slot document, so that two bookings of one slot conflict.
Written(b) == {b, "slot"}

\* The closure of the organization, the lead time and the cancel deadline:
\* for clients; `isStaff`, who see the details, are not held to them.
IsClosed(place) == Can("closed") /\ Start(place) < ClosedUntil
Closed(isStaff, place) == ~isStaff /\ IsClosed(place)
InTime(place) == Start(place) - now >= Lead /\ 1 <= Today + Advance
AssertPolicy(isStaff, place) == ~isStaff => InTime(place)
MayMove(place) == Start(place) - now >= Deadline

\* assertActiveLimits; and assertInterval with min_interval_days: another
\* booking of the client on this date that was not cancelled.
WithinLimit(rows, u) == Can("limit") => CountActiveByUser(rows, u) < MaxActive
WithinInterval(rows, u, self) == {c \in Ids \ {self} : rows[c].user = u}
TooFrequent(rows, u, self) == Can("interval") /\ WithinInterval(rows, u, self) # {}

-----------------------------------------------------------------------------
(* Requests with an Idempotency-Key: a client books, the staff move a slot. *)

\* The key is claimed before the transaction; a second request with it
\* changes nothing, whatever it is answered (replay).
Claim(t, what) ==
    /\ Can("key") /\ attempt[t] = Idle /\ key[t] = NoKey
    /\ key' = [key EXCEPT ![t] = Request("claimed", what, NoId)]
    /\ attempt' = [attempt EXCEPT ![t] = Request("handling", what, NoId)]
    /\ UNCHANGED <<docs, option, now, pend, job, told, crashes, made, fixed>>

\* createIdempotent; and once, of a move of the slot by n minutes.
Submit(u, place) == Can("book") /\ place \in Places /\ Claim(u, place)
SubmitShift(t, n) == Can("shift") /\ Claim(t, n)

\* create, with the key or without one; with several devices a client
\* has several requests under way (the transactions t and u).
Book(t, u, b, place) ==
    LET rows == [booking EXCEPT ![b] = Visit(u, place, FALSE)]
    IN /\ IF Can("key") THEN t = u /\ attempt[u].state = "handling" /\ attempt[u].place = place
          ELSE Can("book") /\ (t = u \/ Can("devices"))
       /\ pend[t] = NoWork
       /\ booking[b].status = "none"
       /\ IsOpen /\ Fits(place) /\ ~Closed(FALSE, place) /\ AssertPolicy(FALSE, place)
       /\ WithinLimit(booking, u) /\ ~TooFrequent(booking, u, b)
       /\ MayTake(booking, place, b) /\ IndexHolds(rows)
       /\ Compute(t, Written(b), Counted(slot, place), option, rows, b)
       /\ UNCHANGED <<docs, option, now, attempt, key, job, told, crashes, made, fixed>>

\* Refused: the handler throws.
Refuse(u) ==
    /\ attempt[u].state = "handling" /\ pend[u] = NoWork
    /\ attempt' = [attempt EXCEPT ![u].state = "failed"]
    /\ UNCHANGED <<docs, option, now, pend, key, job, told, crashes, made, fixed>>

\* (Mutant of Handled: the key is completed while the handler still runs.)
HandledEarly(u) == attempt[u].state \in {"handling", "done"}
Handled(u) == attempt[u].state = "done"

Complete(u) ==
    /\ Handled(u)
    /\ key' = [key EXCEPT ![u] =
            IF @.state = "claimed" THEN Request("completed", attempt[u].place, attempt[u].id) ELSE @]
    /\ attempt' = [attempt EXCEPT ![u] = Idle]
    /\ UNCHANGED <<docs, option, now, pend, job, told, crashes, made, fixed>>

GiveKeyBack(u) ==
    /\ attempt[u].state = "failed"
    /\ key' = [key EXCEPT ![u] = NoKey]
    /\ made' = [made EXCEPT ![u] = 0]
    /\ attempt' = [attempt EXCEPT ![u] = Idle]
    /\ UNCHANGED <<docs, option, now, pend, job, told, crashes, fixed>>

\* The process that serves u dies: its key stays claimed.
Crash(u) ==
    /\ attempt[u] # Idle
    /\ attempt' = [attempt EXCEPT ![u] = Idle]
    /\ pend' = [pend EXCEPT ![u] = NoWork]
    /\ UNCHANGED <<docs, option, now, key, job, told, crashes, made, fixed>>

\* The TTL index drops the key; its life is far longer than a request's.
ExpireKey(u) ==
    /\ key[u] # NoKey /\ attempt[u] = Idle
    /\ key' = [key EXCEPT ![u] = NoKey]
    /\ made' = [made EXCEPT ![u] = 0]
    /\ UNCHANGED <<docs, option, now, pend, attempt, job, told, crashes, fixed>>

-----------------------------------------------------------------------------
(* A booking is moved, cancelled, checked in. *)

Moved(rows, b, place) == [rows EXCEPT ![b].place = place]

\* reschedule, by its client or by the staff.
Move(t, b, place) ==
    LET old == booking[b].place
        rows == Moved(booking, b, place)
    IN /\ Can("move") /\ pend[t] = NoWork
       /\ booking[b].status = "confirmed" /\ place \in Places \ {old}
       /\ t \in Staff \/ (t = booking[b].user /\ attempt[t] = Idle /\ MayMove(old) /\ ~TooFrequent(booking, t, b))
       /\ IsOpen /\ Fits(place) /\ ~Closed(t \in Staff, place) /\ AssertPolicy(t \in Staff, place)
       /\ MayTake(booking, place, b) /\ IndexHolds(rows)
       /\ Compute(t, Written(b), Counted(Release(slot, old), place), option, rows, b)
       /\ UNCHANGED <<docs, option, now, attempt, key, job, told, crashes, made, fixed>>

Cancel(b) ==
    /\ Can("cancel") /\ booking[b].status = "confirmed"
    /\ Put({b, "slot"}, Release(slot, booking[b].place), [booking EXCEPT ![b] = Past("cancelled", NoId)])
    /\ UNCHANGED <<option, now, attempt, key, job, told, crashes, made, fixed>>

\* checkIn: on the day, also of a visitor already marked no_show.  The
\* counter of the slot keeps its place.
CheckIn(b) ==
    /\ Can("visit") /\ Today = 1
    /\ booking[b].status \in {"confirmed", "no_show"}
    /\ Put({b}, slot, [booking EXCEPT ![b] = Past("arrived", booking[b].user)])
    /\ UNCHANGED <<option, now, attempt, key, job, told, crashes, made, fixed>>

-----------------------------------------------------------------------------
(* The staff change the slot and the schedule. *)

Schedules == IF kind = "time_range" THEN Specs ELSE Entries
SlotRange(spec) == RangeFor(spec)

\* A change of a slot also counts up the version of its service.
Touched == {"slot", "service"}
\* A slot is seen in the tree of its service, under its option (growTrees).
Tree == IF option.exists THEN slot ELSE NoSlot
SetRange(s, range) == [s EXCEPT !.range = range]

\* What an update leaves out of the span stays as it is.
Updated(range, spec) ==
    IF spec.span = Unset THEN [SlotRange(spec) EXCEPT !.from = range.from, !.to = range.to]
    ELSE SlotRange(spec)

\* updateSlot with range fields: refused while an active booking would be outside.
UpdateRange(t, spec) ==
    LET range == Updated(slot.range, spec)
    IN /\ Can("staff") /\ kind = "time_range" /\ pend[t] = NoWork
       /\ Tree.exists /\ IsValidRange(range)
       /\ \A i \in Busy(booking) : i.from >= range.from /\ i.to <= range.to
       /\ Compute(t, Touched, SetRange(slot, range), option, booking, NoId)
       /\ UNCHANGED <<docs, option, now, attempt, key, job, told, crashes, made, fixed>>

EntriesAt(entries, t) == IF t \in DOMAIN entries THEN entries[t] ELSE << >>
Push(entries, times) ==
    [t \in DOMAIN entries \cup times |->
        IF t \in times THEN Append(EntriesAt(entries, t), 0) ELSE entries[t]]

\* updateSlot with times (applyTimes): a time that is left out must have no
\* active booking; a time that stays keeps its counter.
UpdateTimes(t, times) ==
    LET removed == DOMAIN slot.entries \ times
        added == times \ DOMAIN slot.entries
    IN /\ Can("times") /\ kind = "date_time" /\ pend[t] = NoWork
       /\ Tree.exists /\ removed \cup added # {}
       /\ CountActiveByTimes(booking, removed) = 0
       /\ Compute(t, Touched, [slot EXCEPT !.entries = Push(Restrict(@, DOMAIN @ \ removed), added)],
                  option, booking, NoId)
       /\ UNCHANGED <<docs, option, now, attempt, key, job, told, crashes, made, fixed>>

RemoveSlot(t) ==
    /\ Can("staff") /\ pend[t] = NoWork
    /\ Tree.exists /\ CountActiveBySlot(booking) = 0
    /\ Compute(t, Touched, NoSlot, option, booking, NoId)
    /\ UNCHANGED <<docs, option, now, attempt, key, job, told, crashes, made, fixed>>

\* shiftedTime: the whole slot must stay within its day.
InDay(minute) == minute \in 0 .. Day - 1
Shifted(place, n) == Interval(place.from + n, place.to + n)
MayShift(n) ==
    IF kind = "time_range" THEN InDay(slot.range.from + n) /\ InDay(slot.range.to + n)
    ELSE \A t \in DOMAIN slot.entries : InDay(t + n)

\* renameOrder: the entries are renamed one after the other, each by the time
\* it has then, those in front of the shift first.
RenameOrder(times, n) == SetToSortSeq(times, LAMBDA x, y : IF n > 0 THEN x > y ELSE x < y)
Rename(entries, from, to) ==
    [t \in (DOMAIN entries \ {from}) \cup {to} |->
        IF t = to THEN entries[from] \o EntriesAt(entries, to) ELSE entries[t]]
RenameTimes(s, n) ==
    [s EXCEPT !.entries =
        FoldLeft(LAMBDA e, t : IF t \in DOMAIN e THEN Rename(e, t, t + n) ELSE e, @, RenameOrder(DOMAIN @, n))]
ShiftEnds(s, n) == SetRange(s, [s.range EXCEPT !.from = @ + n, !.to = @ + n])

\* moveMany: a moved booking is reminded again.
MoveMany(rows, n) ==
    [b \in Ids |-> IF b \in Held(rows) THEN Visit(rows[b].user, Shifted(rows[b].place, n), FALSE) ELSE rows[b]]

\* The slot is moved to another hour of its date, with all its bookings.
ShiftSlot(t, n) ==
    /\ Can("shift") /\ pend[t] = NoWork
    /\ Can("key") => attempt[t].state = "handling" /\ attempt[t].place = n
    /\ Tree.exists /\ ~IsExpired /\ MayShift(n)
    /\ Compute(t, Touched \cup Held(booking),
               IF kind = "time_range" THEN ShiftEnds(slot, n) ELSE RenameTimes(slot, n),
               option, MoveMany(booking, n), NoId)
    /\ UNCHANGED <<docs, option, now, attempt, key, job, told, crashes, made, fixed>>

\* A change of the service document alone is a transaction of one step.
PutOption(new) ==
    /\ option' = new
    /\ pend' = Unhit({"service"})
    /\ UNCHANGED <<docs, now, attempt, key, job, told, crashes, made, fixed>>

WithSchedule(o, new) == [o EXCEPT !.schedule = new]

\* setRecurrence: every entry must give a valid range.
IsValidSchedule(new) == kind = "time_range" => \A e \in new : HasRange(e) /\ IsValidRange(SlotRange(e))
SetRecurrence(new) ==
    /\ Can("recurrence") /\ option.exists /\ new # option.schedule
    /\ IsValidSchedule(new)
    /\ PutOption(WithSchedule(option, new))

\* addOption, with a schedule and no slot yet: the job will make it.
AddOption(new) ==
    /\ Can("option") /\ ~option.exists /\ ~slot.exists /\ IsValidSchedule(new)
    /\ PutOption(Option(TRUE, new))

\* updateOption: switched off, an option takes no more bookings.
UpdateOption ==
    /\ Can("option") /\ option.exists
    /\ PutOption([option EXCEPT !.enabled = ~@])

\* removeOption, with its slots (deleteByOption).
RemoveOption(t) ==
    /\ Can("option") /\ option.exists /\ pend[t] = NoWork
    /\ CountActiveBySlot(booking) = 0
    /\ Compute(t, {"service"} \cup (IF slot.exists THEN {"slot"} ELSE {}), NoSlot, NoOption, booking, NoId)
    /\ UNCHANGED <<docs, option, now, attempt, key, job, told, crashes, made, fixed>>

-----------------------------------------------------------------------------
(* recurrent_slots: the services are read, then their slots, outside any   *)
(* transaction; the difference is one unordered bulk write.                *)

Window == RecurringDates(Today, Horizon, {})

WantedRanges(entries) ==
    {SlotRange(s) : s \in {e \in entries : e.here /\ HasRange(e) /\ IsValidRange(SlotRange(e))}}

PlanOf(s, entries) ==
    IF entries = {} \/ 1 \notin Window THEN {}
    ELSE IF kind = "time_range" THEN PlanRanges(s, WantedRanges(entries))
    ELSE UNION {PlanDays(s, times) : times \in {TimesFor(e, Duration, Buffer) : e \in entries} \ {{}}}

Fresh(times) == Push(<< >>, times)

\* (Mutant of StillFree: the write is not conditional on booked_count.)
StillFreeAssumed(s) == s.exists
StillFree(s) == s.exists /\ s.count <= 0

\* The documents an operation of the bulk write matches, and what it writes.
Matches(s, op) ==
    \/ op.op \in {"addRange", "addTimes"}
    \/ op.op \in {"setRange", "removeSlot"} /\ StillFree(s)
    \/ op.op \in {"pushTimes", "pullTimes"} /\ s.exists
Applied(s, op) ==
    CASE op.op = "addRange" -> Slot(op.range, 0, << >>)
      [] op.op = "addTimes" -> Slot(NoRange, 0, Fresh(op.times))
      [] op.op = "setRange" -> [s EXCEPT !.range = op.range]
      [] op.op = "removeSlot" -> NoSlot
      [] op.op = "pushTimes" -> [s EXCEPT !.entries = Push(@, op.times)]
      [] op.op = "pullTimes" ->
            LET Pulled(t) == t \in op.times /\ 0 \in Range(s.entries[t])
                Left(t) == IF Pulled(t) THEN SelectSeq(s.entries[t], LAMBDA n : n > 0) ELSE s.entries[t]
            IN [s EXCEPT !.entries =
                   [t \in {x \in DOMAIN @ : Pulled(x) => \E n \in Range(@[x]) : n > 0} |-> Left(t)]]

NoJob == [name |-> "none"]

RecurrentStart ==
    /\ Can("recurrent_slots") /\ job = NoJob
    /\ job' = [name |-> "recurrent_slots", step |-> "slots", entries |-> option.schedule, ops |-> {}]
    /\ UNCHANGED <<docs, option, now, pend, attempt, key, told, crashes, made, fixed>>

RecurrentPlan ==
    /\ job.name = "recurrent_slots" /\ job.step = "slots"
    /\ LET ops == PlanOf(slot, job.entries)
       IN job' = IF ops = {} THEN NoJob ELSE [job EXCEPT !.step = "apply", !.ops = ops]
    /\ UNCHANGED <<docs, option, now, pend, attempt, key, told, crashes, made, fixed>>

RecurrentApply ==
    /\ job.name = "recurrent_slots" /\ job.step = "apply"
    /\ \E op \in job.ops :
         /\ IF Matches(slot, op) THEN Put({"slot"}, Applied(slot, op), booking)
            ELSE UNCHANGED <<docs, pend>>
         /\ job' = IF job.ops = {op} THEN NoJob ELSE [job EXCEPT !.ops = @ \ {op}]
    /\ UNCHANGED <<option, now, attempt, key, told, crashes, made, fixed>>

-----------------------------------------------------------------------------
(* booking_reminders and auto_no_show. *)

DueReminders(at) ==
    {b \in Held(booking) : /\ at < Start(booking[b].place)
                           /\ Start(booking[b].place) <= at + ReminderTime
                           /\ ~booking[b].sent}

RemindFind ==
    /\ \/ job = NoJob /\ Can("booking_reminders")
       \/ job.name = "booking_reminders" /\ job.step = "find"
    /\ LET at == IF job = NoJob THEN now ELSE job.at
           due == DueReminders(at)
       IN job' = IF due = {} THEN NoJob
                 ELSE [name |-> "booking_reminders", step |-> "enqueue", at |-> at,
                       due |-> due, left |-> due]
    /\ job' # job
    /\ UNCHANGED <<docs, option, now, pend, attempt, key, told, crashes, made, fixed>>

RemindEnqueue ==
    /\ job.name = "booking_reminders" /\ job.step = "enqueue"
    /\ \E b \in job.left :
         /\ told' = [told EXCEPT ![b] = @ + 1]
         /\ job' = [job EXCEPT !.left = @ \ {b}]
    /\ UNCHANGED <<docs, option, now, pend, attempt, key, crashes, made, fixed>>

\* (Mutant of AllEnqueued: the rows are marked before the events exist.)
EnqueuedOrNot == TRUE
AllEnqueued == job.left = {}

\* markReminded is by id: also a booking moved since it was listed.
Marked(due) ==
    [b \in Ids |-> IF b \in due /\ booking[b].status = "confirmed"
                   THEN [booking[b] EXCEPT !.sent = TRUE] ELSE booking[b]]

RemindMark ==
    /\ job.name = "booking_reminders" /\ job.step = "enqueue" /\ AllEnqueued
    /\ Put(job.due, slot, Marked(job.due))
    /\ job' = [job EXCEPT !.step = "find", !.due = {}, !.left = {}]
    /\ UNCHANGED <<option, now, attempt, key, told, crashes, made, fixed>>

Overdue(at) == {b \in Held(booking) : Start(booking[b].place) + NoShowAfter <= at}

NoShowFind ==
    /\ Can("auto_no_show") /\ job = NoJob
    /\ Overdue(now) # {}
    /\ job' = [name |-> "auto_no_show", due |-> Overdue(now)]
    /\ UNCHANGED <<docs, option, now, pend, attempt, key, told, crashes, made, fixed>>

\* markNoShow of one listed booking, which must still be confirmed.
NoShowMark ==
    /\ job.name = "auto_no_show"
    /\ \E b \in job.due :
         /\ IF booking[b].status = "confirmed"
            THEN Put({b}, slot, [booking EXCEPT ![b] = Past("no_show", booking[b].user)])
            ELSE UNCHANGED <<docs, pend>>
         /\ job' = IF job.due = {b} THEN NoJob ELSE [job EXCEPT !.due = @ \ {b}]
    /\ UNCHANGED <<option, now, attempt, key, told, crashes, made, fixed>>

JobCrash ==
    /\ job # NoJob
    /\ job.name = "booking_reminders" => crashes < MaxCrashes
    /\ crashes' = crashes + (IF job.name = "booking_reminders" THEN 1 ELSE 0)
    /\ job' = NoJob
    /\ UNCHANGED <<docs, option, now, pend, attempt, key, told, made, fixed>>

Tick ==
    /\ Can("time") /\ now < LastMoment
    /\ now' = now + 1
    /\ UNCHANGED <<docs, option, pend, attempt, key, job, told, crashes, made, fixed>>

-----------------------------------------------------------------------------

Init ==
    /\ \E scenario \in Scenarios : kind = scenario.kind /\ offered = scenario.ops
    /\ \E e \in Schedules :
         /\ IsValidSchedule({e})
         /\ option = Option(TRUE, {e})
         /\ slot = IF kind = "time_range" THEN Slot(SlotRange(e), 0, << >>)
                   ELSE Slot(NoRange, 0, Fresh(TimesFor(e, Duration, Buffer)))
    /\ booking = [b \in Ids |-> Past("none", NoId)]
    /\ now = FirstMoment
    /\ pend = [t \in Txns |-> NoWork]
    /\ attempt = [t \in Txns |-> Idle]
    /\ key = [t \in Txns |-> NoKey]
    /\ made = [t \in Txns |-> 0]
    /\ job = NoJob
    /\ told = [b \in Ids |-> 0]
    /\ crashes = 0

Next ==
    \/ \E t \in Txns : Commit(t) \/ Abort(t)
    \/ \E t \in Txns : Refuse(t) \/ Complete(t) \/ GiveKeyBack(t) \/ Crash(t) \/ ExpireKey(t)
    \/ \E u \in Users : \E place \in Places : Submit(u, place)
    \/ \E t, u \in Users : \E b \in Ids : \E place \in Places : Book(t, u, b, place)
    \/ \E t \in Txns : \E b \in Ids : \E place \in Places : Move(t, b, place)
    \/ \E b \in Ids : Cancel(b) \/ CheckIn(b)
    \/ \E t \in Staff : \E spec \in Specs : UpdateRange(t, spec)
    \/ \E t \in Staff : RemoveSlot(t) \/ RemoveOption(t)
    \/ \E t \in Staff : \E times \in TimeSets : UpdateTimes(t, times)
    \/ \E e \in Schedules : AddOption({e})
    \/ UpdateOption
    \/ \E t \in Staff : \E n \in Shifts : SubmitShift(t, n) \/ ShiftSlot(t, n)
    \/ \E new \in {{e} : e \in Schedules} \cup {{}} : SetRecurrence(new)
    \/ RecurrentStart \/ RecurrentPlan \/ RecurrentApply
    \/ RemindFind \/ RemindEnqueue \/ RemindMark
    \/ NoShowFind \/ NoShowMark \/ JobCrash \/ Tick

Spec == Init /\ [][Next]_vars

-----------------------------------------------------------------------------
(* Properties. *)

(***************************************************************************)
(* Types: rows, counters never below zero, and a key that is completed     *)
(* only with a booking (the conditional $inc of releaseCapacity).          *)
(***************************************************************************)
TypeOK ==
    /\ slot.count \in Nat
    /\ \A t \in DOMAIN slot.entries : \A n \in Range(slot.entries[t]) : n \in 0 .. EntryLimit
    /\ option.schedule \in SUBSET Schedules
    /\ \A b \in Ids :
         \/ booking[b].status = "confirmed" /\ booking[b].user \in Users /\ booking[b].place \in Places
         \/ booking[b].status \in {"none", "cancelled", "arrived", "no_show"}
    /\ \A t \in Txns : key[t].state \in {"idle", "claimed", "completed"}

(***************************************************************************)
(* Two active bookings of a resource never come closer than the buffer,    *)
(* although `take` only queries its snapshot: the counter it also bumps    *)
(* makes the second transaction conflict (docs/data-model.md, time_range). *)
(* For the same reason a client who sends two requests at once gets no     *)
(* more active bookings of the slot than max_active_per_user, nor two      *)
(* within min_interval_days, also once one of them is over.                *)
(***************************************************************************)
Spaced ==
    \A b \in Held(booking) : Overlapping(booking, booking[b].place, b) = {}
WithinPolicy ==
    \A u \in Users : /\ Can("limit") => CountActiveByUser(booking, u) <= MaxActive
                     /\ Can("interval") => Cardinality({b \in Ids : booking[b].user = u}) <= 1
NeverTooClose == (kind = "time_range" => Spaced) /\ WithinPolicy

(***************************************************************************)
(* An active booking is never stranded: its option and its slot exist, its *)
(* interval lies inside the range or its time is an entry, and no more     *)
(* bookings are active than the counters say, whatever the staff and the   *)
(* recurring schedule change while it is made or moved.                    *)
(***************************************************************************)
NobodyStranded ==
    \A b \in Held(booking) :
        LET place == booking[b].place
            taken == Cardinality({c \in Held(booking) : booking[c].place = place})
        IN /\ option.exists /\ slot.exists
           /\ kind = "time_range" =>
                /\ slot.range.from <= place.from /\ place.to <= slot.range.to
                /\ CountActiveBySlot(booking) <= slot.count
           /\ kind = "date_time" =>
                \E n \in Range(EntriesAt(slot.entries, place.from)) : taken <= n

-----------------------------------------------------------------------------
(* GET /services/:id/availability. *)

NotBefore == IF Today = 1 THEN now - Day ELSE 0
Offered == FreeRanges(slot.range, Busy(booking), Buffer, NotBefore)
Inside(place, free) == free.from <= place.from /\ place.to <= free.to

\* The dates shown when the query names none.
Asked == Today .. Today + Horizon

\* The places shown: inside a free range, or of an entry with room left.  A
\* free range that begins before the end of a closure is left out whole.
Availability(isStaff) ==
    IF ~(Tree.exists /\ option.enabled /\ 1 \in Asked) THEN {}
    ELSE IF kind = "time_range"
         THEN {place \in Places : \E free \in Offered : Inside(place, free) /\ ~Closed(isStaff, free)}
    ELSE {place \in Places : /\ ~Closed(isStaff, place)
                             /\ \E n \in Range(EntriesAt(slot.entries, place.from)) : EntryLimit - n > 0}

(***************************************************************************)
(* What the availability offers is exactly what `resolveTarget` and `take` *)
(* would accept from now on: every shown interval that fits, and every     *)
(* shown time, can be booked, and every bookable place is shown, after     *)
(* whatever the bookings, the staff and the jobs did to the slot; for a    *)
(* client and for the staff.  (Of an interval only the first for a client  *)
(* while the organization is closed for a part of the day.)                *)
(***************************************************************************)
Bookable(isStaff, place) ==
    /\ IsOpen /\ ~Closed(isStaff, place) /\ MayTake(booking, place, NoId)
    /\ kind = "time_range" => place.from >= NotBefore
OffersAreExact ==
    \A place \in Places, isStaff \in BOOLEAN : Fits(place) =>
        /\ place \in Availability(isStaff) => Bookable(isStaff, place)
        /\ Bookable(isStaff, place) /\ (isStaff \/ kind = "date_time" \/ ~Can("closed"))
               => place \in Availability(isStaff)

(***************************************************************************)
(* A booking marked reminded was told, and it is told again only if a run  *)
(* died before it marked it, even if it is moved, cancelled or checked in  *)
(* between the find, the enqueue and the mark of booking_reminders.        *)
(***************************************************************************)
ToldOnce ==
    \A b \in Ids : /\ booking[b].sent => told[b] >= 1
                   /\ told[b] <= 1 + crashes

(***************************************************************************)
(* A retry with the same Idempotency-Key is safe, also when the answer to  *)
(* a commit was lost, or the key was given back or has expired: a replayed *)
(* response is a booking that was committed for that request (it may have  *)
(* been moved or finished since), and a client never holds two active      *)
(* bookings of one place.  A key stands for at most one transaction as     *)
(* long as it lasts, which for a move by minutes is all that keeps the     *)
(* slot from moving twice; a completed key stands for exactly one.         *)
(***************************************************************************)
ReplayIsTrue ==
    \A u \in Users : key[u].state = "completed" =>
        /\ key[u].id \in Ids /\ booking[key[u].id].status # "none"
        /\ booking[key[u].id].status = "confirmed" => booking[key[u].id].user = u
BookedOnce ==
    \A b, c \in Held(booking) :
        b # c /\ booking[b].user = booking[c].user => booking[b].place # booking[c].place
OncePerKey == \A t \in Txns : made[t] <= 1 /\ (key[t].state = "completed" => made[t] = 1)
RetriesAreSafe == ReplayIsTrue /\ BookedOnce /\ OncePerKey

(***************************************************************************)
(* recurrent_slots is idempotent: planned again right after it is applied, *)
(* the plan is empty, in every state of slot, bookings and schedule        *)
(* (docs/jobs.md, recurrent_slots).                                        *)
(***************************************************************************)
AppliedAll(s) ==
    LET plan == PlanOf(s, option.schedule)
        Both(op) == \A other \in plan : op # other => op.op = "pushTimes"
    IN IF plan = {} THEN s
       ELSE IF Cardinality(plan) = 1 THEN Applied(s, CHOOSE op \in plan : TRUE)
       ELSE Applied(Applied(s, CHOOSE op \in plan : ~Both(op)), CHOOSE op \in plan : Both(op))
PlanSettles == PlanOf(AppliedAll(slot), option.schedule) = {}

(***************************************************************************)
(* The rows of GET /services/:id/slots: one per free range, less those     *)
(* whose start has passed.                                                 *)
(***************************************************************************)
Candidates == {free \in Offered : Day + free.from > now}

(***************************************************************************)
(* README: the slots list is the same capacity flattened, one row per free *)
(* interval.  An opening that begins this very minute is dropped whole,    *)
(* with everything in it that may still be booked.                         *)
(***************************************************************************)
ListShowsCapacity ==
    kind = "time_range" /\ IsOpen =>
        \A free \in Offered :
            (\E place \in Intervals : /\ Fits(place) /\ Inside(place, free)
                                      /\ Day + place.from > now)
            => \E row \in Candidates : row = free
=============================================================================
