------------------------------ MODULE Ranges ------------------------------
(***************************************************************************)
(* The rules of slot.logic: which intervals of a time_range slot may be    *)
(* booked, which are offered as free, what a recurring schedule generates, *)
(* and the plan that brings the slots of a date back to the schedule.      *)
(* Pure operators, no state.                                               *)
(*                                                                         *)
(* A time of day is a number of minutes, 0 .. Day; an interval, busy or    *)
(* wanted, is [from, to].                                                  *)
(***************************************************************************)
EXTENDS Integers, FiniteSets, FiniteSetsExt

CONSTANTS
    Day,       \* minutes of a day (24 * 60)
    NoMax,     \* `max_minutes: null`
    Unset,     \* `from` and `to` left out of a schedule entry
    Hours      \* the service's working hours on the weekday, as intervals

ASSUME DayAssumption == Day \in Nat \ {0} /\ NoMax \notin Nat
ASSUME HoursAssumption ==
    \A h \in Hours : h.from \in 0 .. Day /\ h.to \in 0 .. Day /\ h.from < h.to

Interval(a, b) == [from |-> a, to |-> b]
Intervals == {i \in [from : 0 .. Day, to : 0 .. Day] : i.from < i.to}

Clamp(n) == IF n < 0 THEN 0 ELSE IF n > Day THEN Day ELSE n
Length(i) == i.to - i.from
CeilDiv(n, step) == -((-n) \div step)

-----------------------------------------------------------------------------
(* One range. *)

IsValidRange(range) ==
    /\ range.from < range.to
    /\ range.min <= Length(range)
    /\ range.max # NoMax => range.max >= range.min

\* What a schedule entry or a new slot means: the working hours give the
\* span that was left out, and the duration the step.
SpanOf(spec) ==
    IF spec.span # Unset THEN spec.span
    ELSE Interval(Min({h.from : h \in Hours}), Max({h.to : h \in Hours}))
HasRange(spec) == spec.span # Unset \/ Hours # {}
RangeFor(spec) ==
    [from |-> SpanOf(spec).from, to |-> SpanOf(spec).to,
     step |-> spec.step, min |-> spec.min, max |-> spec.max]

FitsRange(range, wanted) ==
    /\ range.from <= wanted.from /\ wanted.to <= range.to
    /\ Length(wanted) >= range.min
    /\ range.max # NoMax => Length(wanted) <= range.max
    /\ (wanted.from - range.from) % range.step = 0
    /\ (wanted.to - range.from) % range.step = 0

\* The query of `take`: a booking that comes closer than the buffer.
Clashes(wanted, held, buffer) ==
    /\ held.from < Clamp(wanted.to + buffer)
    /\ held.to > Clamp(wanted.from - buffer)

-----------------------------------------------------------------------------
(* The free parts of a range. *)

\* (Mutant of Blocked: the buffer is kept after a booking only.)
BlockedAfter(busy, buffer) == {Interval(i.from, Clamp(i.to + buffer)) : i \in busy}

Blocked(busy, buffer) ==
    {Interval(Clamp(i.from - buffer), Clamp(i.to + buffer)) : i \in busy}

\* How far the sweep over the blocked intervals has come when it reaches `at`.
Cursor(blocked, start, at) == Max({start} \cup {i.to : i \in {k \in blocked : k.from < at}})

Gaps(range, blocked, start) ==
    {Interval(Cursor(blocked, start, i.from), IF i.from < range.to THEN i.from ELSE range.to) :
        i \in {k \in blocked : k.from > Cursor(blocked, start, k.from)}}
    \cup {i \in {Interval(Cursor(blocked, start, Day + 1), range.to)} : i.from < i.to}

\* Each gap cut to the grid of the range, and dropped when too short.
Aligned(range, gap) ==
    Interval(range.from + CeilDiv(gap.from - range.from, range.step) * range.step,
             range.from + ((gap.to - range.from) \div range.step) * range.step)

FreeRanges(range, busy, buffer, notBefore) ==
    LET start == Max({range.from, notBefore})
    IN {i \in {Aligned(range, gap) : gap \in Gaps(range, Blocked(busy, buffer), start)} :
            Length(i) >= range.min}

-----------------------------------------------------------------------------
(* What the recurring schedule generates, and the plan. *)

\* The starts that cut the working hours into whole appointments.
TimesFromWorkingHours(duration, buffer) ==
    {t \in 0 .. Day : \E h \in Hours :
        /\ h.from <= t /\ t + duration <= h.to
        /\ (t - h.from) % (duration + buffer) = 0}

RecurringDates(today, horizon, closedDates) == (today + 1 .. today + horizon) \ closedDates

\* The times a date gets: those of the entry, or the working hours cut up.
TimesFor(entry, duration, buffer) ==
    IF entry.times = {} /\ Hours # {} THEN TimesFromWorkingHours(duration, buffer) ELSE entry.times

\* planRecurrentRanges for one date and resource; `slot` has exists, range
\* and count, `wanted` is the set with the generated range, or empty.
PlanRanges(slot, wanted) ==
    CASE ~slot.exists -> {[op |-> "addRange", range |-> r] : r \in wanted}
      [] slot.exists /\ slot.count # 0 -> {}
      [] slot.exists /\ slot.count = 0 ->
            IF wanted = {} THEN {[op |-> "removeSlot"]}
            ELSE {[op |-> "setRange", range |-> r] : r \in wanted \ {slot.range}}

\* (Mutant of PlanDays: a time that holds bookings is planned away too.)
PlanDaysStranding(slot, wanted) ==
    IF ~slot.exists THEN {[op |-> "addTimes", times |-> wanted]}
    ELSE {[op |-> "pushTimes", times |-> t] : t \in {wanted \ DOMAIN slot.entries} \ {{}}}
         \cup {[op |-> "pullTimes", times |-> t] : t \in {DOMAIN slot.entries \ wanted} \ {{}}}

\* planRecurrentDays for one date with the times it is to have; `entries`
\* maps the times of the slot to the counters of their entries.
PlanDays(slot, wanted) ==
    LET stale == {t \in DOMAIN slot.entries \ wanted : \E i \in DOMAIN slot.entries[t] : slot.entries[t][i] = 0}
        added == wanted \ DOMAIN slot.entries
    IN IF ~slot.exists THEN {[op |-> "addTimes", times |-> wanted]}
       ELSE {[op |-> "pushTimes", times |-> t] : t \in {added} \ {{}}}
            \cup {[op |-> "pullTimes", times |-> t] : t \in {stale} \ {{}}}
=============================================================================
