--------------------------- MODULE VisitsProofs ---------------------------
(* One slot for any clients, bookings, staff, schedules and keys: active   *)
(* bookings keep the buffer and the limits of their clients, a retry with  *)
(* a key is safe, a reminder is sent once, and, where the recurring job    *)
(* does not race with the staff, nobody is left without a place, what is   *)
(* offered is what can be booked, and a plan leaves nothing to plan.       *)
(*                                                                         *)
(* A transaction computes on a snapshot, so the rows as they are NOW do    *)
(* not make an inductive invariant.  What does: whatever transaction       *)
(* commits next, the rows it leaves (After) are good.                      *)
EXTENDS Visits, FiniteSetTheorems, WellFoundedInduction, TLAPS

-----------------------------------------------------------------------------
(* Rows, slots and what makes them good. *)

VisitRows == [status : {"confirmed"}, user : Users, place : [from : Int, to : Int], sent : BOOLEAN]
PastRows  == [status : {"none", "cancelled", "arrived", "no_show"}, user : Users \cup {NoId},
              place : {NoPlace}, sent : {FALSE}]
Rows == [Ids -> VisitRows \cup PastRows]

\* Spaced, of any rows.
Apart(rows) ==
    \A b \in Held(rows) : /\ rows[b].place \in Intervals
                          /\ Overlapping(rows, rows[b].place, b) = {}

\* WithinPolicy, of any rows.
Modest(ops, rows) ==
    \A u \in Users : /\ "limit" \in ops => CountActiveByUser(rows, u) <= MaxActive
                     /\ "interval" \in ops => Cardinality({b \in Ids : rows[b].user = u}) <= 1

Good(k, ops, rows) ==
    /\ rows \in Rows
    /\ IndexHolds(rows)
    /\ k = "time_range" => Apart(rows)
    /\ Modest(ops, rows)

Ranged(range) ==
    /\ "from" \in DOMAIN range /\ range.from \in Int
    /\ "to" \in DOMAIN range /\ range.to \in Int

SlotShape(s) ==
    /\ s = [exists |-> s.exists, range |-> s.range, count |-> s.count, entries |-> s.entries]
    /\ s.exists \in BOOLEAN /\ s.count \in Nat /\ Ranged(s.range)

\* The slot is there for its bookings: their intervals are inside its range and
\* counted.
Holds(k, s, rows) ==
    k = "time_range" =>
        /\ \A b \in Held(rows) : /\ s.exists
                                 /\ s.range.from <= rows[b].place.from
                                 /\ rows[b].place.to <= s.range.to
        /\ CountActiveBySlot(rows) <= s.count

\* What the commit of t would leave.
After(t) == [b \in Ids |-> IF b \in pend[t].docs THEN pend[t].booking[b] ELSE booking[b]]
AfterSlot(t) == IF "slot" \in pend[t].docs THEN pend[t].slot ELSE slot
AfterOption(t) == IF "service" \in pend[t].docs THEN pend[t].option ELSE option

-----------------------------------------------------------------------------
(* The invariant. *)

OptionShape(k, o) ==
    /\ o = [exists |-> o.exists, enabled |-> o.enabled, schedule |-> o.schedule]
    /\ o.exists \in BOOLEAN
    /\ k = "time_range" => \A e \in o.schedule : e \in Specs /\ HasRange(e)
    /\ \A e, f \in o.schedule : e = f

\* The writes of t: a booking is written with its slot, and only one that is
\* new or confirmed, which stays its client's.
Sound(t) ==
    /\ pend[t].docs \subseteq Ids \cup Touched
    /\ "slot" \in pend[t].docs => slot.exists
    /\ \A b \in pend[t].docs \cap Ids :
          /\ "slot" \in pend[t].docs
          /\ pend[t].booking[b] \in VisitRows
          /\ booking[b].status \in {"none", "confirmed"}
          /\ booking[b].status = "confirmed" => pend[t].booking[b].user = booking[b].user

Leaves(t) ==
    /\ Good(kind, offered, After(t))
    /\ SlotShape(AfterSlot(t))
    /\ Holds(kind, AfterSlot(t), After(t))
    /\ OptionShape(kind, AfterOption(t))

\* The plan of recurrent_slots: of intervals, one operation, and a slot it
\* means to add is still missing.
Planned ==
    /\ "name" \in DOMAIN job
    /\ job.name = "recurrent_slots" =>
        /\ job = [name |-> "recurrent_slots", step |-> job.step, entries |-> job.entries, ops |-> job.ops]
        /\ kind = "time_range" /\ job.step = "slots" =>
              /\ \A e \in job.entries : e \in Specs /\ HasRange(e)
              /\ \A e, f \in job.entries : e = f
        /\ kind = "time_range" /\ job.step # "slots" =>
              /\ \A op \in job.ops :
                    /\ op.op \in {"addRange", "setRange", "removeSlot"}
                    /\ op.op \in {"addRange", "setRange"} => Ranged(op.range)
                    /\ op.op = "addRange" => ~slot.exists
              /\ \A p, q \in job.ops : p = q
        /\ kind # "time_range" /\ job.step # "slots" =>
              \A op \in job.ops : op.op \in {"addTimes", "pushTimes", "pullTimes"}

Now ==
    /\ Good(kind, offered, booking)
    /\ SlotShape(slot)
    /\ Holds(kind, slot, booking)
    /\ OptionShape(kind, option)

Inv ==
    /\ DOMAIN pend = Txns
    /\ Now
    /\ \A t \in Txns : Sound(t) /\ Leaves(t)
    /\ Planned

-----------------------------------------------------------------------------
(* Numbers: sets of bookings are finite, and a schedule gives minutes. *)

LEMMA Counting ==
  ASSUME NEW S, NEW T, S \subseteq T, T \subseteq Ids
  PROVE  /\ IsFiniteSet(S) /\ IsFiniteSet(T)
         /\ Cardinality(S) \in Nat /\ Cardinality(T) \in Nat
         /\ Cardinality(S) <= Cardinality(T)
<1>1. IsFiniteSet(T)
  BY IdsAssumption, FS_Subset
<1> QED BY <1>1, FS_Subset, FS_CardinalityType

LEMMA CountingOneMore ==
  ASSUME NEW S \in SUBSET Ids, NEW b \in Ids \ S
  PROVE  Cardinality(S \cup {b}) = Cardinality(S) + 1 /\ Cardinality(S) \in Nat
BY Counting, FS_AddElement

LEMMA CountingOneLess ==
  ASSUME NEW S \in SUBSET Ids, NEW b \in S
  PROVE  Cardinality(S \ {b}) = Cardinality(S) - 1 /\ Cardinality(S) \in Nat \ {0}
<1>1. Cardinality(S \ {b}) = Cardinality(S) - 1 /\ Cardinality(S) \in Nat /\ Cardinality(S \ {b}) \in Nat
  BY Counting, FS_RemoveElement
<1> QED BY <1>1

LEMMA Nobody ==
  ASSUME NEW S \in SUBSET Ids, Cardinality(S) <= 0
  PROVE  S = {}
<1>1. IsFiniteSet(S) /\ Cardinality(S) \in Nat
  BY Counting
<1> QED BY <1>1, FS_EmptySet

\* Of minutes there is a first and a last.
LEMMA Least ==
  ASSUME NEW T \in SUBSET Nat, T # {}
  PROVE  \E x \in T : \A y \in T : x <= y
<1>1. IsWellFoundedOn(OpToRel(<, Nat), Nat)
  BY NatLessThanWellFounded
<1>2. \A R : IsWellFoundedOn(R, Nat) => \E x \in T : \A y \in T : ~(<<y, x>> \in R)
  <2> SUFFICES ASSUME NEW R, IsWellFoundedOn(R, Nat)
               PROVE  \E x \in T : \A y \in T : ~(<<y, x>> \in R)
    OBVIOUS
  <2> QED BY WFMin
<1>3. PICK x \in T : \A y \in T : ~(<<y, x>> \in OpToRel(<, Nat))
  BY <1>1, <1>2, Zenon
<1>4. \A y \in T : ~(<<y, x>> \in OpToRel(<, Nat)) => x <= y
  BY DEF OpToRel
<1> QED BY <1>3, <1>4

LEMMA FirstAndLast ==
  ASSUME NEW T \in SUBSET (0 .. Day), T # {}
  PROVE  Min(T) \in T /\ Max(T) \in T
<1>1. \E x \in T : \A y \in T : x <= y
  BY DayAssumption, Least
<1>2. \E x \in T : \A y \in T : x >= y
  <2> DEFINE U == {Day - x : x \in T}
  <2>0. \A x \in T : Day - x \in Nat
    BY DayAssumption
  <2>1. U \in SUBSET Nat /\ U # {}
    BY <2>0
  <2>2. \E u \in U : \A v \in U : u <= v
    <3> HIDE DEF U
    <3> QED BY <2>1, Least
  <2>3. PICK x \in T : \A y \in T : Day - x <= Day - y
    BY <2>2
  <2>4. \A y \in T : x >= y
    BY <2>3, DayAssumption
  <2> QED BY <2>4
<1> QED BY <1>1, <1>2 DEF Min, Max

\* A schedule entry with a range gives minutes.
LEMMA ScheduleRange ==
  ASSUME NEW spec \in Specs, HasRange(spec)
  PROVE  Ranged(SlotRange(spec))
<1>1. CASE spec.span # Unset
  BY <1>1, SpecsAssumption, DayAssumption DEF SlotRange, RangeFor, SpanOf, Ranged
<1>2. CASE spec.span = Unset
  <2>1. Hours # {} /\ {h.from : h \in Hours} \in SUBSET (0 .. Day) /\ {h.to : h \in Hours} \in SUBSET (0 .. Day)
    BY <1>2, HoursAssumption DEF HasRange
  <2>2. Min({h.from : h \in Hours}) \in 0 .. Day /\ Max({h.to : h \in Hours}) \in 0 .. Day
    <3> DEFINE A == {h.from : h \in Hours}
               B == {h.to : h \in Hours}
    <3>1. A # {} /\ B # {} /\ A \in SUBSET (0 .. Day) /\ B \in SUBSET (0 .. Day)
      BY <2>1
    <3> HIDE DEF A, B
    <3>2. Min(A) \in A /\ Max(B) \in B
      BY <3>1, FirstAndLast
    <3> QED BY <3>1, <3>2 DEF A, B
  <2> QED BY <1>2, <2>2, DayAssumption DEF SlotRange, RangeFor, SpanOf, Ranged, Interval
<1> QED BY <1>1, <1>2

LEMMA UpdatedRange ==
  ASSUME NEW spec \in Specs, NEW range, Ranged(range)
  PROVE  Ranged(Updated(range, spec))
<1>1. CASE spec.span # Unset
  BY <1>1, ScheduleRange DEF Updated, HasRange
<1>2. CASE spec.span = Unset
  BY <1>2 DEF Updated, SlotRange, RangeFor, Ranged
<1> QED BY <1>1, <1>2

\* Inside a day the clamps change nothing: to come too close is mutual.
LEMMA ClashesInDay ==
  ASSUME NEW i \in Intervals, NEW j \in Intervals
  PROVE  Clashes(i, j, Buffer) <=> j.from < i.to + Buffer /\ j.to > i.from - Buffer
BY DayAssumption, BufferAssumption DEF Clashes, Clamp, Intervals

-----------------------------------------------------------------------------
(* What a step may do to good rows. *)

\* Bookings end, or are marked; none begins, moves or changes hands.
Milder(rows, new) ==
    /\ new \in Rows
    /\ \A b \in Ids :
          /\ new[b].user \in {rows[b].user, NoId}
          /\ new[b].status = "confirmed" =>
                /\ rows[b].status = "confirmed"
                /\ new[b].place = rows[b].place /\ new[b].user = rows[b].user

LEMMA HeldInIds == ASSUME NEW rows PROVE Held(rows) \subseteq Ids
BY DEF Held

LEMMA HeldRows ==
  ASSUME NEW rows \in Rows, NEW b \in Held(rows)
  PROVE  /\ b \in Ids /\ rows[b] \in VisitRows /\ rows[b].user \in Users
         /\ rows[b].place.from \in Int /\ rows[b].place.to \in Int
BY DEF Rows, Held, VisitRows, PastRows

LEMMA ApartFrom ==
  ASSUME NEW rows
  PROVE  Apart(rows) <=>
            \A b \in Held(rows) :
               /\ rows[b].place \in Intervals
               /\ \A c \in Held(rows) : c # b => ~Clashes(rows[b].place, rows[c].place, Buffer)
BY DEF Apart, Overlapping

LEMMA MilderGood ==
  ASSUME NEW k, NEW ops, NEW rows, NEW new, Good(k, ops, rows), Milder(rows, new)
  PROVE  Good(k, ops, new)
<1>1. Held(new) \subseteq Held(rows) /\ Held(rows) \subseteq Ids
  BY DEF Milder, Held
<1>2. \A b \in Held(new) : new[b].place = rows[b].place /\ new[b].user = rows[b].user
  BY DEF Milder, Held
<1>3. IndexHolds(new)
  BY <1>1, <1>2 DEF Good, IndexHolds
<1>4. ASSUME Apart(rows) PROVE Apart(new)
  BY <1>1, <1>2, <1>4 DEF Apart, Overlapping
<1>5. ASSUME NEW u \in Users
      PROVE  /\ "limit" \in ops => CountActiveByUser(new, u) <= MaxActive
             /\ "interval" \in ops => Cardinality({b \in Ids : new[b].user = u}) <= 1
  <2> DEFINE A == {b \in Held(new) : new[b].user = u}
             B == {b \in Held(rows) : rows[b].user = u}
             C == {b \in Ids : new[b].user = u}
             D == {b \in Ids : rows[b].user = u}
  <2>1. A \subseteq B /\ B \subseteq Ids
    BY <1>1, <1>2
  <2>2. C \subseteq D /\ D \subseteq Ids
    BY UsersAssumption DEF Milder
  <2>3. Cardinality(A) \in Nat /\ Cardinality(B) \in Nat /\ Cardinality(A) <= Cardinality(B)
    <3> HIDE DEF A, B
    <3> QED BY <2>1, Counting
  <2>4. Cardinality(C) \in Nat /\ Cardinality(D) \in Nat /\ Cardinality(C) <= Cardinality(D)
    <3> HIDE DEF C, D
    <3> QED BY <2>2, Counting
  <2>5. "limit" \in ops => Cardinality(B) <= MaxActive
    BY DEF Good, Modest, CountActiveByUser
  <2>6. "interval" \in ops => Cardinality(D) <= 1
    BY DEF Good, Modest
  <2>7. CountActiveByUser(new, u) = Cardinality(A)
    BY DEF CountActiveByUser
  <2> HIDE DEF A, B, C, D
  <2>8. "limit" \in ops => CountActiveByUser(new, u) <= MaxActive
    BY <2>3, <2>5, <2>7, LimitsAssumption
  <2>9. "interval" \in ops => Cardinality(C) <= 1
    BY <2>4, <2>6
  <2> QED BY <2>8, <2>9 DEF C
<1> QED BY <1>3, <1>4, <1>5 DEF Good, Modest, Milder

LEMMA MilderHolds ==
  ASSUME NEW k, NEW s, NEW rows, NEW new, rows \in Rows, SlotShape(s), Holds(k, s, rows), Milder(rows, new)
  PROVE  Holds(k, s, new)
<1>1. Held(new) \subseteq Held(rows) /\ Held(rows) \subseteq Ids
  BY DEF Milder, Held
<1>2. \A b \in Held(new) : new[b].place = rows[b].place
  BY DEF Milder, Held
<1>3. CountActiveBySlot(new) \in Nat /\ CountActiveBySlot(rows) \in Nat
      /\ CountActiveBySlot(new) <= CountActiveBySlot(rows)
  BY <1>1, Counting DEF CountActiveBySlot
<1> QED BY <1>1, <1>2, <1>3 DEF Holds, SlotShape

Begun(rows, b, u, place) == [rows EXCEPT ![b] = Visit(u, place, FALSE)]

\* A booking more: of a client within the limits, in a place that is free.
LEMMA OneMoreGood ==
  ASSUME NEW k, NEW ops, NEW rows, Good(k, ops, rows),
         NEW b \in Ids, rows[b].status = "none", NEW u \in Users, NEW place \in [from : Int, to : Int],
         NEW new, new = Begun(rows, b, u, place),
         IndexHolds(new),
         k = "time_range" => place \in Intervals /\ Overlapping(rows, place, b) = {},
         "limit" \in ops => CountActiveByUser(rows, u) < MaxActive,
         "interval" \in ops => \A c \in Ids \ {b} : rows[c].user # u
  PROVE  Good(k, ops, new) /\ Held(new) = Held(rows) \cup {b} /\ b \notin Held(rows)
<1>0. rows \in Rows
  BY DEF Good
<1>1. new \in Rows /\ new[b] = Visit(u, place, FALSE) /\ \A c \in Ids \ {b} : new[c] = rows[c]
  BY <1>0 DEF Rows, Visit, VisitRows, Begun
<1>2. Held(new) = Held(rows) \cup {b} /\ b \notin Held(rows)
  BY <1>1 DEF Held, Visit
<1>u. \A c \in Ids : /\ new[c].user = IF c = b THEN u ELSE rows[c].user
                     /\ new[c].place = IF c = b THEN place ELSE rows[c].place
  BY <1>1 DEF Visit
<1>i. Held(new) \subseteq Ids /\ Held(rows) \subseteq Ids
  BY HeldInIds
<1>3. ASSUME k = "time_range" PROVE Apart(new)
  <2>1. place \in Intervals /\ \A c \in Held(rows) : c # b => ~Clashes(place, rows[c].place, Buffer)
    BY <1>3 DEF Overlapping
  <2>2. \A c \in Held(rows) : /\ rows[c].place \in Intervals
                              /\ \A d \in Held(rows) : d # c => ~Clashes(rows[c].place, rows[d].place, Buffer)
    BY <1>3 DEF Good, Apart, Overlapping
  <2>3. \A c \in Held(rows) : c # b => ~Clashes(rows[c].place, place, Buffer)
    <3> SUFFICES ASSUME NEW c \in Held(rows), c # b PROVE ~Clashes(rows[c].place, place, Buffer)
      OBVIOUS
    <3>1. /\ place.from \in Int /\ place.to \in Int
          /\ rows[c].place.from \in Int /\ rows[c].place.to \in Int
      BY <1>0, HeldRows
    <3>2. ~Clashes(place, rows[c].place, Buffer)
      BY <2>1
    <3>3. Clashes(place, rows[c].place, Buffer) <=>
             rows[c].place.from < place.to + Buffer /\ rows[c].place.to > place.from - Buffer
      BY <2>1, <2>2, ClashesInDay
    <3>4. Clashes(rows[c].place, place, Buffer) <=>
             place.from < rows[c].place.to + Buffer /\ place.to > rows[c].place.from - Buffer
      BY <2>1, <2>2, ClashesInDay
    <3> QED BY <3>1, <3>2, <3>3, <3>4, BufferAssumption
  <2>4. \A c \in Held(new) : new[c].place = IF c = b THEN place ELSE rows[c].place
    BY <1>u, <1>i
  <2>5. \A c \in Held(new) : new[c].place \in Intervals
    BY <1>2, <2>1, <2>2, <2>4
  <2>6. ASSUME NEW c \in Held(new), NEW d \in Held(new), d # c
        PROVE  ~Clashes(new[c].place, new[d].place, Buffer)
    BY <1>2, <2>1, <2>2, <2>3, <2>4, <2>6
  <2> QED BY <2>5, <2>6, ApartFrom
<1>4. ASSUME NEW v \in Users
      PROVE  /\ "limit" \in ops => CountActiveByUser(new, v) <= MaxActive
             /\ "interval" \in ops => Cardinality({c \in Ids : new[c].user = v}) <= 1
  <2> DEFINE A == {c \in Held(new) : new[c].user = v}
             B == {c \in Held(rows) : rows[c].user = v}
             C == {c \in Ids : new[c].user = v}
             D == {c \in Ids : rows[c].user = v}
  <2>0. /\ "limit" \in ops => Cardinality(B) <= MaxActive
        /\ "interval" \in ops => Cardinality(D) <= 1
        /\ CountActiveByUser(new, v) = Cardinality(A)
    BY DEF Good, Modest, CountActiveByUser
  <2>1. CASE v # u
    <3>a. \A c \in Held(new) : new[c].user = v => c \in Held(rows) /\ rows[c].user = v
      BY <1>u, <1>i, <1>2, <2>1
    <3>b. \A c \in Held(rows) : rows[c].user = v => c \in Held(new) /\ new[c].user = v
      BY <1>u, <1>i, <1>2, <2>1
    <3>c. C \subseteq D /\ D \subseteq Ids
      BY <1>u, <2>1
    <3>1. A = B /\ C \subseteq D /\ D \subseteq Ids
      BY <3>a, <3>b, <3>c
    <3> HIDE DEF A, B, C, D
    <3>2. Cardinality(C) <= Cardinality(D) /\ Cardinality(C) \in Nat /\ Cardinality(D) \in Nat
      BY <3>1, Counting
    <3>3. "interval" \in ops => Cardinality(C) <= 1
      BY <2>0, <3>2
    <3> QED BY <2>0, <3>1, <3>3 DEF C
  <2>2. CASE v = u
    <3>1. A = B \cup {b} /\ B \in SUBSET Ids /\ b \in Ids \ B
      BY <1>u, <1>i, <1>2, <2>2
    <3>2. "interval" \in ops => C = {b}
      BY <1>1, <2>2 DEF Visit
    <3>3. "limit" \in ops => Cardinality(B) < MaxActive
      BY <2>2 DEF CountActiveByUser
    <3> HIDE DEF A, B, C, D
    <3>4. Cardinality(A) = Cardinality(B) + 1 /\ Cardinality(B) \in Nat
      BY <3>1, CountingOneMore
    <3>5. "interval" \in ops => Cardinality(C) = 1
      BY <3>2, FS_Singleton
    <3>6. "limit" \in ops => Cardinality(A) <= MaxActive
      BY <3>3, <3>4, LimitsAssumption
    <3> QED BY <2>0, <3>5, <3>6 DEF C
  <2> QED BY <2>1, <2>2
<1> QED BY <1>1, <1>2, <1>3, <1>4 DEF Good, Modest

\* Bookings that keep their clients keep within the limits.
LEMMA SameClients ==
  ASSUME NEW ops, NEW rows, NEW new, Modest(ops, rows), Held(new) = Held(rows),
         \A b \in Ids : new[b].user = rows[b].user
  PROVE  Modest(ops, new)
<1> SUFFICES ASSUME NEW u \in Users
             PROVE  /\ "limit" \in ops => CountActiveByUser(new, u) <= MaxActive
                    /\ "interval" \in ops => Cardinality({b \in Ids : new[b].user = u}) <= 1
  BY DEF Modest
<1>1. {b \in Held(new) : new[b].user = u} = {b \in Held(rows) : rows[b].user = u}
  BY HeldInIds
<1>2. {b \in Ids : new[b].user = u} = {b \in Ids : rows[b].user = u}
  OBVIOUS
<1> QED BY <1>1, <1>2, Zenon DEF Modest, CountActiveByUser

\* A booking moves to a place that is free.
LEMMA OneMovedGood ==
  ASSUME NEW k, NEW ops, NEW rows, Good(k, ops, rows),
         NEW b \in Held(rows), NEW place \in [from : Int, to : Int],
         NEW new, new = Moved(rows, b, place),
         IndexHolds(new),
         k = "time_range" => place \in Intervals /\ Overlapping(rows, place, b) = {}
  PROVE  Good(k, ops, new) /\ Held(new) = Held(rows)
<1>0. rows \in Rows /\ b \in Ids /\ rows[b] \in VisitRows /\ Held(rows) \subseteq Ids
  BY HeldRows, HeldInIds DEF Good
<1>1. new[b] = [rows[b] EXCEPT !.place = place] /\ \A c \in Ids \ {b} : new[c] = rows[c]
  BY <1>0 DEF Rows, Moved
<1>2. new[b] \in VisitRows /\ new[b].place = place /\ new[b].user = rows[b].user
  BY <1>0, <1>1 DEF VisitRows
<1>3. new \in Rows
  BY <1>0, <1>1, <1>2 DEF Rows, Moved
<1>4. Held(new) = Held(rows)
  BY <1>0, <1>1, <1>2 DEF Held, VisitRows
<1>5. \A c \in Ids : /\ new[c].user = rows[c].user
                     /\ new[c].place = IF c = b THEN place ELSE rows[c].place
  BY <1>1, <1>2
<1>6. ASSUME k = "time_range" PROVE Apart(new)
  <2>1. place \in Intervals /\ \A c \in Held(rows) : c # b => ~Clashes(place, rows[c].place, Buffer)
    BY <1>6 DEF Overlapping
  <2>2. \A c \in Held(rows) : /\ rows[c].place \in Intervals
                              /\ \A d \in Held(rows) : d # c => ~Clashes(rows[c].place, rows[d].place, Buffer)
    BY <1>6, ApartFrom DEF Good
  <2>3. \A c \in Held(rows) : c # b => ~Clashes(rows[c].place, place, Buffer)
    <3> SUFFICES ASSUME NEW c \in Held(rows), c # b PROVE ~Clashes(rows[c].place, place, Buffer)
      OBVIOUS
    <3>1. /\ place.from \in Int /\ place.to \in Int
          /\ rows[c].place.from \in Int /\ rows[c].place.to \in Int
      BY <1>0, HeldRows
    <3>2. ~Clashes(place, rows[c].place, Buffer)
      BY <2>1
    <3>3. Clashes(place, rows[c].place, Buffer) <=>
             rows[c].place.from < place.to + Buffer /\ rows[c].place.to > place.from - Buffer
      BY <2>1, <2>2, ClashesInDay
    <3>4. Clashes(rows[c].place, place, Buffer) <=>
             place.from < rows[c].place.to + Buffer /\ place.to > rows[c].place.from - Buffer
      BY <2>1, <2>2, ClashesInDay
    <3> QED BY <3>1, <3>2, <3>3, <3>4, BufferAssumption
  <2>4. \A c \in Held(new) : c \in Held(rows) /\ new[c].place = IF c = b THEN place ELSE rows[c].place
    BY <1>0, <1>4, <1>5
  <2>5. \A c \in Held(new) : new[c].place \in Intervals
    BY <2>1, <2>2, <2>4
  <2>6. ASSUME NEW c \in Held(new), NEW d \in Held(new), d # c
        PROVE  ~Clashes(new[c].place, new[d].place, Buffer)
    BY <2>1, <2>2, <2>3, <2>4, <2>6
  <2> QED BY <2>5, <2>6, ApartFrom
<1> QED BY <1>3, <1>4, <1>5, <1>6, SameClients DEF Good

\* All bookings move together, within the day.
LEMMA AllMovedGood ==
  ASSUME NEW k, NEW ops, NEW rows, Good(k, ops, rows), NEW n \in Int,
         k = "time_range" => \A b \in Held(rows) : Shifted(rows[b].place, n) \in Intervals
  PROVE  /\ Good(k, ops, MoveMany(rows, n)) /\ Held(MoveMany(rows, n)) = Held(rows)
         /\ \A b \in Ids \ Held(rows) : MoveMany(rows, n)[b] = rows[b]
         /\ \A b \in Held(rows) : /\ MoveMany(rows, n)[b] \in VisitRows
                                  /\ MoveMany(rows, n)[b].user = rows[b].user
                                  /\ MoveMany(rows, n)[b].place.from = rows[b].place.from + n
                                  /\ MoveMany(rows, n)[b].place.to = rows[b].place.to + n
<1> DEFINE new == MoveMany(rows, n)
<1>0. rows \in Rows /\ Held(rows) \subseteq Ids
  BY HeldInIds DEF Good
<1>1. \A b \in Ids : new[b] = IF b \in Held(rows) THEN Visit(rows[b].user, Shifted(rows[b].place, n), FALSE)
                             ELSE rows[b]
  BY DEF MoveMany
<1>2. \A b \in Held(rows) :
         /\ rows[b].user \in Users /\ rows[b].place.from \in Int /\ rows[b].place.to \in Int
         /\ Shifted(rows[b].place, n) = [from |-> rows[b].place.from + n, to |-> rows[b].place.to + n]
  BY <1>0, HeldRows DEF Shifted, Interval
<1>3. \A b \in Held(rows) : /\ new[b] \in VisitRows /\ new[b].user = rows[b].user
                            /\ new[b].place.from = rows[b].place.from + n
                            /\ new[b].place.to = rows[b].place.to + n
                            /\ new[b].place = Shifted(rows[b].place, n)
                            /\ new[b].status = "confirmed"
  <2> SUFFICES ASSUME NEW b \in Held(rows)
               PROVE  /\ new[b] \in VisitRows /\ new[b].user = rows[b].user
                      /\ new[b].place.from = rows[b].place.from + n
                      /\ new[b].place.to = rows[b].place.to + n
                      /\ new[b].place = Shifted(rows[b].place, n)
                      /\ new[b].status = "confirmed"
    OBVIOUS
  <2>1. new[b] = Visit(rows[b].user, Shifted(rows[b].place, n), FALSE)
    BY <1>0, <1>1
  <2> HIDE DEF new
  <2>2. new[b] = [status |-> "confirmed", user |-> rows[b].user, sent |-> FALSE,
                  place |-> [from |-> rows[b].place.from + n, to |-> rows[b].place.to + n]]
    BY <1>2, <2>1 DEF Visit
  <2> QED BY <1>2, <2>2 DEF VisitRows
<1>4. new \in Rows
  <2>1. \A b \in Ids : new[b] \in VisitRows \cup PastRows
    BY <1>0, <1>1, <1>3 DEF Rows
  <2> QED BY <2>1 DEF MoveMany, Rows
<1>5. Held(new) = Held(rows)
  BY <1>0, <1>1, <1>3 DEF Held
<1>6. \A b \in Ids : new[b].user = rows[b].user
  BY <1>1, <1>3
<1> HIDE DEF new
<1>7. IndexHolds(new)
  <2>1. \A b, c \in Held(rows) : b # c => <<rows[b].user, rows[b].place.from>> # <<rows[c].user, rows[c].place.from>>
    BY DEF Good, IndexHolds
  <2> SUFFICES ASSUME NEW b \in Held(rows), NEW c \in Held(rows), b # c
               PROVE  <<new[b].user, new[b].place.from>> # <<new[c].user, new[c].place.from>>
    BY <1>5 DEF IndexHolds
  <2>2. rows[b].user # rows[c].user \/ rows[b].place.from # rows[c].place.from
    BY <2>1
  <2>3. /\ new[b].user = rows[b].user /\ new[b].place.from = rows[b].place.from + n
        /\ new[c].user = rows[c].user /\ new[c].place.from = rows[c].place.from + n
        /\ rows[b].place.from \in Int /\ rows[c].place.from \in Int
    BY <1>2, <1>3
  <2>4. new[b].user # new[c].user \/ new[b].place.from # new[c].place.from
    BY <2>2, <2>3
  <2> QED BY <2>4
<1>8. ASSUME k = "time_range" PROVE Apart(new)
  <2>1. \A b \in Held(rows) : new[b].place \in Intervals /\ rows[b].place \in Intervals
    BY <1>3, <1>8, ApartFrom DEF Good
  <2>2. ASSUME NEW b \in Held(rows), NEW c \in Held(rows), c # b
        PROVE  ~Clashes(new[b].place, new[c].place, Buffer)
    <3>1. ~Clashes(rows[b].place, rows[c].place, Buffer)
      BY <1>8, <2>2, ApartFrom DEF Good
    <3>2. Clashes(rows[b].place, rows[c].place, Buffer) <=>
             rows[c].place.from < rows[b].place.to + Buffer /\ rows[c].place.to > rows[b].place.from - Buffer
      BY <2>1, ClashesInDay
    <3>3. Clashes(new[b].place, new[c].place, Buffer) <=>
             new[c].place.from < new[b].place.to + Buffer /\ new[c].place.to > new[b].place.from - Buffer
      BY <2>1, ClashesInDay
    <3>4. /\ new[b].place.from = rows[b].place.from + n /\ new[b].place.to = rows[b].place.to + n
          /\ new[c].place.from = rows[c].place.from + n /\ new[c].place.to = rows[c].place.to + n
          /\ rows[b].place.from \in Int /\ rows[b].place.to \in Int
          /\ rows[c].place.from \in Int /\ rows[c].place.to \in Int
      BY <1>2, <1>3
    <3> QED BY <3>1, <3>2, <3>3, <3>4, BufferAssumption
  <2> QED BY <1>5, <2>1, <2>2, ApartFrom
<1>9. Modest(ops, new)
  BY <1>5, <1>6, SameClients DEF Good
<1>10. Good(k, ops, new)
  BY <1>4, <1>7, <1>8, <1>9 DEF Good
<1>11. \A b \in Ids \ Held(rows) : new[b] = rows[b]
  BY <1>1
<1> QED BY <1>3, <1>5, <1>10, <1>11 DEF new

\* What taking and giving back a place do to the slot.
LEMMA CountedSlot ==
  ASSUME NEW s, SlotShape(s), NEW place
  PROVE  /\ SlotShape(Counted(s, place)) /\ Counted(s, place).exists = s.exists
         /\ Counted(s, place).range = s.range
         /\ kind = "time_range" => Counted(s, place).count = s.count + 1
BY DEF SlotShape, Counted

LEMMA ReleasedSlot ==
  ASSUME NEW s, SlotShape(s), NEW place
  PROVE  /\ SlotShape(Release(s, place)) /\ Release(s, place).exists = s.exists
         /\ Release(s, place).range = s.range
         /\ kind = "time_range" => Release(s, place).count = IF s.count > 0 THEN s.count - 1 ELSE 0
BY DEF SlotShape, Release, Lower

-----------------------------------------------------------------------------
(* What the steps have in common: computing, committing, writing. *)

LEMMA GoodRows == ASSUME NEW k, NEW ops, NEW rows, Good(k, ops, rows) PROVE rows \in Rows
BY DEF Good

\* A transaction that has written nothing leaves what there is.
LEMMA IdleIsFine ==
  ASSUME NEW t \in Txns, pend'[t].docs = {}, Now'
  PROVE  Sound(t)' /\ Leaves(t)'
<1>1. After(t)' = booking'
  <2>1. booking' \in Rows
    BY DEF Now, Good
  <2> QED BY <2>1 DEF After, Rows
<1>2. AfterSlot(t)' = slot' /\ AfterOption(t)' = option'
  BY DEF AfterSlot, AfterOption
<1> QED BY <1>1, <1>2 DEF Now, Leaves, Sound

\* The rows stay as they are, and so does what t would write.
LEMMA SameTxn ==
  ASSUME NEW t \in Txns, Sound(t), Leaves(t), pend'[t] = pend[t], UNCHANGED <<slot, booking, option, fixed>>
  PROVE  Sound(t)' /\ Leaves(t)'
<1>1. After(t)' = After(t) /\ AfterSlot(t)' = AfterSlot(t) /\ AfterOption(t)' = AfterOption(t)
  BY DEF After, AfterSlot, AfterOption
<1>2. Sound(t)'
  BY DEF Sound
<1>3. kind' = kind /\ offered' = offered
  BY DEF fixed
<1> QED BY <1>1, <1>2, <1>3, Zenon DEF Leaves

LEMMA SameNow == ASSUME Now, UNCHANGED <<slot, booking, option, fixed>> PROVE Now'
BY DEF Now, fixed

LEMMA SamePlan == ASSUME Planned, slot'.exists = slot.exists, UNCHANGED <<job, fixed>> PROVE Planned'
BY DEF Planned, fixed

\* A handler computes on its snapshot, which is the rows as they are.
LEMMA ComputeKeeps ==
  ASSUME Inv, NEW t \in Txns, NEW written, NEW s, NEW o, NEW rows, NEW id,
         Compute(t, written, s, o, rows, id), UNCHANGED <<slot, booking, option, job, fixed>>,
         written \subseteq Ids \cup Touched,
         "slot" \in written => slot.exists /\ SlotShape(s) /\ Holds(kind, s, rows),
         "slot" \notin written => rows = booking,
         Good(kind, offered, rows),
         \A c \in Ids \ written : rows[c] = booking[c],
         \A c \in written \cap Ids : /\ "slot" \in written
                                     /\ rows[c] \in VisitRows
                                     /\ booking[c].status \in {"none", "confirmed"}
                                     /\ booking[c].status = "confirmed" => rows[c].user = booking[c].user,
         "service" \in written => OptionShape(kind, o)
  PROVE  Inv'
<1>0. /\ DOMAIN pend = Txns /\ Now /\ Planned
      /\ \A q \in Txns : Sound(q) /\ Leaves(q)
  BY DEF Inv
<1>1. /\ pend'[t].docs = written /\ pend'[t].slot = s /\ pend'[t].option = o
      /\ pend'[t].booking = [c \in written \cap Ids |-> rows[c]]
      /\ DOMAIN pend' = Txns
      /\ \A q \in Txns \ {t} : pend'[q] = pend[q]
  BY <1>0 DEF Compute
<1>2. After(t)' = rows
  <2>1. rows \in Rows
    BY GoodRows
  <2>2. \A c \in Ids : rows[c] = IF c \in written THEN pend'[t].booking[c] ELSE booking'[c]
    BY <1>1
  <2>3. After(t)' = [c \in Ids |-> IF c \in written THEN pend'[t].booking[c] ELSE booking'[c]]
    BY <1>1 DEF After
  <2>4. rows = [c \in Ids |-> rows[c]]
    BY <2>1 DEF Rows
  <2> QED BY <2>2, <2>3, <2>4
<1>3. kind' = kind /\ offered' = offered
  BY DEF fixed
<1>4. /\ AfterSlot(t)' = IF "slot" \in written THEN s ELSE slot
      /\ AfterOption(t)' = IF "service" \in written THEN o ELSE option
  BY <1>1 DEF AfterSlot, AfterOption
<1>5. Sound(t)'
  <2>1. \A c \in written \cap Ids : pend'[t].booking[c] = rows[c]
    BY <1>1
  <2>2. pend'[t].docs = written /\ booking' = booking /\ slot' = slot
    BY <1>1
  <2>3. pend'[t].docs \subseteq Ids \cup Touched
    BY <2>2
  <2>4. \A c \in pend'[t].docs \cap Ids :
           /\ "slot" \in pend'[t].docs
           /\ pend'[t].booking[c] \in VisitRows
           /\ booking'[c].status \in {"none", "confirmed"}
           /\ booking'[c].status = "confirmed" => pend'[t].booking[c].user = booking'[c].user
    <3> SUFFICES ASSUME NEW c \in written \cap Ids
                 PROVE  /\ "slot" \in written /\ pend'[t].booking[c] \in VisitRows
                        /\ booking[c].status \in {"none", "confirmed"}
                        /\ booking[c].status = "confirmed" => pend'[t].booking[c].user = booking[c].user
      BY <2>2
    <3>1. pend'[t].booking[c] = rows[c]
      BY <2>1
    <3> QED BY <3>1
  <2>5. "slot" \in pend'[t].docs => slot'.exists
    BY <2>2
  <2> QED BY <2>3, <2>4, <2>5 DEF Sound
<1>6. Leaves(t)'
  <2>1. SlotShape(AfterSlot(t)') /\ Holds(kind, AfterSlot(t)', rows)
    BY <1>0, <1>4 DEF Now
  <2>2. OptionShape(kind, AfterOption(t)')
    BY <1>0, <1>4 DEF Now
  <2> QED BY <1>2, <1>3, <2>1, <2>2 DEF Leaves
<1>7. \A q \in Txns \ {t} : Sound(q)' /\ Leaves(q)'
  BY <1>0, <1>1, SameTxn
<1>8. Now' /\ Planned'
  BY <1>0, SameNow, SamePlan
<1> QED BY <1>1, <1>5, <1>6, <1>7, <1>8 DEF Inv

\* A transaction commits what it would leave, and the others that would write
\* the same documents are dropped: of the rest none writes a booking or, if
\* this one did, the slot.
LEMMA CommitKeeps ==
  ASSUME Inv, NEW t \in Txns, Commit(t)
  PROVE  Inv' /\ booking' = After(t) /\ slot' = AfterSlot(t)
<1>0. /\ DOMAIN pend = Txns /\ Now /\ Planned
      /\ \A q \in Txns : Sound(q) /\ Leaves(q)
  BY DEF Inv
<1>1. /\ booking' = After(t) /\ slot' = AfterSlot(t) /\ option' = AfterOption(t)
      /\ pend' = Unhit(pend[t].docs) /\ job' = job /\ kind' = kind /\ offered' = offered
  BY DEF Commit, Put, After, AfterSlot, AfterOption, fixed
<1>2. Now'
  BY <1>0, <1>1 DEF Now, Leaves
<1>3. DOMAIN pend' = Txns
  BY <1>1 DEF Unhit
<1>4. "slot" \notin pend[t].docs => booking' = booking /\ slot' = slot
  <2> SUFFICES ASSUME "slot" \notin pend[t].docs PROVE booking' = booking /\ slot' = slot
    OBVIOUS
  <2>1. pend[t].docs \cap Ids = {}
    BY <1>0 DEF Sound
  <2>2. booking \in Rows
    BY <1>0 DEF Now, Good
  <2>3. After(t) = booking
    BY <2>1, <2>2 DEF After, Rows
  <2> QED BY <1>1, <2>3 DEF AfterSlot
<1>5. Planned'
  <2>1. CASE "slot" \in pend[t].docs
    <3>1. slot.exists
      BY <1>0, <2>1 DEF Sound
    <3> QED BY <1>0, <1>1, <3>1 DEF Planned
  <2>2. CASE "slot" \notin pend[t].docs
    BY <1>0, <1>1, <1>4, <2>2 DEF Planned
  <2> QED BY <2>1, <2>2
<1>6. ASSUME NEW q \in Txns PROVE Sound(q)' /\ Leaves(q)'
  <2>1. CASE pend[q].docs \cap pend[t].docs # {}
    <3>1. pend'[q].docs = {}
      BY <1>1, <2>1 DEF Unhit, NoWork
    <3> QED BY <1>2, <3>1, IdleIsFine
  <2>2. CASE pend[q].docs \cap pend[t].docs = {} /\ "slot" \in pend[t].docs
    <3>1. pend'[q] = pend[q]
      BY <1>1, <2>2 DEF Unhit
    <3>2. "slot" \notin pend[q].docs /\ pend[q].docs \cap Ids = {} /\ pend[q].docs \subseteq Ids \cup Touched
      BY <1>0, <2>2 DEF Sound
    <3>3. Sound(q)'
      BY <3>1, <3>2 DEF Sound
    <3>4. After(q)' = booking'
      <4>1. booking' \in Rows
        BY <1>2 DEF Now, Good
      <4> QED BY <3>1, <3>2, <4>1 DEF After, Rows
    <3>5. AfterSlot(q)' = slot'
      BY <3>1, <3>2 DEF AfterSlot
    <3>6. OptionShape(kind', AfterOption(q)')
      <4>1. CASE "service" \in pend[q].docs
        <5>1. OptionShape(kind, pend[q].option)
          BY <1>0, <4>1 DEF Leaves, AfterOption
        <5> QED BY <1>1, <3>1, <4>1, <5>1 DEF AfterOption
      <4>2. CASE "service" \notin pend[q].docs
        BY <1>2, <3>1, <4>2 DEF AfterOption, Now
      <4> QED BY <4>1, <4>2
    <3> QED BY <1>2, <3>3, <3>4, <3>5, <3>6 DEF Leaves, Now
  <2>3. CASE pend[q].docs \cap pend[t].docs = {} /\ "slot" \notin pend[t].docs
    <3>1. pend'[q] = pend[q] /\ booking' = booking /\ slot' = slot
      BY <1>1, <1>4, <2>3 DEF Unhit
    <3>2. Sound(q)'
      BY <1>0, <3>1 DEF Sound
    <3>3. After(q)' = After(q) /\ AfterSlot(q)' = AfterSlot(q)
      BY <3>1 DEF After, AfterSlot
    <3>6. OptionShape(kind', AfterOption(q)')
      <4>1. CASE "service" \in pend[q].docs
        <5>1. OptionShape(kind, pend[q].option)
          BY <1>0, <4>1 DEF Leaves, AfterOption
        <5> QED BY <1>1, <3>1, <4>1, <5>1 DEF AfterOption
      <4>2. CASE "service" \notin pend[q].docs
        BY <1>2, <3>1, <4>2 DEF AfterOption, Now
      <4> QED BY <4>1, <4>2
    <3>7. /\ Good(kind, offered, After(q)) /\ SlotShape(AfterSlot(q)) /\ Holds(kind, AfterSlot(q), After(q))
      BY <1>0 DEF Leaves
    <3>8. Good(kind', offered', After(q)') /\ SlotShape(AfterSlot(q)') /\ Holds(kind', AfterSlot(q)', After(q)')
      BY <1>1, <3>3, <3>7
    <3> QED BY <3>2, <3>6, <3>8 DEF Leaves
  <2> QED BY <2>1, <2>2, <2>3
<1> QED BY <1>1, <1>2, <1>3, <1>5, <1>6 DEF Inv

\* A write of its own: bookings end or are marked, and the slot changes only
\* when it is among the documents written.
LEMMA PutKeeps ==
  ASSUME Inv, NEW written, NEW newSlot, NEW rows, Put(written, newSlot, rows),
         UNCHANGED <<option, fixed>>,
         Milder(booking, rows), \A b \in Ids \ written : rows[b] = booking[b],
         SlotShape(newSlot), Holds(kind, newSlot, rows), newSlot = slot \/ "slot" \in written,
         Planned'
  PROVE  Inv'
<1>0. /\ DOMAIN pend = Txns /\ Now
      /\ \A q \in Txns : Sound(q) /\ Leaves(q)
  BY DEF Inv
<1>1. /\ slot' = newSlot /\ booking' = rows /\ pend' = Unhit(written)
      /\ option' = option /\ kind' = kind /\ offered' = offered
  BY DEF Put, fixed
<1>2. Good(kind, offered, rows)
  BY <1>0, MilderGood DEF Now
<1>3. Now'
  BY <1>0, <1>1, <1>2 DEF Now
<1>4. DOMAIN pend' = Txns
  BY <1>1 DEF Unhit
<1>5. ASSUME NEW q \in Txns PROVE Sound(q)' /\ Leaves(q)'
  <2>1. CASE pend[q].docs \cap written # {}
    <3>1. pend'[q].docs = {}
      BY <1>1, <2>1 DEF Unhit, NoWork
    <3> QED BY <1>3, <3>1, IdleIsFine
  <2>2. CASE pend[q].docs \cap written = {} /\ newSlot = slot
    <3>1. pend'[q] = pend[q] /\ slot' = slot
      BY <1>1, <2>2 DEF Unhit
    <3>2. \A b \in pend[q].docs \cap Ids : booking'[b] = booking[b]
      BY <1>1, <2>2
    <3>3. Sound(q)'
      BY <1>0, <3>1, <3>2 DEF Sound
    <3>4. Milder(After(q), After(q)')
      <4>1. \A b \in Ids : /\ After(q)[b] = IF b \in pend[q].docs THEN pend[q].booking[b] ELSE booking[b]
                           /\ After(q)'[b] = IF b \in pend[q].docs THEN pend[q].booking[b] ELSE rows[b]
        BY <1>1, <3>1 DEF After
      <4>2. After(q) \in Rows
        BY <1>0, GoodRows DEF Leaves
      <4>3. \A b \in Ids : After(q)'[b] \in VisitRows \cup PastRows
        BY <4>1, <4>2 DEF Milder, Rows
      <4>4. After(q)' \in Rows
        <5>1. After(q)' = [b \in Ids |-> After(q)'[b]]
          BY DEF After
        <5> QED BY <4>3, <5>1 DEF Rows
      <4> QED BY <4>1, <4>4 DEF Milder
    <3>5. AfterSlot(q)' = AfterSlot(q) /\ AfterOption(q)' = AfterOption(q)
      BY <1>1, <3>1 DEF AfterSlot, AfterOption
    <3>6. /\ Good(kind, offered, After(q)) /\ SlotShape(AfterSlot(q))
          /\ Holds(kind, AfterSlot(q), After(q)) /\ OptionShape(kind, AfterOption(q))
      BY <1>0 DEF Leaves
    <3>7. Good(kind, offered, After(q)')
      BY <3>4, <3>6, MilderGood
    <3>8. Holds(kind, AfterSlot(q), After(q)')
      BY <3>4, <3>6, GoodRows, MilderHolds
    <3> QED BY <1>1, <3>3, <3>5, <3>6, <3>7, <3>8 DEF Leaves
  <2>3. CASE pend[q].docs \cap written = {} /\ "slot" \in written
    <3>1. pend'[q] = pend[q]
      BY <1>1, <2>3 DEF Unhit
    <3>2. "slot" \notin pend[q].docs /\ pend[q].docs \cap Ids = {} /\ pend[q].docs \subseteq Ids \cup Touched
      BY <1>0, <2>3 DEF Sound
    <3>3. Sound(q)'
      BY <3>1, <3>2 DEF Sound
    <3>4. After(q)' = booking'
      <4>1. booking' \in Rows
        BY <1>3 DEF Now, Good
      <4> QED BY <3>1, <3>2, <4>1 DEF After, Rows
    <3>5. AfterSlot(q)' = slot' /\ AfterOption(q)' = AfterOption(q)
      BY <1>1, <3>1, <3>2 DEF AfterSlot, AfterOption
    <3>6. OptionShape(kind, AfterOption(q))
      BY <1>0 DEF Leaves
    <3> QED BY <1>1, <1>3, <3>3, <3>4, <3>5, <3>6 DEF Leaves, Now
  <2> QED BY <2>1, <2>2, <2>3
<1> QED BY <1>3, <1>4, <1>5 DEF Inv

\* A change of the option alone.
LEMMA PutOptionKeeps ==
  ASSUME Inv, NEW new, PutOption(new), OptionShape(kind, new)
  PROVE  Inv'
<1>0. /\ DOMAIN pend = Txns /\ Now /\ Planned
      /\ \A q \in Txns : Sound(q) /\ Leaves(q)
  BY DEF Inv
<1>1. /\ slot' = slot /\ booking' = booking /\ pend' = Unhit({"service"}) /\ job' = job
      /\ option' = new /\ kind' = kind /\ offered' = offered /\ fixed' = fixed
  BY DEF PutOption, fixed, docs
<1>2. Now' /\ Planned'
  BY <1>0, <1>1, SamePlan DEF Now
<1>3. DOMAIN pend' = Txns
  BY <1>1 DEF Unhit
<1>4. ASSUME NEW q \in Txns PROVE Sound(q)' /\ Leaves(q)'
  <2>1. CASE "service" \in pend[q].docs
    <3>1. pend'[q].docs = {}
      BY <1>1, <2>1 DEF Unhit, NoWork
    <3> QED BY <1>2, <3>1, IdleIsFine
  <2>2. CASE "service" \notin pend[q].docs
    <3>1. pend'[q] = pend[q]
      BY <1>1, <2>2 DEF Unhit
    <3>2. Sound(q)'
      BY <1>0, <1>1, <3>1 DEF Sound
    <3>3. After(q)' = After(q) /\ AfterSlot(q)' = AfterSlot(q) /\ AfterOption(q)' = new
      BY <1>1, <2>2, <3>1 DEF After, AfterSlot, AfterOption
    <3>4. /\ Good(kind, offered, After(q)) /\ SlotShape(AfterSlot(q))
          /\ Holds(kind, AfterSlot(q), After(q))
      BY <1>0 DEF Leaves
    <3> QED BY <1>1, <3>2, <3>3, <3>4 DEF Leaves
  <2> QED BY <2>1, <2>2
<1> QED BY <1>2, <1>3, <1>4 DEF Inv

\* Steps that touch no document: pending work stays or is given up.
LEMMA QuietKeeps ==
  ASSUME Inv, UNCHANGED <<slot, booking, option, fixed>>, DOMAIN pend' = Txns,
         \A q \in Txns : pend'[q] = pend[q] \/ pend'[q] = NoWork,
         Planned'
  PROVE  Inv'
<1>0. /\ DOMAIN pend = Txns /\ Now
      /\ \A q \in Txns : Sound(q) /\ Leaves(q)
  BY DEF Inv
<1>1. Now'
  BY <1>0, SameNow
<1>2. ASSUME NEW q \in Txns PROVE Sound(q)' /\ Leaves(q)'
  <2>1. CASE pend'[q] = pend[q]
    BY <1>0, <2>1, SameTxn
  <2>2. CASE pend'[q] = NoWork
    BY <1>1, <2>2, IdleIsFine DEF NoWork
  <2> QED BY <2>1, <2>2
<1> QED BY <1>1, <1>2 DEF Inv

-----------------------------------------------------------------------------
(* Every step keeps the invariant. *)

LEMMA PlaceType == ASSUME NEW place \in Places PROVE place \in [from : Int, to : Int]
BY DayAssumption DEF Places, Intervals, Interval

\* Whatever fits into the slot lies inside its range.
LEMMA FitsInside ==
  ASSUME NEW place, Fits(place), kind = "time_range"
  PROVE  slot.range.from <= place.from /\ place.to <= slot.range.to
BY DEF Fits, FitsRange

LEMMA BookKeeps ==
  ASSUME Inv, NEW t \in Users, NEW u \in Users, NEW b \in Ids, NEW place \in Places, Book(t, u, b, place)
  PROVE  Inv'
<1> DEFINE rows == [booking EXCEPT ![b] = Visit(u, place, FALSE)]
<1>1. Good(kind, offered, booking) /\ SlotShape(slot) /\ Holds(kind, slot, booking) /\ OptionShape(kind, option)
  BY DEF Inv, Now
<1>2. /\ booking[b].status = "none" /\ slot.exists /\ Fits(place)
      /\ MayTake(booking, place, b) /\ IndexHolds(rows)
      /\ WithinLimit(booking, u) /\ ~TooFrequent(booking, u, b)
      /\ Compute(t, {b, "slot"}, Counted(slot, place), option, rows, b)
      /\ UNCHANGED <<slot, booking, option, job, fixed>>
  BY DEF Book, IsOpen, Written, docs
<1>3. place \in [from : Int, to : Int]
  BY PlaceType
<1>4. kind = "time_range" => place \in Intervals /\ Overlapping(booking, place, b) = {}
  BY <1>2 DEF MayTake, Places
<1>5. /\ "limit" \in offered => CountActiveByUser(booking, u) < MaxActive
      /\ "interval" \in offered => \A c \in Ids \ {b} : booking[c].user # u
  BY <1>2 DEF WithinLimit, TooFrequent, WithinInterval, Can
<1>6. booking \in Rows
  BY <1>1, GoodRows
<1>7. rows[b] = Visit(u, place, FALSE) /\ \A c \in Ids \ {b} : rows[c] = booking[c]
  BY <1>6 DEF Rows
<1>8. rows[b] \in VisitRows
  <2> HIDE DEF rows
  <2> QED BY <1>3, <1>7 DEF Visit, VisitRows
<1> DEFINE s == Counted(slot, place)
<1>r. rows = Begun(booking, b, u, place)
  BY DEF Begun
<1> HIDE DEF rows
<1>9. Good(kind, offered, rows) /\ Held(rows) = Held(booking) \cup {b} /\ b \notin Held(booking)
  <2>1. IndexHolds(rows) /\ booking[b].status = "none"
    BY <1>2
  <2> QED BY <1>1, <1>3, <1>4, <1>5, <1>r, <2>1, OneMoreGood
<1>10. /\ SlotShape(s) /\ s.exists /\ s.range = slot.range
       /\ kind = "time_range" => s.count = slot.count + 1
  BY <1>1, <1>2, CountedSlot
<1> HIDE DEF s
<1>11. Holds(kind, s, rows)
  <2> SUFFICES ASSUME kind = "time_range"
               PROVE  /\ \A c \in Held(rows) : /\ s.exists
                                               /\ s.range.from <= rows[c].place.from
                                               /\ rows[c].place.to <= s.range.to
                      /\ CountActiveBySlot(rows) <= s.count
    BY DEF Holds
  <2>1. \A c \in Held(booking) : c \in Ids /\ slot.range.from <= booking[c].place.from
                                 /\ booking[c].place.to <= slot.range.to
    BY <1>1, HeldInIds DEF Holds
  <2>2. slot.range.from <= place.from /\ place.to <= slot.range.to
    BY <1>2, FitsInside
  <2>3. rows[b].place = place
    BY <1>7 DEF Visit
  <2>4. \A c \in Held(rows) : rows[c].place = IF c = b THEN place ELSE booking[c].place
    BY <1>7, <1>9, <2>1, <2>3
  <2>5. Cardinality(Held(rows)) = Cardinality(Held(booking)) + 1 /\ Cardinality(Held(booking)) \in Nat
    BY <1>9, HeldInIds, CountingOneMore
  <2>6. Cardinality(Held(booking)) <= slot.count /\ slot.count \in Nat
    BY <1>1 DEF Holds, SlotShape, CountActiveBySlot
  <2>7. CountActiveBySlot(rows) <= s.count
    BY <1>10, <2>5, <2>6 DEF CountActiveBySlot
  <2> QED BY <1>9, <1>10, <2>1, <2>2, <2>4, <2>7
<1>12. Compute(t, {b, "slot"}, s, option, rows, b)
  BY <1>2 DEF rows, s
<1>13. /\ {b, "slot"} \subseteq Ids \cup Touched
       /\ \A c \in Ids \ {b, "slot"} : rows[c] = booking[c]
       /\ {b, "slot"} \cap Ids = {b}
       /\ "service" \notin {b, "slot"}
  BY <1>7, IdsAssumption DEF Touched
<1>14. \A c \in {b, "slot"} \cap Ids : /\ "slot" \in {b, "slot"}
                                       /\ rows[c] \in VisitRows
                                       /\ booking[c].status \in {"none", "confirmed"}
                                       /\ booking[c].status = "confirmed" => rows[c].user = booking[c].user
  BY <1>2, <1>8, <1>13
<1>15. t \in Txns
  BY DEF Txns
<1> QED BY <1>2, <1>9, <1>10, <1>11, <1>12, <1>13, <1>14, <1>15, ComputeKeeps

LEMMA MoveKeeps ==
  ASSUME Inv, NEW t \in Txns, NEW b \in Ids, NEW place \in Places, Move(t, b, place)
  PROVE  Inv'
<1> DEFINE rows == Moved(booking, b, place)
           old == booking[b].place
           s == Counted(Release(slot, old), place)
<1>1. Good(kind, offered, booking) /\ SlotShape(slot) /\ Holds(kind, slot, booking) /\ OptionShape(kind, option)
  BY DEF Inv, Now
<1>2. /\ booking[b].status = "confirmed" /\ slot.exists /\ Fits(place)
      /\ MayTake(booking, place, b) /\ IndexHolds(rows)
      /\ Compute(t, {b, "slot"}, s, option, rows, b)
      /\ UNCHANGED <<slot, booking, option, job, fixed>>
  BY DEF Move, IsOpen, Written, docs
<1>3. place \in [from : Int, to : Int]
  BY PlaceType
<1>4. kind = "time_range" => place \in Intervals /\ Overlapping(booking, place, b) = {}
  BY <1>2 DEF MayTake, Places
<1>5. b \in Held(booking)
  BY <1>2 DEF Held
<1>6. booking \in Rows /\ booking[b] \in VisitRows
  BY <1>1, <1>5, GoodRows, HeldRows
<1>7. rows[b] = [booking[b] EXCEPT !.place = place] /\ \A c \in Ids \ {b} : rows[c] = booking[c]
  BY <1>6 DEF Rows, Moved
<1>8. rows[b] \in VisitRows /\ rows[b].user = booking[b].user /\ rows[b].place = place
  <2> HIDE DEF rows
  <2> QED BY <1>3, <1>6, <1>7 DEF VisitRows
<1>9. Good(kind, offered, rows) /\ Held(rows) = Held(booking)
  BY <1>1, <1>2, <1>3, <1>4, <1>5, OneMovedGood
<1>10. /\ SlotShape(s) /\ s.exists = slot.exists /\ s.range = slot.range
       /\ kind = "time_range" => s.count >= slot.count /\ s.count \in Nat /\ slot.count \in Nat
  <2> DEFINE r == Release(slot, old)
  <2>1. /\ SlotShape(r) /\ r.exists = slot.exists /\ r.range = slot.range
        /\ kind = "time_range" => r.count = IF slot.count > 0 THEN slot.count - 1 ELSE 0
    BY <1>1, ReleasedSlot
  <2> HIDE DEF r, old
  <2>2. /\ SlotShape(Counted(r, place)) /\ Counted(r, place).exists = r.exists
        /\ Counted(r, place).range = r.range
        /\ kind = "time_range" => Counted(r, place).count = r.count + 1
    BY <2>1, CountedSlot
  <2>3. slot.count \in Nat
    BY <1>1 DEF SlotShape
  <2>4. s = Counted(r, place)
    BY DEF r
  <2> HIDE DEF s
  <2> QED BY <2>1, <2>2, <2>3, <2>4
<1> HIDE DEF rows, s
<1>11. Holds(kind, s, rows)
  <2> SUFFICES ASSUME kind = "time_range"
               PROVE  /\ \A c \in Held(rows) : /\ s.exists
                                               /\ s.range.from <= rows[c].place.from
                                               /\ rows[c].place.to <= s.range.to
                      /\ CountActiveBySlot(rows) <= s.count
    BY DEF Holds
  <2>1. \A c \in Held(booking) : c \in Ids /\ slot.range.from <= booking[c].place.from
                                 /\ booking[c].place.to <= slot.range.to
    BY <1>1, HeldInIds DEF Holds
  <2>2. slot.range.from <= place.from /\ place.to <= slot.range.to
    BY <1>2, FitsInside
  <2>3. \A c \in Held(rows) : rows[c].place = IF c = b THEN place ELSE booking[c].place
    BY <1>7, <1>8, <1>9, <2>1
  <2>4. CountActiveBySlot(rows) <= s.count
    <3>1. CountActiveBySlot(rows) = CountActiveBySlot(booking) /\ CountActiveBySlot(booking) \in Nat
      BY <1>9, HeldInIds, Counting DEF CountActiveBySlot
    <3>2. CountActiveBySlot(booking) <= slot.count
      BY <1>1 DEF Holds
    <3> QED BY <1>10, <3>1, <3>2
  <2> QED BY <1>2, <1>9, <1>10, <2>1, <2>2, <2>3, <2>4
<1>12. /\ {b, "slot"} \subseteq Ids \cup Touched
       /\ \A c \in Ids \ {b, "slot"} : rows[c] = booking[c]
       /\ {b, "slot"} \cap Ids = {b}
       /\ "service" \notin {b, "slot"}
  BY <1>7, IdsAssumption DEF Touched
<1>13. \A c \in {b, "slot"} \cap Ids : /\ "slot" \in {b, "slot"}
                                       /\ rows[c] \in VisitRows
                                       /\ booking[c].status \in {"none", "confirmed"}
                                       /\ booking[c].status = "confirmed" => rows[c].user = booking[c].user
  BY <1>2, <1>8, <1>12
<1>14. Compute(t, {b, "slot"}, s, option, rows, b)
  BY <1>2 DEF rows, s
<1> QED BY <1>2, <1>9, <1>10, <1>11, <1>12, <1>13, <1>14, ComputeKeeps

LEMMA Ended ==
  ASSUME NEW rows \in Rows, NEW b \in Ids, NEW status \in {"cancelled", "arrived", "no_show"},
         NEW u \in {rows[b].user, NoId}, NEW new, new = [rows EXCEPT ![b] = Past(status, u)]
  PROVE  /\ Milder(rows, new) /\ Held(new) = Held(rows) \ {b}
         /\ \A c \in Ids \ {b} : new[c] = rows[c]
<1>1. new[b] = Past(status, u) /\ \A c \in Ids \ {b} : new[c] = rows[c]
  BY DEF Rows
<1>2. rows[b].user \in Users \cup {NoId}
  BY DEF Rows, VisitRows, PastRows
<1>3. Past(status, u) \in PastRows
  BY <1>2 DEF Past, PastRows
<1>4. new \in Rows
  BY <1>3 DEF Rows
<1>5. new[b].user = u /\ new[b].status # "confirmed"
  BY <1>1 DEF Past
<1>6. Held(new) = Held(rows) \ {b}
  BY <1>1, <1>5 DEF Held
<1>7. Milder(rows, new)
  BY <1>1, <1>4, <1>5 DEF Milder
<1> QED BY <1>1, <1>6, <1>7

LEMMA SameMilder == ASSUME NEW rows \in Rows PROVE Milder(rows, rows)
BY DEF Milder

LEMMA CancelKeeps == ASSUME Inv, NEW b \in Ids, Cancel(b) PROVE Inv'
<1> DEFINE rows == [booking EXCEPT ![b] = Past("cancelled", NoId)]
           s == Release(slot, booking[b].place)
<1>1. Good(kind, offered, booking) /\ SlotShape(slot) /\ Holds(kind, slot, booking) /\ Planned
  BY DEF Inv, Now
<1>2. booking[b].status = "confirmed" /\ Put({b, "slot"}, s, rows) /\ UNCHANGED <<option, job, fixed>>
  BY DEF Cancel
<1>3. booking \in Rows /\ b \in Held(booking)
  BY <1>1, <1>2, GoodRows DEF Held
<1>4. /\ Milder(booking, rows) /\ Held(rows) = Held(booking) \ {b}
      /\ \A c \in Ids \ {b} : rows[c] = booking[c]
  <2>1. \A u \in {booking[b].user, NoId} : \A new :
            new = [booking EXCEPT ![b] = Past("cancelled", u)] =>
               /\ Milder(booking, new) /\ Held(new) = Held(booking) \ {b}
               /\ \A c \in Ids \ {b} : new[c] = booking[c]
    BY <1>3, Ended
  <2> QED BY <2>1, Zenon
<1>5. /\ SlotShape(s) /\ s.exists = slot.exists /\ s.range = slot.range
      /\ kind = "time_range" => s.count = IF slot.count > 0 THEN slot.count - 1 ELSE 0
  BY <1>1, ReleasedSlot
<1>6. slot' = s
  BY <1>2 DEF Put
<1> HIDE DEF rows, s
<1>7. Holds(kind, s, rows)
  <2>1. Cardinality(Held(rows)) = Cardinality(Held(booking)) - 1 /\ Cardinality(Held(booking)) \in Nat \ {0}
    BY <1>3, <1>4, HeldInIds, CountingOneLess
  <2>2. kind = "time_range" => Cardinality(Held(booking)) <= slot.count /\ slot.count \in Nat
    BY <1>1 DEF Holds, SlotShape, CountActiveBySlot
  <2>3. kind = "time_range" => CountActiveBySlot(rows) <= s.count
    BY <1>5, <2>1, <2>2 DEF CountActiveBySlot
  <2>4. \A c \in Held(rows) : c \in Held(booking) /\ rows[c] = booking[c]
    BY <1>4, HeldInIds
  <2> QED BY <1>1, <1>5, <2>3, <2>4 DEF Holds
<1>8. Planned'
  BY <1>1, <1>2, <1>5, <1>6, SamePlan
<1>9. \A c \in Ids \ {b, "slot"} : rows[c] = booking[c]
  BY <1>4
<1> QED BY <1>2, <1>4, <1>5, <1>7, <1>8, <1>9, PutKeeps

\* A booking ends, and the counter keeps its place.
LEMMA EndKeeps ==
  ASSUME Inv, NEW b \in Ids, NEW status \in {"arrived", "no_show"},
         Put({b}, slot, [booking EXCEPT ![b] = Past(status, booking[b].user)]),
         UNCHANGED <<option, fixed>>, Planned'
  PROVE  Inv'
<1> DEFINE rows == [booking EXCEPT ![b] = Past(status, booking[b].user)]
<1>1. Good(kind, offered, booking) /\ SlotShape(slot) /\ Holds(kind, slot, booking)
  BY DEF Inv, Now
<1>2. booking \in Rows
  BY <1>1, GoodRows
<1>3. Milder(booking, rows) /\ \A c \in Ids \ {b} : rows[c] = booking[c]
  BY <1>2, Ended
<1>4. Put({b}, slot, rows)
  OBVIOUS
<1> HIDE DEF rows
<1>5. Holds(kind, slot, rows)
  BY <1>1, <1>2, <1>3, MilderHolds
<1> QED BY <1>1, <1>3, <1>4, <1>5, PutKeeps

LEMMA CheckInKeeps == ASSUME Inv, NEW b \in Ids, CheckIn(b) PROVE Inv'
<1>1. /\ Put({b}, slot, [booking EXCEPT ![b] = Past("arrived", booking[b].user)])
      /\ UNCHANGED <<option, job, fixed>>
  BY DEF CheckIn
<1>2. slot' = slot /\ Planned
  BY <1>1 DEF Put, Inv
<1>3. Planned'
  BY <1>1, <1>2, SamePlan
<1> QED BY <1>1, <1>3, EndKeeps

LEMMA NoShowMarkKeeps == ASSUME Inv, NoShowMark PROVE Inv'
<1>1. PICK b \in job.due :
         /\ IF booking[b].status = "confirmed"
            THEN Put({b}, slot, [booking EXCEPT ![b] = Past("no_show", booking[b].user)])
            ELSE UNCHANGED <<docs, pend>>
         /\ job' = IF job.due = {b} THEN NoJob ELSE [job EXCEPT !.due = @ \ {b}]
  BY DEF NoShowMark
<1>2. job.name = "auto_no_show" /\ "name" \in DOMAIN job /\ UNCHANGED <<option, fixed>>
  BY DEF NoShowMark, Inv, Planned
<1>3. Planned'
  <2>1. "name" \in DOMAIN job' /\ job'.name # "recurrent_slots"
    BY <1>1, <1>2 DEF NoJob
  <2> QED BY <2>1 DEF Planned
<1>4. CASE booking[b].status # "confirmed"
  <2>1. UNCHANGED <<slot, booking, pend>>
    BY <1>1, <1>4 DEF docs
  <2>2. DOMAIN pend' = Txns
    BY <2>1 DEF Inv
  <2> QED BY <1>2, <1>3, <2>1, <2>2, QuietKeeps
<1>5. CASE booking[b].status = "confirmed" /\ b \in Ids
  BY <1>1, <1>2, <1>3, <1>5, EndKeeps
<1>6. CASE booking[b].status = "confirmed" /\ b \notin Ids
  <2>1. Good(kind, offered, booking) /\ SlotShape(slot) /\ Holds(kind, slot, booking)
    BY DEF Inv, Now
  <2>2. booking \in Rows
    BY <2>1, GoodRows
  <2>3. [booking EXCEPT ![b] = Past("no_show", booking[b].user)] = booking
    BY <1>6, <2>2 DEF Rows
  <2>4. Put({b}, slot, booking)
    BY <1>1, <1>6, <2>3
  <2> QED BY <1>2, <1>3, <2>1, <2>2, <2>4, SameMilder, PutKeeps
<1> QED BY <1>4, <1>5, <1>6

LEMMA MarkedMilder ==
  ASSUME booking \in Rows, NEW due
  PROVE  Milder(booking, Marked(due)) /\ \A b \in Ids \ due : Marked(due)[b] = booking[b]
<1> DEFINE rows == Marked(due)
<1>1. ASSUME NEW b \in Ids
      PROVE  /\ rows[b] \in VisitRows \cup PastRows /\ rows[b].status = booking[b].status
             /\ rows[b].place = booking[b].place /\ rows[b].user = booking[b].user
             /\ b \notin due => rows[b] = booking[b]
  <2>1. CASE b \in due /\ booking[b].status = "confirmed"
    <3>1. booking[b] \in VisitRows
      BY <2>1, HeldRows DEF Held
    <3>2. rows[b] = [booking[b] EXCEPT !.sent = TRUE]
      BY <2>1 DEF Marked
    <3> HIDE DEF rows
    <3> QED BY <2>1, <3>1, <3>2 DEF VisitRows
  <2>2. CASE ~(b \in due /\ booking[b].status = "confirmed")
    BY <2>2 DEF Marked, Rows
  <2> QED BY <2>1, <2>2
<1>2. rows \in Rows
  BY <1>1 DEF Marked, Rows
<1> HIDE DEF rows
<1>3. Milder(booking, rows) /\ \A b \in Ids \ due : rows[b] = booking[b]
  BY <1>1, <1>2 DEF Milder
<1> QED BY <1>3 DEF rows

LEMMA RemindMarkKeeps == ASSUME Inv, RemindMark PROVE Inv'
<1> DEFINE rows == Marked(job.due)
<1>1. /\ Put(job.due, slot, rows) /\ UNCHANGED <<option, fixed>>
      /\ job' = [job EXCEPT !.step = "find", !.due = {}, !.left = {}]
      /\ job.name = "booking_reminders" /\ "name" \in DOMAIN job
  BY DEF RemindMark, Inv, Planned
<1>2. Good(kind, offered, booking) /\ SlotShape(slot) /\ Holds(kind, slot, booking)
  BY DEF Inv, Now
<1>3. booking \in Rows
  BY <1>2, GoodRows
<1>4. Milder(booking, rows) /\ \A b \in Ids \ job.due : rows[b] = booking[b]
  BY <1>3, MarkedMilder
<1> HIDE DEF rows
<1>5. Holds(kind, slot, rows)
  BY <1>2, <1>3, <1>4, MilderHolds
<1>6. Planned'
  BY <1>1 DEF Planned
<1> QED BY <1>1, <1>2, <1>4, <1>5, <1>6, PutKeeps

\* The staff's changes leave the bookings as they are.
LEMMA StaffKeeps ==
  ASSUME Inv, NEW t \in Txns, NEW written \in SUBSET Touched, NEW s, NEW o,
         Compute(t, written, s, o, booking, NoId), UNCHANGED <<slot, booking, option, job, fixed>>,
         "slot" \in written => slot.exists /\ SlotShape(s) /\ Holds(kind, s, booking),
         "service" \in written => OptionShape(kind, o)
  PROVE  Inv'
<1>1. Good(kind, offered, booking)
  BY DEF Inv, Now
<1>2. written \subseteq Ids \cup Touched /\ written \cap Ids = {}
  BY IdsAssumption DEF Touched
<1> QED BY <1>1, <1>2, ComputeKeeps

LEMMA NoBooking ==
  ASSUME NEW k, NEW s, NEW rows, Held(rows) = {}, s.count \in Nat
  PROVE  Holds(k, s, rows)
BY FS_EmptySet DEF Holds, CountActiveBySlot

LEMMA UpdateRangeKeeps == ASSUME Inv, NEW t \in Txns, NEW spec \in Specs, UpdateRange(t, spec) PROVE Inv'
<1> DEFINE range == Updated(slot.range, spec)
           s == SetRange(slot, range)
<1>1. SlotShape(slot) /\ Holds(kind, slot, booking) /\ OptionShape(kind, option) /\ booking \in Rows
  BY GoodRows DEF Inv, Now
<1>2. /\ Tree.exists /\ Compute(t, Touched, s, option, booking, NoId)
      /\ \A i \in Busy(booking) : i.from >= range.from /\ i.to <= range.to
      /\ UNCHANGED <<slot, booking, option, job, fixed>>
  BY DEF UpdateRange, docs
<1>3. slot.exists
  BY <1>2 DEF Tree, NoSlot
<1>4. Ranged(range)
  BY <1>1, UpdatedRange DEF SlotShape
<1>5. \A b \in Held(booking) : /\ range.from <= booking[b].place.from /\ booking[b].place.to <= range.to
  <2> SUFFICES ASSUME NEW b \in Held(booking)
               PROVE  range.from <= booking[b].place.from /\ booking[b].place.to <= range.to
    OBVIOUS
  <2>1. booking[b].place.from >= range.from /\ booking[b].place.to <= range.to
    BY <1>2 DEF Busy
  <2>2. booking[b].place.from \in Int /\ range.from \in Int
    BY <1>1, <1>4, HeldRows DEF Ranged
  <2> HIDE DEF range
  <2> QED BY <2>1, <2>2
<1> HIDE DEF range
<1>6. SlotShape(s) /\ s.exists = slot.exists /\ s.range = range /\ s.count = slot.count
  BY <1>1, <1>4 DEF SlotShape, SetRange
<1> HIDE DEF s
<1>7. Holds(kind, s, booking)
  BY <1>1, <1>3, <1>5, <1>6 DEF Holds
<1> QED BY <1>1, <1>2, <1>3, <1>6, <1>7, StaffKeeps

LEMMA Replaced ==
  ASSUME NEW s, SlotShape(s), NEW e
  PROVE  /\ SlotShape([s EXCEPT !.entries = e]) /\ [s EXCEPT !.entries = e].exists = s.exists
         /\ [s EXCEPT !.entries = e].range = s.range /\ [s EXCEPT !.entries = e].count = s.count
BY DEF SlotShape

LEMMA UpdateTimesKeeps == ASSUME Inv, NEW t \in Txns, NEW times, UpdateTimes(t, times) PROVE Inv'
<1>1. SlotShape(slot) /\ OptionShape(kind, option)
  BY DEF Inv, Now
<1>2. /\ Tree.exists /\ kind = "date_time" /\ UNCHANGED <<slot, booking, option, job, fixed>>
      /\ \E e : Compute(t, Touched, [slot EXCEPT !.entries = e], option, booking, NoId)
  BY Zenon DEF UpdateTimes, docs
<1>3. PICK e : Compute(t, Touched, [slot EXCEPT !.entries = e], option, booking, NoId)
  BY <1>2
<1>4. slot.exists
  BY <1>2 DEF Tree, NoSlot
<1> DEFINE s == [slot EXCEPT !.entries = e]
<1>5. SlotShape(s)
  BY <1>1, Replaced
<1> HIDE DEF s
<1>6. Holds(kind, s, booking)
  BY <1>2 DEF Holds
<1>7. Compute(t, Touched, s, option, booking, NoId)
  BY <1>3 DEF s
<1> QED BY <1>1, <1>2, <1>4, <1>5, <1>6, <1>7, StaffKeeps

LEMMA NoneHeld == ASSUME CountActiveBySlot(booking) <= 0 PROVE Held(booking) = {}
BY HeldInIds, Nobody DEF CountActiveBySlot

LEMMA NoSlotShape == SlotShape(NoSlot) /\ NoSlot.count = 0
BY DEF SlotShape, NoSlot, Ranged, NoRange

LEMMA RemoveSlotKeeps == ASSUME Inv, NEW t \in Txns, RemoveSlot(t) PROVE Inv'
<1>1. OptionShape(kind, option)
  BY DEF Inv, Now
<1>2. /\ Tree.exists /\ CountActiveBySlot(booking) = 0
      /\ Compute(t, Touched, NoSlot, option, booking, NoId)
      /\ UNCHANGED <<slot, booking, option, job, fixed>>
  BY DEF RemoveSlot, docs
<1>3. slot.exists
  BY <1>2 DEF Tree, NoSlot
<1>4. Holds(kind, NoSlot, booking) /\ SlotShape(NoSlot)
  BY <1>2, NoneHeld, NoBooking, NoSlotShape
<1> QED BY <1>1, <1>2, <1>3, <1>4, StaffKeeps

LEMMA RemoveOptionKeeps == ASSUME Inv, NEW t \in Txns, RemoveOption(t) PROVE Inv'
<1> DEFINE written == {"service"} \cup (IF slot.exists THEN {"slot"} ELSE {})
<1>1. /\ CountActiveBySlot(booking) = 0
      /\ Compute(t, written, NoSlot, NoOption, booking, NoId)
      /\ UNCHANGED <<slot, booking, option, job, fixed>>
  BY DEF RemoveOption, docs
<1>2. Holds(kind, NoSlot, booking) /\ SlotShape(NoSlot)
  BY <1>1, NoneHeld, NoBooking, NoSlotShape
<1>3. written \in SUBSET Touched /\ ("slot" \in written => slot.exists)
  BY DEF Touched
<1>4. OptionShape(kind, NoOption)
  BY DEF OptionShape, NoOption
<1> HIDE DEF written
<1> QED BY <1>1, <1>2, <1>3, <1>4, StaffKeeps

LEMMA ShiftSlotKeeps == ASSUME Inv, NEW t \in Txns, NEW n \in Shifts, ShiftSlot(t, n) PROVE Inv'
<1> DEFINE rows == MoveMany(booking, n)
           s == IF kind = "time_range" THEN ShiftEnds(slot, n) ELSE RenameTimes(slot, n)
<1>1. /\ Good(kind, offered, booking) /\ SlotShape(slot) /\ Holds(kind, slot, booking)
      /\ OptionShape(kind, option) /\ booking \in Rows
  BY GoodRows DEF Inv, Now
<1>2. /\ Tree.exists /\ MayShift(n) /\ UNCHANGED <<slot, booking, option, job, fixed>>
      /\ Compute(t, Touched \cup Held(booking), s, option, rows, NoId)
  BY DEF ShiftSlot, docs
<1>3. slot.exists /\ n \in Int
  BY <1>2, SpecsAssumption DEF Tree, NoSlot
<1>4. kind = "time_range" =>
         /\ slot.range.from + n \in 0 .. Day /\ slot.range.to + n \in 0 .. Day
         /\ slot.range.from \in Int /\ slot.range.to \in Int
  BY <1>1, <1>2, DayAssumption DEF MayShift, InDay, SlotShape, Ranged
<1>5. ASSUME kind = "time_range", NEW b \in Held(booking)
      PROVE  /\ slot.range.from <= booking[b].place.from /\ booking[b].place.to <= slot.range.to
             /\ booking[b].place.from \in Int /\ booking[b].place.to \in Int
             /\ booking[b].place.from < booking[b].place.to
  BY <1>1, <1>5, HeldRows DEF Good, Apart, Intervals, Holds
<1>6. kind = "time_range" => \A b \in Held(booking) : Shifted(booking[b].place, n) \in Intervals
  <2> SUFFICES ASSUME kind = "time_range", NEW b \in Held(booking)
               PROVE  Shifted(booking[b].place, n) \in Intervals
    OBVIOUS
  <2>1. /\ booking[b].place.from + n \in 0 .. Day /\ booking[b].place.to + n \in 0 .. Day
        /\ booking[b].place.from + n < booking[b].place.to + n
    BY <1>3, <1>4, <1>5, DayAssumption
  <2> QED BY <2>1 DEF Shifted, Interval, Intervals
<1>7. /\ Good(kind, offered, rows) /\ Held(rows) = Held(booking)
      /\ \A b \in Ids \ Held(booking) : rows[b] = booking[b]
      /\ \A b \in Held(booking) : /\ rows[b] \in VisitRows /\ rows[b].user = booking[b].user
                                  /\ rows[b].place.from = booking[b].place.from + n
                                  /\ rows[b].place.to = booking[b].place.to + n
  BY <1>1, <1>3, <1>6, AllMovedGood
<1>8. /\ SlotShape(s) /\ s.exists = slot.exists
      /\ kind = "time_range" => /\ s.range.from = slot.range.from + n /\ s.range.to = slot.range.to + n
                                /\ s.count = slot.count
  <2>1. CASE kind = "time_range"
    <3> DEFINE range == [slot.range EXCEPT !.from = @ + n, !.to = @ + n]
    <3>1. range.from = slot.range.from + n /\ range.to = slot.range.to + n /\ Ranged(range)
      BY <1>1, <1>3 DEF SlotShape, Ranged
    <3>2. s = SetRange(slot, range)
      BY <2>1 DEF ShiftEnds
    <3> HIDE DEF range, s
    <3> QED BY <1>1, <3>1, <3>2 DEF SetRange, SlotShape
  <2>2. CASE kind # "time_range"
    <3>1. \E e : RenameTimes(slot, n) = [slot EXCEPT !.entries = e]
      BY Zenon DEF RenameTimes
    <3>2. PICK e : s = [slot EXCEPT !.entries = e]
      BY <2>2, <3>1
    <3> HIDE DEF s
    <3> QED BY <1>1, <2>2, <3>2, Replaced
  <2> QED BY <2>1, <2>2
<1> HIDE DEF rows, s
<1>9. Holds(kind, s, rows)
  <2> SUFFICES ASSUME kind = "time_range"
               PROVE  /\ \A b \in Held(rows) : /\ s.exists
                                               /\ s.range.from <= rows[b].place.from
                                               /\ rows[b].place.to <= s.range.to
                      /\ CountActiveBySlot(rows) <= s.count
    BY DEF Holds
  <2>1. CountActiveBySlot(rows) <= s.count
    BY <1>1, <1>7, <1>8 DEF Holds, CountActiveBySlot
  <2>2. ASSUME NEW b \in Held(booking)
        PROVE  s.range.from <= rows[b].place.from /\ rows[b].place.to <= s.range.to
    BY <1>3, <1>4, <1>5, <1>7, <1>8
  <2> QED BY <1>3, <1>7, <1>8, <2>1, <2>2
<1>10. /\ Touched \cup Held(booking) \subseteq Ids \cup Touched
       /\ (Touched \cup Held(booking)) \cap Ids = Held(booking)
       /\ "slot" \in Touched
  BY HeldInIds, IdsAssumption DEF Touched
<1>11. \A c \in (Touched \cup Held(booking)) \cap Ids :
          /\ "slot" \in Touched \cup Held(booking)
          /\ rows[c] \in VisitRows
          /\ booking[c].status \in {"none", "confirmed"}
          /\ booking[c].status = "confirmed" => rows[c].user = booking[c].user
  BY <1>7, <1>10 DEF Held
<1>12. \A c \in Ids \ (Touched \cup Held(booking)) : rows[c] = booking[c]
  BY <1>7
<1> DEFINE written == Touched \cup Held(booking)
<1>13. /\ written \subseteq Ids \cup Touched /\ "slot" \in written
       /\ Compute(t, written, s, option, rows, NoId)
       /\ \A c \in Ids \ written : rows[c] = booking[c]
       /\ \A c \in written \cap Ids : /\ "slot" \in written
                                      /\ rows[c] \in VisitRows
                                      /\ booking[c].status \in {"none", "confirmed"}
                                      /\ booking[c].status = "confirmed" => rows[c].user = booking[c].user
  BY <1>2, <1>10, <1>11, <1>12 DEF rows, s
<1> HIDE DEF written
<1> QED BY <1>1, <1>2, <1>3, <1>7, <1>8, <1>9, <1>13, ComputeKeeps

LEMMA OptionKeeps ==
  ASSUME Inv,
         \/ \E new \in {{e} : e \in Schedules} \cup {{}} : SetRecurrence(new)
         \/ \E e \in Schedules : AddOption({e})
         \/ UpdateOption
  PROVE  Inv'
<1>1. OptionShape(kind, option)
  BY DEF Inv, Now
<1>2. ASSUME NEW new \in {{e} : e \in Schedules} \cup {{}}, IsValidSchedule(new)
      PROVE  /\ OptionShape(kind, WithSchedule(option, new)) /\ OptionShape(kind, Option(TRUE, new))
  <2>1. \A e, f \in new : e = f
    OBVIOUS
  <2>2. kind = "time_range" => \A e \in new : e \in Specs /\ HasRange(e)
    BY <1>2 DEF IsValidSchedule, Schedules
  <2>3. WithSchedule(option, new) = [exists |-> option.exists, enabled |-> option.enabled, schedule |-> new]
    BY <1>1 DEF WithSchedule, OptionShape
  <2> QED BY <1>1, <2>1, <2>2, <2>3 DEF OptionShape, Option
<1>3. CASE \E new \in {{e} : e \in Schedules} \cup {{}} : SetRecurrence(new)
  <2>1. PICK new \in {{e} : e \in Schedules} \cup {{}} : SetRecurrence(new)
    BY <1>3
  <2>2. IsValidSchedule(new) /\ PutOption(WithSchedule(option, new))
    BY <2>1 DEF SetRecurrence
  <2>3. OptionShape(kind, WithSchedule(option, new))
    BY <1>2, <2>2
  <2> QED BY <2>2, <2>3, PutOptionKeeps
<1>4. CASE \E e \in Schedules : AddOption({e})
  <2>1. PICK e \in Schedules : AddOption({e})
    BY <1>4
  <2>2. IsValidSchedule({e}) /\ PutOption(Option(TRUE, {e}))
    BY <2>1 DEF AddOption
  <2>3. OptionShape(kind, Option(TRUE, {e}))
    BY <1>2, <2>2
  <2> QED BY <2>2, <2>3, PutOptionKeeps
<1>5. CASE UpdateOption
  <2>1. PutOption([option EXCEPT !.enabled = ~@])
    BY <1>5 DEF UpdateOption
  <2>2. OptionShape(kind, [option EXCEPT !.enabled = ~@])
    BY <1>1 DEF OptionShape
  <2> QED BY <2>1, <2>2, PutOptionKeeps
<1> QED BY <1>3, <1>4, <1>5

LEMMA RecurrentStartKeeps == ASSUME Inv, RecurrentStart PROVE Inv'
<1>1. OptionShape(kind, option) /\ DOMAIN pend = Txns
  BY DEF Inv, Now
<1>2. /\ job' = [name |-> "recurrent_slots", step |-> "slots", entries |-> option.schedule, ops |-> {}]
      /\ UNCHANGED <<slot, booking, option, pend, fixed>>
  BY DEF RecurrentStart, docs
<1>3. Planned'
  BY <1>1, <1>2 DEF Planned, OptionShape, fixed
<1> QED BY <1>1, <1>2, <1>3, QuietKeeps

\* What is planned for one date: of intervals at most one operation, and a
\* slot is only added where there is none.
LEMMA RangePlan ==
  ASSUME NEW entries, kind = "time_range",
         \A e \in entries : e \in Specs /\ HasRange(e), \A e, f \in entries : e = f
  PROVE  /\ \A op \in PlanOf(slot, entries) :
               /\ op.op \in {"addRange", "setRange", "removeSlot"}
               /\ op.op \in {"addRange", "setRange"} => Ranged(op.range)
               /\ op.op = "addRange" => ~slot.exists
         /\ \A p, q \in PlanOf(slot, entries) : p = q
<1> DEFINE wanted == WantedRanges(entries)
<1>1. \A r \in wanted : Ranged(r)
  BY ScheduleRange DEF WantedRanges
<1>2. \A q, r \in wanted : q = r
  BY DEF WantedRanges
<1>3. PlanOf(slot, entries) \subseteq PlanRanges(slot, wanted)
  BY DEF PlanOf
<1> HIDE DEF wanted
<1>4. \A op \in PlanRanges(slot, wanted) :
         \/ ~slot.exists /\ \E r \in wanted : op = [op |-> "addRange", range |-> r]
         \/ slot.exists /\ wanted = {} /\ op = [op |-> "removeSlot"]
         \/ slot.exists /\ \E r \in wanted : op = [op |-> "setRange", range |-> r]
  BY DEF PlanRanges
<1>5. \A p, q \in PlanRanges(slot, wanted) : p = q
  BY <1>2, <1>4
<1>6. \A op \in PlanRanges(slot, wanted) :
         /\ op.op \in {"addRange", "setRange", "removeSlot"}
         /\ op.op \in {"addRange", "setRange"} => Ranged(op.range)
         /\ op.op = "addRange" => ~slot.exists
  <2> SUFFICES ASSUME NEW op \in PlanRanges(slot, wanted)
               PROVE  /\ op.op \in {"addRange", "setRange", "removeSlot"}
                      /\ op.op \in {"addRange", "setRange"} => Ranged(op.range)
                      /\ op.op = "addRange" => ~slot.exists
    OBVIOUS
  <2>1. CASE ~slot.exists /\ \E r \in wanted : op = [op |-> "addRange", range |-> r]
    BY <1>1, <2>1
  <2>2. CASE slot.exists /\ wanted = {} /\ op = [op |-> "removeSlot"]
    BY <2>2
  <2>3. CASE slot.exists /\ \E r \in wanted : op = [op |-> "setRange", range |-> r]
    BY <1>1, <2>3
  <2> QED BY <1>4, <2>1, <2>2, <2>3
<1> QED BY <1>3, <1>5, <1>6

LEMMA TimesPlan ==
  ASSUME NEW entries, kind # "time_range", NEW op \in PlanOf(slot, entries)
  PROVE  op.op \in {"addTimes", "pushTimes", "pullTimes"}
<1>1. PICK times : op \in PlanDays(slot, times)
  BY DEF PlanOf
<1>2. \/ op = [op |-> "addTimes", times |-> times]
      \/ \E x : op = [op |-> "pushTimes", times |-> x]
      \/ \E x : op = [op |-> "pullTimes", times |-> x]
  BY <1>1 DEF PlanDays
<1> QED BY <1>2

LEMMA RecurrentPlanKeeps == ASSUME Inv, RecurrentPlan PROVE Inv'
<1>1. Planned /\ DOMAIN pend = Txns
  BY DEF Inv
<1> DEFINE ops == PlanOf(slot, job.entries)
<1>2. /\ job.name = "recurrent_slots" /\ job.step = "slots"
      /\ job' = IF ops = {} THEN NoJob ELSE [job EXCEPT !.step = "apply", !.ops = ops]
      /\ UNCHANGED <<slot, booking, option, pend, fixed>>
  BY DEF RecurrentPlan, docs
<1>3. job = [name |-> "recurrent_slots", step |-> job.step, entries |-> job.entries, ops |-> job.ops]
  BY <1>1, <1>2 DEF Planned
<1>4. kind = "time_range" =>
         /\ \A op \in ops : /\ op.op \in {"addRange", "setRange", "removeSlot"}
                            /\ op.op \in {"addRange", "setRange"} => Ranged(op.range)
                            /\ op.op = "addRange" => ~slot.exists
         /\ \A p, q \in ops : p = q
  BY <1>1, <1>2, RangePlan DEF Planned
<1>5. kind # "time_range" => \A op \in ops : op.op \in {"addTimes", "pushTimes", "pullTimes"}
  BY TimesPlan
<1> HIDE DEF ops
<1>6. Planned'
  <2>1. CASE ops = {}
    BY <1>2, <2>1 DEF Planned, NoJob
  <2>2. CASE ops # {}
    <3>1. job' = [name |-> "recurrent_slots", step |-> "apply", entries |-> job.entries, ops |-> ops]
      BY <1>2, <1>3, <2>2
    <3>2. slot' = slot /\ kind' = kind
      BY <1>2 DEF fixed
    <3> QED BY <1>4, <1>5, <3>1, <3>2 DEF Planned
  <2> QED BY <2>1, <2>2
<1> QED BY <1>1, <1>2, <1>6, QuietKeeps

\* An operation of the bulk write: of intervals, nobody holds a place of the
\* slot it matches.
LEMMA AppliedKeeps ==
  ASSUME Inv, job.name = "recurrent_slots", job.step = "apply", NEW op \in job.ops, Matches(slot, op)
  PROVE  SlotShape(Applied(slot, op)) /\ Holds(kind, Applied(slot, op), booking)
<1>1. SlotShape(slot) /\ Holds(kind, slot, booking) /\ Planned
  BY DEF Inv, Now
<1>2. /\ op.op \in {"addRange", "setRange", "removeSlot", "addTimes", "pushTimes", "pullTimes"}
      /\ kind = "time_range" => /\ op.op \in {"addRange", "setRange", "removeSlot"}
                                /\ op.op = "addRange" => ~slot.exists
      /\ op.op \in {"addRange", "setRange"} => kind = "time_range" /\ Ranged(op.range)
      /\ op.op = "removeSlot" => kind = "time_range"
  BY <1>1 DEF Planned
<1>3. CASE op.op = "addRange"
  <2>1. Applied(slot, op) = Slot(op.range, 0, << >>)
    BY <1>3 DEF Applied
  <2>2. Held(booking) = {}
    BY <1>1, <1>2, <1>3 DEF Holds
  <2>3. SlotShape(Applied(slot, op)) /\ Applied(slot, op).count \in Nat
    BY <1>2, <1>3, <2>1 DEF SlotShape, Slot
  <2> QED BY <2>2, <2>3, NoBooking
<1>4. CASE op.op = "setRange"
  <2>1. Applied(slot, op) = [slot EXCEPT !.range = op.range]
    BY <1>4 DEF Applied
  <2>2. StillFree(slot)
    BY <1>4 DEF Matches
  <2>3. CountActiveBySlot(booking) <= 0
    <3>1. CountActiveBySlot(booking) \in Nat
      BY HeldInIds, Counting DEF CountActiveBySlot
    <3>2. CountActiveBySlot(booking) <= slot.count /\ slot.count <= 0 /\ slot.count \in Nat
      BY <1>1, <1>2, <1>4, <2>2 DEF Holds, StillFree, SlotShape
    <3> QED BY <3>1, <3>2
  <2>4. SlotShape(Applied(slot, op)) /\ Applied(slot, op).count \in Nat
    BY <1>1, <1>2, <1>4, <2>1 DEF SlotShape
  <2> QED BY <2>3, <2>4, NoneHeld, NoBooking
<1>5. CASE op.op = "removeSlot"
  <2>1. Applied(slot, op) = NoSlot
    BY <1>5 DEF Applied
  <2>2. StillFree(slot)
    BY <1>5 DEF Matches
  <2>3. CountActiveBySlot(booking) <= 0
    <3>1. CountActiveBySlot(booking) \in Nat
      BY HeldInIds, Counting DEF CountActiveBySlot
    <3>2. CountActiveBySlot(booking) <= slot.count /\ slot.count <= 0 /\ slot.count \in Nat
      BY <1>1, <1>2, <1>5, <2>2 DEF Holds, StillFree, SlotShape
    <3> QED BY <3>1, <3>2
  <2> QED BY <2>1, <2>3, NoneHeld, NoBooking, NoSlotShape
<1>6. CASE op.op \in {"addTimes", "pushTimes", "pullTimes"}
  <2>1. kind # "time_range"
    BY <1>2, <1>6
  <2>2. SlotShape(Applied(slot, op))
    <3>1. CASE op.op = "addTimes"
      <4>1. Applied(slot, op) = Slot(NoRange, 0, Fresh(op.times))
        BY <3>1 DEF Applied
      <4> QED BY <4>1 DEF SlotShape, Slot, NoRange, Ranged
    <3>2. CASE op.op \in {"pushTimes", "pullTimes"}
      <4>1. \E e : Applied(slot, op) = [slot EXCEPT !.entries = e]
        BY <3>2, Zenon DEF Applied
      <4> QED BY <1>1, <4>1, Replaced
    <3> QED BY <1>6, <3>1, <3>2
  <2> QED BY <2>1, <2>2 DEF Holds
<1> QED BY <1>2, <1>3, <1>4, <1>5, <1>6

LEMMA RecurrentApplyKeeps == ASSUME Inv, RecurrentApply PROVE Inv'
<1>1. Planned /\ DOMAIN pend = Txns /\ booking \in Rows
  BY GoodRows DEF Inv, Now
<1>2. PICK op \in job.ops :
         /\ IF Matches(slot, op) THEN Put({"slot"}, Applied(slot, op), booking)
            ELSE UNCHANGED <<docs, pend>>
         /\ job' = IF job.ops = {op} THEN NoJob ELSE [job EXCEPT !.ops = @ \ {op}]
  BY DEF RecurrentApply
<1>3. job.name = "recurrent_slots" /\ job.step = "apply" /\ UNCHANGED <<option, fixed>>
  BY DEF RecurrentApply
<1>4. job = [name |-> "recurrent_slots", step |-> job.step, entries |-> job.entries, ops |-> job.ops]
  BY <1>1, <1>3 DEF Planned
<1>5. Planned'
  <2>1. CASE job.ops = {op}
    BY <1>2, <2>1 DEF Planned, NoJob
  <2>2. CASE job.ops # {op}
    <3>1. job' = [name |-> "recurrent_slots", step |-> "apply", entries |-> job.entries, ops |-> job.ops \ {op}]
      BY <1>2, <1>3, <1>4, <2>2
    <3>2. kind # "time_range"
      BY <1>1, <1>3, <2>2 DEF Planned
    <3>3. \A p \in job.ops : p.op \in {"addTimes", "pushTimes", "pullTimes"}
      BY <1>1, <1>3, <3>2 DEF Planned
    <3> QED BY <1>3, <3>1, <3>2, <3>3 DEF Planned, fixed
  <2> QED BY <2>1, <2>2
<1>6. CASE Matches(slot, op)
  <2> DEFINE s == Applied(slot, op)
  <2>1. SlotShape(s) /\ Holds(kind, s, booking)
    BY <1>3, <1>6, AppliedKeeps
  <2>2. Put({"slot"}, s, booking)
    BY <1>2, <1>6
  <2> HIDE DEF s
  <2> QED BY <1>1, <1>3, <1>5, <2>1, <2>2, SameMilder, PutKeeps
<1>7. CASE ~Matches(slot, op)
  <2>1. UNCHANGED <<slot, booking, pend>>
    BY <1>2, <1>7 DEF docs
  <2> QED BY <1>1, <1>3, <1>5, <2>1, QuietKeeps
<1> QED BY <1>6, <1>7

\* The steps of the requests, and of the clock.
LEMMA RestKeeps ==
  ASSUME Inv, UNCHANGED <<slot, booking, option, job, fixed>>,
         \/ pend' = pend
         \/ \E t \in Txns : pend' = [pend EXCEPT ![t] = NoWork]
  PROVE  Inv'
<1>1. DOMAIN pend' = Txns /\ \A q \in Txns : pend'[q] = pend[q] \/ pend'[q] = NoWork
  BY DEF Inv
<1>2. Planned'
  BY SamePlan DEF Inv
<1> QED BY <1>1, <1>2, QuietKeeps

\* The steps of the jobs that write no document.
LEMMA FindKeeps ==
  ASSUME Inv, RemindFind \/ RemindEnqueue \/ NoShowFind \/ JobCrash
  PROVE  Inv'
<1>1. "name" \in DOMAIN job /\ DOMAIN pend = Txns
  BY DEF Inv, Planned
<1>2. UNCHANGED <<slot, booking, option, pend, fixed>>
  BY DEF RemindFind, RemindEnqueue, NoShowFind, JobCrash, docs
<1>3. "name" \in DOMAIN job' /\ job'.name # "recurrent_slots"
  <2>1. CASE RemindFind
    BY <2>1 DEF RemindFind, NoJob
  <2>2. CASE RemindEnqueue
    BY <1>1, <2>2 DEF RemindEnqueue
  <2>3. CASE NoShowFind
    BY <2>3 DEF NoShowFind
  <2>4. CASE JobCrash
    BY <2>4 DEF JobCrash, NoJob
  <2> QED BY <2>1, <2>2, <2>3, <2>4
<1>4. Planned'
  BY <1>3 DEF Planned
<1> QED BY <1>1, <1>2, <1>4, QuietKeeps

LEMMA StepKeeps == ASSUME Inv, Next PROVE Inv'
<1>t. Users \subseteq Txns /\ Staff \subseteq Txns
  BY DEF Txns
<1>1. CASE \E t \in Txns : Commit(t) \/ Abort(t)
  BY <1>1, CommitKeeps, RestKeeps DEF Abort, docs
<1>2. CASE \E t \in Txns : Refuse(t) \/ Complete(t) \/ GiveKeyBack(t) \/ Crash(t) \/ ExpireKey(t)
  BY <1>2, RestKeeps DEF Refuse, Complete, GiveKeyBack, Crash, ExpireKey, docs
<1>3. CASE \E u \in Users : \E place \in Places : Submit(u, place)
  BY <1>3, RestKeeps DEF Submit, Claim, docs
<1>4. CASE \E t, u \in Users : \E b \in Ids : \E place \in Places : Book(t, u, b, place)
  BY <1>4, BookKeeps
<1>5. CASE \E t \in Txns : \E b \in Ids : \E place \in Places : Move(t, b, place)
  BY <1>5, MoveKeeps
<1>6. CASE \E b \in Ids : Cancel(b) \/ CheckIn(b)
  BY <1>6, CancelKeeps, CheckInKeeps
<1>7. CASE \E t \in Staff : \E spec \in Specs : UpdateRange(t, spec)
  BY <1>7, <1>t, UpdateRangeKeeps
<1>8. CASE \E t \in Staff : RemoveSlot(t) \/ RemoveOption(t)
  BY <1>8, <1>t, RemoveSlotKeeps, RemoveOptionKeeps
<1>9. CASE \E t \in Staff : \E times \in TimeSets : UpdateTimes(t, times)
  BY <1>9, <1>t, UpdateTimesKeeps
<1>10. CASE \/ \E e \in Schedules : AddOption({e})
            \/ UpdateOption
            \/ \E new \in {{e} : e \in Schedules} \cup {{}} : SetRecurrence(new)
  BY <1>10, OptionKeeps
<1>11. CASE \E t \in Staff : \E n \in Shifts : SubmitShift(t, n)
  BY <1>11, RestKeeps DEF SubmitShift, Claim, docs
<1>12. CASE \E t \in Staff : \E n \in Shifts : ShiftSlot(t, n)
  BY <1>12, <1>t, ShiftSlotKeeps
<1>13. CASE RecurrentStart \/ RecurrentPlan \/ RecurrentApply
  BY <1>13, RecurrentStartKeeps, RecurrentPlanKeeps, RecurrentApplyKeeps
<1>14. CASE RemindFind \/ RemindEnqueue \/ NoShowFind \/ JobCrash
  BY <1>14, FindKeeps
<1>15. CASE RemindMark \/ NoShowMark
  BY <1>15, RemindMarkKeeps, NoShowMarkKeeps
<1>16. CASE Tick
  BY <1>16, RestKeeps DEF Tick, docs
<1> QED BY <1>1, <1>2, <1>3, <1>4, <1>5, <1>6, <1>7, <1>8, <1>9, <1>10, <1>11, <1>12, <1>13,
           <1>14, <1>15, <1>16 DEF Next

LEMMA InitKeeps == ASSUME Init PROVE Inv
<1>1. booking \in Rows /\ Held(booking) = {} /\ \A b \in Ids : booking[b].user = NoId
  <2>1. booking = [b \in Ids |-> Past("none", NoId)]
    BY DEF Init
  <2>2. Past("none", NoId) \in PastRows /\ Past("none", NoId).status = "none" /\ Past("none", NoId).user = NoId
    BY DEF Past, PastRows
  <2> QED BY <2>1, <2>2 DEF Rows, Held
<1>2. Good(kind, offered, booking)
  <2>1. ASSUME NEW u \in Users
        PROVE  /\ CountActiveByUser(booking, u) = 0
               /\ Cardinality({b \in Ids : booking[b].user = u}) = 0
    <3>1. {b \in Held(booking) : booking[b].user = u} = {} /\ {b \in Ids : booking[b].user = u} = {}
      BY <1>1, UsersAssumption
    <3> QED BY <3>1, FS_EmptySet, Zenon DEF CountActiveByUser
  <2>2. Modest(offered, booking)
    BY <2>1, LimitsAssumption DEF Modest
  <2>3. IndexHolds(booking) /\ Apart(booking)
    BY <1>1 DEF IndexHolds, Apart
  <2> QED BY <1>1, <2>2, <2>3 DEF Good
<1>3. PICK e \in Schedules :
         /\ IsValidSchedule({e})
         /\ option = Option(TRUE, {e})
         /\ slot = IF kind = "time_range" THEN Slot(SlotRange(e), 0, << >>)
                   ELSE Slot(NoRange, 0, Fresh(TimesFor(e, Duration, Buffer)))
  BY DEF Init
<1>4. kind = "time_range" => e \in Specs /\ HasRange(e)
  BY <1>3 DEF IsValidSchedule, Schedules
<1>5. OptionShape(kind, option)
  BY <1>3, <1>4 DEF OptionShape, Option
<1>6. SlotShape(slot) /\ slot.count \in Nat
  <2>1. CASE kind = "time_range"
    <3>1. slot = Slot(SlotRange(e), 0, << >>)
      BY <1>3, <2>1
    <3>2. Ranged(SlotRange(e))
      BY <1>4, <2>1, ScheduleRange
    <3> QED BY <3>1, <3>2 DEF SlotShape, Slot
  <2>2. CASE kind # "time_range"
    <3>1. slot = Slot(NoRange, 0, Fresh(TimesFor(e, Duration, Buffer)))
      BY <1>3, <2>2
    <3> QED BY <3>1 DEF SlotShape, Slot, NoRange, Ranged
  <2> QED BY <2>1, <2>2
<1>7. Holds(kind, slot, booking)
  BY <1>1, <1>6, NoBooking
<1>8. Now
  BY <1>2, <1>5, <1>6, <1>7 DEF Now
<1>9. DOMAIN pend = Txns /\ \A t \in Txns : pend[t] = NoWork
  BY DEF Init
<1>10. ASSUME NEW t \in Txns PROVE Sound(t) /\ Leaves(t)
  <2>1. pend[t].docs = {}
    BY <1>9 DEF NoWork
  <2>2. After(t) = booking /\ AfterSlot(t) = slot /\ AfterOption(t) = option
    BY <1>1, <2>1 DEF After, AfterSlot, AfterOption, Rows
  <2> QED BY <1>8, <2>1, <2>2 DEF Now, Leaves, Sound
<1>11. Planned
  BY DEF Init, Planned, NoJob
<1> QED BY <1>8, <1>9, <1>10, <1>11 DEF Inv

LEMMA Invariant == Spec => []Inv
<1>1. Init => Inv
  BY InitKeeps
<1>2. Inv /\ [Next]_vars => Inv'
  <2> SUFFICES ASSUME Inv, [Next]_vars PROVE Inv'
    OBVIOUS
  <2>1. CASE Next
    BY <2>1, StepKeeps
  <2>2. CASE UNCHANGED vars
    BY <2>2, RestKeeps DEF vars, fixed
  <2> QED BY <2>1, <2>2
<1> QED BY <1>1, <1>2, PTL DEF Spec

(***************************************************************************)
(* However many clients, staff and jobs work on a slot, whatever the       *)
(* buffer and the limits are: two active bookings never come closer than   *)
(* the buffer, and no client has more active bookings of the slot, or more *)
(* within the interval, than the policy allows.                            *)
(***************************************************************************)
THEOREM SlotsKeepTheirDistance == Spec => []NeverTooClose
<1>1. Inv => NeverTooClose
  BY DEF Inv, Now, Good, Apart, Modest, NeverTooClose, Spaced, WithinPolicy, Can
<1> QED BY <1>1, Invariant, PTL

-----------------------------------------------------------------------------
(* Retries with a key. *)

\* A booking that exists is never forgotten, and one that is over never
\* becomes active again, nor does an active one change hands.
Lasts ==
    \A b \in Ids : booking[b].status # "none" =>
        /\ booking'[b].status # "none"
        /\ booking'[b].status = "confirmed" =>
              booking[b].status = "confirmed" /\ booking'[b].user = booking[b].user

LEMMA SameLasts == ASSUME booking' = booking PROVE Lasts
BY DEF Lasts

LEMMA EndLasts ==
  ASSUME Inv, NEW b \in Ids, NEW status \in {"cancelled", "arrived", "no_show"}, NEW u,
         booking' = [booking EXCEPT ![b] = Past(status, u)]
  PROVE  Lasts
<1>1. booking \in Rows
  BY GoodRows DEF Inv, Now
<1>2. booking'[b].status = status /\ \A c \in Ids \ {b} : booking'[c] = booking[c]
  BY <1>1 DEF Rows, Past
<1> QED BY <1>2 DEF Lasts

LEMMA StepLasts == ASSUME Inv, Next PROVE Lasts
<1>0. booking \in Rows
  BY GoodRows DEF Inv, Now
<1>1. CASE \E t \in Txns : Commit(t)
  <2>1. PICK t \in Txns : Commit(t)
    BY <1>1
  <2>2. booking' = After(t) /\ Sound(t)
    BY <2>1, CommitKeeps DEF Inv
  <2>3. ASSUME NEW b \in Ids, booking[b].status # "none"
        PROVE  /\ booking'[b].status # "none"
               /\ booking'[b].status = "confirmed" =>
                     booking[b].status = "confirmed" /\ booking'[b].user = booking[b].user
    <3>1. CASE b \in pend[t].docs
      <4>1. booking'[b] = pend[t].booking[b]
        BY <2>2, <3>1 DEF After
      <4>2. /\ pend[t].booking[b] \in VisitRows /\ booking[b].status = "confirmed"
            /\ pend[t].booking[b].user = booking[b].user
        BY <2>2, <2>3, <3>1 DEF Sound
      <4> QED BY <4>1, <4>2 DEF VisitRows
    <3>2. CASE b \notin pend[t].docs
      BY <2>2, <2>3, <3>2 DEF After
    <3> QED BY <3>1, <3>2
  <2> QED BY <2>3 DEF Lasts
<1>2. CASE \E b \in Ids : Cancel(b)
  BY <1>2, EndLasts DEF Cancel, Put
<1>3. CASE \E b \in Ids : CheckIn(b)
  BY <1>3, EndLasts DEF CheckIn, Put
<1>4. CASE NoShowMark
  <2>1. PICK b \in job.due :
           IF booking[b].status = "confirmed"
           THEN Put({b}, slot, [booking EXCEPT ![b] = Past("no_show", booking[b].user)])
           ELSE UNCHANGED <<docs, pend>>
    BY <1>4 DEF NoShowMark
  <2>2. CASE booking[b].status = "confirmed" /\ b \in Ids
    BY <2>1, <2>2, EndLasts DEF Put
  <2>3. CASE booking[b].status = "confirmed" /\ b \notin Ids
    <3>1. booking' = [booking EXCEPT ![b] = Past("no_show", booking[b].user)]
      BY <2>1, <2>3 DEF Put
    <3>2. booking' = booking
      BY <1>0, <2>3, <3>1 DEF Rows
    <3> QED BY <3>2, SameLasts
  <2>4. CASE booking[b].status # "confirmed"
    BY <2>1, <2>4, SameLasts DEF docs
  <2> QED BY <2>2, <2>3, <2>4
<1>5. CASE RemindMark
  <2>1. booking' = Marked(job.due)
    BY <1>5 DEF RemindMark, Put
  <2>2. ASSUME NEW b \in Ids PROVE booking'[b].status = booking[b].status /\ booking'[b].user = booking[b].user
    <3>1. CASE b \in job.due /\ booking[b].status = "confirmed"
      <4>1. booking[b] \in VisitRows
        BY <1>0, <3>1, HeldRows DEF Held
      <4>2. booking'[b] = [booking[b] EXCEPT !.sent = TRUE]
        BY <2>1, <3>1 DEF Marked
      <4> QED BY <4>1, <4>2 DEF VisitRows
    <3>2. CASE ~(b \in job.due /\ booking[b].status = "confirmed")
      BY <2>1, <3>2 DEF Marked
    <3> QED BY <3>1, <3>2
  <2> QED BY <2>2 DEF Lasts
<1>6. CASE RecurrentApply
  <2>1. booking' = booking
    BY <1>6 DEF RecurrentApply, Put, docs
  <2> QED BY <2>1, SameLasts
<1>7. CASE \/ \E t \in Txns : Abort(t)
           \/ \E t \in Txns : Refuse(t) \/ Complete(t) \/ GiveKeyBack(t) \/ Crash(t) \/ ExpireKey(t)
           \/ \E u \in Users : \E place \in Places : Submit(u, place)
  <2>1. booking' = booking
    BY <1>7 DEF Abort, Refuse, Complete, GiveKeyBack, Crash, ExpireKey, Submit, Claim, docs
  <2> QED BY <2>1, SameLasts
<1>8. CASE \/ \E t \in Staff : \E spec \in Specs : UpdateRange(t, spec)
           \/ \E t \in Staff : RemoveSlot(t) \/ RemoveOption(t)
           \/ \E e \in Schedules : AddOption({e})
           \/ UpdateOption
           \/ \E t \in Staff : \E n \in Shifts : SubmitShift(t, n)
           \/ \E new \in {{e} : e \in Schedules} \cup {{}} : SetRecurrence(new)
  <2>1. booking' = booking
    BY <1>8 DEF UpdateRange, RemoveSlot, RemoveOption, AddOption, UpdateOption, SubmitShift, Claim,
                SetRecurrence, PutOption, docs
  <2> QED BY <2>1, SameLasts
<1>9. CASE \E t \in Staff : \E times \in TimeSets : UpdateTimes(t, times)
  <2>1. booking' = booking
    BY <1>9, Zenon DEF UpdateTimes, docs
  <2> QED BY <2>1, SameLasts
<1>10. CASE \E t \in Staff : \E n \in Shifts : ShiftSlot(t, n)
  <2>1. booking' = booking
    BY <1>10 DEF ShiftSlot, docs
  <2> QED BY <2>1, SameLasts
<1>11. CASE \/ RecurrentStart \/ RecurrentPlan \/ RemindFind \/ RemindEnqueue \/ NoShowFind \/ JobCrash \/ Tick
  <2>1. booking' = booking
    BY <1>11 DEF RecurrentStart, RecurrentPlan, RemindFind, RemindEnqueue, NoShowFind, JobCrash, Tick, docs
  <2> QED BY <2>1, SameLasts
<1>12. CASE \E t, u \in Users : \E b \in Ids : \E place \in Places : Book(t, u, b, place)
  <2>1. booking' = booking
    BY <1>12 DEF Book, docs
  <2> QED BY <2>1, SameLasts
<1>13. CASE \E t \in Txns : \E b \in Ids : \E place \in Places : Move(t, b, place)
  <2>1. booking' = booking
    BY <1>13 DEF Move, docs
  <2> QED BY <2>1, SameLasts
<1> QED BY <1>1, <1>2, <1>3, <1>4, <1>5, <1>6, <1>7, <1>8, <1>9, <1>10, <1>11, <1>12, <1>13 DEF Next

\* What a client writes under a key is a booking of that client.
Own(u) ==
    Can("key") /\ pend[u].docs # {} =>
        /\ pend[u].id \in pend[u].docs \cap Ids
        /\ pend[u].booking[pend[u].id].user = u

\* What was answered is a booking that was made.
Answer(u, id) ==
    /\ id \in Ids /\ booking[id].status # "none"
    /\ booking[id].status = "confirmed" => booking[id].user = u

Replied(u) ==
    /\ attempt[u].state = "done" => Answer(u, attempt[u].id)
    /\ key[u].state = "completed" => Answer(u, key[u].id)

Asking(t) ==
    /\ attempt[t] = Request(attempt[t].state, attempt[t].place, attempt[t].id)
    /\ attempt[t].state \in {"idle", "handling", "done", "failed"}
    /\ attempt[t].state = "idle" => attempt[t] = Idle
    /\ attempt[t].state # "idle" => Can("key") /\ key[t].state = "claimed"
    /\ key[t] = Request(key[t].state, key[t].place, key[t].id)
    /\ key[t].state \in {"idle", "claimed", "completed"}
    /\ key[t].state = "idle" => key[t] = NoKey /\ made[t] = 0
    /\ made[t] \in {0, 1}
    /\ attempt[t].state = "handling" => made[t] = 0
    /\ attempt[t].state = "done" \/ key[t].state = "completed" => made[t] = 1

Keys ==
    /\ DOMAIN attempt = Txns /\ DOMAIN key = Txns /\ DOMAIN made = Txns
    /\ \A t \in Txns : Asking(t)
    /\ \A u \in Users : Own(u) /\ Replied(u)

LEMMA OwnStays ==
  ASSUME NEW u, Own(u), pend'[u] = pend[u] \/ pend'[u] = NoWork, UNCHANGED fixed
  PROVE  Own(u)'
BY DEF Own, NoWork, Can, fixed

LEMMA RepliedStays ==
  ASSUME NEW u, Replied(u), Lasts, attempt'[u] = attempt[u], key'[u] = key[u]
  PROVE  Replied(u)'
BY DEF Replied, Answer, Lasts

LEMMA OwnKeeps == ASSUME Inv, Keys, Next, NEW u \in Users PROVE Own(u)'
<1>0. /\ Own(u) /\ u \in Txns /\ u \notin Staff /\ DOMAIN pend = Txns
      /\ booking \in Rows /\ "slot" \notin Ids
  BY GoodRows, UsersAssumption, IdsAssumption DEF Keys, Txns, Inv, Now
<1>p. ASSUME NEW written, pend' = Unhit(written) PROVE pend'[u] = pend[u] \/ pend'[u] = NoWork
  BY <1>0, <1>p DEF Unhit
<1>q. ASSUME NEW t \in Txns, pend' = [pend EXCEPT ![t] = NoWork] PROVE pend'[u] = pend[u] \/ pend'[u] = NoWork
  BY <1>0, <1>q
<1>s. ASSUME NEW t \in Staff, NEW w, pend' = [pend EXCEPT ![t] = w] PROVE pend'[u] = pend[u]
  BY <1>0, <1>s
<1>1. CASE \E t \in Txns : Commit(t) \/ Abort(t) \/ Crash(t)
  BY <1>0, <1>1, <1>p, <1>q, OwnStays DEF Commit, Put, Abort, Crash
<1>2. CASE \E t \in Txns : Refuse(t) \/ Complete(t) \/ GiveKeyBack(t) \/ ExpireKey(t)
  BY <1>0, <1>2, OwnStays DEF Refuse, Complete, GiveKeyBack, ExpireKey
<1>3. CASE \/ \E v \in Users : \E place \in Places : Submit(v, place)
           \/ \E t \in Staff : \E n \in Shifts : SubmitShift(t, n)
  BY <1>0, <1>3, OwnStays DEF Submit, SubmitShift, Claim
<1>4. CASE \E t, v \in Users : \E b \in Ids : \E place \in Places : Book(t, v, b, place)
  <2>1. PICK t \in Users, v \in Users, b \in Ids, place \in Places : Book(t, v, b, place)
    BY <1>4
  <2> DEFINE rows == [booking EXCEPT ![b] = Visit(v, place, FALSE)]
  <2>2. /\ Can("key") => t = v
        /\ Compute(t, {b, "slot"}, Counted(slot, place), option, rows, b)
        /\ UNCHANGED fixed
    BY <2>1 DEF Book, Written
  <2>3. rows[b].user = v
    BY <1>0 DEF Rows, Visit
  <2> HIDE DEF rows
  <2>4. CASE u = t
    <3>1. /\ pend'[u].docs = {b, "slot"} /\ pend'[u].id = b
          /\ pend'[u].booking = [c \in {b, "slot"} \cap Ids |-> rows[c]]
      BY <1>0, <2>2, <2>4 DEF Compute
    <3>2. pend'[u].booking[b] = rows[b]
      BY <3>1
    <3> QED BY <2>2, <2>3, <2>4, <3>1, <3>2 DEF Own, Can, fixed
  <2>5. CASE u # t
    <3>1. pend'[u] = pend[u]
      BY <1>0, <2>2, <2>5 DEF Compute
    <3> QED BY <1>0, <2>2, <3>1, OwnStays
  <2> QED BY <2>4, <2>5
<1>5. CASE \E t \in Txns : \E b \in Ids : \E place \in Places : Move(t, b, place)
  <2>1. PICK t \in Txns, b \in Ids, place \in Places : Move(t, b, place)
    BY <1>5
  <2> DEFINE rows == Moved(booking, b, place)
             s == Counted(Release(slot, booking[b].place), place)
  <2>2. /\ t \in Staff \/ t = booking[b].user
        /\ booking[b].status = "confirmed"
        /\ Compute(t, {b, "slot"}, s, option, rows, b)
        /\ UNCHANGED fixed
    BY <2>1 DEF Move, Written
  <2>3. rows[b].user = booking[b].user
    BY <1>0, <2>2, HeldRows DEF Rows, Moved, VisitRows, Held
  <2> HIDE DEF rows, s
  <2>4. CASE u = t
    <3>1. /\ pend'[u].docs = {b, "slot"} /\ pend'[u].id = b
          /\ pend'[u].booking = [c \in {b, "slot"} \cap Ids |-> rows[c]]
      BY <1>0, <2>2, <2>4 DEF Compute
    <3>2. pend'[u].booking[b] = rows[b]
      BY <3>1
    <3> QED BY <1>0, <2>2, <2>3, <2>4, <3>1, <3>2 DEF Own, Can, fixed
  <2>5. CASE u # t
    <3>1. pend'[u] = pend[u]
      BY <1>0, <2>2, <2>5 DEF Compute
    <3> QED BY <1>0, <2>2, <3>1, OwnStays
  <2> QED BY <2>4, <2>5
<1>6. CASE \E b \in Ids : Cancel(b) \/ CheckIn(b)
  BY <1>0, <1>6, <1>p, OwnStays DEF Cancel, CheckIn, Put
<1>7. CASE \/ \E t \in Staff : \E spec \in Specs : UpdateRange(t, spec)
           \/ \E t \in Staff : RemoveSlot(t) \/ RemoveOption(t)
  BY <1>0, <1>7, <1>s, OwnStays DEF UpdateRange, RemoveSlot, RemoveOption, Compute
<1>8. CASE \E t \in Staff : \E times \in TimeSets : UpdateTimes(t, times)
  <2>1. PICK t \in Staff : \E s : Compute(t, Touched, s, option, booking, NoId) /\ UNCHANGED fixed
    BY <1>8, Zenon DEF UpdateTimes
  <2> QED BY <1>0, <1>s, <2>1, OwnStays DEF Compute
<1>9. CASE \E t \in Staff : \E n \in Shifts : ShiftSlot(t, n)
  <2>1. PICK t \in Staff : \E written, s, rows : Compute(t, written, s, option, rows, NoId) /\ UNCHANGED fixed
    BY <1>9, Zenon DEF ShiftSlot
  <2> QED BY <1>0, <1>s, <2>1, OwnStays DEF Compute
<1>10. CASE \/ \E e \in Schedules : AddOption({e})
            \/ UpdateOption
            \/ \E new \in {{e} : e \in Schedules} \cup {{}} : SetRecurrence(new)
  BY <1>0, <1>10, <1>p, OwnStays DEF AddOption, UpdateOption, SetRecurrence, PutOption
<1>11. CASE RecurrentApply
  <2>1. (\E written : pend' = Unhit(written)) \/ pend' = pend
    BY <1>11 DEF RecurrentApply, Put
  <2>2. UNCHANGED fixed
    BY <1>11 DEF RecurrentApply
  <2> QED BY <1>0, <1>p, <2>1, <2>2, OwnStays
<1>12. CASE RemindMark \/ NoShowMark
  <2>1. (\E written : pend' = Unhit(written)) \/ pend' = pend
    BY <1>12 DEF RemindMark, NoShowMark, Put
  <2>2. UNCHANGED fixed
    BY <1>12 DEF RemindMark, NoShowMark
  <2> QED BY <1>0, <1>p, <2>1, <2>2, OwnStays
<1>13. CASE \/ RecurrentStart \/ RecurrentPlan \/ RemindFind \/ RemindEnqueue \/ NoShowFind \/ JobCrash \/ Tick
  <2>1. pend' = pend /\ UNCHANGED fixed
    BY <1>13 DEF RecurrentStart, RecurrentPlan, RemindFind, RemindEnqueue, NoShowFind, JobCrash, Tick
  <2> QED BY <1>0, <2>1, OwnStays
<1> QED BY <1>1, <1>2, <1>3, <1>4, <1>5, <1>6, <1>7, <1>8, <1>9, <1>10, <1>11, <1>12, <1>13 DEF Next

\* A step that leaves the requests and the keys alone.
LEMMA KeysStay ==
  ASSUME Inv, Keys, Next, UNCHANGED <<attempt, key, made, fixed>>
  PROVE  Keys'
<1>1. Lasts /\ \A u \in Users : Own(u)'
  BY StepLasts, OwnKeeps
<1>2. \A t \in Txns : Asking(t)'
  BY DEF Keys, Asking, Can, fixed
<1>3. \A u \in Users : Replied(u)'
  BY <1>1, RepliedStays DEF Keys
<1> QED BY <1>1, <1>2, <1>3 DEF Keys

\* A step of the request of t: what it leaves must be sound, and its answer true.
LEMMA KeysMove ==
  ASSUME Inv, Keys, Next, UNCHANGED fixed, NEW t \in Txns,
         DOMAIN attempt' = Txns, DOMAIN key' = Txns, DOMAIN made' = Txns,
         \A q \in Txns \ {t} : attempt'[q] = attempt[q] /\ key'[q] = key[q] /\ made'[q] = made[q],
         Asking(t)', t \in Users => Replied(t)'
  PROVE  Keys'
<1>1. Lasts /\ \A u \in Users : Own(u)'
  BY StepLasts, OwnKeeps
<1>2. \A q \in Txns : Asking(q)'
  <2> SUFFICES ASSUME NEW q \in Txns \ {t} PROVE Asking(q)'
    OBVIOUS
  <2>1. Asking(q)
    BY DEF Keys
  <2> QED BY <2>1 DEF Asking, Can, fixed
<1>3. ASSUME NEW u \in Users PROVE Replied(u)'
  <2>1. CASE u = t
    BY <2>1
  <2>2. CASE u # t
    <3>1. attempt'[u] = attempt[u] /\ key'[u] = key[u]
      BY <2>2 DEF Txns
    <3> QED BY <1>1, <3>1, RepliedStays DEF Keys
  <2> QED BY <2>1, <2>2
<1> QED BY <1>1, <1>2, <1>3 DEF Keys

LEMMA CommitKeys == ASSUME Inv, Keys, Next, NEW t \in Txns, Commit(t) PROVE Keys'
<1>1. CASE attempt[t].state # "handling"
  BY <1>1, KeysStay DEF Commit
<1>2. CASE attempt[t].state = "handling"
  <2>1. PICK outcome \in {"done", "failed"} :
           /\ attempt' = [attempt EXCEPT ![t].state = outcome, ![t].id = pend[t].id]
           /\ made' = [made EXCEPT ![t] = @ + 1]
           /\ key' = key /\ pend[t].docs # {} /\ UNCHANGED fixed
    BY <1>2 DEF Commit
  <2>2. DOMAIN attempt = Txns /\ DOMAIN key = Txns /\ DOMAIN made = Txns /\ Asking(t)
    BY DEF Keys
  <2>3. attempt[t] = Request(attempt[t].state, attempt[t].place, attempt[t].id) /\ made[t] = 0
        /\ Can("key") /\ key[t].state = "claimed"
    BY <1>2, <2>2 DEF Asking
  <2>4. attempt'[t] = Request(outcome, attempt[t].place, pend[t].id) /\ made'[t] = 1
    <3>1. attempt'[t] = [attempt[t] EXCEPT !.state = outcome, !.id = pend[t].id]
      BY <2>1, <2>2
    <3>2. made'[t] = 1
      BY <2>1, <2>2, <2>3
    <3>3. attempt[t] = [state |-> attempt[t].state, place |-> attempt[t].place, id |-> attempt[t].id]
      BY <2>3 DEF Request
    <3> QED BY <3>1, <3>2, <3>3 DEF Request
  <2>5. Asking(t)'
    <3>1. /\ attempt'[t].state = outcome /\ attempt'[t].place = attempt[t].place
          /\ attempt'[t].id = pend[t].id
      BY <2>4 DEF Request
    <3>2. Can("key")' /\ key'[t] = key[t]
      BY <2>1, <2>3 DEF Can, fixed
    <3> QED BY <2>1, <2>2, <2>3, <2>4, <3>1, <3>2 DEF Asking
  <2>6. ASSUME t \in Users PROVE Replied(t)'
    <3>1. pend[t].id \in pend[t].docs \cap Ids /\ pend[t].booking[pend[t].id].user = t
      BY <2>1, <2>3, <2>6 DEF Keys, Own
    <3>2. pend[t].booking[pend[t].id].status = "confirmed"
      BY <3>1 DEF Inv, Sound, VisitRows
    <3>3. booking' = After(t)
      BY CommitKeeps
    <3>4. booking'[pend[t].id] = pend[t].booking[pend[t].id]
      BY <3>1, <3>3 DEF After
    <3>5. attempt'[t].id = pend[t].id /\ key'[t].state = "claimed"
      BY <2>1, <2>3, <2>4 DEF Request
    <3> QED BY <3>1, <3>2, <3>4, <3>5 DEF Replied, Answer
  <2>7. \A q \in Txns \ {t} : attempt'[q] = attempt[q] /\ key'[q] = key[q] /\ made'[q] = made[q]
    BY <2>1, <2>2
  <2>8. DOMAIN attempt' = Txns /\ DOMAIN key' = Txns /\ DOMAIN made' = Txns
    BY <2>1, <2>2
  <2> QED BY <2>1, <2>5, <2>6, <2>7, <2>8, KeysMove
<1> QED BY <1>1, <1>2

LEMMA ClaimKeys == ASSUME Inv, Keys, Next, NEW t \in Txns, NEW what, Claim(t, what) PROVE Keys'
<1>1. /\ Can("key") /\ attempt[t] = Idle /\ key[t] = NoKey
      /\ key' = [key EXCEPT ![t] = Request("claimed", what, NoId)]
      /\ attempt' = [attempt EXCEPT ![t] = Request("handling", what, NoId)]
      /\ made' = made /\ UNCHANGED fixed
  BY DEF Claim
<1>2. DOMAIN attempt = Txns /\ DOMAIN key = Txns /\ DOMAIN made = Txns /\ Asking(t)
  BY DEF Keys
<1>3. /\ attempt'[t] = Request("handling", what, NoId) /\ key'[t] = Request("claimed", what, NoId)
      /\ made'[t] = 0
  BY <1>1, <1>2 DEF Asking, NoKey, Idle, Request
<1>4. /\ attempt'[t].state = "handling" /\ attempt'[t].place = what /\ attempt'[t].id = NoId
      /\ key'[t].state = "claimed" /\ key'[t].place = what /\ key'[t].id = NoId
  BY <1>3 DEF Request
<1>5. Asking(t)'
  BY <1>1, <1>3, <1>4 DEF Asking, Can, fixed
<1>6. Replied(t)'
  BY <1>4 DEF Replied
<1>7. \A q \in Txns \ {t} : attempt'[q] = attempt[q] /\ key'[q] = key[q] /\ made'[q] = made[q]
  BY <1>1
<1>8. DOMAIN attempt' = Txns /\ DOMAIN key' = Txns /\ DOMAIN made' = Txns
  BY <1>1, <1>2
<1> QED BY <1>1, <1>5, <1>6, <1>7, <1>8, KeysMove

LEMMA CompleteKeys == ASSUME Inv, Keys, Next, NEW t \in Txns, Complete(t) PROVE Keys'
<1>1. /\ attempt[t].state = "done"
      /\ key' = [key EXCEPT ![t] =
            IF @.state = "claimed" THEN Request("completed", attempt[t].place, attempt[t].id) ELSE @]
      /\ attempt' = [attempt EXCEPT ![t] = Idle]
      /\ made' = made /\ UNCHANGED fixed
  BY DEF Complete, Handled
<1>2. DOMAIN attempt = Txns /\ DOMAIN key = Txns /\ DOMAIN made = Txns /\ Asking(t)
  BY DEF Keys
<1>3. key[t].state = "claimed" /\ made[t] = 1
  BY <1>1, <1>2 DEF Asking
<1>4. /\ attempt'[t] = Idle /\ key'[t] = Request("completed", attempt[t].place, attempt[t].id)
      /\ made'[t] = 1
  BY <1>1, <1>2, <1>3
<1>5. /\ attempt'[t].state = "idle" /\ attempt'[t] = Request(attempt'[t].state, attempt'[t].place, attempt'[t].id)
      /\ key'[t].state = "completed" /\ key'[t] = Request(key'[t].state, key'[t].place, key'[t].id)
      /\ key'[t].id = attempt[t].id
  BY <1>4 DEF Request, Idle
<1>6. Asking(t)'
  BY <1>4, <1>5 DEF Asking
<1>7. ASSUME t \in Users PROVE Replied(t)'
  <2>1. Answer(t, attempt[t].id) /\ Lasts
    BY <1>1, <1>7, StepLasts DEF Keys, Replied
  <2> QED BY <1>5, <2>1 DEF Replied, Answer, Lasts
<1>8. \A q \in Txns \ {t} : attempt'[q] = attempt[q] /\ key'[q] = key[q] /\ made'[q] = made[q]
  BY <1>1
<1>9. DOMAIN attempt' = Txns /\ DOMAIN key' = Txns /\ DOMAIN made' = Txns
  BY <1>1, <1>2
<1> QED BY <1>1, <1>6, <1>7, <1>8, <1>9, KeysMove

\* The key is given back, or has expired.
LEMMA GiveKeys ==
  ASSUME Inv, Keys, Next, NEW t \in Txns, GiveKeyBack(t) \/ ExpireKey(t)
  PROVE  Keys'
<1>1. /\ key' = [key EXCEPT ![t] = NoKey] /\ made' = [made EXCEPT ![t] = 0]
      /\ attempt' = [attempt EXCEPT ![t] = Idle] \/ (attempt' = attempt /\ attempt[t] = Idle)
      /\ UNCHANGED fixed
  BY DEF GiveKeyBack, ExpireKey
<1>2. DOMAIN attempt = Txns /\ DOMAIN key = Txns /\ DOMAIN made = Txns
  BY DEF Keys
<1>3. attempt'[t] = Idle /\ key'[t] = NoKey /\ made'[t] = 0
  BY <1>1, <1>2
<1>4. /\ attempt'[t].state = "idle" /\ attempt'[t] = Request(attempt'[t].state, attempt'[t].place, attempt'[t].id)
      /\ key'[t].state = "idle" /\ key'[t] = Request(key'[t].state, key'[t].place, key'[t].id)
  BY <1>3 DEF Request, Idle, NoKey
<1>5. Asking(t)'
  BY <1>3, <1>4 DEF Asking
<1>6. Replied(t)'
  BY <1>4 DEF Replied
<1>7. \A q \in Txns \ {t} : attempt'[q] = attempt[q] /\ key'[q] = key[q] /\ made'[q] = made[q]
  BY <1>1, <1>2
<1>8. DOMAIN attempt' = Txns /\ DOMAIN key' = Txns /\ DOMAIN made' = Txns
  BY <1>1, <1>2
<1> QED BY <1>1, <1>5, <1>6, <1>7, <1>8, KeysMove

\* The handler throws, or its process dies: the key stays claimed.
LEMMA LeaveKeys ==
  ASSUME Inv, Keys, Next, NEW t \in Txns, Refuse(t) \/ Crash(t)
  PROVE  Keys'
<1>1. /\ attempt' = [attempt EXCEPT ![t].state = "failed"] \/ attempt' = [attempt EXCEPT ![t] = Idle]
      /\ attempt[t] # Idle /\ key' = key /\ made' = made /\ UNCHANGED fixed
  BY DEF Refuse, Crash, Idle, Request
<1>2. DOMAIN attempt = Txns /\ DOMAIN key = Txns /\ DOMAIN made = Txns /\ Asking(t)
  BY DEF Keys
<1>3. attempt[t].state # "idle" /\ attempt[t] = Request(attempt[t].state, attempt[t].place, attempt[t].id)
      /\ Can("key") /\ key[t].state = "claimed"
  BY <1>1, <1>2 DEF Asking
<1>4. /\ attempt'[t].state \in {"failed", "idle"}
      /\ attempt'[t] = Request(attempt'[t].state, attempt'[t].place, attempt'[t].id)
      /\ attempt'[t].state = "idle" => attempt'[t] = Idle
  BY <1>1, <1>2, <1>3 DEF Request, Idle
<1>5. Asking(t)'
  BY <1>1, <1>2, <1>3, <1>4 DEF Asking, Can, fixed
<1>6. Replied(t)'
  BY <1>1, <1>3, <1>4 DEF Replied
<1>7. \A q \in Txns \ {t} : attempt'[q] = attempt[q] /\ key'[q] = key[q] /\ made'[q] = made[q]
  BY <1>1, <1>2
<1>8. DOMAIN attempt' = Txns /\ DOMAIN key' = Txns /\ DOMAIN made' = Txns
  BY <1>1, <1>2
<1> QED BY <1>1, <1>5, <1>6, <1>7, <1>8, KeysMove

LEMMA StepKeys == ASSUME Inv, Keys, Next PROVE Keys'
<1>t. Users \subseteq Txns /\ Staff \subseteq Txns
  BY DEF Txns
<1>1. CASE \E t \in Txns : Commit(t)
  BY <1>1, CommitKeys
<1>2. CASE \E t \in Txns : Refuse(t) \/ Complete(t) \/ GiveKeyBack(t) \/ Crash(t) \/ ExpireKey(t)
  BY <1>2, CompleteKeys, GiveKeys, LeaveKeys
<1>3. CASE \/ \E u \in Users : \E place \in Places : Submit(u, place)
           \/ \E t \in Staff : \E n \in Shifts : SubmitShift(t, n)
  BY <1>3, <1>t, ClaimKeys DEF Submit, SubmitShift
<1>4. CASE \/ \E t \in Txns : Abort(t)
           \/ \E b \in Ids : Cancel(b) \/ CheckIn(b)
  BY <1>4, KeysStay DEF Abort, Cancel, CheckIn
<1>5. CASE \E t, u \in Users : \E b \in Ids : \E place \in Places : Book(t, u, b, place)
  BY <1>5, KeysStay DEF Book
<1>6. CASE \E t \in Txns : \E b \in Ids : \E place \in Places : Move(t, b, place)
  BY <1>6, KeysStay DEF Move
<1>7. CASE \/ \E t \in Staff : \E spec \in Specs : UpdateRange(t, spec)
           \/ \E t \in Staff : RemoveSlot(t) \/ RemoveOption(t)
           \/ \E e \in Schedules : AddOption({e})
           \/ UpdateOption
           \/ \E new \in {{e} : e \in Schedules} \cup {{}} : SetRecurrence(new)
  <2>1. UNCHANGED <<attempt, key, made, fixed>>
    BY <1>7 DEF UpdateRange, RemoveSlot, RemoveOption, AddOption, UpdateOption, SetRecurrence, PutOption
  <2> QED BY <2>1, KeysStay
<1>8. CASE \E t \in Staff : \E times \in TimeSets : UpdateTimes(t, times)
  <2>1. UNCHANGED <<attempt, key, made, fixed>>
    BY <1>8, Zenon DEF UpdateTimes
  <2> QED BY <2>1, KeysStay
<1>9. CASE \E t \in Staff : \E n \in Shifts : ShiftSlot(t, n)
  BY <1>9, KeysStay DEF ShiftSlot
<1>10. CASE RecurrentApply
  BY <1>10, KeysStay DEF RecurrentApply
<1>11. CASE RecurrentStart \/ RecurrentPlan \/ RemindFind \/ RemindEnqueue \/ RemindMark
            \/ NoShowFind \/ NoShowMark \/ JobCrash \/ Tick
  <2>1. UNCHANGED <<attempt, key, made, fixed>>
    BY <1>11 DEF RecurrentStart, RecurrentPlan, RemindFind, RemindEnqueue, RemindMark, NoShowFind,
                 NoShowMark, JobCrash, Tick
  <2> QED BY <2>1, KeysStay
<1> QED BY <1>1, <1>2, <1>3, <1>4, <1>5, <1>6, <1>7, <1>8, <1>9, <1>10, <1>11 DEF Next

LEMMA InitKeys == ASSUME Init PROVE Keys
<1>1. /\ attempt = [t \in Txns |-> Idle] /\ key = [t \in Txns |-> NoKey] /\ made = [t \in Txns |-> 0]
      /\ pend = [t \in Txns |-> NoWork]
  BY DEF Init
<1>2. \A t \in Txns : Asking(t)
  BY <1>1 DEF Asking, Idle, NoKey, Request
<1>3. \A u \in Users : Own(u) /\ Replied(u)
  BY <1>1 DEF Own, Replied, Txns, NoWork, Idle, NoKey, Request
<1> QED BY <1>1, <1>2, <1>3 DEF Keys

LEMMA KeysInvariant == Spec => [](Inv /\ Keys)
<1>1. Init => Inv /\ Keys
  BY InitKeeps, InitKeys
<1>2. Inv /\ Keys /\ [Next]_vars => (Inv /\ Keys)'
  <2> SUFFICES ASSUME Inv, Keys, [Next]_vars PROVE Inv' /\ Keys'
    OBVIOUS
  <2>1. CASE Next
    BY <2>1, StepKeeps, StepKeys
  <2>2. CASE UNCHANGED vars
    <3>1. Inv'
      BY <2>2, RestKeeps DEF vars, fixed
    <3>2. UNCHANGED <<booking, pend, attempt, key, made, fixed>>
      BY <2>2 DEF vars, fixed
    <3>3. \A t \in Txns : Asking(t)'
      BY <3>2 DEF Keys, Asking, Can, fixed
    <3>4. \A u \in Users : Own(u)' /\ Replied(u)'
      BY <3>2, OwnStays, RepliedStays, SameLasts DEF Keys
    <3> QED BY <3>1, <3>2, <3>3, <3>4 DEF Keys
  <2> QED BY <2>1, <2>2
<1> QED BY <1>1, <1>2, PTL DEF Spec

(***************************************************************************)
(* A retry with the same Idempotency-Key is safe, whatever is lost or      *)
(* crashes: what is replayed is a booking the client made, no client has   *)
(* two active bookings of one place, and a key stands for at most one      *)
(* transaction, a completed one for exactly one.                           *)
(***************************************************************************)
THEOREM RetriesStaySafe == Spec => []RetriesAreSafe
<1>1. Inv => BookedOnce
  <2> SUFFICES ASSUME Inv, NEW b \in Held(booking), NEW c \in Held(booking),
                      b # c, booking[b].user = booking[c].user
               PROVE  booking[b].place # booking[c].place
    BY DEF BookedOnce
  <2>1. <<booking[b].user, booking[b].place.from>> # <<booking[c].user, booking[c].place.from>>
    BY DEF Inv, Now, Good, IndexHolds
  <2> QED BY <2>1
<1>2. Keys => ReplayIsTrue
  BY DEF Keys, Replied, Answer, ReplayIsTrue
<1>3. Keys => OncePerKey
  BY DEF Keys, Asking, OncePerKey
<1>4. Inv /\ Keys => RetriesAreSafe
  BY <1>1, <1>2, <1>3 DEF RetriesAreSafe
<1> QED BY <1>4, KeysInvariant, PTL

-----------------------------------------------------------------------------
(* Reminders. *)

\* The bookings a run of booking_reminders has listed, and those of them it
\* has still to tell.
Listed == IF job.name = "booking_reminders" THEN job.due ELSE {}
Untold == IF job.name = "booking_reminders" THEN job.left ELSE {}

Reminding ==
    job.name = "booking_reminders" =>
        /\ Can("booking_reminders")
        /\ job = [name |-> "booking_reminders", step |-> job.step, at |-> job.at,
                  due |-> job.due, left |-> job.left]
        /\ job.due \subseteq Ids /\ job.left \subseteq job.due
        /\ job.step # "enqueue" => job.due = {}

\* Nobody but the job marks a booking.
Marks ==
    \A t \in Txns : \A b \in pend[t].docs \cap Ids : pend[t].booking[b].sent = booking[b].sent

Tells(b) ==
    /\ told[b] \in Nat /\ told[b] <= 1 + crashes
    /\ b \in Untold => told[b] <= crashes
    /\ booking[b].status = "confirmed" /\ ~booking[b].sent /\ b \notin Listed \ Untold => told[b] <= crashes
    /\ booking[b].status = "none" => told[b] = 0 /\ b \notin Listed
    /\ booking[b].sent \/ b \in Listed \ Untold => told[b] >= 1
    /\ ~Can("booking_reminders") => told[b] = 0

Told ==
    /\ ~(Can("shift") /\ Can("booking_reminders"))
    /\ DOMAIN told = Ids /\ crashes \in Nat
    /\ Reminding /\ Marks
    /\ \A b \in Ids : Tells(b)

\* What the others may do to a booking: make it, end it, or move it unmarked.
Calm(b) ==
    \/ booking'[b] = booking[b]
    \/ booking'[b].status \notin {"none", "confirmed"} /\ ~booking'[b].sent
    \/ /\ booking[b].status \in {"none", "confirmed"}
       /\ booking'[b].status = "confirmed" /\ booking'[b].sent = booking[b].sent

LEMMA ToldStays ==
  ASSUME Told, UNCHANGED <<told, crashes, fixed>>, Listed' = Listed, Untold' = Untold,
         Reminding', Marks', \A b \in Ids : Calm(b)
  PROVE  Told'
<1>1. ASSUME NEW b \in Ids PROVE Tells(b)'
  <2>1. Tells(b) /\ crashes \in Nat
    BY DEF Told
  <2>2. Calm(b)
    OBVIOUS
  <2>3. told' = told /\ crashes' = crashes /\ Listed' = Listed /\ Untold' = Untold /\ Can("booking_reminders")' = Can("booking_reminders")
    BY DEF Can, fixed
  <2>4. CASE booking'[b] = booking[b]
    BY <2>1, <2>3, <2>4 DEF Tells
  <2>5. CASE booking'[b].status \notin {"none", "confirmed"} /\ ~booking'[b].sent
    BY <2>1, <2>3, <2>5 DEF Tells
  <2>6. CASE /\ booking[b].status \in {"none", "confirmed"}
             /\ booking'[b].status = "confirmed" /\ booking'[b].sent = booking[b].sent
    BY <2>1, <2>3, <2>6 DEF Tells
  <2> QED BY <2>2, <2>4, <2>5, <2>6 DEF Calm
<1> QED BY <1>1 DEF Told, Can, fixed

\* The job stays as it is.
LEMMA SameJob ==
  ASSUME Told, UNCHANGED <<told, crashes, job, fixed>>, Marks', \A b \in Ids : Calm(b)
  PROVE  Told'
<1>1. Listed' = Listed /\ Untold' = Untold /\ Reminding'
  BY DEF Told, Listed, Untold, Reminding, Can, fixed
<1> QED BY <1>1, ToldStays

\* Neither before nor after the step a run of the reminders is under way.
LEMMA OtherJob ==
  ASSUME Told, UNCHANGED <<told, crashes, fixed>>, job.name # "booking_reminders",
         job'.name # "booking_reminders", Marks', \A b \in Ids : Calm(b)
  PROVE  Told'
<1>1. Listed' = Listed /\ Untold' = Untold /\ Reminding'
  BY DEF Listed, Untold, Reminding
<1> QED BY <1>1, ToldStays

LEMMA MarksStay ==
  ASSUME Marks,
         \A t \in Txns : \/ pend'[t] = NoWork
                         \/ /\ pend'[t] = pend[t]
                            /\ \A b \in pend[t].docs \cap Ids : booking'[b].sent = booking[b].sent
  PROVE  Marks'
BY DEF Marks, NoWork

LEMMA MarksPut ==
  ASSUME Marks, NEW written, pend' = Unhit(written), \A b \in Ids \ written : booking'[b] = booking[b]
  PROVE  Marks'
<1> SUFFICES ASSUME NEW t \in Txns
             PROVE  \/ pend'[t] = NoWork
                    \/ /\ pend'[t] = pend[t]
                       /\ \A b \in pend[t].docs \cap Ids : booking'[b].sent = booking[b].sent
  BY MarksStay
<1>1. CASE pend[t].docs \cap written = {}
  <2>1. pend'[t] = pend[t]
    BY <1>1 DEF Unhit
  <2>2. \A b \in pend[t].docs \cap Ids : booking'[b] = booking[b]
    BY <1>1
  <2> QED BY <2>1, <2>2
<1>2. CASE pend[t].docs \cap written # {}
  BY <1>2 DEF Unhit
<1> QED BY <1>1, <1>2

LEMMA MarksCompute ==
  ASSUME Inv, Marks, NEW t \in Txns, NEW written, NEW s, NEW o, NEW rows, NEW id,
         Compute(t, written, s, o, rows, id), booking' = booking,
         \A b \in written \cap Ids : rows[b].sent = booking[b].sent
  PROVE  Marks'
<1>1. /\ DOMAIN pend = Txns
      /\ pend'[t].docs = written /\ pend'[t].booking = [c \in written \cap Ids |-> rows[c]]
      /\ \A q \in Txns \ {t} : pend'[q] = pend[q]
  BY DEF Compute, Inv
<1>2. \A b \in written \cap Ids : pend'[t].booking[b] = rows[b]
  BY <1>1
<1> QED BY <1>1, <1>2 DEF Marks

LEMMA AllCalm == ASSUME booking' = booking, NEW b \in Ids PROVE Calm(b)
BY DEF Calm

LEMMA CommitTold == ASSUME Inv, Told, NEW t \in Txns, Commit(t) PROVE Told'
<1>1. booking' = After(t) /\ Sound(t) /\ Marks
  BY CommitKeeps DEF Inv, Told
<1>2. pend' = Unhit(pend[t].docs) /\ UNCHANGED <<told, crashes, job, fixed>>
  BY DEF Commit, Put
<1>3. \A b \in Ids \ pend[t].docs : booking'[b] = booking[b]
  BY <1>1 DEF After
<1>4. ASSUME NEW b \in Ids PROVE Calm(b)
  <2>1. CASE b \in pend[t].docs
    <3>1. booking'[b] = pend[t].booking[b]
      BY <1>1, <2>1 DEF After
    <3>2. /\ pend[t].booking[b] \in VisitRows /\ booking[b].status \in {"none", "confirmed"}
          /\ pend[t].booking[b].sent = booking[b].sent
      BY <1>1, <2>1 DEF Sound, Marks
    <3>3. pend[t].booking[b].status = "confirmed"
      BY <3>2 DEF VisitRows
    <3> QED BY <3>1, <3>2, <3>3 DEF Calm
  <2>2. CASE b \notin pend[t].docs
    BY <1>3, <2>2 DEF Calm
  <2> QED BY <2>1, <2>2
<1>5. Marks'
  BY <1>1, <1>2, <1>3, MarksPut
<1> QED BY <1>2, <1>4, <1>5, SameJob

LEMMA BookTold ==
  ASSUME Inv, Told, NEW t \in Users, NEW u \in Users, NEW b \in Ids, NEW place \in Places, Book(t, u, b, place)
  PROVE  Told'
<1> DEFINE rows == [booking EXCEPT ![b] = Visit(u, place, FALSE)]
           s == Counted(slot, place)
<1>1. /\ booking[b].status = "none" /\ Compute(t, {b, "slot"}, s, option, rows, b)
      /\ UNCHANGED <<booking, told, crashes, job, fixed>>
  BY DEF Book, Written, docs
<1>2. booking \in Rows /\ "slot" \notin Ids /\ t \in Txns /\ Marks
  BY GoodRows, IdsAssumption DEF Inv, Now, Txns, Told
<1>3. booking[b].sent = FALSE
  BY <1>1, <1>2 DEF Rows, VisitRows, PastRows
<1>4. rows[b].sent = FALSE
  BY <1>2 DEF Rows, Visit
<1> HIDE DEF rows, s
<1>5. \A c \in {b, "slot"} \cap Ids : rows[c].sent = booking[c].sent
  BY <1>2, <1>3, <1>4
<1>6. Marks'
  BY <1>1, <1>2, <1>5, MarksCompute
<1> QED BY <1>1, <1>6, AllCalm, SameJob

LEMMA MoveTold ==
  ASSUME Inv, Told, NEW t \in Txns, NEW b \in Ids, NEW place \in Places, Move(t, b, place)
  PROVE  Told'
<1> DEFINE rows == Moved(booking, b, place)
           s == Counted(Release(slot, booking[b].place), place)
<1>1. /\ booking[b].status = "confirmed" /\ Compute(t, {b, "slot"}, s, option, rows, b)
      /\ UNCHANGED <<booking, told, crashes, job, fixed>>
  BY DEF Move, Written, docs
<1>2. booking \in Rows /\ "slot" \notin Ids /\ Marks
  BY GoodRows, IdsAssumption DEF Inv, Now, Told
<1>3. rows[b].sent = booking[b].sent
  BY <1>1, <1>2, HeldRows DEF Rows, Moved, VisitRows, Held
<1> HIDE DEF rows, s
<1>4. \A c \in {b, "slot"} \cap Ids : rows[c].sent = booking[c].sent
  BY <1>2, <1>3
<1>5. Marks'
  BY <1>1, <1>2, <1>4, MarksCompute
<1> QED BY <1>1, <1>5, AllCalm, SameJob

\* The slot is only moved where nobody is reminded, and nobody is marked.
LEMMA ShiftTold == ASSUME Inv, Told, NEW t \in Txns, NEW n \in Shifts, ShiftSlot(t, n) PROVE Told'
<1>1. Can("shift") /\ booking \in Rows /\ Marks
  BY GoodRows DEF ShiftSlot, Inv, Now, Told
<1>2. \A b \in Ids : ~booking[b].sent
  BY <1>1 DEF Told, Tells
<1> DEFINE rows == MoveMany(booking, n)
<1>3. PICK written, s : Compute(t, written, s, option, rows, NoId)
  BY Zenon DEF ShiftSlot
<1>4. UNCHANGED <<booking, told, crashes, job, fixed>>
  BY DEF ShiftSlot, docs
<1>5. \A b \in Ids : rows[b].sent = booking[b].sent
  <2> SUFFICES ASSUME NEW b \in Ids PROVE rows[b].sent = booking[b].sent
    OBVIOUS
  <2>1. booking[b].sent = FALSE
    BY <1>1, <1>2 DEF Rows, VisitRows, PastRows
  <2>2. CASE b \in Held(booking)
    BY <2>1, <2>2 DEF MoveMany, Visit
  <2>3. CASE b \notin Held(booking)
    BY <2>3 DEF MoveMany
  <2> QED BY <2>2, <2>3
<1> HIDE DEF rows
<1>6. Marks'
  BY <1>1, <1>3, <1>4, <1>5, MarksCompute
<1> QED BY <1>4, <1>6, AllCalm, SameJob

LEMMA StaffTold ==
  ASSUME Inv, Told, NEW t \in Txns, NEW written \in SUBSET Touched, NEW s, NEW o,
         Compute(t, written, s, o, booking, NoId), UNCHANGED <<booking, told, crashes, job, fixed>>
  PROVE  Told'
<1>1. written \cap Ids = {} /\ Marks
  BY IdsAssumption DEF Touched, Told
<1>2. Marks'
  BY <1>1, MarksCompute
<1> QED BY <1>2, AllCalm, SameJob

\* A booking ends, at its client's or the staff's hand.
LEMMA EndCalm ==
  ASSUME Inv, NEW b \in Ids, NEW status \in {"cancelled", "arrived", "no_show"}, NEW u,
         booking' = [booking EXCEPT ![b] = Past(status, u)]
  PROVE  /\ \A c \in Ids : Calm(c)
         /\ \A c \in Ids \ {b} : booking'[c] = booking[c]
<1>1. booking \in Rows
  BY GoodRows DEF Inv, Now
<1>2. booking'[b] = Past(status, u) /\ \A c \in Ids \ {b} : booking'[c] = booking[c]
  BY <1>1 DEF Rows
<1>3. booking'[b].status = status /\ ~booking'[b].sent
  BY <1>2 DEF Past
<1> QED BY <1>2, <1>3 DEF Calm

LEMMA EndTold == ASSUME Inv, Told, NEW b \in Ids, Cancel(b) \/ CheckIn(b) PROVE Told'
<1>1. UNCHANGED <<told, crashes, job, fixed>> /\ Marks
  BY DEF Cancel, CheckIn, Told
<1>2. CASE Cancel(b)
  <2>1. booking' = [booking EXCEPT ![b] = Past("cancelled", NoId)] /\ pend' = Unhit({b, "slot"})
    BY <1>2 DEF Cancel, Put
  <2>2. /\ \A c \in Ids : Calm(c)
        /\ \A c \in Ids \ {b} : booking'[c] = booking[c]
    BY <2>1, EndCalm
  <2>3. Marks'
    BY <1>1, <2>1, <2>2, MarksPut
  <2> QED BY <1>1, <2>2, <2>3, SameJob
<1>3. CASE CheckIn(b)
  <2>1. booking' = [booking EXCEPT ![b] = Past("arrived", booking[b].user)] /\ pend' = Unhit({b})
    BY <1>3 DEF CheckIn, Put
  <2>2. /\ \A c \in Ids : Calm(c)
        /\ \A c \in Ids \ {b} : booking'[c] = booking[c]
    BY <2>1, EndCalm
  <2>3. Marks'
    BY <1>1, <2>1, <2>2, MarksPut
  <2> QED BY <1>1, <2>2, <2>3, SameJob
<1> QED BY <1>2, <1>3

LEMMA NoShowTold == ASSUME Inv, Told, NoShowMark PROVE Told'
<1>1. PICK b \in job.due :
         /\ IF booking[b].status = "confirmed"
            THEN Put({b}, slot, [booking EXCEPT ![b] = Past("no_show", booking[b].user)])
            ELSE UNCHANGED <<docs, pend>>
         /\ job' = IF job.due = {b} THEN NoJob ELSE [job EXCEPT !.due = @ \ {b}]
  BY DEF NoShowMark
<1>2. /\ job.name = "auto_no_show" /\ "name" \in DOMAIN job /\ Marks
      /\ UNCHANGED <<told, crashes, fixed>> /\ booking \in Rows
  BY GoodRows DEF NoShowMark, Inv, Now, Planned, Told
<1>3. job.name # "booking_reminders" /\ job'.name # "booking_reminders"
  BY <1>1, <1>2 DEF NoJob
<1>4. CASE booking[b].status = "confirmed" /\ b \in Ids
  <2>1. booking' = [booking EXCEPT ![b] = Past("no_show", booking[b].user)] /\ pend' = Unhit({b})
    BY <1>1, <1>4 DEF Put
  <2>2. /\ \A c \in Ids : Calm(c)
        /\ \A c \in Ids \ {b} : booking'[c] = booking[c]
    BY <1>4, <2>1, EndCalm
  <2>3. Marks'
    BY <1>2, <2>1, <2>2, MarksPut
  <2> QED BY <1>2, <1>3, <2>2, <2>3, OtherJob
<1>5. CASE booking[b].status = "confirmed" /\ b \notin Ids
  <2>1. booking' = [booking EXCEPT ![b] = Past("no_show", booking[b].user)] /\ pend' = Unhit({b})
    BY <1>1, <1>5 DEF Put
  <2>2. booking' = booking
    BY <1>2, <1>5, <2>1 DEF Rows
  <2>3. Marks'
    BY <1>2, <2>1, <2>2, MarksPut
  <2> QED BY <1>2, <1>3, <2>2, <2>3, AllCalm, OtherJob
<1>6. CASE booking[b].status # "confirmed"
  <2>1. booking' = booking /\ pend' = pend
    BY <1>1, <1>6 DEF docs
  <2>2. Marks'
    BY <1>2, <2>1 DEF Marks
  <2> QED BY <1>2, <1>3, <2>1, <2>2, AllCalm, OtherJob
<1> QED BY <1>4, <1>5, <1>6

LEMMA FindTold == ASSUME Inv, Told, RemindFind PROVE Told'
<1>1. /\ UNCHANGED <<booking, pend, told, crashes, fixed>> /\ Marks /\ crashes \in Nat
      /\ \/ job = NoJob /\ Can("booking_reminders")
         \/ job.name = "booking_reminders" /\ job.step = "find"
  BY DEF RemindFind, docs, Told
<1>2. Can("booking_reminders") /\ Listed = {} /\ Untold = {}
  BY <1>1 DEF Told, Reminding, Listed, Untold, NoJob
<1>3. Marks'
  BY <1>1 DEF Marks
<1>4. PICK at, due : /\ due = DueReminders(at)
                     /\ job' = IF due = {} THEN NoJob
                               ELSE [name |-> "booking_reminders", step |-> "enqueue", at |-> at,
                                     due |-> due, left |-> due]
  BY Zenon DEF RemindFind
<1>5. \A b \in due : b \in Ids /\ booking[b].status = "confirmed" /\ ~booking[b].sent
  BY <1>4 DEF DueReminders, Held
<1>6. Listed' = due /\ Untold' = due
  <2>1. CASE due = {}
    BY <1>4, <2>1 DEF Listed, Untold, NoJob
  <2>2. CASE due # {}
    BY <1>4, <2>2 DEF Listed, Untold
  <2> QED BY <2>1, <2>2
<1>7. Reminding'
  <2>1. CASE due = {}
    BY <1>4, <2>1 DEF Reminding, NoJob
  <2>2. CASE due # {}
    <3>1. job' = [name |-> "booking_reminders", step |-> "enqueue", at |-> at, due |-> due, left |-> due]
      BY <1>4, <2>2
    <3> QED BY <1>1, <1>2, <1>5, <3>1 DEF Reminding, Can, fixed
  <2> QED BY <2>1, <2>2
<1>8. ASSUME NEW b \in Ids PROVE Tells(b)'
  <2>1. Tells(b)
    BY DEF Told
  <2>2. Can("booking_reminders")' = Can("booking_reminders") /\ booking' = booking /\ told' = told /\ crashes' = crashes
    BY <1>1 DEF Can, fixed
  <2>3. CASE b \in due
    <3>1. booking[b].status = "confirmed" /\ ~booking[b].sent /\ told[b] <= crashes /\ told[b] \in Nat
      BY <1>2, <1>5, <2>1, <2>3 DEF Tells
    <3> QED BY <1>1, <1>2, <1>6, <2>2, <2>3, <3>1 DEF Tells
  <2>4. CASE b \notin due
    BY <1>2, <1>6, <2>1, <2>2, <2>4 DEF Tells
  <2> QED BY <2>3, <2>4
<1> QED BY <1>1, <1>3, <1>7, <1>8 DEF Told, Can, fixed

LEMMA EnqueueTold == ASSUME Inv, Told, RemindEnqueue PROVE Told'
<1>1. PICK b \in job.left : /\ told' = [told EXCEPT ![b] = @ + 1]
                            /\ job' = [job EXCEPT !.left = @ \ {b}]
  BY DEF RemindEnqueue
<1>2. /\ job.name = "booking_reminders" /\ job.step = "enqueue"
      /\ UNCHANGED <<booking, pend, crashes, fixed>>
  BY DEF RemindEnqueue, docs
<1>3. /\ job = [name |-> "booking_reminders", step |-> job.step, at |-> job.at,
                due |-> job.due, left |-> job.left]
      /\ job.due \subseteq Ids /\ job.left \subseteq job.due /\ Can("booking_reminders")
      /\ Marks /\ DOMAIN told = Ids /\ crashes \in Nat
  BY <1>2 DEF Told, Reminding
<1>4. job' = [name |-> "booking_reminders", step |-> "enqueue", at |-> job.at,
              due |-> job.due, left |-> job.left \ {b}]
  BY <1>1, <1>2, <1>3
<1>5. /\ Listed = job.due /\ Untold = job.left
      /\ Listed' = job.due /\ Untold' = job.left \ {b}
  BY <1>2, <1>4 DEF Listed, Untold
<1>6. Reminding' /\ Marks'
  BY <1>2, <1>3, <1>4 DEF Reminding, Marks, Can, fixed
<1>7. ASSUME NEW c \in Ids PROVE Tells(c)'
  <2>1. Tells(c)
    BY DEF Told
  <2>2. Can("booking_reminders")' /\ booking' = booking /\ crashes' = crashes
    BY <1>2, <1>3 DEF Can, fixed
  <2>3. CASE c = b
    <3>1. told'[c] = told[c] + 1
      BY <1>1, <1>3, <2>3
    <3>2. c \in Untold /\ c \in Listed /\ c \notin Untold' /\ c \in Listed'
      BY <1>1, <1>3, <1>5, <2>3
    <3>3. told[c] \in Nat /\ told[c] <= crashes /\ booking[c].status # "none"
      BY <2>1, <3>2 DEF Tells
    <3> QED BY <1>3, <2>2, <3>1, <3>2, <3>3 DEF Tells
  <2>4. CASE c # b
    <3>1. told'[c] = told[c]
      BY <1>1, <2>4, <1>3
    <3>2. (c \in Untold' <=> c \in Untold) /\ (c \in Listed' <=> c \in Listed)
      BY <1>5, <2>4
    <3> QED BY <1>3, <2>1, <2>2, <3>1, <3>2 DEF Tells
  <2> QED BY <2>3, <2>4
<1>8. DOMAIN told' = Ids
  BY <1>1, <1>3
<1> QED BY <1>2, <1>3, <1>6, <1>7, <1>8 DEF Told, Can, fixed

\* All listed were told, and those still active are marked.
LEMMA MarkTold == ASSUME Inv, Told, RemindMark PROVE Told'
<1>1. /\ job.name = "booking_reminders" /\ job.step = "enqueue" /\ job.left = {}
      /\ booking' = Marked(job.due) /\ pend' = Unhit(job.due)
      /\ job' = [job EXCEPT !.step = "find", !.due = {}, !.left = {}]
      /\ UNCHANGED <<told, crashes, fixed>>
  BY DEF RemindMark, AllEnqueued, Put
<1>2. /\ job = [name |-> "booking_reminders", step |-> job.step, at |-> job.at,
                due |-> job.due, left |-> job.left]
      /\ job.due \subseteq Ids /\ Can("booking_reminders")
      /\ Marks /\ DOMAIN told = Ids /\ crashes \in Nat
  BY <1>1 DEF Told, Reminding
<1>3. job' = [name |-> "booking_reminders", step |-> "find", at |-> job.at, due |-> {}, left |-> {}]
  BY <1>1, <1>2
<1>4. Listed = job.due /\ Untold = {} /\ Listed' = {} /\ Untold' = {}
  BY <1>1, <1>3 DEF Listed, Untold
<1>5. Reminding'
  BY <1>1, <1>2, <1>3 DEF Reminding, Can, fixed
<1>6. \A b \in Ids \ job.due : booking'[b] = booking[b]
  BY <1>1 DEF Marked
<1>7. Marks'
  BY <1>1, <1>2, <1>6, MarksPut
<1>8. ASSUME NEW b \in Ids PROVE Tells(b)'
  <2>1. Tells(b)
    BY DEF Told
  <2>2. Can("booking_reminders")' /\ told' = told /\ crashes' = crashes
    BY <1>1, <1>2 DEF Can, fixed
  <2>3. CASE b \in job.due /\ booking[b].status = "confirmed"
    <3>1. booking[b] \in VisitRows
      BY <2>3, GoodRows, HeldRows DEF Inv, Now, Held
    <3>2. booking'[b] = [booking[b] EXCEPT !.sent = TRUE]
      BY <1>1, <2>3 DEF Marked
    <3>3. booking'[b].sent /\ booking'[b].status = "confirmed"
      BY <3>1, <3>2 DEF VisitRows
    <3>4. told[b] >= 1 /\ told[b] \in Nat /\ told[b] <= 1 + crashes
      BY <1>4, <2>1, <2>3 DEF Tells
    <3> QED BY <1>4, <2>2, <3>3, <3>4 DEF Tells
  <2>4. CASE b \in job.due /\ booking[b].status # "confirmed"
    <3>1. booking'[b] = booking[b]
      BY <1>1, <2>4 DEF Marked
    <3> QED BY <1>4, <2>1, <2>2, <2>4, <3>1 DEF Tells
  <2>5. CASE b \notin job.due
    <3>1. booking'[b] = booking[b]
      BY <1>6, <2>5
    <3> QED BY <1>4, <2>1, <2>2, <2>5, <3>1 DEF Tells
  <2> QED BY <2>3, <2>4, <2>5
<1> QED BY <1>1, <1>2, <1>5, <1>7, <1>8 DEF Told, Can, fixed

\* A run of the reminders that dies leaves those it told unmarked.
LEMMA CrashTold == ASSUME Inv, Told, JobCrash PROVE Told'
<1>1. /\ UNCHANGED <<booking, pend, told, fixed>> /\ job' = NoJob
      /\ crashes' = crashes + (IF job.name = "booking_reminders" THEN 1 ELSE 0)
      /\ Marks /\ crashes \in Nat /\ DOMAIN told = Ids
  BY DEF JobCrash, docs, Told
<1>2. Listed' = {} /\ Untold' = {} /\ Reminding'
  BY <1>1 DEF Listed, Untold, Reminding, NoJob
<1>3. Marks'
  BY <1>1 DEF Marks
<1>4. ASSUME NEW b \in Ids PROVE Tells(b)'
  <2>1. Tells(b)
    BY DEF Told
  <2>2. Can("booking_reminders")' = Can("booking_reminders") /\ booking' = booking /\ told' = told
    BY <1>1 DEF Can, fixed
  <2>3. CASE job.name = "booking_reminders"
    <3>1. crashes' = crashes + 1
      BY <1>1, <2>3
    <3> QED BY <1>1, <1>2, <2>1, <2>2, <3>1 DEF Tells
  <2>4. CASE job.name # "booking_reminders"
    <3>1. crashes' = crashes /\ Listed = {} /\ Untold = {}
      BY <1>1, <2>4 DEF Listed, Untold
    <3> QED BY <1>1, <1>2, <2>1, <2>2, <3>1 DEF Tells
  <2> QED BY <2>3, <2>4
<1>5. crashes' \in Nat /\ DOMAIN told' = Ids
  BY <1>1
<1> QED BY <1>1, <1>2, <1>3, <1>4, <1>5 DEF Told, Can, fixed

\* The steps that write no booking, of the requests, the option and the clock.
LEMMA QuietTold ==
  ASSUME Inv, Told, UNCHANGED <<booking, told, crashes, job, fixed>>,
         \/ pend' = pend
         \/ \E t \in Txns : pend' = [pend EXCEPT ![t] = NoWork]
         \/ \E written : pend' = Unhit(written)
  PROVE  Told'
<1>1. Marks /\ DOMAIN pend = Txns
  BY DEF Told, Inv
<1>2. Marks'
  <2>1. CASE pend' = pend
    BY <1>1, <2>1 DEF Marks
  <2>2. CASE \E t \in Txns : pend' = [pend EXCEPT ![t] = NoWork]
    BY <1>1, <2>2, MarksStay
  <2>3. CASE \E written : pend' = Unhit(written)
    BY <1>1, <2>3, MarksPut
  <2> QED BY <2>1, <2>2, <2>3
<1> QED BY <1>2, AllCalm, SameJob

\* recurrent_slots, and the listing of auto_no_show.
LEMMA JobsTold ==
  ASSUME Inv, Told, RecurrentStart \/ RecurrentPlan \/ RecurrentApply \/ NoShowFind
  PROVE  Told'
<1>1. UNCHANGED <<booking, told, crashes, fixed>> /\ Marks /\ DOMAIN pend = Txns /\ "name" \in DOMAIN job
  BY DEF RecurrentStart, RecurrentPlan, RecurrentApply, NoShowFind, docs, Put, Told, Inv, Planned
<1>2. pend' = pend \/ \E written : pend' = Unhit(written)
  BY DEF RecurrentStart, RecurrentPlan, RecurrentApply, NoShowFind, Put
<1>3. job.name # "booking_reminders" /\ job'.name # "booking_reminders"
  <2>1. CASE RecurrentStart
    BY <2>1 DEF RecurrentStart, NoJob
  <2>2. CASE RecurrentPlan
    <3>1. job.name = "recurrent_slots" /\ (job' = NoJob \/ \E ops : job' = [job EXCEPT !.step = "apply", !.ops = ops])
      BY <2>2, Zenon DEF RecurrentPlan
    <3>2. job = [name |-> "recurrent_slots", step |-> job.step, entries |-> job.entries, ops |-> job.ops]
      BY <3>1 DEF Inv, Planned
    <3>3. ASSUME NEW ops, job' = [job EXCEPT !.step = "apply", !.ops = ops]
          PROVE  job'.name = "recurrent_slots"
      BY <3>2, <3>3
    <3>4. job'.name \in {"none", "recurrent_slots"}
      <4>1. CASE job' = NoJob
        BY <4>1 DEF NoJob
      <4>2. CASE \E ops : job' = [job EXCEPT !.step = "apply", !.ops = ops]
        BY <3>3, <4>2, Zenon
      <4> QED BY <3>1, <4>1, <4>2
    <3> QED BY <3>1, <3>4
  <2>3. CASE RecurrentApply
    BY <1>1, <2>3 DEF RecurrentApply, NoJob
  <2>4. CASE NoShowFind
    BY <2>4 DEF NoShowFind, NoJob
  <2> QED BY <2>1, <2>2, <2>3, <2>4
<1>4. Marks'
  <2>1. CASE pend' = pend
    BY <1>1, <2>1 DEF Marks
  <2>2. CASE \E written : pend' = Unhit(written)
    BY <1>1, <2>2, MarksPut
  <2> QED BY <1>2, <2>1, <2>2
<1> QED BY <1>1, <1>3, <1>4, AllCalm, OtherJob

LEMMA StepTold == ASSUME Inv, Told, Next PROVE Told'
<1>t. Users \subseteq Txns /\ Staff \subseteq Txns
  BY DEF Txns
<1>1. CASE \E t \in Txns : Commit(t)
  BY <1>1, CommitTold
<1>2. CASE \/ \E t \in Txns : Abort(t) \/ Refuse(t) \/ Complete(t) \/ GiveKeyBack(t) \/ Crash(t) \/ ExpireKey(t)
           \/ \E u \in Users : \E place \in Places : Submit(u, place)
           \/ \E t \in Staff : \E n \in Shifts : SubmitShift(t, n)
           \/ Tick
  <2>1. UNCHANGED <<booking, told, crashes, job, fixed>>
    BY <1>2 DEF Abort, Refuse, Complete, GiveKeyBack, Crash, ExpireKey, Submit, SubmitShift, Claim, Tick, docs
  <2>2. pend' = pend \/ \E t \in Txns : pend' = [pend EXCEPT ![t] = NoWork]
    BY <1>2 DEF Abort, Refuse, Complete, GiveKeyBack, Crash, ExpireKey, Submit, SubmitShift, Claim, Tick
  <2> QED BY <2>1, <2>2, QuietTold
<1>3. CASE \/ \E e \in Schedules : AddOption({e})
           \/ UpdateOption
           \/ \E new \in {{e} : e \in Schedules} \cup {{}} : SetRecurrence(new)
  <2>1. UNCHANGED <<booking, told, crashes, job, fixed>> /\ pend' = Unhit({"service"})
    BY <1>3 DEF AddOption, UpdateOption, SetRecurrence, PutOption, docs
  <2> QED BY <2>1, QuietTold
<1>4. CASE \E t, u \in Users : \E b \in Ids : \E place \in Places : Book(t, u, b, place)
  BY <1>4, BookTold
<1>5. CASE \E t \in Txns : \E b \in Ids : \E place \in Places : Move(t, b, place)
  BY <1>5, MoveTold
<1>6. CASE \E b \in Ids : Cancel(b) \/ CheckIn(b)
  BY <1>6, EndTold
<1>7. CASE \/ \E t \in Staff : \E spec \in Specs : UpdateRange(t, spec)
           \/ \E t \in Staff : \E times \in TimeSets : UpdateTimes(t, times)
           \/ \E t \in Staff : RemoveSlot(t)
  <2>1. PICK t \in Staff : (\E spec \in Specs : UpdateRange(t, spec)) \/ (\E times \in TimeSets : UpdateTimes(t, times))
                           \/ RemoveSlot(t)
    BY <1>7
  <2>2. \E s, o : Compute(t, Touched, s, o, booking, NoId)
    BY <2>1, Zenon DEF UpdateRange, UpdateTimes, RemoveSlot
  <2>3. UNCHANGED <<booking, told, crashes, job, fixed>>
    BY <2>1, Zenon DEF UpdateRange, UpdateTimes, RemoveSlot, docs
  <2> QED BY <1>t, <2>2, <2>3, StaffTold
<1>8. CASE \E t \in Staff : RemoveOption(t)
  <2>1. PICK t \in Staff : RemoveOption(t)
    BY <1>8
  <2>2. /\ Compute(t, {"service"} \cup (IF slot.exists THEN {"slot"} ELSE {}), NoSlot, NoOption, booking, NoId)
        /\ UNCHANGED <<booking, told, crashes, job, fixed>>
    BY <2>1 DEF RemoveOption, docs
  <2>3. {"service"} \cup (IF slot.exists THEN {"slot"} ELSE {}) \in SUBSET Touched
    BY DEF Touched
  <2> QED BY <1>t, <2>2, <2>3, StaffTold
<1>9. CASE \E t \in Staff : \E n \in Shifts : ShiftSlot(t, n)
  BY <1>9, <1>t, ShiftTold
<1>10. CASE RecurrentStart \/ RecurrentPlan \/ RecurrentApply \/ NoShowFind
  BY <1>10, JobsTold
<1>11. CASE RemindFind \/ RemindEnqueue \/ RemindMark \/ JobCrash
  BY <1>11, FindTold, EnqueueTold, MarkTold, CrashTold
<1>12. CASE NoShowMark
  BY <1>12, NoShowTold
<1> QED BY <1>1, <1>2, <1>3, <1>4, <1>5, <1>6, <1>7, <1>8, <1>9, <1>10, <1>11, <1>12 DEF Next

LEMMA InitTold == ASSUME Init, ~(Can("shift") /\ Can("booking_reminders")) PROVE Told
<1>1. /\ booking = [b \in Ids |-> Past("none", NoId)] /\ pend = [t \in Txns |-> NoWork]
      /\ told = [b \in Ids |-> 0] /\ crashes = 0 /\ job = NoJob
  BY DEF Init
<1>2. Reminding /\ Listed = {} /\ Untold = {}
  BY <1>1 DEF Reminding, Listed, Untold, NoJob
<1>3. Marks
  BY <1>1 DEF Marks, NoWork
<1>4. \A b \in Ids : Tells(b)
  BY <1>1, <1>2 DEF Tells, Past
<1> QED BY <1>1, <1>2, <1>3, <1>4 DEF Told

(***************************************************************************)
(* However the runs of booking_reminders die and the bookings are made,    *)
(* moved, cancelled and checked in meanwhile: a booking marked reminded    *)
(* was told, and none is told more often than once and once more for each  *)
(* run that died.  (The staff do not move the slot: a slot that is moved   *)
(* is announced anew, which is meant.)                                     *)
(***************************************************************************)
THEOREM RemindersComeOnce == Spec /\ ~(Can("shift") /\ Can("booking_reminders")) => []ToldOnce
<1>1. Init /\ ~(Can("shift") /\ Can("booking_reminders")) => Inv /\ Told
  BY InitKeeps, InitTold
<1>2. Inv /\ Told /\ [Next]_vars => Inv' /\ Told'
  <2> SUFFICES ASSUME Inv, Told, [Next]_vars PROVE Inv' /\ Told'
    OBVIOUS
  <2>1. CASE Next
    BY <2>1, StepKeeps, StepTold
  <2>2. CASE UNCHANGED vars
    <3>1. Inv'
      BY <2>2, RestKeeps DEF vars, fixed
    <3>2. UNCHANGED <<booking, pend, told, crashes, job, fixed>>
      BY <2>2 DEF vars, fixed
    <3> QED BY <3>1, <3>2, QuietTold
  <2> QED BY <2>1, <2>2
<1>3. Told => ToldOnce
  <2> SUFFICES ASSUME Told, NEW b \in Ids PROVE (booking[b].sent => told[b] >= 1) /\ told[b] <= 1 + crashes
    BY DEF ToldOnce
  <2> QED BY DEF Told, Tells
<1> QED BY <1>1, <1>2, <1>3, PTL DEF Spec

-----------------------------------------------------------------------------
(* Nobody is stranded. *)

\* What the theorem asks of a behaviour: recurrent_slots does not race with
\* the removal of the option, nor, of times, with the staff (both races
\* strand bookings), and a slot with times is not moved (the renaming of its
\* times is a recursion over them, which the provers cannot follow).
Undisturbed ==
    /\ ~(Can("option") /\ Can("recurrent_slots"))
    /\ kind # "time_range" => ~Can("shift") /\ ~(Can("times") /\ Can("recurrent_slots"))

Taking(rows, x) == {b \in Held(rows) : rows[b].place.from = x}

\* Each time of the slot has one counter, which covers its bookings.
Entered(s, rows) ==
    /\ \A x \in DOMAIN s.entries :
          /\ DOMAIN s.entries[x] = {1} /\ s.entries[x][1] \in Nat
          /\ Cardinality(Taking(rows, x)) <= s.entries[x][1]
    /\ \A b \in Held(rows) : s.exists /\ rows[b].place.from \in DOMAIN s.entries

Stands(s, o, rows) ==
    /\ s.exists => o.exists
    /\ ~Can("option") => o.exists
    /\ kind # "time_range" => Entered(s, rows)

\* What the commit of t would leave stands.  An option is removed alone only
\* if it had no slot, and, while the job runs, the slot keeps its times.
Steady(t) ==
    /\ Stands(AfterSlot(t), AfterOption(t), After(t))
    /\ "service" \in pend[t].docs /\ "slot" \notin pend[t].docs => Can("option") /\ ~slot.exists
    /\ kind # "time_range" /\ Can("recurrent_slots") /\ "slot" \in pend[t].docs /\ pend[t].slot.exists =>
          DOMAIN pend[t].slot.entries = DOMAIN slot.entries

\* A time is pushed once, and only while the slot does not have it.
Schedule ==
    job.name = "recurrent_slots" =>
        /\ Can("recurrent_slots")
        /\ \A e, f \in job.entries : e = f
        /\ kind # "time_range" => \A op \in job.ops :
              /\ op.op = "addTimes" => ~slot.exists /\ \A p \in job.ops : p = op
              /\ op.op = "pushTimes" =>
                    /\ slot.exists => op.times \cap DOMAIN slot.entries = {}
                    /\ \A p \in job.ops : p.op = "pushTimes" => p = op

Settled ==
    /\ Undisturbed
    /\ Stands(slot, option, booking)
    /\ \A t \in Txns : Steady(t)
    /\ Schedule

-----------------------------------------------------------------------------
(* The counters of a slot with times. *)

LEMMA EnteredMilder ==
  ASSUME NEW s, NEW rows, NEW new, Entered(s, rows), Milder(rows, new)
  PROVE  Entered(s, new)
<1>1. Held(new) \subseteq Held(rows) /\ Held(rows) \subseteq Ids
  BY DEF Milder, Held
<1>2. \A b \in Held(new) : new[b].place = rows[b].place
  BY DEF Milder, Held
<1>3. ASSUME NEW x \in DOMAIN s.entries
      PROVE  Cardinality(Taking(new, x)) <= s.entries[x][1]
  <2>1. Taking(new, x) \subseteq Taking(rows, x) /\ Taking(rows, x) \subseteq Ids
    BY <1>1, <1>2 DEF Taking
  <2>2. /\ Cardinality(Taking(new, x)) \in Nat /\ Cardinality(Taking(rows, x)) \in Nat
        /\ Cardinality(Taking(new, x)) <= Cardinality(Taking(rows, x))
    BY <2>1, Counting
  <2>3. Cardinality(Taking(rows, x)) <= s.entries[x][1] /\ s.entries[x][1] \in Nat
    BY DEF Entered
  <2> QED BY <2>2, <2>3
<1>4. \A x \in DOMAIN s.entries : DOMAIN s.entries[x] = {1} /\ s.entries[x][1] \in Nat
  BY DEF Entered
<1>5. \A b \in Held(new) : s.exists /\ new[b].place.from \in DOMAIN s.entries
  BY <1>1, <1>2 DEF Entered
<1> QED BY <1>3, <1>4, <1>5 DEF Entered

\* Of a time with one counter, the counter is what changes.
LEMMA CountedEntries ==
  ASSUME NEW s, SlotShape(s), NEW place, kind # "time_range", place.from \in DOMAIN s.entries,
         DOMAIN s.entries[place.from] = {1}
  PROVE  LET e == Counted(s, place).entries
             n == s.entries[place.from][1]
         IN /\ DOMAIN e = DOMAIN s.entries /\ DOMAIN e[place.from] = {1}
            /\ e[place.from][1] = IF BelowLimit(n) THEN n + 1 ELSE n
            /\ \A x \in DOMAIN s.entries : x # place.from => e[x] = s.entries[x]
BY DEF SlotShape, Counted

LEMMA ReleasedEntries ==
  ASSUME NEW s, SlotShape(s), NEW place, kind # "time_range", place.from \in DOMAIN s.entries,
         DOMAIN s.entries[place.from] = {1}
  PROVE  LET e == Release(s, place).entries
         IN /\ DOMAIN e = DOMAIN s.entries /\ DOMAIN e[place.from] = {1}
            /\ e[place.from][1] = Lower(s.entries[place.from][1])
            /\ \A x \in DOMAIN s.entries : x # place.from => e[x] = s.entries[x]
BY DEF SlotShape, Release

\* A booking more takes the room its time had left.
LEMMA EnteredMore ==
  ASSUME NEW s, SlotShape(s), kind # "time_range", NEW rows, NEW new, NEW b \in Ids \ Held(rows), NEW place,
         Entered(s, rows), s.exists, place.from \in DOMAIN s.entries, BelowLimit(s.entries[place.from][1]),
         new[b].status = "confirmed", new[b].place = place, \A c \in Ids \ {b} : new[c] = rows[c]
  PROVE  Entered(Counted(s, place), new) /\ DOMAIN Counted(s, place).entries = DOMAIN s.entries
<1> DEFINE e == Counted(s, place).entries
           n == s.entries[place.from][1]
<1>1. DOMAIN s.entries[place.from] = {1} /\ n \in Nat
  BY DEF Entered
<1>2. /\ DOMAIN e = DOMAIN s.entries /\ DOMAIN e[place.from] = {1}
      /\ e[place.from][1] = n + 1
      /\ \A x \in DOMAIN s.entries : x # place.from => e[x] = s.entries[x]
  BY <1>1, CountedEntries
<1>3. Held(new) = Held(rows) \cup {b} /\ Held(rows) \subseteq Ids /\ b \notin Held(rows)
  BY DEF Held
<1>4. Counted(s, place).exists
  BY CountedSlot
<1> HIDE DEF e, n
<1>5. ASSUME NEW x \in DOMAIN s.entries
      PROVE  DOMAIN e[x] = {1} /\ e[x][1] \in Nat /\ Cardinality(Taking(new, x)) <= e[x][1]
  <2>1. CASE x = place.from
    <3>1. Taking(new, x) = Taking(rows, x) \cup {b} /\ Taking(rows, x) \in SUBSET Ids /\ b \in Ids \ Taking(rows, x)
      BY <1>3, <2>1 DEF Taking
    <3>2. Cardinality(Taking(new, x)) = Cardinality(Taking(rows, x)) + 1 /\ Cardinality(Taking(rows, x)) \in Nat
      BY <3>1, CountingOneMore
    <3>3. Cardinality(Taking(rows, x)) <= n
      BY <2>1 DEF Entered, n
    <3> QED BY <1>1, <1>2, <2>1, <3>2, <3>3
  <2>2. CASE x # place.from
    <3>1. Taking(new, x) = Taking(rows, x)
      BY <1>3, <2>2 DEF Taking
    <3>2. e[x] = s.entries[x]
      BY <1>2, <2>2
    <3> QED BY <3>1, <3>2 DEF Entered
  <2> QED BY <2>1, <2>2
<1>6. \A c \in Held(new) : new[c].place.from \in DOMAIN e
  BY <1>2, <1>3 DEF Entered
<1>7. Entered(Counted(s, place), new)
  BY <1>2, <1>4, <1>5, <1>6 DEF Entered, e
<1> QED BY <1>2, <1>7 DEF e

\* A booking less: its time has room again.
LEMMA EnteredLess ==
  ASSUME NEW s, SlotShape(s), kind # "time_range", NEW rows, NEW new, NEW b \in Held(rows),
         Entered(s, rows), new[b].status # "confirmed", \A c \in Ids \ {b} : new[c] = rows[c]
  PROVE  /\ Entered(Release(s, rows[b].place), new)
         /\ DOMAIN Release(s, rows[b].place).entries = DOMAIN s.entries
         /\ \A x \in DOMAIN s.entries : Release(s, rows[b].place).entries[x][1] <= s.entries[x][1]
<1> DEFINE place == rows[b].place
           e == Release(s, place).entries
           n == s.entries[place.from][1]
<1>1. s.exists /\ place.from \in DOMAIN s.entries /\ DOMAIN s.entries[place.from] = {1} /\ n \in Nat
  BY DEF Entered
<1>2. /\ DOMAIN e = DOMAIN s.entries /\ DOMAIN e[place.from] = {1}
      /\ e[place.from][1] = Lower(n)
      /\ \A x \in DOMAIN s.entries : x # place.from => e[x] = s.entries[x]
  BY <1>1, ReleasedEntries
<1>3. Held(new) = Held(rows) \ {b} /\ Held(rows) \subseteq Ids
  BY DEF Held
<1>4. Release(s, place).exists
  BY <1>1, ReleasedSlot
<1>p. place = rows[b].place
  OBVIOUS
<1> HIDE DEF e, n, place
<1>5. ASSUME NEW x \in DOMAIN s.entries
      PROVE  /\ DOMAIN e[x] = {1} /\ e[x][1] \in Nat /\ Cardinality(Taking(new, x)) <= e[x][1]
             /\ e[x][1] <= s.entries[x][1]
  <2>1. CASE x = place.from
    <3>1. Taking(new, x) = Taking(rows, x) \ {b} /\ Taking(rows, x) \in SUBSET Ids /\ b \in Taking(rows, x)
      BY <1>3, <1>p, <2>1 DEF Taking
    <3>2. Cardinality(Taking(new, x)) = Cardinality(Taking(rows, x)) - 1 /\ Cardinality(Taking(rows, x)) \in Nat \ {0}
      BY <3>1, CountingOneLess
    <3>3. Cardinality(Taking(rows, x)) <= n
      BY <2>1 DEF Entered, n
    <3>4. Lower(n) = n - 1
      BY <1>1, <3>2, <3>3 DEF Lower
    <3>5. s.entries[x][1] = n
      BY <2>1 DEF n
    <3> QED BY <1>1, <1>2, <2>1, <3>2, <3>3, <3>4, <3>5
  <2>2. CASE x # place.from
    <3>1. Taking(new, x) = Taking(rows, x)
      BY <1>3, <1>p, <2>2 DEF Taking
    <3>2. e[x] = s.entries[x]
      BY <1>2, <2>2
    <3> QED BY <3>1, <3>2 DEF Entered
  <2> QED BY <2>1, <2>2
<1>6. \A c \in Held(new) : new[c].place.from \in DOMAIN e
  BY <1>2, <1>3 DEF Entered
<1>7. Entered(Release(s, place), new)
  BY <1>2, <1>4, <1>5, <1>6 DEF Entered, e
<1> QED BY <1>2, <1>5, <1>7 DEF e, place

\* The bookings of a slot none of whose counted times changes.
LEMMA EnteredTimes ==
  ASSUME NEW s, NEW new, NEW rows, rows \in Rows, Entered(s, rows), new.exists = s.exists,
         \A x \in DOMAIN new.entries :
            \/ x \in DOMAIN s.entries /\ new.entries[x] = s.entries[x]
            \/ x \notin DOMAIN s.entries /\ new.entries[x] = << 0 >>,
         \A x \in DOMAIN s.entries \ DOMAIN new.entries : Taking(rows, x) = {}
  PROVE  Entered(new, rows)
<1>1. ASSUME NEW x \in DOMAIN new.entries
      PROVE  /\ DOMAIN new.entries[x] = {1} /\ new.entries[x][1] \in Nat
             /\ Cardinality(Taking(rows, x)) <= new.entries[x][1]
  <2>1. CASE x \in DOMAIN s.entries
    BY <2>1 DEF Entered
  <2>2. CASE x \notin DOMAIN s.entries
    <3>1. Taking(rows, x) = {}
      BY <2>2 DEF Entered, Taking
    <3>2. Cardinality(Taking(rows, x)) = 0
      BY <3>1, FS_EmptySet
    <3> QED BY <2>2, <3>2
  <2> QED BY <2>1, <2>2
<1>2. \A b \in Held(rows) : new.exists /\ rows[b].place.from \in DOMAIN new.entries
  <2> SUFFICES ASSUME NEW b \in Held(rows), rows[b].place.from \notin DOMAIN new.entries PROVE FALSE
    BY DEF Entered
  <2>1. rows[b].place.from \in DOMAIN s.entries /\ b \in Taking(rows, rows[b].place.from)
    BY DEF Entered, Taking
  <2> QED BY <2>1
<1> QED BY <1>1, <1>2 DEF Entered

\* What is pushed: to each new time a counter, to the others nothing.
LEMMA Pushed ==
  ASSUME NEW entries, NEW times, times \cap DOMAIN entries = {}
  PROVE  /\ DOMAIN Push(entries, times) = DOMAIN entries \cup times
         /\ \A x \in times : Push(entries, times)[x] = << 0 >>
         /\ \A x \in DOMAIN entries : Push(entries, times)[x] = entries[x]
<1>1. \A x \in times : EntriesAt(entries, x) = << >>
  BY DEF EntriesAt
<1>2. Append(<< >>, 0) = << 0 >>
  OBVIOUS
<1>3. \A x \in times : Append(EntriesAt(entries, x), 0) = << 0 >>
  BY <1>1, <1>2
<1>4. /\ DOMAIN Push(entries, times) = DOMAIN entries \cup times
      /\ \A x \in DOMAIN entries \cup times :
            Push(entries, times)[x] = IF x \in times THEN Append(EntriesAt(entries, x), 0) ELSE entries[x]
  BY Zenon DEF Push
<1>5. \A x \in DOMAIN entries : x \notin times
  OBVIOUS
<1> QED BY <1>3, <1>4, <1>5

\* A slot made anew has a counter for each of its times.
LEMMA EnteredFresh ==
  ASSUME NEW s, NEW times, s.entries = Fresh(times), NEW rows, Held(rows) = {}
  PROVE  Entered(s, rows)
<1>1. DOMAIN s.entries = times /\ \A x \in times : s.entries[x] = << 0 >>
  <2>1. times \cap DOMAIN << >> = {}
    OBVIOUS
  <2>2. DOMAIN Push(<< >>, times) = DOMAIN << >> \cup times /\ \A x \in times : Push(<< >>, times)[x] = << 0 >>
    BY <2>1, Pushed
  <2> QED BY <2>2 DEF Fresh
<1>2. \A x : Taking(rows, x) = {}
  BY DEF Taking
<1>3. \A x : Cardinality(Taking(rows, x)) = 0
  BY <1>2, FS_EmptySet
<1> QED BY <1>1, <1>3 DEF Entered

-----------------------------------------------------------------------------
(* What the steps have in common. *)

LEMMA SameUndisturbed == ASSUME Undisturbed, UNCHANGED fixed PROVE Undisturbed'
BY DEF Undisturbed, Can, fixed

\* A transaction that has written nothing leaves what there is.
LEMMA IdleSteady ==
  ASSUME NEW t \in Txns, pend'[t].docs = {}, booking' \in Rows, Stands(slot', option', booking'), UNCHANGED fixed
  PROVE  Steady(t)'
<1>1. After(t)' = booking' /\ AfterSlot(t)' = slot' /\ AfterOption(t)' = option'
  BY DEF After, AfterSlot, AfterOption, Rows
<1>2. Stands(AfterSlot(t)', AfterOption(t)', After(t)')
  BY <1>1
<1> QED BY <1>2 DEF Steady, Stands, Can, fixed

LEMMA SameSteady ==
  ASSUME NEW t \in Txns, Steady(t), pend'[t] = pend[t], UNCHANGED <<slot, booking, option, fixed>>
  PROVE  Steady(t)'
<1>1. After(t)' = After(t) /\ AfterSlot(t)' = AfterSlot(t) /\ AfterOption(t)' = AfterOption(t)
  BY DEF After, AfterSlot, AfterOption
<1> QED BY <1>1 DEF Steady, Stands, Can, fixed

\* Any two transactions that have written something write one document both.
LEMMA AllMeet ==
  ASSUME Inv, Settled, NEW t \in Txns, NEW q \in Txns, pend[t].docs # {}, pend[q].docs # {}
  PROVE  pend[t].docs \cap pend[q].docs # {}
<1>1. ASSUME NEW p \in {t, q}
      PROVE  /\ pend[p].docs # {}
             /\ "slot" \in pend[p].docs => slot.exists
             /\ "slot" \notin pend[p].docs => pend[p].docs = {"service"} /\ ~slot.exists
  <2>1. Sound(p) /\ Steady(p) /\ pend[p].docs # {}
    BY DEF Inv, Settled
  <2> QED BY <2>1 DEF Sound, Steady, Touched
<1> QED BY <1>1

\* A handler computes on its snapshot, which is the rows as they are.
LEMMA ComputeSettles ==
  ASSUME Inv, Settled, NEW t \in Txns, NEW written, NEW s, NEW o, NEW rows, NEW id,
         Compute(t, written, s, o, rows, id), UNCHANGED <<slot, booking, option, job, fixed>>,
         rows \in Rows, \A c \in Ids \ written : rows[c] = booking[c],
         Stands(IF "slot" \in written THEN s ELSE slot, IF "service" \in written THEN o ELSE option, rows),
         "service" \in written /\ "slot" \notin written => Can("option") /\ ~slot.exists,
         kind # "time_range" /\ Can("recurrent_slots") /\ "slot" \in written /\ s.exists =>
            DOMAIN s.entries = DOMAIN slot.entries
  PROVE  Settled'
<1>1. /\ pend'[t].docs = written /\ pend'[t].slot = s /\ pend'[t].option = o
      /\ pend'[t].booking = [c \in written \cap Ids |-> rows[c]]
      /\ \A q \in Txns \ {t} : pend'[q] = pend[q]
  BY DEF Compute, Inv
<1>2. After(t)' = rows
  <2>1. \A c \in Ids : rows[c] = IF c \in written THEN pend'[t].booking[c] ELSE booking'[c]
    BY <1>1
  <2>2. After(t)' = [c \in Ids |-> IF c \in written THEN pend'[t].booking[c] ELSE booking'[c]]
    BY <1>1 DEF After
  <2>3. rows = [c \in Ids |-> rows[c]]
    BY DEF Rows
  <2> QED BY <2>1, <2>2, <2>3
<1>3. /\ AfterSlot(t)' = IF "slot" \in written THEN s ELSE slot
      /\ AfterOption(t)' = IF "service" \in written THEN o ELSE option
  BY <1>1 DEF AfterSlot, AfterOption
<1>4. Steady(t)'
  <2>1. Stands(AfterSlot(t)', AfterOption(t)', After(t)')
    BY <1>2, <1>3
  <2> QED BY <1>1, <2>1 DEF Steady, Stands, Can, fixed
<1>5. \A q \in Txns \ {t} : Steady(q)'
  BY <1>1, SameSteady DEF Settled
<1>6. Stands(slot, option, booking)'
  BY DEF Settled, Stands, Can, fixed
<1>7. Schedule'
  BY DEF Settled, Schedule, Can, fixed
<1> QED BY <1>4, <1>5, <1>6, <1>7, SameUndisturbed DEF Settled

\* A transaction commits what it would leave, and all the others are dropped.
LEMMA CommitSettles ==
  ASSUME Inv, Settled, NEW t \in Txns, Commit(t)
  PROVE  Settled'
<1>1. /\ booking' = After(t) /\ slot' = AfterSlot(t) /\ option' = AfterOption(t)
      /\ pend' = Unhit(pend[t].docs) /\ job' = job /\ kind' = kind /\ offered' = offered
      /\ UNCHANGED fixed /\ pend[t].docs # {}
  BY DEF Commit, Put, After, AfterSlot, AfterOption, fixed
<1>2. Steady(t) /\ Sound(t) /\ booking' \in Rows
  BY <1>1, GoodRows DEF Inv, Settled, Leaves
<1>3. Stands(slot', option', booking')
  BY <1>1, <1>2 DEF Steady
<1>4. ASSUME NEW q \in Txns PROVE Steady(q)'
  <2>1. pend'[q].docs = {}
    BY <1>1, AllMeet DEF Unhit, NoWork
  <2> QED BY <1>1, <1>2, <1>3, <2>1, IdleSteady
<1>5. Schedule'
  <2> SUFFICES ASSUME job.name = "recurrent_slots" PROVE Schedule'
    BY <1>1 DEF Schedule
  <2>1. /\ Can("recurrent_slots") /\ Can("recurrent_slots")'
        /\ \A e, f \in job.entries : e = f
    BY <1>1 DEF Settled, Schedule, Can
  <2>2. slot' = slot \/ slot.exists
    BY <1>1, <1>2 DEF Sound, AfterSlot
  <2>3. kind # "time_range" /\ slot'.exists => slot' = slot \/ DOMAIN slot'.entries = DOMAIN slot.entries
    BY <1>1, <1>2, <2>1 DEF Steady, AfterSlot
  <2> QED BY <1>1, <2>1, <2>2, <2>3 DEF Settled, Schedule
<1>6. Stands(slot, option, booking)'
  BY <1>1, <1>3 DEF Stands, Can
<1> QED BY <1>1, <1>4, <1>5, <1>6, SameUndisturbed DEF Settled

LEMMA MilderStands ==
  ASSUME NEW s, NEW o, NEW rows, NEW new, Stands(s, o, rows), Milder(rows, new)
  PROVE  Stands(s, o, new)
BY EnteredMilder DEF Stands

\* Where bookings only end, or are marked, so do they in what q leaves.
LEMMA MilderAfter ==
  ASSUME NEW q \in Txns, After(q) \in Rows, pend'[q] = pend[q], Milder(booking, booking')
  PROVE  Milder(After(q), After(q)')
<1>1. \A b \in Ids : /\ After(q)[b] = IF b \in pend[q].docs THEN pend[q].booking[b] ELSE booking[b]
                     /\ After(q)'[b] = IF b \in pend[q].docs THEN pend[q].booking[b] ELSE booking'[b]
  BY DEF After
<1>2. \A b \in Ids : After(q)'[b] \in VisitRows \cup PastRows
  BY <1>1 DEF Milder, Rows
<1>3. After(q)' \in Rows
  <2>1. After(q)' = [b \in Ids |-> After(q)'[b]]
    BY DEF After
  <2> QED BY <1>2, <2>1 DEF Rows
<1> QED BY <1>1, <1>3 DEF Milder

\* A write of its own.  Of a slot that is not there it is a write of the
\* job's, and then nobody removes the option alone.
LEMMA PutSettles ==
  ASSUME Inv, Settled, NEW written, NEW newSlot, NEW rows, Put(written, newSlot, rows),
         UNCHANGED <<option, fixed>>,
         Milder(booking, rows),
         newSlot = slot \/ ("slot" \in written /\ (slot.exists \/ ~Can("option"))),
         Stands(newSlot, option, rows), Schedule'
  PROVE  Settled'
<1>1. /\ slot' = newSlot /\ booking' = rows /\ pend' = Unhit(written)
      /\ option' = option /\ kind' = kind /\ offered' = offered
  BY DEF Put, fixed
<1>2. booking' \in Rows
  BY <1>1 DEF Milder
<1>3. Stands(slot', option', booking')
  BY <1>1
<1>4. ASSUME NEW q \in Txns PROVE Steady(q)'
  <2>0. Sound(q) /\ Leaves(q) /\ Steady(q)
    BY DEF Inv, Settled
  <2>1. CASE pend'[q].docs = {}
    BY <1>2, <1>3, <2>1, IdleSteady
  <2>2. CASE pend'[q].docs # {}
    <3>1. pend'[q] = pend[q] /\ pend[q].docs \cap written = {} /\ pend[q].docs # {}
      BY <1>1, <2>2 DEF Unhit, NoWork
    <3>2. newSlot = slot
      <4> SUFFICES ASSUME "slot" \in written, slot.exists \/ ~Can("option") PROVE FALSE
        OBVIOUS
      <4>1. pend[q].docs = {"service"}
        BY <2>0, <3>1 DEF Sound, Touched
      <4> QED BY <2>0, <4>1 DEF Steady
    <3>3. slot' = slot
      BY <1>1, <3>2
    <3>4. After(q) \in Rows
      BY <2>0, GoodRows DEF Leaves
    <3>5. Milder(After(q), After(q)')
      BY <1>1, <3>1, <3>4, MilderAfter
    <3>6. AfterSlot(q)' = AfterSlot(q) /\ AfterOption(q)' = AfterOption(q)
      BY <1>1, <3>1, <3>3 DEF AfterSlot, AfterOption
    <3>7. Stands(AfterSlot(q), AfterOption(q), After(q)')
      BY <2>0, <3>5, MilderStands DEF Steady
    <3> QED BY <1>1, <2>0, <3>1, <3>3, <3>6, <3>7 DEF Steady, Stands, Can
  <2> QED BY <2>1, <2>2
<1>5. Stands(slot, option, booking)'
  BY <1>1, <1>3 DEF Stands, Can
<1> QED BY <1>4, <1>5, SameUndisturbed DEF Settled

\* A change of the option alone does not remove it.
LEMMA PutOptionSettles ==
  ASSUME Inv, Settled, NEW new, PutOption(new), option.exists => new.exists
  PROVE  Settled'
<1>1. /\ slot' = slot /\ booking' = booking /\ pend' = Unhit({"service"}) /\ job' = job
      /\ option' = new /\ kind' = kind /\ offered' = offered /\ fixed' = fixed
  BY DEF PutOption, fixed, docs
<1>2. booking' \in Rows
  BY <1>1, GoodRows DEF Inv, Now
<1>3. Stands(slot', option', booking')
  BY <1>1 DEF Settled, Stands
<1>4. ASSUME NEW q \in Txns PROVE Steady(q)'
  <2>1. CASE "service" \in pend[q].docs
    <3>1. pend'[q].docs = {}
      BY <1>1, <2>1 DEF Unhit, NoWork
    <3> QED BY <1>1, <1>2, <1>3, <3>1, IdleSteady
  <2>2. CASE "service" \notin pend[q].docs
    <3>1. pend'[q] = pend[q]
      BY <1>1, <2>2 DEF Unhit
    <3>2. After(q)' = After(q) /\ AfterSlot(q)' = AfterSlot(q) /\ AfterOption(q)' = new /\ AfterOption(q) = option
      BY <1>1, <2>2, <3>1 DEF After, AfterSlot, AfterOption
    <3>3. Steady(q)
      BY DEF Settled
    <3>4. Stands(AfterSlot(q), new, After(q))
      BY <3>2, <3>3 DEF Steady, Stands
    <3> QED BY <1>1, <3>1, <3>2, <3>3, <3>4 DEF Steady, Stands, Can
  <2> QED BY <2>1, <2>2
<1>5. Stands(slot, option, booking)'
  BY <1>1, <1>3 DEF Stands, Can
<1>6. Schedule'
  BY <1>1 DEF Settled, Schedule, Can
<1> QED BY <1>1, <1>4, <1>5, <1>6, SameUndisturbed DEF Settled

\* Steps that touch no document.
LEMMA QuietSettles ==
  ASSUME Inv, Settled, UNCHANGED <<slot, booking, option, fixed>>,
         \A q \in Txns : pend'[q] = pend[q] \/ pend'[q] = NoWork,
         Schedule'
  PROVE  Settled'
<1>1. booking' \in Rows
  BY GoodRows DEF Inv, Now
<1>2. Stands(slot', option', booking')
  BY DEF Settled
<1>3. ASSUME NEW q \in Txns PROVE Steady(q)'
  <2>1. CASE pend'[q] = pend[q]
    BY <2>1, SameSteady DEF Settled
  <2>2. CASE pend'[q] = NoWork
    BY <1>1, <1>2, <2>2, IdleSteady DEF NoWork
  <2> QED BY <2>1, <2>2
<1>4. Stands(slot, option, booking)'
  BY DEF Settled, Stands, Can, fixed
<1> QED BY <1>3, <1>4, SameUndisturbed DEF Settled

LEMMA SameSchedule == ASSUME Schedule, UNCHANGED <<slot, job, fixed>> PROVE Schedule'
BY DEF Schedule, Can, fixed

-----------------------------------------------------------------------------
(* Every step keeps the slot standing. *)

\* A booking or a move writes one booking and the slot.
LEMMA TakeSettles ==
  ASSUME Inv, Settled, NEW t \in Txns, NEW b \in Ids, NEW s, NEW rows, rows \in Rows,
         Compute(t, {b, "slot"}, s, option, rows, b), UNCHANGED <<slot, booking, option, job, fixed>>,
         \A c \in Ids \ {b} : rows[c] = booking[c], slot.exists, s.exists = slot.exists,
         kind # "time_range" => Entered(s, rows) /\ DOMAIN s.entries = DOMAIN slot.entries
  PROVE  Settled'
<1>1. "service" \notin {b, "slot"} /\ "slot" \in {b, "slot"} /\ \A c \in Ids \ {b, "slot"} : rows[c] = booking[c]
  BY IdsAssumption
<1>2. Stands(s, option, rows)
  BY DEF Settled, Stands
<1> QED BY <1>1, <1>2, ComputeSettles

LEMMA BookSettles ==
  ASSUME Inv, Settled, NEW t \in Users, NEW u \in Users, NEW b \in Ids, NEW place \in Places, Book(t, u, b, place)
  PROVE  Settled'
<1> DEFINE rows == [booking EXCEPT ![b] = Visit(u, place, FALSE)]
           s == Counted(slot, place)
<1>1. SlotShape(slot) /\ booking \in Rows
  BY GoodRows DEF Inv, Now
<1>2. /\ booking[b].status = "none" /\ slot.exists /\ Fits(place) /\ MayTake(booking, place, b)
      /\ Compute(t, {b, "slot"}, s, option, rows, b)
      /\ UNCHANGED <<slot, booking, option, job, fixed>>
  BY DEF Book, IsOpen, Written, docs
<1>3. rows[b] = Visit(u, place, FALSE) /\ \A c \in Ids \ {b} : rows[c] = booking[c]
  BY <1>1 DEF Rows
<1>4. rows[b].status = "confirmed" /\ rows[b].place = place /\ rows[b] \in VisitRows
  <2>1. place \in [from : Int, to : Int]
    BY PlaceType
  <2> HIDE DEF rows
  <2> QED BY <1>3, <2>1 DEF Visit, VisitRows
<1>5. rows \in Rows
  BY <1>1, <1>4 DEF Rows
<1>6. s.exists = slot.exists
  BY <1>1, CountedSlot
<1>7. b \in Ids \ Held(booking) /\ t \in Txns
  BY <1>2 DEF Held, Txns
<1>8. ASSUME kind # "time_range" PROVE Entered(s, rows) /\ DOMAIN s.entries = DOMAIN slot.entries
  <2>1. Entered(slot, booking) /\ place.from \in DOMAIN slot.entries
    BY <1>2, <1>8 DEF Settled, Stands, Fits
  <2>2. \E n \in Range(slot.entries[place.from]) : BelowLimit(n)
    BY <1>2, <1>8 DEF MayTake
  <2>3. BelowLimit(slot.entries[place.from][1])
    BY <2>1, <2>2 DEF Range, Entered
  <2>4. rows[b].status = "confirmed" /\ rows[b].place = place /\ slot.exists
        /\ \A c \in Ids \ {b} : rows[c] = booking[c]
    BY <1>2, <1>3, <1>4
  <2> HIDE DEF rows
  <2>5. Entered(Counted(slot, place), rows) /\ DOMAIN Counted(slot, place).entries = DOMAIN slot.entries
    BY <1>1, <1>7, <1>8, <2>1, <2>3, <2>4, EnteredMore
  <2> QED BY <2>5
<1> HIDE DEF rows, s
<1> QED BY <1>2, <1>3, <1>5, <1>6, <1>7, <1>8, TakeSettles

LEMMA MoveSettles ==
  ASSUME Inv, Settled, NEW t \in Txns, NEW b \in Ids, NEW place \in Places, Move(t, b, place)
  PROVE  Settled'
<1> DEFINE rows == Moved(booking, b, place)
           old == booking[b].place
           less == [booking EXCEPT ![b] = Past("cancelled", NoId)]
           freed == Release(slot, old)
           s == Counted(freed, place)
<1>1. SlotShape(slot) /\ booking \in Rows
  BY GoodRows DEF Inv, Now
<1>2. /\ booking[b].status = "confirmed" /\ slot.exists /\ Fits(place) /\ MayTake(booking, place, b)
      /\ Compute(t, {b, "slot"}, s, option, rows, b)
      /\ UNCHANGED <<slot, booking, option, job, fixed>>
  BY DEF Move, IsOpen, Written, docs
<1>3. b \in Held(booking)
  BY <1>2 DEF Held
<1>4. booking[b] \in VisitRows
  BY <1>1, <1>3, HeldRows
<1>5. rows[b] = [booking[b] EXCEPT !.place = place] /\ \A c \in Ids \ {b} : rows[c] = booking[c]
  BY <1>1 DEF Rows, Moved
<1>6. rows[b] \in VisitRows /\ rows[b].status = "confirmed" /\ rows[b].place = place
  <2>1. place \in [from : Int, to : Int]
    BY PlaceType
  <2> HIDE DEF rows
  <2> QED BY <1>4, <1>5, <2>1 DEF VisitRows
<1>7. rows \in Rows
  <2>1. rows = [booking EXCEPT ![b] = rows[b]]
    BY <1>1 DEF Rows, Moved
  <2> HIDE DEF rows
  <2> QED BY <1>1, <1>6, <2>1 DEF Rows
<1>8. less[b] = Past("cancelled", NoId) /\ \A c \in Ids \ {b} : less[c] = booking[c]
  BY <1>1 DEF Rows
<1>9. less[b].status # "confirmed"
  BY <1>8 DEF Past
<1>10. SlotShape(freed) /\ freed.exists = slot.exists
  BY <1>1, ReleasedSlot
<1> HIDE DEF rows, less
<1>11. s.exists = slot.exists
  <2> HIDE DEF freed
  <2> QED BY <1>10, CountedSlot
<1>12. ASSUME kind # "time_range" PROVE Entered(s, rows) /\ DOMAIN s.entries = DOMAIN slot.entries
  <2>1. Entered(slot, booking) /\ place.from \in DOMAIN slot.entries
    BY <1>2, <1>12 DEF Settled, Stands, Fits
  <2>2. \E n \in Range(slot.entries[place.from]) : BelowLimit(n)
    BY <1>2, <1>12 DEF MayTake
  <2>3. BelowLimit(slot.entries[place.from][1])
    BY <2>1, <2>2 DEF Range, Entered
  <2>4. /\ Entered(freed, less) /\ DOMAIN freed.entries = DOMAIN slot.entries
        /\ \A x \in DOMAIN slot.entries : freed.entries[x][1] <= slot.entries[x][1]
    BY <1>1, <1>3, <1>8, <1>9, <1>12, <2>1, EnteredLess
  <2> HIDE DEF freed, old
  <2>5. BelowLimit(freed.entries[place.from][1])
    <3>1. freed.entries[place.from][1] \in Nat /\ slot.entries[place.from][1] \in Nat
      BY <2>1, <2>4 DEF Entered
    <3>2. freed.entries[place.from][1] <= slot.entries[place.from][1]
      BY <2>1, <2>4
    <3> QED BY <2>3, <3>1, <3>2, LimitsAssumption DEF BelowLimit
  <2>6. b \in Ids \ Held(less) /\ freed.exists /\ place.from \in DOMAIN freed.entries
        /\ \A c \in Ids \ {b} : rows[c] = less[c]
    BY <1>2, <1>5, <1>8, <1>9, <1>10, <2>1, <2>4 DEF Held
  <2>7. Entered(Counted(freed, place), rows) /\ DOMAIN Counted(freed, place).entries = DOMAIN freed.entries
    BY <1>6, <1>10, <1>12, <2>4, <2>5, <2>6, EnteredMore
  <2> QED BY <2>4, <2>7
<1>13. /\ Compute(t, {b, "slot"}, s, option, rows, b) /\ slot.exists
       /\ UNCHANGED <<slot, booking, option, job, fixed>>
  BY <1>2
<1> HIDE DEF s
<1> QED BY <1>5, <1>7, <1>11, <1>12, <1>13, TakeSettles

LEMMA CancelSettles == ASSUME Inv, Settled, NEW b \in Ids, Cancel(b) PROVE Settled'
<1> DEFINE rows == [booking EXCEPT ![b] = Past("cancelled", NoId)]
           s == Release(slot, booking[b].place)
<1>1. SlotShape(slot) /\ booking \in Rows /\ Holds(kind, slot, booking)
  BY GoodRows DEF Inv, Now
<1>2. booking[b].status = "confirmed" /\ Put({b, "slot"}, s, rows) /\ UNCHANGED <<option, job, fixed>>
  BY DEF Cancel
<1>3. b \in Held(booking)
  BY <1>2 DEF Held
<1>4. rows[b] = Past("cancelled", NoId) /\ \A c \in Ids \ {b} : rows[c] = booking[c]
  BY <1>1 DEF Rows
<1>5. rows[b].status # "confirmed"
  BY <1>4 DEF Past
<1>6. Milder(booking, rows)
  <2>1. \A u \in {booking[b].user, NoId} : \A new :
            new = [booking EXCEPT ![b] = Past("cancelled", u)] => Milder(booking, new)
    BY <1>1, Ended
  <2> QED BY <2>1, Zenon
<1>7. s.exists = slot.exists /\ slot.exists
  <2>1. slot.exists
    BY <1>1, <1>3 DEF Settled, Stands, Entered, Holds
  <2> QED BY <1>1, <2>1, ReleasedSlot
<1>8. slot' = s
  BY <1>2 DEF Put
<1> HIDE DEF rows
<1>9. kind # "time_range" => Entered(s, rows) /\ DOMAIN s.entries = DOMAIN slot.entries
  BY <1>1, <1>3, <1>4, <1>5, EnteredLess DEF Settled, Stands
<1> HIDE DEF s
<1>10. Stands(s, option, rows)
  BY <1>7, <1>9 DEF Settled, Stands
<1>11. Schedule'
  BY <1>2, <1>7, <1>8, <1>9 DEF Settled, Schedule, Can, fixed
<1> QED BY <1>2, <1>6, <1>7, <1>10, <1>11, PutSettles

\* Bookings end, or are marked, and the slot stays as it is.
LEMMA EndSettles ==
  ASSUME Inv, Settled, NEW written, NEW rows, Put(written, slot, rows), UNCHANGED <<option, fixed>>,
         Milder(booking, rows), job' = job \/ job'.name # "recurrent_slots"
  PROVE  Settled'
<1>1. slot' = slot
  BY DEF Put
<1>2. Stands(slot, option, rows)
  BY MilderStands DEF Settled
<1>3. Schedule'
  BY <1>1 DEF Settled, Schedule, Can, fixed
<1>4. slot = slot \/ ("slot" \in written /\ (slot.exists \/ ~Can("option")))
  OBVIOUS
<1> QED BY <1>2, <1>3, <1>4, PutSettles

LEMMA VisitSettles == ASSUME Inv, Settled, (\E b \in Ids : CheckIn(b)) \/ NoShowMark \/ RemindMark PROVE Settled'
<1>1. booking \in Rows /\ "name" \in DOMAIN job
  BY GoodRows DEF Inv, Now, Planned
<1>2. ASSUME NEW b, NEW status \in {"arrived", "no_show"}
      PROVE  Milder(booking, [booking EXCEPT ![b] = Past(status, booking[b].user)])
  <2>1. CASE b \in Ids
    BY <1>1, <2>1, Ended
  <2>2. CASE b \notin Ids
    <3>1. [booking EXCEPT ![b] = Past(status, booking[b].user)] = booking
      BY <1>1, <2>2 DEF Rows
    <3> QED BY <1>1, <3>1, SameMilder
  <2> QED BY <2>1, <2>2
<1>3. ASSUME NEW b \in Ids, CheckIn(b) PROVE Settled'
  <2>1. /\ Put({b}, slot, [booking EXCEPT ![b] = Past("arrived", booking[b].user)])
        /\ UNCHANGED <<option, job, fixed>>
    BY <1>3 DEF CheckIn
  <2> QED BY <1>2, <2>1, EndSettles
<1>4. CASE NoShowMark
  <2>1. PICK b \in job.due :
           /\ IF booking[b].status = "confirmed"
              THEN Put({b}, slot, [booking EXCEPT ![b] = Past("no_show", booking[b].user)])
              ELSE UNCHANGED <<docs, pend>>
           /\ job' = IF job.due = {b} THEN NoJob ELSE [job EXCEPT !.due = @ \ {b}]
    BY <1>4 DEF NoShowMark
  <2>2. UNCHANGED <<option, fixed>> /\ job'.name # "recurrent_slots"
    BY <1>1, <1>4, <2>1 DEF NoShowMark, NoJob
  <2>3. CASE booking[b].status = "confirmed"
    BY <1>2, <2>1, <2>2, <2>3, EndSettles
  <2>4. CASE booking[b].status # "confirmed"
    <3>1. UNCHANGED <<slot, booking, pend>>
      BY <2>1, <2>4 DEF docs
    <3>2. Schedule'
      BY <2>2 DEF Schedule
    <3> QED BY <2>2, <3>1, <3>2, QuietSettles
  <2> QED BY <2>3, <2>4
<1>5. CASE RemindMark
  <2>1. Put(job.due, slot, Marked(job.due)) /\ UNCHANGED <<option, fixed>> /\ job'.name # "recurrent_slots"
    BY <1>1, <1>5 DEF RemindMark
  <2>2. Milder(booking, Marked(job.due))
    BY <1>1, MarkedMilder
  <2> QED BY <2>1, <2>2, EndSettles
<1> QED BY <1>3, <1>4, <1>5

\* The staff's changes leave the bookings as they are.
LEMMA StaffSettles ==
  ASSUME Inv, Settled, NEW t \in Txns, NEW written \in SUBSET Touched, NEW s, NEW o,
         Compute(t, written, s, o, booking, NoId), UNCHANGED <<slot, booking, option, job, fixed>>,
         Stands(IF "slot" \in written THEN s ELSE slot, IF "service" \in written THEN o ELSE option, booking),
         "service" \in written /\ "slot" \notin written => Can("option") /\ ~slot.exists,
         kind # "time_range" /\ Can("recurrent_slots") /\ "slot" \in written /\ s.exists =>
            DOMAIN s.entries = DOMAIN slot.entries
  PROVE  Settled'
<1>1. booking \in Rows /\ \A c \in Ids \ written : booking[c] = booking[c]
  BY GoodRows DEF Inv, Now
<1> QED BY <1>1, ComputeSettles

LEMMA UpdateRangeSettles ==
  ASSUME Inv, Settled, NEW t \in Txns, NEW spec \in Specs, UpdateRange(t, spec)
  PROVE  Settled'
<1> DEFINE s == SetRange(slot, Updated(slot.range, spec))
<1>1. /\ kind = "time_range" /\ Compute(t, Touched, s, option, booking, NoId)
      /\ UNCHANGED <<slot, booking, option, job, fixed>>
  BY DEF UpdateRange, docs
<1>2. s.exists = slot.exists
  BY DEF Inv, Now, SlotShape, SetRange
<1> HIDE DEF s
<1>3. "slot" \in Touched /\ "service" \in Touched /\ Touched \in SUBSET Touched
  BY DEF Touched
<1>4. Stands(s, option, booking)
  BY <1>1, <1>2 DEF Settled, Stands
<1> QED BY <1>1, <1>3, <1>4, StaffSettles

\* A time that is left out has no active booking.
LEMMA UpdateTimesSettles ==
  ASSUME Inv, Settled, NEW t \in Txns, NEW times, UpdateTimes(t, times)
  PROVE  Settled'
<1> DEFINE removed == DOMAIN slot.entries \ times
           added == times \ DOMAIN slot.entries
           kept == Restrict(slot.entries, DOMAIN slot.entries \ removed)
           s == [slot EXCEPT !.entries = Push(kept, added)]
<1>1. /\ kind = "date_time" /\ Can("times") /\ Tree.exists /\ CountActiveByTimes(booking, removed) = 0
      /\ UNCHANGED <<slot, booking, option, job, fixed>>
  BY Zenon DEF UpdateTimes, docs
<1>2. Compute(t, Touched, s, option, booking, NoId)
  BY Zenon DEF UpdateTimes
<1>3. SlotShape(slot) /\ booking \in Rows
  BY GoodRows DEF Inv, Now
<1>4. s.exists = slot.exists /\ s.entries = Push(kept, added)
  <2> DEFINE e == Push(kept, added)
  <2> HIDE DEF e
  <2>1. s = [slot EXCEPT !.entries = e]
    BY DEF e
  <2> HIDE DEF s
  <2> QED BY <1>3, <2>1 DEF SlotShape, e
<1>5. DOMAIN kept = DOMAIN slot.entries \ removed /\ \A x \in DOMAIN kept : kept[x] = slot.entries[x]
  BY DEF Restrict
<1>6. DOMAIN kept \subseteq DOMAIN slot.entries /\ added \cap DOMAIN slot.entries = {}
      /\ DOMAIN slot.entries \ DOMAIN kept = removed
  BY <1>5
<1> HIDE DEF s, kept, added
<1>7. /\ DOMAIN Push(kept, added) = DOMAIN kept \cup added
      /\ \A x \in added : Push(kept, added)[x] = << 0 >>
      /\ \A x \in DOMAIN kept : Push(kept, added)[x] = kept[x]
  <2>1. added \cap DOMAIN kept = {}
    BY <1>6
  <2> QED BY <2>1, Pushed
<1>8. \A x \in removed : Taking(booking, x) = {}
  <2> DEFINE gone == {b \in Held(booking) : booking[b].place.from \in removed}
  <2>1. gone \in SUBSET Ids
    BY HeldInIds
  <2>2. Cardinality(gone) <= 0
    BY <1>1 DEF CountActiveByTimes
  <2>3. gone = {}
    <3> HIDE DEF gone
    <3> QED BY <2>1, <2>2, Nobody
  <2> QED BY <2>3 DEF Taking
<1> HIDE DEF removed
<1>9. /\ \A x \in DOMAIN s.entries :
            \/ x \in DOMAIN slot.entries /\ s.entries[x] = slot.entries[x]
            \/ x \notin DOMAIN slot.entries /\ s.entries[x] = << 0 >>
      /\ \A x \in DOMAIN slot.entries \ DOMAIN s.entries : Taking(booking, x) = {}
  BY <1>4, <1>5, <1>6, <1>7, <1>8
<1>10. Entered(slot, booking)
  BY <1>1 DEF Settled, Stands
<1>11. Entered(s, booking)
  BY <1>3, <1>4, <1>9, <1>10, EnteredTimes
<1>12. Stands(s, option, booking)
  BY <1>4, <1>11 DEF Settled, Stands
<1>13. ~Can("recurrent_slots")
  BY <1>1 DEF Settled, Undisturbed
<1>14. "slot" \in Touched /\ "service" \in Touched /\ Touched \in SUBSET Touched
  BY DEF Touched
<1> QED BY <1>1, <1>2, <1>12, <1>13, <1>14, StaffSettles

LEMMA RemoveSettles ==
  ASSUME Inv, Settled, NEW t \in Txns, RemoveSlot(t) \/ RemoveOption(t)
  PROVE  Settled'
<1>1. CountActiveBySlot(booking) = 0 /\ UNCHANGED <<slot, booking, option, job, fixed>>
  BY DEF RemoveSlot, RemoveOption, docs
<1>2. Held(booking) = {}
  BY <1>1, NoneHeld
<1>3. ~NoSlot.exists /\ DOMAIN NoSlot.entries = {}
  BY DEF NoSlot
<1>4. Entered(NoSlot, booking)
  BY <1>2, <1>3 DEF Entered
<1>5. CASE RemoveSlot(t)
  <2>1. Compute(t, Touched, NoSlot, option, booking, NoId)
    BY <1>5 DEF RemoveSlot
  <2>2. "slot" \in Touched /\ "service" \in Touched /\ Touched \in SUBSET Touched
    BY DEF Touched
  <2>3. Stands(NoSlot, option, booking)
    BY <1>3, <1>4 DEF Settled, Stands
  <2> QED BY <1>1, <1>3, <2>1, <2>2, <2>3, StaffSettles
<1>6. CASE RemoveOption(t)
  <2> DEFINE written == {"service"} \cup (IF slot.exists THEN {"slot"} ELSE {})
  <2>1. Compute(t, written, NoSlot, NoOption, booking, NoId) /\ Can("option")
    BY <1>6 DEF RemoveOption
  <2>2. /\ written \in SUBSET Touched /\ "service" \in written
        /\ "slot" \in written <=> slot.exists
    BY DEF Touched
  <2> HIDE DEF written
  <2>3. CASE slot.exists
    <3>1. Stands(NoSlot, NoOption, booking)
      BY <1>3, <1>4, <2>1 DEF Stands
    <3> QED BY <1>1, <1>3, <2>1, <2>2, <2>3, <3>1, StaffSettles
  <2>4. CASE ~slot.exists
    <3>1. Stands(slot, NoOption, booking)
      BY <2>1, <2>4 DEF Settled, Stands
    <3> QED BY <1>1, <1>3, <2>1, <2>2, <2>4, <3>1, StaffSettles
  <2> QED BY <2>3, <2>4
<1> QED BY <1>5, <1>6

\* Only a slot of intervals is moved here: it takes its bookings along.
LEMMA ShiftSettles ==
  ASSUME Inv, Settled, NEW t \in Txns, NEW n \in Shifts, ShiftSlot(t, n)
  PROVE  Settled'
<1> DEFINE written == Touched \cup Held(booking)
           rows == MoveMany(booking, n)
           s == ShiftEnds(slot, n)
<1>1. kind = "time_range"
  BY DEF ShiftSlot, Settled, Undisturbed
<1>2. Compute(t, written, s, option, rows, NoId) /\ UNCHANGED <<slot, booking, option, job, fixed>>
  BY <1>1 DEF ShiftSlot, docs
<1>3. s.exists = slot.exists
  BY DEF Inv, Now, SlotShape, ShiftEnds, SetRange
<1>4. rows \in Rows /\ \A c \in Ids \ Held(booking) : rows[c] = booking[c]
  <2>1. Good("date_time", offered, booking) /\ n \in Int
    BY SpecsAssumption DEF Inv, Now, Good
  <2>2. Good("date_time", offered, rows) /\ \A c \in Ids \ Held(booking) : rows[c] = booking[c]
    BY <2>1, AllMovedGood
  <2> QED BY <2>2, GoodRows
<1>5. "slot" \in written /\ "service" \in written /\ Held(booking) \subseteq written
  BY DEF Touched
<1>6. \A c \in Ids \ written : rows[c] = booking[c]
  BY <1>4, <1>5
<1> HIDE DEF s, written, rows
<1>7. Stands(s, option, rows)
  BY <1>1, <1>3 DEF Settled, Stands
<1> QED BY <1>1, <1>2, <1>4, <1>5, <1>6, <1>7, ComputeSettles

LEMMA OptionSettles ==
  ASSUME Inv, Settled,
         \/ \E new \in {{e} : e \in Schedules} \cup {{}} : SetRecurrence(new)
         \/ \E e \in Schedules : AddOption({e})
         \/ UpdateOption
  PROVE  Settled'
<1>1. OptionShape(kind, option)
  BY DEF Inv, Now
<1>2. ASSUME NEW new, SetRecurrence(new) PROVE Settled'
  <2>1. PutOption(WithSchedule(option, new)) /\ WithSchedule(option, new).exists = option.exists
    BY <1>1, <1>2 DEF SetRecurrence, WithSchedule, OptionShape
  <2> QED BY <2>1, PutOptionSettles
<1>3. ASSUME NEW e, AddOption({e}) PROVE Settled'
  <2>1. PutOption(Option(TRUE, {e})) /\ Option(TRUE, {e}).exists
    BY <1>3 DEF AddOption, Option
  <2> QED BY <2>1, PutOptionSettles
<1>4. CASE UpdateOption
  <2>1. PutOption([option EXCEPT !.enabled = ~@])
    BY <1>4 DEF UpdateOption
  <2>2. [option EXCEPT !.enabled = ~@].exists = option.exists
    BY <1>1 DEF OptionShape
  <2> QED BY <2>1, <2>2, PutOptionSettles
<1> QED BY <1>2, <1>3, <1>4

\* What is planned for the times of a date with one schedule.
LEMMA DayPlan ==
  ASSUME NEW entries, kind # "time_range", \A e, f \in entries : e = f
  PROVE  \A op \in PlanOf(slot, entries) :
            /\ op.op = "addTimes" => ~slot.exists /\ \A p \in PlanOf(slot, entries) : p = op
            /\ op.op = "pushTimes" =>
                  /\ slot.exists => op.times \cap DOMAIN slot.entries = {}
                  /\ \A p \in PlanOf(slot, entries) : p.op = "pushTimes" => p = op
<1>1. \E times : PlanOf(slot, entries) \subseteq PlanDays(slot, times)
  <2> DEFINE T == {TimesFor(e, Duration, Buffer) : e \in entries} \ {{}}
  <2>1. \A x, y \in T : x = y
    OBVIOUS
  <2>2. PlanOf(slot, entries) \subseteq UNION {PlanDays(slot, times) : times \in T}
    BY DEF PlanOf
  <2> HIDE DEF T
  <2>3. CASE T = {}
    BY <2>2, <2>3
  <2>4. CASE T # {}
    BY <2>1, <2>2, <2>4
  <2> QED BY <2>3, <2>4
<1>2. PICK times : PlanOf(slot, entries) \subseteq PlanDays(slot, times)
  BY <1>1
<1>3. \A op \in PlanDays(slot, times) :
         \/ ~slot.exists /\ op = [op |-> "addTimes", times |-> times]
         \/ slot.exists /\ op = [op |-> "pushTimes", times |-> times \ DOMAIN slot.entries]
         \/ slot.exists /\ \E x : op = [op |-> "pullTimes", times |-> x]
  BY DEF PlanDays
<1>4. ASSUME NEW op \in PlanDays(slot, times)
      PROVE  /\ op.op = "addTimes" => ~slot.exists /\ \A p \in PlanDays(slot, times) : p = op
             /\ op.op = "pushTimes" =>
                   /\ op.times \cap DOMAIN slot.entries = {}
                   /\ \A p \in PlanDays(slot, times) : p.op = "pushTimes" => p = op
  <2>1. CASE ~slot.exists /\ op = [op |-> "addTimes", times |-> times]
    BY <1>3, <2>1
  <2>2. CASE slot.exists /\ op = [op |-> "pushTimes", times |-> times \ DOMAIN slot.entries]
    BY <1>3, <2>2
  <2>3. CASE slot.exists /\ \E x : op = [op |-> "pullTimes", times |-> x]
    BY <2>3
  <2> QED BY <1>3, <2>1, <2>2, <2>3
<1> QED BY <1>2, <1>4

\* An operation of the bulk write leaves every active booking its counter.
LEMMA AppliedEntered ==
  ASSUME Inv, Settled, kind # "time_range", job.name = "recurrent_slots", job.step = "apply",
         NEW op \in job.ops, Matches(slot, op)
  PROVE  /\ Entered(Applied(slot, op), booking)
         /\ op.op # "addTimes" => Applied(slot, op).exists = slot.exists
         /\ op.op = "pullTimes" => DOMAIN Applied(slot, op).entries \subseteq DOMAIN slot.entries
<1>1. SlotShape(slot) /\ booking \in Rows /\ Entered(slot, booking)
  BY GoodRows DEF Inv, Now, Settled, Stands
<1>2. /\ op.op \in {"addTimes", "pushTimes", "pullTimes"}
      /\ op.op = "addTimes" => ~slot.exists
      /\ op.op = "pushTimes" /\ slot.exists => op.times \cap DOMAIN slot.entries = {}
  BY DEF Inv, Planned, Settled, Schedule
<1> DEFINE s == Applied(slot, op)
<1>3. CASE op.op = "addTimes"
  <2>1. s = Slot(NoRange, 0, Fresh(op.times))
    BY <1>3 DEF Applied
  <2>2. s.entries = Fresh(op.times)
    BY <2>1 DEF Slot
  <2>3. Held(booking) = {}
    BY <1>1, <1>2, <1>3 DEF Entered
  <2> HIDE DEF s
  <2>4. Entered(s, booking)
    BY <2>2, <2>3, EnteredFresh
  <2> QED BY <1>3, <2>4 DEF s
<1>4. CASE op.op = "pushTimes"
  <2> DEFINE e == Push(slot.entries, op.times)
  <2>1. s = [slot EXCEPT !.entries = e]
    BY <1>4 DEF Applied
  <2>2. slot.exists
    BY <1>4 DEF Matches
  <2>3. /\ DOMAIN e = DOMAIN slot.entries \cup op.times
        /\ \A x \in op.times : e[x] = << 0 >>
        /\ \A x \in DOMAIN slot.entries : e[x] = slot.entries[x]
    BY <1>2, <1>4, <2>2, Pushed
  <2> HIDE DEF s, e
  <2>4. s.exists = slot.exists /\ s.entries = e
    BY <1>1, <2>1 DEF SlotShape
  <2>5. /\ \A x \in DOMAIN s.entries :
              \/ x \in DOMAIN slot.entries /\ s.entries[x] = slot.entries[x]
              \/ x \notin DOMAIN slot.entries /\ s.entries[x] = << 0 >>
        /\ \A x \in DOMAIN slot.entries \ DOMAIN s.entries : Taking(booking, x) = {}
    BY <2>3, <2>4
  <2>6. Entered(s, booking)
    BY <1>1, <2>4, <2>5, EnteredTimes
  <2> QED BY <1>4, <2>4, <2>6 DEF s
<1>5. CASE op.op = "pullTimes"
  <2> DEFINE Pulled(x) == x \in op.times /\ 0 \in Range(slot.entries[x])
             Left(x) == IF Pulled(x) THEN SelectSeq(slot.entries[x], LAMBDA n : n > 0) ELSE slot.entries[x]
             kept == {x \in DOMAIN slot.entries : Pulled(x) => \E n \in Range(slot.entries[x]) : n > 0}
             e == [x \in kept |-> Left(x)]
  <2>1. s = [slot EXCEPT !.entries = e]
    BY <1>5, Zenon DEF Applied
  <2>2. \A x \in kept : ~Pulled(x)
    BY <1>1 DEF Entered, Range
  <2>3. \A x \in kept : e[x] = slot.entries[x]
    BY <2>2, Zenon
  <2>4. DOMAIN e = kept
    BY Zenon
  <2>5. kept \subseteq DOMAIN slot.entries
    OBVIOUS
  <2>6. \A x \in DOMAIN slot.entries \ kept : slot.entries[x][1] = 0
    BY <1>1 DEF Entered, Range
  <2>7. \A x \in DOMAIN slot.entries \ kept : Taking(booking, x) = {}
    <3> SUFFICES ASSUME NEW x \in DOMAIN slot.entries \ kept PROVE Taking(booking, x) = {}
      OBVIOUS
    <3>1. Cardinality(Taking(booking, x)) <= 0
      BY <1>1, <2>6 DEF Entered
    <3>2. Taking(booking, x) \in SUBSET Ids
      BY HeldInIds DEF Taking
    <3> QED BY <3>1, <3>2, Nobody
  <2> HIDE DEF s, e, kept
  <2>8. s.exists = slot.exists /\ s.entries = e
    BY <1>1, <2>1 DEF SlotShape
  <2>9. /\ \A x \in DOMAIN s.entries :
              \/ x \in DOMAIN slot.entries /\ s.entries[x] = slot.entries[x]
              \/ x \notin DOMAIN slot.entries /\ s.entries[x] = << 0 >>
        /\ \A x \in DOMAIN slot.entries \ DOMAIN s.entries : Taking(booking, x) = {}
    BY <2>3, <2>4, <2>5, <2>7, <2>8
  <2>10. Entered(s, booking)
    BY <1>1, <2>8, <2>9, EnteredTimes
  <2> QED BY <1>5, <2>4, <2>5, <2>8, <2>10 DEF s
<1> QED BY <1>2, <1>3, <1>4, <1>5

LEMMA RecurrentSettles ==
  ASSUME Inv, Settled, RecurrentStart \/ RecurrentPlan \/ RecurrentApply
  PROVE  Settled'
<1>1. Planned /\ booking \in Rows /\ OptionShape(kind, option)
  BY GoodRows DEF Inv, Now
<1>2. CASE RecurrentStart
  <2>1. /\ job' = [name |-> "recurrent_slots", step |-> "slots", entries |-> option.schedule, ops |-> {}]
        /\ Can("recurrent_slots") /\ UNCHANGED <<slot, booking, option, pend, fixed>>
    BY <1>2 DEF RecurrentStart, docs
  <2>2. Schedule'
    BY <1>1, <2>1 DEF Schedule, OptionShape, Can, fixed
  <2> QED BY <2>1, <2>2, QuietSettles
<1>3. CASE RecurrentPlan
  <2> DEFINE ops == PlanOf(slot, job.entries)
  <2>1. /\ job.name = "recurrent_slots"
        /\ job' = IF ops = {} THEN NoJob ELSE [job EXCEPT !.step = "apply", !.ops = ops]
        /\ UNCHANGED <<slot, booking, option, pend, fixed>>
    BY <1>3 DEF RecurrentPlan, docs
  <2>2. Can("recurrent_slots") /\ \A e, f \in job.entries : e = f
    BY <2>1 DEF Settled, Schedule
  <2>3. kind # "time_range" => \A op \in ops :
            /\ op.op = "addTimes" => ~slot.exists /\ \A p \in ops : p = op
            /\ op.op = "pushTimes" =>
                  /\ slot.exists => op.times \cap DOMAIN slot.entries = {}
                  /\ \A p \in ops : p.op = "pushTimes" => p = op
    BY <2>2, DayPlan
  <2> HIDE DEF ops
  <2>4. Schedule'
    <3>1. CASE ops = {}
      BY <2>1, <3>1 DEF Schedule, NoJob
    <3>2. CASE ops # {}
      <4>1. job' = [name |-> "recurrent_slots", step |-> "apply", entries |-> job.entries, ops |-> ops]
        BY <1>1, <2>1, <3>2 DEF Planned
      <4> QED BY <2>1, <2>2, <2>3, <4>1 DEF Schedule, Can, fixed
    <3> QED BY <3>1, <3>2
  <2> QED BY <2>1, <2>4, QuietSettles
<1>4. CASE RecurrentApply
  <2>1. PICK op \in job.ops :
           /\ IF Matches(slot, op) THEN Put({"slot"}, Applied(slot, op), booking)
              ELSE UNCHANGED <<docs, pend>>
           /\ job' = IF job.ops = {op} THEN NoJob ELSE [job EXCEPT !.ops = @ \ {op}]
    BY <1>4 DEF RecurrentApply
  <2>2. job.name = "recurrent_slots" /\ job.step = "apply" /\ UNCHANGED <<option, fixed>>
    BY <1>4 DEF RecurrentApply
  <2>3. Can("recurrent_slots") /\ ~Can("option") /\ option.exists
    BY <2>2 DEF Settled, Schedule, Undisturbed, Stands
  <2>4. job'.name # "recurrent_slots" \/ job' = [job EXCEPT !.ops = @ \ {op}]
    BY <2>1 DEF NoJob
  <2>5. job'.name = "recurrent_slots" => job'.entries = job.entries /\ job'.ops = job.ops \ {op}
    BY <1>1, <2>2, <2>4 DEF Planned
  <2> DEFINE s == Applied(slot, op)
  <2>6. CASE Matches(slot, op)
    <3>1. Put({"slot"}, s, booking)
      BY <2>1, <2>6
    <3>2. kind # "time_range" =>
             /\ Entered(s, booking)
             /\ op.op # "addTimes" => s.exists = slot.exists
             /\ op.op = "pullTimes" => DOMAIN s.entries \subseteq DOMAIN slot.entries
      BY <2>2, <2>6, AppliedEntered
    <3> HIDE DEF s
    <3>3. Stands(s, option, booking)
      BY <2>3, <3>2 DEF Stands
    <3>4. slot' = s
      BY <3>1 DEF Put
    <3>5. Schedule'
      <4> SUFFICES ASSUME job'.name = "recurrent_slots" PROVE Schedule'
        BY DEF Schedule
      <4>1. job'.entries = job.entries /\ job'.ops = job.ops \ {op}
        BY <2>5
      <4>2. kind # "time_range" => \A p \in job.ops : p.op \in {"addTimes", "pushTimes", "pullTimes"}
        BY <2>2 DEF Inv, Planned
      <4>3. ASSUME kind # "time_range", NEW p \in job.ops \ {op}
            PROVE  /\ p.op # "addTimes"
                   /\ p.op = "pushTimes" =>
                         /\ slot'.exists => p.times \cap DOMAIN slot'.entries = {}
                         /\ \A q \in job.ops \ {op} : q.op = "pushTimes" => q = p
        <5>1. /\ op.op # "addTimes" /\ p.op # "addTimes"
              /\ p.op = "pushTimes" =>
                    /\ op.op # "pushTimes"
                    /\ slot.exists => p.times \cap DOMAIN slot.entries = {}
                    /\ \A q \in job.ops : q.op = "pushTimes" => q = p
          BY <2>2, <4>3 DEF Settled, Schedule
        <5>2. p.op = "pushTimes" => op.op = "pullTimes"
          BY <4>2, <4>3, <5>1
        <5> QED BY <3>2, <3>4, <4>3, <5>1, <5>2
      <4>4. \A e, f \in job.entries : e = f
        BY <2>2 DEF Settled, Schedule
      <4> QED BY <2>2, <2>3, <4>1, <4>3, <4>4 DEF Schedule, Can, fixed
    <3> QED BY <1>1, <2>2, <2>3, <3>1, <3>3, <3>5, SameMilder, PutSettles
  <2>7. CASE ~Matches(slot, op)
    <3>1. UNCHANGED <<slot, booking, pend>>
      BY <2>1, <2>7 DEF docs
    <3>2. Schedule'
      BY <2>2, <2>3, <2>5, <3>1 DEF Settled, Schedule, Can, fixed
    <3> QED BY <2>2, <3>1, <3>2, QuietSettles
  <2> QED BY <2>6, <2>7
<1> QED BY <1>2, <1>3, <1>4

\* The steps of the requests, of the clock and of the other jobs.
LEMMA RestSettles ==
  ASSUME Inv, Settled, UNCHANGED <<slot, booking, option, fixed>>,
         pend' = pend \/ \E t \in Txns : pend' = [pend EXCEPT ![t] = NoWork],
         job' = job \/ job'.name # "recurrent_slots"
  PROVE  Settled'
<1>1. \A q \in Txns : pend'[q] = pend[q] \/ pend'[q] = NoWork
  BY DEF Inv
<1>2. Schedule'
  BY DEF Settled, Schedule, Can, fixed
<1> QED BY <1>1, <1>2, QuietSettles

LEMMA StepSettles == ASSUME Inv, Settled, Next PROVE Settled'
<1>t. Users \subseteq Txns /\ Staff \subseteq Txns
  BY DEF Txns
<1>1. CASE \E t \in Txns : Commit(t) \/ Abort(t)
  BY <1>1, CommitSettles, RestSettles DEF Abort, docs
<1>2. CASE \E t \in Txns : Refuse(t) \/ Complete(t) \/ GiveKeyBack(t) \/ Crash(t) \/ ExpireKey(t)
  BY <1>2, RestSettles DEF Refuse, Complete, GiveKeyBack, Crash, ExpireKey, docs
<1>3. CASE \E u \in Users : \E place \in Places : Submit(u, place)
  BY <1>3, RestSettles DEF Submit, Claim, docs
<1>4. CASE \E t, u \in Users : \E b \in Ids : \E place \in Places : Book(t, u, b, place)
  BY <1>4, BookSettles
<1>5. CASE \E t \in Txns : \E b \in Ids : \E place \in Places : Move(t, b, place)
  BY <1>5, MoveSettles
<1>6. CASE \E b \in Ids : Cancel(b) \/ CheckIn(b)
  BY <1>6, CancelSettles, VisitSettles
<1>7. CASE \E t \in Staff : \E spec \in Specs : UpdateRange(t, spec)
  BY <1>7, <1>t, UpdateRangeSettles
<1>8. CASE \E t \in Staff : RemoveSlot(t) \/ RemoveOption(t)
  BY <1>8, <1>t, RemoveSettles
<1>9. CASE \E t \in Staff : \E times \in TimeSets : UpdateTimes(t, times)
  BY <1>9, <1>t, UpdateTimesSettles
<1>10. CASE \/ \E e \in Schedules : AddOption({e})
            \/ UpdateOption
            \/ \E new \in {{e} : e \in Schedules} \cup {{}} : SetRecurrence(new)
  BY <1>10, OptionSettles
<1>11. CASE \E t \in Staff : \E n \in Shifts : SubmitShift(t, n)
  BY <1>11, RestSettles DEF SubmitShift, Claim, docs
<1>12. CASE \E t \in Staff : \E n \in Shifts : ShiftSlot(t, n)
  BY <1>12, <1>t, ShiftSettles
<1>13. CASE RecurrentStart \/ RecurrentPlan \/ RecurrentApply
  BY <1>13, RecurrentSettles
<1>14. CASE RemindFind \/ RemindEnqueue \/ NoShowFind \/ JobCrash
  <2>1. UNCHANGED <<slot, booking, option, pend, fixed>> /\ "name" \in DOMAIN job
    BY <1>14 DEF RemindFind, RemindEnqueue, NoShowFind, JobCrash, docs, Inv, Planned
  <2>2. job'.name # "recurrent_slots"
    <3>1. CASE RemindFind
      BY <3>1 DEF RemindFind, NoJob
    <3>2. CASE RemindEnqueue
      BY <2>1, <3>2 DEF RemindEnqueue
    <3>3. CASE NoShowFind
      BY <3>3 DEF NoShowFind
    <3>4. CASE JobCrash
      BY <3>4 DEF JobCrash, NoJob
    <3> QED BY <1>14, <3>1, <3>2, <3>3, <3>4
  <2> QED BY <2>1, <2>2, RestSettles
<1>15. CASE RemindMark \/ NoShowMark
  BY <1>15, VisitSettles
<1>16. CASE Tick
  BY <1>16, RestSettles DEF Tick, docs
<1> QED BY <1>1, <1>2, <1>3, <1>4, <1>5, <1>6, <1>7, <1>8, <1>9, <1>10, <1>11, <1>12, <1>13,
           <1>14, <1>15, <1>16 DEF Next

LEMMA InitSettles == ASSUME Init, Undisturbed PROVE Settled
<1>1. PICK e \in Schedules :
         /\ option = Option(TRUE, {e})
         /\ slot = IF kind = "time_range" THEN Slot(SlotRange(e), 0, << >>)
                   ELSE Slot(NoRange, 0, Fresh(TimesFor(e, Duration, Buffer)))
  BY DEF Init
<1>2. booking \in Rows /\ Held(booking) = {}
  <2>1. Inv /\ booking = [b \in Ids |-> Past("none", NoId)]
    BY InitKeeps DEF Init
  <2> QED BY <2>1, GoodRows DEF Inv, Now, Held, Past
<1>3. kind # "time_range" => Entered(slot, booking)
  <2>1. kind # "time_range" => slot.entries = Fresh(TimesFor(e, Duration, Buffer))
    BY <1>1 DEF Slot
  <2> QED BY <1>2, <2>1, EnteredFresh
<1>4. Stands(slot, option, booking)
  BY <1>1, <1>3 DEF Stands, Option
<1>5. ASSUME NEW t \in Txns PROVE Steady(t)
  <2>1. pend[t].docs = {}
    BY DEF Init, NoWork
  <2>2. After(t) = booking /\ AfterSlot(t) = slot /\ AfterOption(t) = option
    BY <1>2, <2>1 DEF After, AfterSlot, AfterOption, Rows
  <2> QED BY <1>4, <2>1, <2>2 DEF Steady
<1>6. Schedule
  BY DEF Init, Schedule, NoJob
<1> QED BY <1>4, <1>5, <1>6 DEF Settled

(***************************************************************************)
(* Whatever the staff and the recurring schedule change while a booking is *)
(* made or moved, an active booking keeps its option, its slot, its        *)
(* interval or time, and its place in the counters - of any number of      *)
(* clients, bookings, staff, times and schedules, where the job and the    *)
(* staff do not race for what the slot is made of (Undisturbed).           *)
(***************************************************************************)
THEOREM NobodyIsStranded == Spec /\ Undisturbed => []NobodyStranded
<1>1. Init /\ Undisturbed => Inv /\ Settled
  BY InitKeeps, InitSettles
<1>2. Inv /\ Settled /\ [Next]_vars => Inv' /\ Settled'
  <2> SUFFICES ASSUME Inv, Settled, [Next]_vars PROVE Inv' /\ Settled'
    OBVIOUS
  <2>1. CASE Next
    BY <2>1, StepKeeps, StepSettles
  <2>2. CASE UNCHANGED vars
    BY <2>2, RestKeeps, RestSettles DEF vars, fixed
  <2> QED BY <2>1, <2>2
<1>3. Inv /\ Settled => NobodyStranded
  <2> SUFFICES ASSUME Inv, Settled, NEW b \in Held(booking)
               PROVE  LET place == booking[b].place
                          taken == Cardinality({c \in Held(booking) : booking[c].place = place})
                      IN /\ option.exists /\ slot.exists
                         /\ kind = "time_range" =>
                              /\ slot.range.from <= place.from /\ place.to <= slot.range.to
                              /\ CountActiveBySlot(booking) <= slot.count
                         /\ kind = "date_time" =>
                              \E n \in Range(EntriesAt(slot.entries, place.from)) : taken <= n
    BY DEF NobodyStranded
  <2> DEFINE x == booking[b].place.from
             same == {c \in Held(booking) : booking[c].place = booking[b].place}
  <2>1. Stands(slot, option, booking) /\ Holds(kind, slot, booking)
    BY DEF Inv, Now, Settled
  <2>2. option.exists /\ slot.exists
    BY <2>1 DEF Stands, Entered, Holds
  <2>3. ASSUME kind = "date_time" PROVE \E n \in Range(EntriesAt(slot.entries, x)) : Cardinality(same) <= n
    <3>1. /\ x \in DOMAIN slot.entries /\ DOMAIN slot.entries[x] = {1} /\ slot.entries[x][1] \in Nat
          /\ Cardinality(Taking(booking, x)) <= slot.entries[x][1]
      BY <2>1, <2>3 DEF Stands, Entered
    <3>2. same \subseteq Taking(booking, x) /\ Taking(booking, x) \subseteq Ids
      BY HeldInIds DEF Taking
    <3> HIDE DEF same, x
    <3>3. /\ Cardinality(same) \in Nat /\ Cardinality(Taking(booking, x)) \in Nat
          /\ Cardinality(same) <= Cardinality(Taking(booking, x))
      BY <3>2, Counting
    <3>4. Cardinality(same) <= slot.entries[x][1]
      BY <3>1, <3>3
    <3>5. EntriesAt(slot.entries, x) = slot.entries[x]
      BY <3>1 DEF EntriesAt
    <3>6. slot.entries[x][1] \in Range(slot.entries[x])
      BY <3>1 DEF Range
    <3> QED BY <3>4, <3>5, <3>6
  <2> QED BY <2>1, <2>2, <2>3 DEF Holds
<1> QED BY <1>1, <1>2, <1>3, PTL DEF Spec

-----------------------------------------------------------------------------
(* The free ranges of a slot. *)

\* Whole steps of the grid, and what is left over.
LEMMA Quotient ==
  ASSUME NEW a \in Int, NEW s \in Nat \ {0}
  PROVE  /\ a \div s \in Int /\ a % s \in 0 .. s - 1
         /\ a = s * (a \div s) + (a % s)
OBVIOUS

LEMMA Multiples ==
  ASSUME NEW s \in Nat \ {0}, NEW m \in Int, NEW k \in Int, NEW r \in 0 .. s - 1, s * m <= s * k + r
  PROVE  m <= k
<1>1. ASSUME m >= k + 1 PROVE FALSE
  <2>1. s * m >= s * (k + 1)
    BY <1>1
  <2>2. s * (k + 1) = s * k + s
    OBVIOUS
  <2> DEFINE p == s * m
             q == s * k
             z == s * (k + 1)
  <2>3. p \in Int /\ q \in Int /\ z \in Int /\ p <= q + r /\ p >= z /\ z = q + s
    BY <2>1, <2>2
  <2> HIDE DEF p, q, z
  <2> QED BY <2>3
<1> QED BY <1>1

\* A point of the grid is beyond a point if it is beyond the next one of the
\* grid, and before it if before the last one.
LEMMA Rounding ==
  ASSUME NEW s \in Nat \ {0}, NEW a \in Int, NEW x \in Int, x % s = 0
  PROVE  /\ CeilDiv(a, s) * s \in Int /\ (CeilDiv(a, s) * s <= x <=> a <= x)
         /\ (a \div s) * s \in Int /\ (x <= (a \div s) * s <=> x <= a)
<1> DEFINE k == x \div s
           c == (-a) \div s
           d == a \div s
           r == (-a) % s
           z == a % s
<1>1. k \in Int /\ x = s * k
  BY Quotient
<1>2. c \in Int /\ r \in 0 .. s - 1 /\ -a = s * c + r
  <2>1. -a \in Int
    OBVIOUS
  <2> QED BY <2>1, Quotient
<1>3. d \in Int /\ z \in 0 .. s - 1 /\ a = s * d + z
  BY Quotient
<1>4. CeilDiv(a, s) = -c /\ a \div s = d
  BY DEF CeilDiv
<1> HIDE DEF k, c, d, r, z
<1>5. (-c) * s = -(s * c) /\ s * (-c) = -(s * c) /\ d * s = s * d /\ s * c \in Int /\ s * d \in Int /\ s * k \in Int
  BY <1>1, <1>2, <1>3
<1>6. a <= x => s * (-c) <= s * k
  <2> SUFFICES ASSUME a <= x PROVE s * (-c) <= s * k
    OBVIOUS
  <2>1. s * (-c) <= s * k + r
    BY <1>1, <1>2, <1>5
  <2>2. -c <= k
    BY <1>1, <1>2, <2>1, Multiples
  <2> QED BY <1>1, <1>2, <2>2
<1>7. x <= a => s * k <= s * d
  <2> SUFFICES ASSUME x <= a PROVE s * k <= s * d
    OBVIOUS
  <2>1. s * k <= s * d + z
    BY <1>1, <1>3
  <2>2. k <= d
    BY <1>1, <1>3, <2>1, Multiples
  <2> QED BY <1>1, <1>3, <2>2
<1> DEFINE C == s * c
           D == s * d
           K == s * k
           up == (-c) * s
           down == d * s
<1>8. /\ C \in Int /\ D \in Int /\ up = -C /\ down = D /\ x = K /\ K \in Int
      /\ -a = C + r /\ a = D + z /\ (a <= x => -C <= K) /\ (x <= a => K <= D)
  BY <1>1, <1>2, <1>3, <1>5, <1>6, <1>7
<1> HIDE DEF C, D, K, up, down
<1>9. up \in Int /\ (up <= x <=> a <= x) /\ down \in Int /\ (x <= down <=> x <= a)
  BY <1>2, <1>3, <1>8
<1> QED BY <1>4, <1>9 DEF up, down

LEMMA OnGrid ==
  ASSUME NEW range, range.from \in Int, range.step \in Nat \ {0},
         NEW x \in Int, (x - range.from) % range.step = 0, NEW gap, gap.from \in Int, gap.to \in Int
  PROVE  /\ Aligned(range, gap).from \in Int /\ Aligned(range, gap).to \in Int
         /\ Aligned(range, gap).from <= x <=> gap.from <= x
         /\ x <= Aligned(range, gap).to <=> x <= gap.to
<1> DEFINE open == range.from
           s == range.step
           y == x - range.from
           a == gap.from - range.from
           b == gap.to - range.from
           up == CeilDiv(a, s) * s
           down == (b \div s) * s
<1>1. open \in Int /\ s \in Nat \ {0} /\ y \in Int /\ a \in Int /\ b \in Int /\ y % s = 0
  OBVIOUS
<1>2. Aligned(range, gap).from = open + up /\ Aligned(range, gap).to = open + down
  BY DEF Aligned, Interval
<1>3. up \in Int /\ (up <= y <=> a <= y) /\ down \in Int /\ (y <= down <=> y <= b)
  <2> HIDE DEF y, a, b, s
  <2> QED BY <1>1, Rounding
<1> HIDE DEF up, down
<1> QED BY <1>2, <1>3

\* The latest of a point and some times of the day.
LEMMA Latest ==
  ASSUME NEW T \in SUBSET (0 .. Day), NEW a \in Int
  PROVE  Max({a} \cup T) \in {a} \cup T /\ \A y \in {a} \cup T : y <= Max({a} \cup T)
<1>1. \E x \in {a} \cup T : \A y \in {a} \cup T : x >= y
  <2>1. CASE T = {}
    BY <2>1
  <2>2. CASE T # {}
    <3>1. \E x \in T : \A y \in T : x >= y
      <4> DEFINE U == {Day - x : x \in T}
      <4>0. \A x \in T : Day - x \in Nat
        BY DayAssumption
      <4>1. U \in SUBSET Nat /\ U # {}
        BY <2>2, <4>0
      <4>2. \E u \in U : \A v \in U : u <= v
        <5> HIDE DEF U
        <5> QED BY <4>1, Least
      <4>3. PICK x \in T : \A y \in T : Day - x <= Day - y
        BY <4>2
      <4>4. \A y \in T : x >= y
        BY <4>3, DayAssumption
      <4> QED BY <4>4
    <3>2. PICK x \in T : \A y \in T : x >= y
      BY <3>1
    <3>3. CASE a <= x
      BY <3>2, <3>3, DayAssumption
    <3>4. CASE ~(a <= x)
      <4>1. \A y \in T : a >= y
        BY <3>2, <3>4, DayAssumption
      <4> QED BY <4>1
    <3> QED BY <3>3, <3>4
  <2> QED BY <2>1, <2>2
<1> DEFINE S == {a} \cup T
<1>2. \A y \in S : y \in Int
  BY DayAssumption
<1>3. \E x \in S : \A y \in S : x >= y
  BY <1>1
<1> HIDE DEF S
<1>4. Max(S) \in S /\ \A y \in S : Max(S) >= y
  BY <1>3 DEF Max
<1>5. \A y \in S : y <= Max(S)
  BY <1>2, <1>4
<1> QED BY <1>4, <1>5 DEF S

Spans == [from : 0 .. Day, to : 0 .. Day]

\* The sweep has come past the blocked times that begin earlier, and no further.
LEMMA CursorIs ==
  ASSUME NEW blocked \in SUBSET Spans, NEW start \in Int, NEW at \in Int
  PROVE  LET c == Cursor(blocked, start, at)
         IN /\ c \in Int /\ start <= c
            /\ \A k \in blocked : k.from < at => k.to <= c
            /\ \A x \in Int : start <= x /\ (\A k \in blocked : k.from < at => k.to <= x) => c <= x
<1> DEFINE T == {i.to : i \in {k \in blocked : k.from < at}}
<1>1. T \in SUBSET (0 .. Day)
  BY DEF Spans
<1>2. \A k \in blocked : k.from < at => k.to \in T
  OBVIOUS
<1>3. \A y \in T : \E k \in blocked : k.from < at /\ y = k.to
  OBVIOUS
<1>4. Cursor(blocked, start, at) = Max({start} \cup T)
  BY DEF Cursor
<1> HIDE DEF T
<1>5. Max({start} \cup T) \in {start} \cup T /\ \A y \in {start} \cup T : y <= Max({start} \cup T)
  BY <1>1, Latest
<1> DEFINE c == Max({start} \cup T)
<1>6. c \in {start} \cup T /\ \A y \in {start} \cup T : y <= c
  BY <1>5
<1> HIDE DEF c
<1>7. c \in Int
  BY <1>1, <1>6, DayAssumption
<1>8. start <= c /\ \A k \in blocked : k.from < at => k.to <= c
  BY <1>2, <1>6
<1>9. \A x \in Int : start <= x /\ (\A k \in blocked : k.from < at => k.to <= x) => c <= x
  BY <1>3, <1>6
<1> QED BY <1>4, <1>7, <1>8, <1>9 DEF c

\* A place lies in one of the gaps just when nothing blocked reaches into it.
ClearOf(gaps, blocked, start, place) ==
    /\ \A gap \in gaps : gap.from \in Int /\ gap.to \in Int
    /\ (\E gap \in gaps : gap.from <= place.from /\ place.to <= gap.to)
       <=> /\ start <= place.from
           /\ \A k \in blocked : k.from >= place.to \/ k.to <= place.from

LEMMA GapsAreClear ==
  ASSUME NEW range, range.from \in Int, range.to \in Int, NEW blocked \in SUBSET Spans, NEW start \in Int,
         NEW place \in Intervals, place.to <= range.to
  PROVE  ClearOf(Gaps(range, blocked, start), blocked, start, place)
<1> DEFINE C(at) == Cursor(blocked, start, at)
           Ends(at) == IF at < range.to THEN at ELSE range.to
           Gap(k) == Interval(C(k.from), Ends(k.from))
           last == Interval(C(Day + 1), range.to)
           free == Gaps(range, blocked, start)
<1>1. \A k \in blocked : k.from \in 0 .. Day /\ k.to \in 0 .. Day
  BY DEF Spans
<1>2. place.from \in 0 .. Day /\ place.to \in 0 .. Day /\ place.from < place.to
  BY DEF Intervals
<1>3. \A at \in Int : /\ C(at) \in Int /\ start <= C(at)
                      /\ \A k \in blocked : k.from < at => k.to <= C(at)
                      /\ \A x \in Int : start <= x /\ (\A k \in blocked : k.from < at => k.to <= x) => C(at) <= x
  BY CursorIs
<1>4. /\ \A gap \in free : \/ \E k \in blocked : k.from > C(k.from) /\ gap = Gap(k)
                           \/ gap = last /\ last.from < last.to
      /\ \A k \in blocked : k.from > C(k.from) => Gap(k) \in free
      /\ last.from < last.to => last \in free
  BY DEF Gaps
<1>5. /\ last.from = C(Day + 1) /\ last.to = range.to
      /\ \A k \in blocked : Gap(k).from = C(k.from) /\ Gap(k).to = Ends(k.from)
  BY DEF Interval
<1>6. \A k \in blocked : Ends(k.from) \in Int /\ Ends(k.from) <= k.from /\ Ends(k.from) <= range.to
                         /\ (place.to <= k.from => place.to <= Ends(k.from))
  BY <1>1, <1>2
<1>7. Day + 1 \in Int /\ \A k \in blocked : k.from \in Int /\ k.from < Day + 1
  BY <1>1, DayAssumption
<1> HIDE DEF C, Ends, Gap, last, free
<1>8. ASSUME NEW gap \in free PROVE gap.from \in Int /\ gap.to \in Int
  <2>1. CASE \E k \in blocked : k.from > C(k.from) /\ gap = Gap(k)
    BY <1>3, <1>5, <1>6, <1>7, <2>1
  <2>2. CASE gap = last
    BY <1>3, <1>5, <1>7, <2>2
  <2> QED BY <1>4, <2>1, <2>2
<1>9. ASSUME NEW gap \in free, gap.from <= place.from, place.to <= gap.to
      PROVE  /\ start <= place.from
             /\ \A k \in blocked : k.from >= place.to \/ k.to <= place.from
  <2>1. CASE \E k \in blocked : k.from > C(k.from) /\ gap = Gap(k)
    <3>1. PICK j \in blocked : gap = Gap(j)
      BY <2>1
    <3>2. /\ C(j.from) \in Int /\ start <= C(j.from) /\ C(j.from) <= place.from
          /\ place.to <= j.from
          /\ \A k \in blocked : k.from < j.from => k.to <= C(j.from)
      BY <1>2, <1>3, <1>5, <1>6, <1>7, <1>9, <3>1
    <3>3. ASSUME NEW k \in blocked PROVE k.from >= place.to \/ k.to <= place.from
      BY <1>1, <1>2, <3>2
    <3> QED BY <1>2, <3>2, <3>3
  <2>2. CASE gap = last
    <3>1. /\ C(Day + 1) \in Int /\ start <= C(Day + 1) /\ C(Day + 1) <= place.from
          /\ \A k \in blocked : k.to <= C(Day + 1)
      BY <1>3, <1>5, <1>7, <1>9, <2>2
    <3>2. ASSUME NEW k \in blocked PROVE k.from >= place.to \/ k.to <= place.from
      BY <1>1, <1>2, <3>1
    <3> QED BY <1>2, <3>1, <3>2
  <2> QED BY <1>4, <2>1, <2>2
<1>10. ASSUME start <= place.from, \A k \in blocked : k.from >= place.to \/ k.to <= place.from
       PROVE  \E gap \in free : gap.from <= place.from /\ place.to <= gap.to
  <2> DEFINE later == {k \in blocked : k.from >= place.to}
             starts == {k.from : k \in later}
  <2>1. CASE later = {}
    <3>1. \A k \in blocked : k.to <= place.from
      BY <1>10, <2>1
    <3>2. C(Day + 1) <= place.from /\ C(Day + 1) \in Int
      <4>1. /\ C(Day + 1) \in Int
            /\ \A x \in Int : start <= x /\ (\A k \in blocked : k.from < Day + 1 => k.to <= x) => C(Day + 1) <= x
        BY <1>3, <1>7
      <4>2. place.from \in Int /\ \A k \in blocked : k.from < Day + 1 => k.to <= place.from
        BY <1>2, <3>1
      <4> QED BY <1>10, <4>1, <4>2
    <3>3. last.from < last.to /\ last.from <= place.from /\ place.to <= last.to
      BY <1>2, <1>5, <3>2
    <3> QED BY <1>4, <3>3
  <2>2. CASE later # {}
    <3>1. starts \in SUBSET Nat /\ starts # {}
      BY <1>1, <2>2, DayAssumption
    <3>2. \E x \in starts : \A y \in starts : x <= y
      <4> HIDE DEF starts
      <4> QED BY <3>1, Least
    <3>3. PICK j \in later : \A k \in later : j.from <= k.from
      BY <3>2
    <3>4. j \in blocked /\ j.from >= place.to /\ j.from \in Int
      BY <1>7, <3>3
    <3>5. ASSUME NEW k \in blocked, k.from < j.from PROVE k.to <= place.from
      <4>1. k \notin later
        BY <1>1, <3>3, <3>4, <3>5
      <4> QED BY <1>10, <4>1
    <3>6. C(j.from) <= place.from /\ C(j.from) \in Int
      <4>1. /\ C(j.from) \in Int
            /\ \A x \in Int : start <= x /\ (\A k \in blocked : k.from < j.from => k.to <= x) => C(j.from) <= x
        BY <1>3, <3>4
      <4>2. place.from \in Int /\ \A k \in blocked : k.from < j.from => k.to <= place.from
        BY <1>2, <3>5
      <4> QED BY <1>10, <4>1, <4>2
    <3>7. j.from > C(j.from) /\ Gap(j).from <= place.from /\ place.to <= Gap(j).to
      BY <1>2, <1>5, <1>6, <3>4, <3>6
    <3> QED BY <1>4, <3>4, <3>7
  <2> QED BY <2>1, <2>2
<1> QED BY <1>8, <1>9, <1>10 DEF free, ClearOf

\* Of a range: a place that fits is offered just when the past and the
\* bookings leave it clear.
LEMMA FreeRangesAreExact ==
  ASSUME NEW range, Ranged(range), range.step \in Nat \ {0}, range.min \in Int,
         NEW place \in Intervals, FitsRange(range, place),
         NEW busy \in SUBSET Intervals, NEW notBefore \in Int
  PROVE  /\ \A free \in FreeRanges(range, busy, Buffer, notBefore) : free.from \in Int
         /\ (\E free \in FreeRanges(range, busy, Buffer, notBefore) : Inside(place, free))
            <=> notBefore <= place.from /\ \A i \in busy : ~Clashes(place, i, Buffer)
<1> DEFINE start == Max({range.from, notBefore})
           blocked == Blocked(busy, Buffer)
           gaps == Gaps(range, blocked, start)
           Block(i) == Interval(Clamp(i.from - Buffer), Clamp(i.to + Buffer))
<1>1. /\ range.from \in Int /\ range.to \in Int /\ place.from \in Int /\ place.to \in Int
      /\ place.from < place.to /\ range.from <= place.from /\ place.to <= range.to
      /\ place.to - place.from >= range.min
      /\ (place.from - range.from) % range.step = 0 /\ (place.to - range.from) % range.step = 0
  BY DayAssumption DEF Ranged, FitsRange, Intervals, Length
<1>2. start \in Int /\ (start <= place.from <=> notBefore <= place.from)
  <2> DEFINE S == {range.from, notBefore}
  <2>1. \A y \in S : y \in Int
    BY <1>1
  <2>2. \E x \in S : \A y \in S : x >= y
    BY <1>1
  <2>3. range.from \in S /\ notBefore \in S
    OBVIOUS
  <2>4. start = Max(S)
    OBVIOUS
  <2>5. \A y \in S : y = range.from \/ y = notBefore
    OBVIOUS
  <2> HIDE DEF S, start
  <2>6. Max(S) \in S /\ \A y \in S : Max(S) >= y
    BY <2>2 DEF Max
  <2>7. /\ start = range.from \/ start = notBefore
        /\ start >= range.from /\ start >= notBefore
    BY <2>3, <2>4, <2>5, <2>6
  <2> QED BY <1>1, <2>7
<1>3. \A n \in Int : Clamp(n) \in 0 .. Day
  BY DayAssumption DEF Clamp
<1>4. \A i \in busy : i.from \in 0 .. Day /\ i.to \in 0 .. Day /\ i \in Intervals
  BY DEF Intervals
<1>5. \A i \in busy : /\ Block(i) \in Spans
                      /\ Block(i).from >= place.to \/ Block(i).to <= place.from <=> ~Clashes(place, i, Buffer)
  <2> SUFFICES ASSUME NEW i \in busy
               PROVE  /\ Block(i) \in Spans
                      /\ Block(i).from >= place.to \/ Block(i).to <= place.from <=> ~Clashes(place, i, Buffer)
    OBVIOUS
  <2>1. Block(i).from = Clamp(i.from - Buffer) /\ Block(i).to = Clamp(i.to + Buffer)
    BY DEF Interval
  <2>2. Block(i) \in Spans
    BY <1>3, <1>4, BufferAssumption, DayAssumption DEF Spans, Interval
  <2>3. place.from \in 0 .. Day /\ place.to \in 0 .. Day
    BY DEF Intervals
  <2>4. Clashes(place, i, Buffer) <=> i.from < place.to + Buffer /\ i.to > place.from - Buffer
    BY <1>4, ClashesInDay
  <2>5. Clamp(i.from - Buffer) >= place.to <=> i.from - Buffer >= place.to
    BY <1>1, <1>4, <2>3, BufferAssumption, DayAssumption DEF Clamp
  <2>6. Clamp(i.to + Buffer) <= place.from <=> i.to + Buffer <= place.from
    BY <1>1, <1>4, <2>3, BufferAssumption, DayAssumption DEF Clamp
  <2> HIDE DEF Block
  <2> QED BY <1>1, <1>4, <2>1, <2>2, <2>4, <2>5, <2>6, BufferAssumption, DayAssumption
<1>6. blocked = {Block(i) : i \in busy}
  BY DEF Blocked
<1>7. blocked \in SUBSET Spans
  BY <1>5, <1>6
<1>8. (\A k \in blocked : k.from >= place.to \/ k.to <= place.from) <=> \A i \in busy : ~Clashes(place, i, Buffer)
  BY <1>5, <1>6
<1>9. FreeRanges(range, busy, Buffer, notBefore) =
         {i \in {Aligned(range, gap) : gap \in gaps} : Length(i) >= range.min}
  BY DEF FreeRanges
<1> HIDE DEF start, blocked, Block
<1>r. range.from \in Int /\ range.to \in Int /\ start \in Int /\ place.to <= range.to
  BY <1>1, <1>2
<1>d. range.from \in Int /\ range.to \in Int /\ place.to <= range.to
  BY <1>r
<1>e. start \in Int
  BY <1>r
<1>10. /\ \A gap \in gaps : gap.from \in Int /\ gap.to \in Int
       /\ (\E gap \in gaps : gap.from <= place.from /\ place.to <= gap.to)
          <=> /\ start <= place.from
              /\ \A k \in blocked : k.from >= place.to \/ k.to <= place.from
  <2>1. ClearOf(gaps, blocked, start, place)
    BY <1>7, <1>d, <1>e, GapsAreClear
  <2> HIDE DEF gaps
  <2> QED BY <2>1 DEF ClearOf
<1> HIDE DEF gaps
<1>11. ASSUME NEW gap \in gaps
       PROVE  /\ Aligned(range, gap).from \in Int
              /\ Inside(place, Aligned(range, gap)) <=> gap.from <= place.from /\ place.to <= gap.to
              /\ Inside(place, Aligned(range, gap)) => Length(Aligned(range, gap)) >= range.min
  <2>1. gap.from \in Int /\ gap.to \in Int
    BY <1>10
  <2>2. /\ Aligned(range, gap).from \in Int /\ Aligned(range, gap).to \in Int
        /\ Aligned(range, gap).from <= place.from <=> gap.from <= place.from
    BY <1>1, <2>1, OnGrid
  <2>3. place.to <= Aligned(range, gap).to <=> place.to <= gap.to
    BY <1>1, <2>1, OnGrid
  <2> DEFINE lo == Aligned(range, gap).from
             hi == Aligned(range, gap).to
  <2>4. lo \in Int /\ hi \in Int /\ Length(Aligned(range, gap)) = hi - lo
        /\ (Inside(place, Aligned(range, gap)) <=> lo <= place.from /\ place.to <= hi)
    BY <2>2 DEF Length, Inside
  <2>5. lo <= place.from /\ place.to <= hi <=> gap.from <= place.from /\ place.to <= gap.to
    BY <2>2, <2>3
  <2> HIDE DEF lo, hi
  <2>6. lo <= place.from /\ place.to <= hi => hi - lo >= range.min
    BY <1>1, <2>4
  <2> QED BY <2>2, <2>4, <2>5, <2>6
<1> QED BY <1>2, <1>8, <1>9, <1>10, <1>11

-----------------------------------------------------------------------------
(* Ranges keep a grid. *)

Gridded(range) ==
    /\ "step" \in DOMAIN range /\ range.step \in Nat \ {0}
    /\ "min" \in DOMAIN range /\ range.min \in Nat

Cut(s) == s.exists => Gridded(s.range)

GriddedOps == \A op \in job.ops : op.op \in {"addRange", "setRange"} => Gridded(op.range)

Grid ==
    kind = "time_range" =>
        /\ Cut(slot)
        /\ \A t \in Txns : "slot" \in pend[t].docs => Cut(pend[t].slot)
        /\ job.name = "recurrent_slots" /\ job.step # "slots" => GriddedOps

SameOrOtherJob == job' = job \/ job'.name # "recurrent_slots" \/ job'.step = "slots"

LEMMA ScheduleGrid ==
  ASSUME NEW spec \in Specs
  PROVE  Gridded(SlotRange(spec)) /\ \A range : Gridded(Updated(range, spec))
<1>1. spec.step \in Nat \ {0} /\ spec.min \in Nat \ {0}
  BY SpecsAssumption
<1> DEFINE r == SlotRange(spec)
<1>2. DOMAIN r = {"from", "to", "step", "min", "max"} /\ r.step = spec.step /\ r.min = spec.min
  BY DEF SlotRange, RangeFor
<1>3. Gridded(r)
  BY <1>1, <1>2 DEF Gridded
<1>4. ASSUME NEW range PROVE Gridded(Updated(range, spec))
  <2>1. Updated(range, spec) = [r EXCEPT !.from = range.from, !.to = range.to] \/ Updated(range, spec) = r
    BY DEF Updated
  <2> HIDE DEF r
  <2> QED BY <1>2, <1>3, <2>1 DEF Gridded
<1> QED BY <1>3, <1>4

LEMMA GridCompute ==
  ASSUME Inv, Grid, NEW t \in Txns, NEW written, NEW s, NEW o, NEW rows, NEW id,
         Compute(t, written, s, o, rows, id), UNCHANGED <<slot, job, fixed>>,
         kind = "time_range" /\ "slot" \in written => Cut(s)
  PROVE  Grid'
<1>1. SUFFICES ASSUME kind = "time_range" PROVE Grid'
  BY DEF Grid, fixed
<1>2. /\ pend'[t].docs = written /\ pend'[t].slot = s
      /\ \A q \in Txns : q # t => pend'[q] = pend[q]
  BY DEF Compute, Inv
<1>3. \A q \in Txns : "slot" \in pend'[q].docs => Cut(pend'[q].slot)
  BY <1>1, <1>2 DEF Grid
<1> QED BY <1>1, <1>3 DEF Grid, GriddedOps, Cut, fixed

LEMMA GridPut ==
  ASSUME Inv, Grid, NEW written, pend' = pend \/ pend' = Unhit(written) \/ \E t \in Txns : pend' = [pend EXCEPT ![t] = NoWork],
         UNCHANGED fixed, kind = "time_range" => Cut(slot'),
         SameOrOtherJob \/ GriddedOps'
  PROVE  Grid'
<1>1. SUFFICES ASSUME kind = "time_range" PROVE Grid'
  BY DEF Grid, fixed
<1>2. \A q \in Txns : pend'[q] = pend[q] \/ pend'[q] = NoWork
  BY DEF Unhit, Inv
<1>3. \A q \in Txns : "slot" \in pend'[q].docs => Cut(pend'[q].slot)
  BY <1>1, <1>2 DEF Grid, NoWork
<1>4. Cut(slot')
  BY <1>1
<1>5. job'.name = "recurrent_slots" /\ job'.step # "slots" => GriddedOps'
  BY <1>1 DEF Grid, SameOrOtherJob, GriddedOps
<1> QED BY <1>1, <1>3, <1>4, <1>5 DEF Grid, Cut, fixed

\* The slot stays as it is, or keeps its range, or there is none.
LEMMA SameCut ==
  ASSUME Grid, kind = "time_range", NEW s, s.exists => s.range = slot.range /\ slot.exists
  PROVE  Cut(s)
BY DEF Grid, Cut

LEMMA GridTaken ==
  ASSUME Inv, Grid, NEW t \in Txns, NEW b, NEW place, NEW rows, NEW old,
         \/ Compute(t, Written(b), Counted(slot, place), option, rows, b)
         \/ Compute(t, Written(b), Counted(Release(slot, old), place), option, rows, b),
         UNCHANGED <<slot, job, fixed>>
  PROVE  Grid'
<1>1. SlotShape(slot)
  BY DEF Inv, Now
<1>2. /\ SlotShape(Release(slot, old)) /\ Release(slot, old).exists = slot.exists
      /\ Release(slot, old).range = slot.range
  BY <1>1, ReleasedSlot
<1>3. \A s : SlotShape(s) => Counted(s, place).exists = s.exists /\ Counted(s, place).range = s.range
  BY CountedSlot
<1>4. kind = "time_range" => Cut(Counted(slot, place)) /\ Cut(Counted(Release(slot, old), place))
  BY <1>1, <1>2, <1>3, SameCut
<1> QED BY <1>4, GridCompute

LEMMA GridStaff ==
  ASSUME Inv, Grid, NEW t \in Txns,
         \/ \E spec \in Specs : UpdateRange(t, spec)
         \/ \E times \in TimeSets : UpdateTimes(t, times)
         \/ RemoveSlot(t) \/ RemoveOption(t)
         \/ \E n \in Shifts : ShiftSlot(t, n)
  PROVE  Grid'
<1>1. SlotShape(slot) /\ Cut(NoSlot)
  BY DEF Inv, Now, Cut, NoSlot
<1>2. ASSUME NEW spec \in Specs, UpdateRange(t, spec) PROVE Grid'
  <2> DEFINE s == SetRange(slot, Updated(slot.range, spec))
  <2>1. s.range = Updated(slot.range, spec)
    BY <1>1 DEF SetRange, SlotShape
  <2>2. Cut(s)
    BY <2>1, ScheduleGrid DEF Cut
  <2>3. Compute(t, Touched, s, option, booking, NoId) /\ UNCHANGED <<slot, job, fixed>>
    BY <1>2 DEF UpdateRange, docs
  <2> HIDE DEF s
  <2> QED BY <2>2, <2>3, GridCompute
<1>3. ASSUME NEW times, UpdateTimes(t, times) PROVE Grid'
  <2>1. /\ kind = "date_time" /\ UNCHANGED <<slot, job, fixed>>
        /\ \E s : Compute(t, Touched, s, option, booking, NoId)
    BY <1>3, Zenon DEF UpdateTimes, docs
  <2> QED BY <2>1, GridCompute
<1>4. ASSUME RemoveSlot(t) \/ RemoveOption(t) PROVE Grid'
  <2>1. UNCHANGED <<slot, job, fixed>> /\ \E written, o : Compute(t, written, NoSlot, o, booking, NoId)
    BY <1>4, Zenon DEF RemoveSlot, RemoveOption, docs
  <2> QED BY <1>1, <2>1, GridCompute
<1>5. ASSUME NEW n \in Shifts, ShiftSlot(t, n) PROVE Grid'
  <2> DEFINE s == IF kind = "time_range" THEN ShiftEnds(slot, n) ELSE RenameTimes(slot, n)
  <2>1. /\ Compute(t, Touched \cup Held(booking), s, option, MoveMany(booking, n), NoId)
        /\ UNCHANGED <<slot, job, fixed>>
    BY <1>5 DEF ShiftSlot, docs
  <2>2. ASSUME kind = "time_range" PROVE Cut(s)
    <3>1. s = ShiftEnds(slot, n)
      BY <2>2
    <3>2. /\ s.exists = slot.exists /\ DOMAIN s.range = DOMAIN slot.range
          /\ "step" \in DOMAIN slot.range => s.range.step = slot.range.step
          /\ "min" \in DOMAIN slot.range => s.range.min = slot.range.min
      BY <1>1, <3>1 DEF ShiftEnds, SetRange, SlotShape
    <3> HIDE DEF s
    <3>3. Cut(slot)
      BY <2>2 DEF Grid
    <3> QED BY <3>2, <3>3 DEF Cut, Gridded
  <2> HIDE DEF s
  <2> QED BY <2>1, <2>2, GridCompute
<1> QED BY <1>2, <1>3, <1>4, <1>5

\* What is planned and applied is a range of the schedule.
LEMMA GridPlan ==
  ASSUME kind = "time_range", NEW s, NEW entries, \A e \in entries : e \in Specs, NEW op \in PlanOf(s, entries),
         op.op \in {"addRange", "setRange"}
  PROVE  Gridded(op.range)
<1>1. op \in PlanRanges(s, WantedRanges(entries))
  BY DEF PlanOf
<1>2. \A range \in WantedRanges(entries) : Gridded(range)
  BY ScheduleGrid DEF WantedRanges
<1> DEFINE wanted == WantedRanges(entries)
<1> HIDE DEF wanted
<1>3. \E r \in wanted : op = [op |-> "addRange", range |-> r] \/ op = [op |-> "setRange", range |-> r]
  BY <1>1 DEF PlanRanges, wanted
<1> QED BY <1>2, <1>3 DEF wanted

LEMMA GridRecurrent ==
  ASSUME Inv, Grid, RecurrentStart \/ RecurrentPlan \/ RecurrentApply
  PROVE  Grid'
<1>1. UNCHANGED fixed
  BY DEF RecurrentStart, RecurrentPlan, RecurrentApply
<1>2. SUFFICES ASSUME kind = "time_range" PROVE Grid'
  BY <1>1 DEF Grid, fixed
<1>3. Cut(slot) /\ Planned
  BY <1>2 DEF Grid, Inv
<1>4. CASE RecurrentStart
  <2>1. UNCHANGED <<slot, pend>> /\ SameOrOtherJob
    BY <1>4 DEF RecurrentStart, docs, SameOrOtherJob
  <2> QED BY <1>1, <1>3, <2>1, GridPut
<1>5. CASE RecurrentPlan
  <2> DEFINE ops == PlanOf(slot, job.entries)
  <2>1. /\ job.name = "recurrent_slots" /\ job.step = "slots" /\ UNCHANGED <<slot, pend>>
        /\ job' = IF ops = {} THEN NoJob ELSE [job EXCEPT !.step = "apply", !.ops = ops]
    BY <1>5 DEF RecurrentPlan, docs
  <2>2. job = [name |-> "recurrent_slots", step |-> job.step, entries |-> job.entries, ops |-> job.ops]
        /\ \A e \in job.entries : e \in Specs
    BY <1>2, <1>3, <2>1 DEF Planned
  <2>3. \A op \in ops : op.op \in {"addRange", "setRange"} => Gridded(op.range)
    BY <1>2, <2>2, GridPlan
  <2> HIDE DEF ops
  <2>4. SameOrOtherJob \/ job'.ops = ops
    BY <2>1, <2>2 DEF SameOrOtherJob, NoJob
  <2>5. SameOrOtherJob \/ GriddedOps'
    BY <2>3, <2>4 DEF GriddedOps
  <2> QED BY <1>1, <1>3, <2>1, <2>5, GridPut
<1>6. CASE RecurrentApply
  <2>1. PICK op \in job.ops :
           /\ IF Matches(slot, op) THEN Put({"slot"}, Applied(slot, op), booking)
              ELSE UNCHANGED <<docs, pend>>
           /\ job' = IF job.ops = {op} THEN NoJob ELSE [job EXCEPT !.ops = @ \ {op}]
    BY <1>6 DEF RecurrentApply
  <2>2. job.name = "recurrent_slots" /\ job.step = "apply"
    BY <1>6 DEF RecurrentApply
  <2>3. job = [name |-> "recurrent_slots", step |-> job.step, entries |-> job.entries, ops |-> job.ops]
    BY <1>3, <2>2 DEF Planned
  <2>4. op.op \in {"addRange", "setRange", "removeSlot"} /\ GriddedOps
    BY <1>2, <1>3, <2>2 DEF Planned, Grid
  <2>5. SameOrOtherJob \/ GriddedOps'
    <3>1. job'.name # "recurrent_slots" \/ job'.ops = job.ops \ {op}
      BY <2>1, <2>3 DEF NoJob
    <3> QED BY <2>4, <3>1 DEF SameOrOtherJob, GriddedOps
  <2>6. Cut(Applied(slot, op))
    <3>1. SlotShape(slot)
      BY DEF Inv, Now
    <3>2. CASE op.op = "addRange"
      <4>1. Applied(slot, op) = Slot(op.range, 0, << >>)
        BY <3>2 DEF Applied
      <4> QED BY <2>4, <3>2, <4>1 DEF Cut, Slot, GriddedOps
    <3>3. CASE op.op = "setRange"
      <4>1. Applied(slot, op) = [slot EXCEPT !.range = op.range]
        BY <3>3 DEF Applied
      <4> QED BY <2>4, <3>1, <3>3, <4>1 DEF Cut, SlotShape, GriddedOps
    <3>4. CASE op.op = "removeSlot"
      <4>1. Applied(slot, op) = NoSlot
        BY <3>4 DEF Applied
      <4> QED BY <4>1 DEF Cut, NoSlot
    <3> QED BY <2>4, <3>2, <3>3, <3>4
  <2>7. (pend' = pend \/ pend' = Unhit({"slot"})) /\ (slot' = slot \/ slot' = Applied(slot, op))
    BY <2>1 DEF Put, docs
  <2>8. Cut(slot')
    BY <1>3, <2>6, <2>7
  <2> QED BY <1>1, <2>5, <2>7, <2>8, GridPut
<1> QED BY <1>4, <1>5, <1>6

LEMMA StepGrid == ASSUME Inv, Grid, Next PROVE Grid'
<1>t. Users \subseteq Txns /\ Staff \subseteq Txns
  BY DEF Txns
<1>s. kind = "time_range" => Cut(slot)
  BY DEF Grid
<1>1. CASE \E t \in Txns : Commit(t)
  <2>1. PICK t \in Txns : Commit(t)
    BY <1>1
  <2>2. /\ pend' = Unhit(pend[t].docs) /\ UNCHANGED <<job, fixed>>
        /\ slot' = IF "slot" \in pend[t].docs THEN pend[t].slot ELSE slot
    BY <2>1 DEF Commit, Put
  <2>3. kind = "time_range" => Cut(slot')
    BY <2>2 DEF Grid
  <2> QED BY <2>2, <2>3, GridPut DEF SameOrOtherJob
<1>2. CASE \/ \E t \in Txns : Abort(t) \/ Refuse(t) \/ Complete(t) \/ GiveKeyBack(t) \/ Crash(t) \/ ExpireKey(t)
           \/ \E u \in Users : \E place \in Places : Submit(u, place)
           \/ \E t \in Staff : \E n \in Shifts : SubmitShift(t, n)
           \/ Tick
  <2>1. UNCHANGED <<slot, job, fixed>>
    BY <1>2 DEF Abort, Refuse, Complete, GiveKeyBack, Crash, ExpireKey, Submit, SubmitShift, Claim, Tick, docs
  <2>2. pend' = pend \/ \E t \in Txns : pend' = [pend EXCEPT ![t] = NoWork]
    BY <1>2 DEF Abort, Refuse, Complete, GiveKeyBack, Crash, ExpireKey, Submit, SubmitShift, Claim, Tick
  <2> QED BY <1>s, <2>1, <2>2, GridPut DEF SameOrOtherJob
<1>3. CASE \/ \E e \in Schedules : AddOption({e})
           \/ UpdateOption
           \/ \E new \in {{e} : e \in Schedules} \cup {{}} : SetRecurrence(new)
  <2>1. UNCHANGED <<slot, job, fixed>> /\ pend' = Unhit({"service"})
    BY <1>3 DEF AddOption, UpdateOption, SetRecurrence, PutOption, docs
  <2> QED BY <1>s, <2>1, GridPut DEF SameOrOtherJob
<1>4. CASE \E t, u \in Users : \E b \in Ids : \E place \in Places : Book(t, u, b, place)
  <2>1. PICK t, u \in Users : \E b \in Ids : \E place \in Places : Book(t, u, b, place)
    BY <1>4
  <2>2. PICK b \in Ids, place \in Places : Book(t, u, b, place)
    BY <2>1
  <2>3. \E rows : Compute(t, Written(b), Counted(slot, place), option, rows, b)
    BY <2>2, Zenon DEF Book
  <2>4. UNCHANGED <<slot, job, fixed>>
    BY <2>2 DEF Book, docs
  <2> QED BY <1>t, <2>3, <2>4, GridTaken
<1>5. CASE \E t \in Txns : \E b \in Ids : \E place \in Places : Move(t, b, place)
  <2>1. PICK t \in Txns, b \in Ids, place \in Places : Move(t, b, place)
    BY <1>5
  <2>2. \E rows, old : Compute(t, Written(b), Counted(Release(slot, old), place), option, rows, b)
    BY <2>1, Zenon DEF Move
  <2>3. UNCHANGED <<slot, job, fixed>>
    BY <2>1 DEF Move, docs
  <2> QED BY <2>2, <2>3, GridTaken
<1>6. CASE \E b \in Ids : Cancel(b) \/ CheckIn(b)
  <2>1. PICK b \in Ids : Cancel(b) \/ CheckIn(b)
    BY <1>6
  <2>2. /\ UNCHANGED <<job, fixed>> /\ \E written : pend' = Unhit(written)
        /\ slot' = slot \/ slot' = Release(slot, booking[b].place)
    BY <2>1, Zenon DEF Cancel, CheckIn, Put
  <2>3. SlotShape(slot)
    BY DEF Inv, Now
  <2>4. slot'.exists => slot'.range = slot.range /\ slot.exists
    BY <2>2, <2>3, ReleasedSlot
  <2>5. kind = "time_range" => Cut(slot')
    BY <2>4, SameCut
  <2> QED BY <2>2, <2>5, GridPut DEF SameOrOtherJob
<1>7. CASE \E t \in Staff : \/ \E spec \in Specs : UpdateRange(t, spec)
                            \/ \E times \in TimeSets : UpdateTimes(t, times)
                            \/ RemoveSlot(t) \/ RemoveOption(t)
                            \/ \E n \in Shifts : ShiftSlot(t, n)
  BY <1>7, <1>t, GridStaff
<1>8. CASE RecurrentStart \/ RecurrentPlan \/ RecurrentApply
  BY <1>8, GridRecurrent
<1>9. CASE RemindFind \/ RemindEnqueue \/ NoShowFind \/ JobCrash
  <2>1. UNCHANGED <<slot, pend, fixed>> /\ "name" \in DOMAIN job
    BY <1>9 DEF RemindFind, RemindEnqueue, NoShowFind, JobCrash, docs, Inv, Planned
  <2>2. job'.name # "recurrent_slots"
    <3>1. CASE RemindFind
      BY <3>1 DEF RemindFind, NoJob
    <3>2. CASE RemindEnqueue
      BY <2>1, <3>2 DEF RemindEnqueue
    <3>3. CASE NoShowFind
      BY <3>3 DEF NoShowFind
    <3>4. CASE JobCrash
      BY <3>4 DEF JobCrash, NoJob
    <3> QED BY <1>9, <3>1, <3>2, <3>3, <3>4
  <2> QED BY <1>s, <2>1, <2>2, GridPut DEF SameOrOtherJob
<1>10. CASE RemindMark \/ NoShowMark
  <2>1. UNCHANGED <<slot, fixed>> /\ (pend' = pend \/ \E written : pend' = Unhit(written)) /\ "name" \in DOMAIN job
    BY <1>10, Zenon DEF RemindMark, NoShowMark, Put, docs, Inv, Planned
  <2>2. job'.name # "recurrent_slots"
    <3>1. CASE RemindMark
      BY <2>1, <3>1 DEF RemindMark
    <3>2. CASE NoShowMark
      BY <2>1, <3>2 DEF NoShowMark, NoJob
    <3> QED BY <1>10, <3>1, <3>2
  <2> QED BY <1>s, <2>1, <2>2, GridPut DEF SameOrOtherJob
<1> QED BY <1>1, <1>2, <1>3, <1>4, <1>5, <1>6, <1>7, <1>8, <1>9, <1>10 DEF Next

LEMMA InitGrid == ASSUME Init PROVE Grid
<1>1. SUFFICES ASSUME kind = "time_range" PROVE Grid
  BY DEF Grid
<1>2. PICK e \in Specs : slot = Slot(SlotRange(e), 0, << >>)
  BY <1>1 DEF Init, Schedules
<1>3. Cut(slot)
  BY <1>2, ScheduleGrid DEF Cut, Slot
<1>4. \A t \in Txns : pend[t].docs = {}
  BY DEF Init, NoWork
<1> QED BY <1>3, <1>4 DEF Grid, Init, NoJob

\* The clock is moved by nobody else, and the behaviour keeps its kind.
Onward == UNCHANGED fixed /\ (now' = now \/ now' = now + 1)

LEMMA StepOnward == ASSUME Next PROVE Onward
<1>1. ASSUME NEW t \in Txns, Commit(t) \/ Abort(t) \/ Refuse(t) \/ Complete(t) PROVE Onward
  BY <1>1, Zenon DEF Commit, Abort, Refuse, Complete, Onward
<1>2. ASSUME NEW t \in Txns, GiveKeyBack(t) \/ Crash(t) \/ ExpireKey(t) PROVE Onward
  BY <1>2, Zenon DEF GiveKeyBack, Crash, ExpireKey, Onward
<1>3. ASSUME NEW t, NEW what, Claim(t, what) PROVE Onward
  BY <1>3, Zenon DEF Claim, Onward
<1>4. ASSUME NEW t, NEW u, NEW b, NEW place, Book(t, u, b, place) PROVE Onward
  BY <1>4, Zenon DEF Book, Onward
<1>5. ASSUME NEW t, NEW b, NEW place, Move(t, b, place) PROVE Onward
  BY <1>5, Zenon DEF Move, Onward
<1>6. ASSUME NEW b, Cancel(b) \/ CheckIn(b) PROVE Onward
  BY <1>6, Zenon DEF Cancel, CheckIn, Onward
<1>7. ASSUME NEW t, \/ \E spec \in Specs : UpdateRange(t, spec)
                   \/ RemoveSlot(t) \/ RemoveOption(t)
      PROVE  Onward
  BY <1>7, Zenon DEF UpdateRange, RemoveSlot, RemoveOption, Onward
<1>8. ASSUME NEW t, (\E times \in TimeSets : UpdateTimes(t, times)) \/ (\E n \in Shifts : ShiftSlot(t, n))
      PROVE  Onward
  BY <1>8, Zenon DEF UpdateTimes, ShiftSlot, Onward
<1>9. ASSUME NEW new, PutOption(new) PROVE Onward
  BY <1>9, Zenon DEF PutOption, Onward
<1>10. CASE RecurrentStart \/ RecurrentPlan \/ RecurrentApply
  BY <1>10, Zenon DEF RecurrentStart, RecurrentPlan, RecurrentApply, Onward
<1>11. CASE RemindFind \/ RemindEnqueue \/ RemindMark
  BY <1>11, Zenon DEF RemindFind, RemindEnqueue, RemindMark, Onward
<1>12. CASE NoShowFind \/ NoShowMark \/ JobCrash \/ Tick
  BY <1>12, Zenon DEF NoShowFind, NoShowMark, JobCrash, Tick, Onward
<1>13. CASE \/ \E u \in Users : \E place \in Places : Submit(u, place)
            \/ \E t \in Staff : \E n \in Shifts : SubmitShift(t, n)
  BY <1>3, <1>13 DEF Submit, SubmitShift
<1>14. CASE \/ \E e \in Schedules : AddOption({e})
            \/ UpdateOption
            \/ \E new \in {{e} : e \in Schedules} \cup {{}} : SetRecurrence(new)
  BY <1>9, <1>14 DEF AddOption, UpdateOption, SetRecurrence
<1> QED BY <1>1, <1>2, <1>4, <1>5, <1>6, <1>7, <1>8, <1>10, <1>11, <1>12, <1>13, <1>14 DEF Next

LEMMA StepClock == ASSUME now \in Nat, Next PROVE now' \in Nat
BY StepOnward DEF Onward

-----------------------------------------------------------------------------
(* What is offered, and what a plan leaves to do. *)

\* What the theorems ask of a behaviour: any with intervals, and of those with
\* times the ones without the races (Undisturbed).
Regular == kind = "time_range" \/ Undisturbed

Kept ==
    /\ Inv /\ Grid /\ now \in Nat
    /\ kind = "time_range" \/ Settled

\* A date is in sight as long as its bookings are not over.
LEMMA InSight == ASSUME now \in Nat PROVE 1 \in Asked <=> ~IsExpired
<1>1. Today \in Nat
  BY DayAssumption DEF Today
<1> HIDE DEF Today
<1> QED BY <1>1, NowAssumption DEF Asked, IsExpired

LEMMA RangesAreExact ==
  ASSUME Kept, kind = "time_range", IsOpen, NEW place \in Intervals, Fits(place)
  PROVE  /\ \A free \in Offered : free.from \in Int
         /\ (\E free \in Offered : Inside(place, free))
            <=> MayTake(booking, place, NoId) /\ place.from >= NotBefore
<1>1. Good(kind, offered, booking) /\ SlotShape(slot) /\ booking \in Rows /\ Cut(slot)
  BY GoodRows DEF Kept, Inv, Now, Grid
<1>2. /\ Ranged(slot.range) /\ slot.range.step \in Nat \ {0} /\ slot.range.min \in Int
      /\ FitsRange(slot.range, place)
  BY <1>1 DEF SlotShape, Cut, Gridded, IsOpen, Fits
<1>3. Busy(booking) \in SUBSET Intervals
  BY <1>1 DEF Good, Apart, Busy
<1>4. NotBefore \in Int /\ place.from \in Int
  BY DayAssumption DEF NotBefore, Kept, Intervals
<1>5. /\ \A free \in Offered : free.from \in Int
      /\ (\E free \in Offered : Inside(place, free))
         <=> NotBefore <= place.from /\ \A i \in Busy(booking) : ~Clashes(place, i, Buffer)
  <2> DEFINE range == slot.range
             busy == Busy(booking)
             notBefore == NotBefore
  <2>1. /\ Ranged(range) /\ range.step \in Nat \ {0} /\ range.min \in Int /\ FitsRange(range, place)
        /\ busy \in SUBSET Intervals /\ notBefore \in Int
    BY <1>2, <1>3, <1>4
  <2>2. Offered = FreeRanges(range, busy, Buffer, notBefore)
    BY DEF Offered
  <2> HIDE DEF range, busy, notBefore
  <2>3. /\ \A free \in FreeRanges(range, busy, Buffer, notBefore) : free.from \in Int
        /\ (\E free \in FreeRanges(range, busy, Buffer, notBefore) : Inside(place, free))
           <=> notBefore <= place.from /\ \A i \in busy : ~Clashes(place, i, Buffer)
    BY <2>1, FreeRangesAreExact
  <2> QED BY <2>2, <2>3 DEF busy, notBefore
<1>6. MayTake(booking, place, NoId) <=> \A i \in Busy(booking) : ~Clashes(place, i, Buffer)
  <2>1. NoId \notin Held(booking)
    BY HeldInIds, UsersAssumption
  <2>2. MayTake(booking, place, NoId) <=> \A b \in Held(booking) : ~Clashes(place, booking[b].place, Buffer)
    BY <2>1 DEF MayTake, Overlapping
  <2> QED BY <2>2 DEF Busy
<1> QED BY <1>4, <1>5, <1>6

LEMMA TimesAreExact ==
  ASSUME Kept, kind # "time_range", NEW place, Fits(place)
  PROVE  (\E n \in Range(EntriesAt(slot.entries, place.from)) : EntryLimit - n > 0)
         <=> MayTake(booking, place, NoId)
<1> DEFINE x == place.from
<1>1. x \in DOMAIN slot.entries
  BY DEF Fits
<1>2. DOMAIN slot.entries[x] = {1} /\ slot.entries[x][1] \in Nat
  BY <1>1 DEF Kept, Settled, Stands, Entered
<1>3. EntriesAt(slot.entries, x) = slot.entries[x]
  BY <1>1 DEF EntriesAt
<1> DEFINE S == Range(slot.entries[x])
<1>4. \A n \in S : n \in Nat
  BY <1>2 DEF Range
<1>5. MayTake(booking, place, NoId) <=> \E n \in S : BelowLimit(n)
  BY DEF MayTake
<1> HIDE DEF S
<1>6. \A n \in S : BelowLimit(n) <=> EntryLimit - n > 0
  BY <1>4, LimitsAssumption DEF BelowLimit
<1> QED BY <1>3, <1>5, <1>6 DEF S

LEMMA KeptIsExact == ASSUME Kept PROVE OffersAreExact
<1> SUFFICES ASSUME NEW place \in Places, NEW isStaff \in BOOLEAN, Fits(place)
             PROVE  /\ place \in Availability(isStaff) => Bookable(isStaff, place)
                    /\ Bookable(isStaff, place) /\ (isStaff \/ kind = "date_time" \/ ~Can("closed"))
                           => place \in Availability(isStaff)
  BY DEF OffersAreExact
<1>1. Tree.exists /\ option.enabled /\ 1 \in Asked <=> IsOpen
  BY InSight DEF Tree, NoSlot, IsOpen, Kept
<1>2. CASE kind = "time_range"
  <2>1. place \in Intervals
    BY <1>2 DEF Places
  <2>2. place \in Availability(isStaff)
        <=> IsOpen /\ \E free \in Offered : Inside(place, free) /\ ~Closed(isStaff, free)
    BY <1>1, <1>2 DEF Availability
  <2>3. IsOpen => /\ \A free \in Offered : free.from \in Int
                  /\ (\E free \in Offered : Inside(place, free))
                     <=> MayTake(booking, place, NoId) /\ place.from >= NotBefore
    BY <1>2, <2>1, RangesAreExact
  <2>4. ASSUME IsOpen, NEW free \in Offered, Inside(place, free), ~Closed(isStaff, free)
        PROVE  ~Closed(isStaff, place)
    <3>1. free.from <= place.from /\ free.from \in Int
      BY <2>3, <2>4 DEF Inside
    <3> QED BY <2>1, <2>4, <3>1, NowAssumption, DayAssumption DEF Closed, IsClosed, Start, Intervals
  <2>5. isStaff \/ ~Can("closed") => \A free : ~Closed(isStaff, free)
    BY DEF Closed, IsClosed
  <2> QED BY <1>2, <2>2, <2>3, <2>4, <2>5 DEF Bookable
<1>3. CASE kind # "time_range"
  <2>1. place \in Availability(isStaff)
        <=> /\ IsOpen /\ ~Closed(isStaff, place)
            /\ \E n \in Range(EntriesAt(slot.entries, place.from)) : EntryLimit - n > 0
    BY <1>1, <1>3 DEF Availability
  <2>2. (\E n \in Range(EntriesAt(slot.entries, place.from)) : EntryLimit - n > 0)
        <=> MayTake(booking, place, NoId)
    BY <1>3, TimesAreExact
  <2> QED BY <1>3, <2>1, <2>2 DEF Bookable
<1> QED BY <1>2, <1>3

\* What AppliedAll makes of a plan of one operation, and of two.
LEMMA OneApplied ==
  ASSUME NEW s, NEW op, PlanOf(s, option.schedule) = {op}
  PROVE  AppliedAll(s) = Applied(s, op)
<1>1. Cardinality({op}) = 1
  BY FS_Singleton
<1>2. (CHOOSE p \in {op} : TRUE) = op
  OBVIOUS
<1> QED BY <1>1, <1>2, Zenon DEF AppliedAll

LEMMA TwoApplied ==
  ASSUME NEW s, NEW pull, NEW push, PlanOf(s, option.schedule) = {pull, push},
         pull.op = "pullTimes", push.op = "pushTimes"
  PROVE  AppliedAll(s) = Applied(Applied(s, pull), push)
<1> DEFINE plan == PlanOf(s, option.schedule)
           Both(op) == \A other \in plan : op # other => op.op = "pushTimes"
<1>1. pull # push
  OBVIOUS
<1>2. Cardinality(plan) # 1
  <2>1. ASSUME Cardinality({pull, push}) = 1 PROVE FALSE
    <3>1. Cardinality({push}) = 1 /\ IsFiniteSet({push})
      BY FS_Singleton
    <3>2. Cardinality({push} \cup {pull}) = 2
      BY <1>1, <3>1, FS_AddElement
    <3>3. {push} \cup {pull} = {pull, push}
      OBVIOUS
    <3> QED BY <2>1, <3>2, <3>3
  <2> QED BY <2>1
<1>3. Both(push) /\ ~Both(pull)
  BY <1>1
<1>4. (CHOOSE op \in plan : ~Both(op)) = pull /\ (CHOOSE op \in plan : Both(op)) = push
  BY <1>3
<1>5. AppliedAll(s) = IF plan = {} THEN s
                      ELSE IF Cardinality(plan) = 1 THEN Applied(s, CHOOSE op \in plan : TRUE)
                      ELSE Applied(Applied(s, CHOOSE op \in plan : ~Both(op)), CHOOSE op \in plan : Both(op))
  BY Zenon DEF AppliedAll
<1>6. plan # {}
  OBVIOUS
<1> QED BY <1>2, <1>4, <1>5, <1>6, Zenon

LEMMA RangesSettle == ASSUME Inv, kind = "time_range" PROVE PlanSettles
<1> DEFINE entries == option.schedule
           wanted == WantedRanges(entries)
<1>1. SlotShape(slot) /\ \A e, f \in entries : e = f
  BY DEF Inv, Now, OptionShape
<1>2. CASE entries = {} \/ 1 \notin Window
  BY <1>2 DEF PlanSettles, PlanOf
<1>3. CASE ~(entries = {} \/ 1 \notin Window)
  <2>1. \A s : PlanOf(s, entries) = PlanRanges(s, wanted)
    BY <1>3 DEF PlanOf
  <2>2. wanted = {} \/ \E r : wanted = {r}
    <3>1. \A q, r \in wanted : q = r
      BY <1>1 DEF WantedRanges
    <3> HIDE DEF wanted
    <3> QED BY <3>1
  <2>3. slot.exists \in BOOLEAN /\ slot.count \in Nat
    BY <1>1 DEF SlotShape
  <2> DEFINE plan == PlanRanges(slot, wanted)
  <2>4. plan = {} \/ \E op : plan = {op}
    <3>1. wanted \ {slot.range} = {} \/ wanted \ {slot.range} = wanted
      BY <2>2
    <3> HIDE DEF wanted
    <3> QED BY <2>2, <2>3, <3>1 DEF PlanRanges
  <2>5. CASE plan = {}
    <3>1. AppliedAll(slot) = slot
      BY <2>1, <2>5 DEF AppliedAll
    <3> QED BY <2>1, <2>5, <3>1 DEF PlanSettles
  <2>6. ASSUME NEW op, plan = {op} PROVE PlanRanges(Applied(slot, op), wanted) = {}
    <3> HIDE DEF wanted
    <3>1. op \in PlanRanges(slot, wanted)
      BY <2>6
    <3>2. \/ /\ ~slot.exists
             /\ \E r \in wanted : op = [op |-> "addRange", range |-> r]
          \/ /\ slot.exists /\ slot.count = 0 /\ wanted = {} /\ op = [op |-> "removeSlot"]
          \/ /\ slot.exists /\ slot.count = 0
             /\ \E r \in wanted : op = [op |-> "setRange", range |-> r]
      BY <2>3, <3>1 DEF PlanRanges
    <3>3. CASE \E r \in wanted : op = [op |-> "addRange", range |-> r]
      <4>1. PICK r \in wanted : op = [op |-> "addRange", range |-> r]
        BY <3>3
      <4>2. Applied(slot, op) = Slot(r, 0, << >>) /\ wanted = {r}
        BY <2>2, <4>1 DEF Applied
      <4> QED BY <4>2 DEF PlanRanges, Slot
    <3>4. CASE wanted = {} /\ op = [op |-> "removeSlot"]
      <4>1. Applied(slot, op) = NoSlot
        BY <3>4 DEF Applied
      <4> QED BY <3>4, <4>1 DEF PlanRanges, NoSlot
    <3>5. CASE slot.exists /\ slot.count = 0 /\ \E r \in wanted : op = [op |-> "setRange", range |-> r]
      <4>1. PICK r \in wanted : op = [op |-> "setRange", range |-> r]
        BY <3>5
      <4>2. Applied(slot, op) = [slot EXCEPT !.range = r] /\ wanted = {r}
        BY <2>2, <4>1 DEF Applied
      <4>3. Applied(slot, op).exists /\ Applied(slot, op).count = 0 /\ Applied(slot, op).range = r
        BY <1>1, <3>5, <4>2 DEF SlotShape
      <4>4. wanted # {} /\ wanted \ {r} = {}
        BY <4>2
      <4> QED BY <4>3, <4>4 DEF PlanRanges
    <3> QED BY <3>2, <3>3, <3>4, <3>5
  <2>7. CASE \E op : plan = {op}
    <3>1. PICK op : plan = {op}
      BY <2>7
    <3>2. AppliedAll(slot) = Applied(slot, op)
      BY <2>1, <3>1, OneApplied
    <3>3. PlanRanges(AppliedAll(slot), wanted) = {}
      BY <2>6, <3>1, <3>2
    <3> QED BY <2>1, <3>3 DEF PlanSettles
  <2> QED BY <2>4, <2>5, <2>7
<1> QED BY <1>2, <1>3

\* Nothing is planned for a slot that has the times, and of the others only
\* such as are taken.
LEMMA NothingPlanned ==
  ASSUME NEW s, s.exists, NEW times, times \subseteq DOMAIN s.entries,
         \A x \in DOMAIN s.entries \ times : 0 \notin Range(s.entries[x])
  PROVE  PlanDays(s, times) = {}
<1> DEFINE stale == {t \in DOMAIN s.entries \ times : \E i \in DOMAIN s.entries[t] : s.entries[t][i] = 0}
           added == times \ DOMAIN s.entries
<1>1. stale = {}
  BY DEF Range
<1>2. added = {}
  OBVIOUS
<1>3. PlanDays(s, times) = {[op |-> "pushTimes", times |-> t] : t \in {added} \ {{}}}
                           \cup {[op |-> "pullTimes", times |-> t] : t \in {stale} \ {{}}}
  BY Zenon DEF PlanDays
<1> HIDE DEF stale, added
<1> QED BY <1>1, <1>2, <1>3

\* Pulled are the times without bookings; the others stay as they are.
LEMMA PulledAway ==
  ASSUME NEW s, SlotShape(s), \A x \in DOMAIN s.entries : DOMAIN s.entries[x] = {1} /\ s.entries[x][1] \in Nat,
         NEW stale, \A x \in stale : s.entries[x][1] = 0, stale \subseteq DOMAIN s.entries,
         NEW op, op = [op |-> "pullTimes", times |-> stale]
  PROVE  /\ SlotShape(Applied(s, op)) /\ Applied(s, op).exists = s.exists
         /\ DOMAIN Applied(s, op).entries = DOMAIN s.entries \ stale
         /\ \A x \in DOMAIN s.entries \ stale : Applied(s, op).entries[x] = s.entries[x]
<1> DEFINE Pulled(x) == x \in op.times /\ 0 \in Range(s.entries[x])
           Left(x) == IF Pulled(x) THEN SelectSeq(s.entries[x], LAMBDA n : n > 0) ELSE s.entries[x]
           kept == {x \in DOMAIN s.entries : Pulled(x) => \E n \in Range(s.entries[x]) : n > 0}
           e == [x \in kept |-> Left(x)]
<1>1. op.op = "pullTimes" /\ op.times = stale
  OBVIOUS
<1>2. Applied(s, op) = [s EXCEPT !.entries = e]
  BY <1>1, Zenon DEF Applied
<1>3. \A x \in DOMAIN s.entries : Range(s.entries[x]) = {s.entries[x][1]}
  BY DEF Range
<1>4. \A x \in DOMAIN s.entries : Pulled(x) <=> x \in stale
  BY <1>1, <1>3
<1>5. kept = DOMAIN s.entries \ stale
  BY <1>3, <1>4
<1>6. \A x \in kept : ~Pulled(x)
  BY <1>4, <1>5
<1>7. \A x \in kept : e[x] = s.entries[x]
  BY <1>6, Zenon
<1>8. DOMAIN e = kept
  BY Zenon
<1> HIDE DEF e, kept
<1>9. /\ SlotShape([s EXCEPT !.entries = e]) /\ [s EXCEPT !.entries = e].exists = s.exists
      /\ [s EXCEPT !.entries = e].entries = e
  BY Replaced DEF SlotShape
<1> QED BY <1>2, <1>5, <1>7, <1>8, <1>9

\* Pushed are times the slot does not have.
LEMMA PushedOn ==
  ASSUME NEW s, SlotShape(s), NEW added, added \cap DOMAIN s.entries = {},
         NEW op, op = [op |-> "pushTimes", times |-> added]
  PROVE  /\ Applied(s, op).exists = s.exists
         /\ DOMAIN Applied(s, op).entries = DOMAIN s.entries \cup added
         /\ \A x \in DOMAIN s.entries : Applied(s, op).entries[x] = s.entries[x]
<1> DEFINE e == Push(s.entries, added)
<1>1. /\ DOMAIN e = DOMAIN s.entries \cup added
      /\ \A x \in DOMAIN s.entries : e[x] = s.entries[x]
  BY Pushed
<1>2. op.op = "pushTimes" /\ op.times = added
  OBVIOUS
<1>3. Applied(s, op) = [s EXCEPT !.entries = e]
  BY <1>2, Zenon DEF Applied
<1> HIDE DEF e
<1>4. [s EXCEPT !.entries = e].exists = s.exists /\ [s EXCEPT !.entries = e].entries = e
  BY DEF SlotShape
<1> QED BY <1>1, <1>3, <1>4

LEMMA TimesSettle == ASSUME Inv, Settled, kind # "time_range" PROVE PlanSettles
<1> DEFINE entries == option.schedule
           T == {TimesFor(e, Duration, Buffer) : e \in entries} \ {{}}
<1>1. /\ SlotShape(slot) /\ \A e, f \in entries : e = f
      /\ \A x \in DOMAIN slot.entries : DOMAIN slot.entries[x] = {1} /\ slot.entries[x][1] \in Nat
  BY DEF Inv, Now, OptionShape, Settled, Stands, Entered
<1>2. \A x, y \in T : x = y
  BY <1>1
<1>3. (\A s : PlanOf(s, entries) = {}) \/ \A s : PlanOf(s, entries) = UNION {PlanDays(s, times) : times \in T}
  BY DEF PlanOf
<1> HIDE DEF T
<1>4. CASE (\A s : PlanOf(s, entries) = {}) \/ T = {}
  BY <1>3, <1>4 DEF PlanSettles
<1>5. CASE T # {} /\ ~\A s : PlanOf(s, entries) = {}
  <2>1. PICK times : T = {times}
    BY <1>2, <1>5
  <2>2. \A s : PlanOf(s, entries) = PlanDays(s, times)
    BY <1>3, <1>5, <2>1
  <2>3. SUFFICES PlanDays(AppliedAll(slot), times) = {}
    BY <2>2 DEF PlanSettles
  <2>4. CASE ~slot.exists
    <3> DEFINE op == [op |-> "addTimes", times |-> times]
               s == Applied(slot, op)
    <3>1. PlanOf(slot, entries) = {op}
      BY <2>2, <2>4 DEF PlanDays
    <3>2. AppliedAll(slot) = s
      BY <3>1, OneApplied
    <3>3. op.op = "addTimes" /\ op.times = times
      OBVIOUS
    <3> HIDE DEF op
    <3>4. s = Slot(NoRange, 0, Fresh(times))
      BY <3>3 DEF Applied
    <3>5. s.exists /\ s.entries = Push(<< >>, times)
      BY <3>4 DEF Slot, Fresh
    <3>6. DOMAIN << >> = {}
      OBVIOUS
    <3>7. DOMAIN Push(<< >>, times) = times
      BY <3>6, Pushed
    <3> HIDE DEF s
    <3>8. times \subseteq DOMAIN s.entries /\ DOMAIN s.entries \ times = {}
      BY <3>5, <3>7
    <3> QED BY <3>2, <3>5, <3>8, NothingPlanned
  <2>5. CASE slot.exists
    <3> DEFINE stale == {t \in DOMAIN slot.entries \ times : \E i \in DOMAIN slot.entries[t] : slot.entries[t][i] = 0}
               added == times \ DOMAIN slot.entries
               push == [op |-> "pushTimes", times |-> added]
               pull == [op |-> "pullTimes", times |-> stale]
    <3>1. PlanDays(slot, times) = {[op |-> "pushTimes", times |-> t] : t \in {added} \ {{}}}
                                  \cup {[op |-> "pullTimes", times |-> t] : t \in {stale} \ {{}}}
      BY <2>5, Zenon DEF PlanDays
    <3>2. /\ stale \subseteq DOMAIN slot.entries \ times /\ \A x \in stale : slot.entries[x][1] = 0
          /\ \A x \in DOMAIN slot.entries \ (times \cup stale) : 0 \notin Range(slot.entries[x])
      BY <1>1 DEF Range
    <3>3. added \cap DOMAIN slot.entries = {} /\ times \subseteq DOMAIN slot.entries \cup added
          /\ added \subseteq times
      OBVIOUS
    <3> HIDE DEF stale, added
    <3>4. /\ SlotShape(Applied(slot, pull)) /\ Applied(slot, pull).exists
          /\ DOMAIN Applied(slot, pull).entries = DOMAIN slot.entries \ stale
          /\ \A x \in DOMAIN slot.entries \ stale : Applied(slot, pull).entries[x] = slot.entries[x]
      BY <1>1, <2>5, <3>2, PulledAway
    <3> DEFINE pulled == Applied(slot, pull)
    <3>5. CASE stale = {} /\ added = {}
      <4>1. AppliedAll(slot) = slot
        BY <2>2, <3>1, <3>5 DEF AppliedAll
      <4> QED BY <2>5, <3>2, <3>3, <3>5, <4>1, NothingPlanned
    <3>6. CASE stale # {} /\ added = {}
      <4>1. PlanOf(slot, entries) = {pull}
        BY <2>2, <3>1, <3>6
      <4>2. AppliedAll(slot) = pulled
        BY <4>1, OneApplied
      <4> HIDE DEF pull
      <4>3. times \subseteq DOMAIN pulled.entries
            /\ \A x \in DOMAIN pulled.entries \ times : 0 \notin Range(pulled.entries[x])
        BY <3>2, <3>3, <3>4, <3>6
      <4> QED BY <3>4, <4>2, <4>3, NothingPlanned
    <3>7. CASE stale = {} /\ added # {}
      <4> DEFINE s == Applied(slot, push)
      <4>1. PlanOf(slot, entries) = {push}
        BY <2>2, <3>1, <3>7
      <4>2. AppliedAll(slot) = s
        BY <4>1, OneApplied
      <4>3. /\ s.exists /\ DOMAIN s.entries = DOMAIN slot.entries \cup added
            /\ \A x \in DOMAIN slot.entries : s.entries[x] = slot.entries[x]
        BY <1>1, <2>5, <3>3, PushedOn
      <4> HIDE DEF s
      <4>4. times \subseteq DOMAIN s.entries
            /\ \A x \in DOMAIN s.entries \ times : 0 \notin Range(s.entries[x])
        BY <3>2, <3>3, <3>7, <4>3
      <4> QED BY <4>2, <4>3, <4>4, NothingPlanned
    <3>8. CASE stale # {} /\ added # {}
      <4> DEFINE s == Applied(pulled, push)
      <4>1. PlanOf(slot, entries) = {pull, push}
        BY <2>2, <3>1, <3>8
      <4>2. pull.op = "pullTimes" /\ push.op = "pushTimes"
        OBVIOUS
      <4>3. AppliedAll(slot) = s
        BY <4>1, <4>2, TwoApplied
      <4>4. added \cap DOMAIN pulled.entries = {}
        BY <3>3, <3>4
      <4>5. /\ s.exists /\ DOMAIN s.entries = DOMAIN pulled.entries \cup added
            /\ \A x \in DOMAIN pulled.entries : s.entries[x] = pulled.entries[x]
        <5>1. SlotShape(pulled) /\ pulled.exists
          BY <3>4
        <5> HIDE DEF pulled
        <5> QED BY <4>4, <5>1, PushedOn
      <4> HIDE DEF s
      <4>6. times \subseteq DOMAIN s.entries
            /\ \A x \in DOMAIN s.entries \ times : 0 \notin Range(s.entries[x])
        <5>1. DOMAIN pulled.entries = DOMAIN slot.entries \ stale
              /\ \A x \in DOMAIN slot.entries \ stale : pulled.entries[x] = slot.entries[x]
          BY <3>4
        <5> HIDE DEF pulled
        <5> QED BY <3>2, <3>3, <4>5, <5>1
      <4> QED BY <4>3, <4>5, <4>6, NothingPlanned
    <3> QED BY <3>5, <3>6, <3>7, <3>8
  <2>6. slot.exists \in BOOLEAN
    BY <1>1 DEF SlotShape
  <2> QED BY <2>4, <2>5, <2>6
<1> QED BY <1>4, <1>5

LEMMA KeptInvariant == Spec /\ Regular => []Kept
<1>1. Init /\ Regular => Kept
  <2>1. ASSUME Init PROVE now \in Nat
    BY <2>1, NowAssumption, DayAssumption DEF Init
  <2> QED BY <2>1, InitKeeps, InitGrid, InitSettles DEF Kept, Regular
<1>2. Kept /\ [Next]_vars => Kept'
  <2> SUFFICES ASSUME Kept, [Next]_vars PROVE Kept'
    OBVIOUS
  <2>1. CASE Next
    <3>1. Inv' /\ Grid' /\ now' \in Nat
      BY <2>1, StepKeeps, StepGrid, StepClock DEF Kept
    <3>2. UNCHANGED fixed
      BY <2>1, StepOnward DEF Onward
    <3>3. Settled => Settled'
      BY <2>1, StepSettles DEF Kept
    <3> QED BY <3>1, <3>2, <3>3 DEF Kept, fixed
  <2>2. CASE UNCHANGED vars
    <3>1. Inv' /\ (Settled => Settled')
      BY <2>2, RestKeeps, RestSettles DEF Kept, vars, fixed
    <3>2. Grid'
      BY <2>2, GridPut DEF Kept, Grid, vars, fixed, SameOrOtherJob
    <3> QED BY <2>2, <3>1, <3>2 DEF Kept, vars, fixed
  <2> QED BY <2>1, <2>2
<1> QED BY <1>1, <1>2, PTL DEF Spec

(***************************************************************************)
(* What the availability offers is what can be booked, for every grid,     *)
(* buffer, working hours and set of bookings: an interval that fits lies   *)
(* in a free range just when no booking comes too close to it, a time is   *)
(* shown just when its counter is below the limit.  (Of times, where the   *)
(* job and the staff do not race.)                                         *)
(***************************************************************************)
THEOREM OffersStayExact == Spec /\ Regular => []OffersAreExact
BY KeptInvariant, KeptIsExact, PTL

(***************************************************************************)
(* recurrent_slots is idempotent: whatever the staff and the clients have  *)
(* made of the slot, a plan that is applied at once leaves nothing to      *)
(* plan.  (Of times, where the job and the staff do not race.)             *)
(***************************************************************************)
THEOREM PlansSettle == Spec /\ Regular => []PlanSettles
<1>1. Kept => PlanSettles
  BY RangesSettle, TimesSettle DEF Kept
<1> QED BY <1>1, KeptInvariant, PTL

=============================================================================
