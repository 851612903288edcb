-------------------------- MODULE BookingsProofs --------------------------
(***************************************************************************)
(* What holds of Bookings, and of its maintenance jobs, for any numbers of *)
(* clients, bookings, places, slot documents and concurrent transactions,  *)
(* in four parts:                                                          *)
(*   Inv     type correctness, that a counter covers the active bookings   *)
(*           of its place, and that no step overbooks a place;             *)
(*   Ledger  that no counter holds a place for nobody;                     *)
(*   Queue   that no waiting list is served out of order, and that a       *)
(*           notice means room;                                            *)
(*   MInv    that stale_bookings and trash_purge, which delete by what     *)
(*           they read earlier, break none of the first and third.         *)
(*                                                                         *)
(* None of these is inductive by itself: a handler computes its result     *)
(* from a snapshot.  What carries the first is Fresh: as long as nobody    *)
(* wrote a slot document, a snapshot of it is exact AND no active booking  *)
(* was added at its places, because every handler that adds one also       *)
(* writes that document (GoodResult).  Each of the others says in the same *)
(* way what a snapshot is still worth.                                     *)
(***************************************************************************)
EXTENDS Maintenance, FiniteSetTheorems, TLAPS

Covers(d) ==
    \A p \in Places :
        Active(d, p) # {} =>
            d.slot[p].exists /\ Cardinality(Active(d, p)) <= d.slot[p].count

Fresh ==
    \A t \in open :
        /\ \A p \in Places :
              <<"slot", SlotOf[p]>> \notin dirty[t] =>
                  /\ snap[t].slot[p] = db.slot[p]
                  /\ Active(db, p) \subseteq Active(snap[t], p)
        /\ \A b \in Ids :
              <<"booking", b>> \notin dirty[t] => snap[t].booking[b] = db.booking[b]

Inv ==
    /\ TypeOK
    /\ Covers(db)
    /\ \A t \in open : Covers(snap[t])
    /\ Fresh

WithinLimit(d, p) == d.slot[p].limit # NoLimit => d.slot[p].count <= d.slot[p].limit

\* What the result `new` of a handler that read `old` and wrote `docs` owes.
GoodResult(old, new, docs) ==
    /\ new \in Databases
    /\ Covers(new)
    /\ \A p \in Places : <<"slot", SlotOf[p]>> \notin docs => Active(new, p) \subseteq Active(old, p)
    /\ \A p \in Places : ~(Active(new, p) \subseteq Active(old, p)) => WithinLimit(new, p)

OverbookingStep ==
    \A p \in Places :
        /\ ~(Active(db', p) \subseteq Active(db, p))
        /\ db'.slot[p].limit # NoLimit
        => Cardinality(Active(db', p)) <= db'.slot[p].limit

-----------------------------------------------------------------------------
(* Cardinalities. *)

\* The set of active bookings of a place is finite, and no larger than any
\* finite set that contains it.
LEMMA ActiveFinite ==
    ASSUME NEW d, NEW p
    PROVE  IsFiniteSet(Active(d, p)) /\ Cardinality(Active(d, p)) \in Nat
BY FiniteAssumption, FS_Subset, FS_CardinalityType DEF Active

\* A finite set that contains the active bookings of a place bounds their number.
LEMMA SubsetCover ==
    ASSUME NEW d, NEW p, NEW S, IsFiniteSet(S), Active(d, p) \subseteq S
    PROVE  Cardinality(Active(d, p)) <= Cardinality(S)
BY FS_Subset

\* A booked place exists and is counted.
LEMMA BookedCounted ==
    ASSUME NEW d \in Databases, Covers(d), NEW b \in Ids, IsActive(d, b),
           NEW p \in Places, d.booking[b].place = p
    PROVE  d.slot[p].exists /\ d.slot[p].count > 0 /\ d.slot[p] \in Slots
<1>1. b \in Active(d, p)
  BY DEF Active
<1>2. d.slot[p].exists /\ Cardinality(Active(d, p)) <= d.slot[p].count /\ d.slot[p] \in Slots
  BY <1>1 DEF Covers, Databases
<1>3. Cardinality(Active(d, p)) # 0
  BY <1>1, ActiveFinite, FS_EmptySet
<1> QED BY <1>2, <1>3, ActiveFinite DEF Slots

\* The empty database is a database in which nothing is active.
LEMMA EmptyFacts ==
    /\ EmptyDb \in Databases
    /\ \A p \in Places : Active(EmptyDb, p) = {}
<1>1. EmptyDb \in Databases
  BY DEF EmptyDb, Databases, Slots, NoSlot
<1>2. ASSUME NEW p \in Places PROVE Active(EmptyDb, p) = {}
  BY DEF EmptyDb, Active, IsActive, ActiveStatuses, NoBooking
<1> QED BY <1>1, <1>2

-----------------------------------------------------------------------------
(* The repositories' updates: each yields a database, and changes only the *)
(* field it names. *)

\* A status update keeps every counter and changes the rows it names only.
LEMMA TransitionFacts ==
    ASSUME NEW d \in Databases, NEW bs \in SUBSET Ids, NEW to \in Statuses,
           \A b \in bs : d.booking[b] # NoBooking
    PROVE  /\ Transition(d, bs, to) \in Databases
           /\ Transition(d, bs, to).slot = d.slot
           /\ \A b \in bs : Transition(d, bs, to).booking[b]
                            = BookingRow(d.booking[b].user, d.booking[b].place, to)
           /\ \A b \in Ids \ bs : Transition(d, bs, to).booking[b] = d.booking[b]
<1> DEFINE n == Transition(d, bs, to)
<1>1. n.booking = [b \in Ids |-> IF b \in bs
                     THEN BookingRow(d.booking[b].user, d.booking[b].place, to) ELSE d.booking[b]]
  BY DEF Transition, Databases
<1>2. n.booking \in [Ids -> BookingRows \cup {NoBooking}]
  BY <1>1 DEF Databases, BookingRow, BookingRows
<1>3. n = [d EXCEPT !.booking = n.booking]
  BY <1>1 DEF Transition, Databases
<1>4. n \in Databases /\ n.slot = d.slot
  BY <1>2, <1>3 DEF Databases
<1> QED BY <1>1, <1>4

\* Giving places back changes their counters only, by one, and never below zero.
LEMMA ReleaseFacts ==
    ASSUME NEW d \in Databases, NEW ps
    PROVE  /\ Release(d, ps) \in Databases
           /\ Release(d, ps).booking = d.booking
           /\ \A p \in Places :
                 Release(d, ps).slot[p] = IF p \in ps /\ d.slot[p].exists /\ d.slot[p].count > 0
                                          THEN [d.slot[p] EXCEPT !.count = @ - 1] ELSE d.slot[p]
<1> DEFINE n == Release(d, ps)
<1>1. n.slot = [p \in Places |->
                  IF p \in ps /\ d.slot[p].exists /\ d.slot[p].count > 0
                  THEN [d.slot[p] EXCEPT !.count = @ - 1] ELSE d.slot[p]]
  BY DEF Release, Databases
<1>2. n.slot \in [Places -> Slots]
  BY <1>1 DEF Databases, Slots
<1>3. n = [d EXCEPT !.slot = n.slot]
  BY <1>1 DEF Release, Databases
<1>4. n \in Databases /\ n.booking = d.booking
  BY <1>2, <1>3 DEF Databases
<1> QED BY <1>1, <1>4

\* Taking a place adds one to its counter and leaves the bookings alone.
LEMMA TakeFacts ==
    ASSUME NEW d \in Databases, NEW p \in Places
    PROVE  /\ Take(d, p) \in Databases
           /\ Take(d, p).booking = d.booking
           /\ Take(d, p).slot = [d.slot EXCEPT ![p] = [d.slot[p] EXCEPT !.count = @ + 1]]
<1>1. [d.slot[p] EXCEPT !.count = @ + 1] \in Slots
  BY DEF Databases, Slots
<1>2. Take(d, p) = [d EXCEPT !.slot = [d.slot EXCEPT ![p] = [d.slot[p] EXCEPT !.count = @ + 1]]]
  BY DEF Take, Databases
<1> QED BY <1>1, <1>2 DEF Databases

\* Resetting counters changes no booking, and no counter outside the places named.
LEMMA ClearCountsFacts ==
    ASSUME NEW d \in Databases, NEW ps
    PROVE  /\ ClearCounts(d, ps) \in Databases
           /\ ClearCounts(d, ps).booking = d.booking
           /\ \A p \in Places \ ps : ClearCounts(d, ps).slot[p] = d.slot[p]
           /\ \A p \in Places : ClearCounts(d, ps).slot[p]
                  = IF p \in ps /\ d.slot[p].exists THEN [d.slot[p] EXCEPT !.count = 0] ELSE d.slot[p]
<1> DEFINE n == ClearCounts(d, ps)
<1>1. n.slot = [p \in Places |->
                  IF p \in ps /\ d.slot[p].exists THEN [d.slot[p] EXCEPT !.count = 0] ELSE d.slot[p]]
  BY DEF ClearCounts, Databases
<1>2. \A p \in Places : d.slot[p] \in Slots /\ [d.slot[p] EXCEPT !.count = 0] \in Slots
  BY DEF Databases, Slots
<1>3. n.slot \in [Places -> Slots]
  BY <1>1, <1>2, Zenon
<1>4. n = [d EXCEPT !.slot = n.slot]
  BY <1>1 DEF ClearCounts, Databases
<1>5. n \in Databases /\ n.booking = d.booking
  BY <1>3, <1>4 DEF Databases
<1> QED BY <1>1, <1>5

\* Deleting slots changes no booking, and no place outside those named.
LEMMA DropSlotsFacts ==
    ASSUME NEW d \in Databases, NEW ps
    PROVE  /\ DropSlots(d, ps) \in Databases
           /\ DropSlots(d, ps).booking = d.booking
           /\ \A p \in Places \ ps : DropSlots(d, ps).slot[p] = d.slot[p]
           /\ \A p \in Places : DropSlots(d, ps).slot[p] = IF p \in ps THEN NoSlot ELSE d.slot[p]
<1> DEFINE n == DropSlots(d, ps)
<1>1. n.slot = [p \in Places |-> IF p \in ps THEN NoSlot ELSE d.slot[p]]
  BY DEF DropSlots, Databases
<1>2. n.slot \in [Places -> Slots]
  BY <1>1 DEF Databases, Slots, NoSlot
<1>3. n = [d EXCEPT !.slot = n.slot]
  BY <1>1 DEF DropSlots, Databases
<1>4. n \in Databases /\ n.booking = d.booking
  BY <1>2, <1>3 DEF Databases
<1> QED BY <1>1, <1>4

\* Deleting bookings changes no counter, and no other booking.
LEMMA DropBookingsFacts ==
    ASSUME NEW d \in Databases, NEW bs
    PROVE  /\ DropBookings(d, bs) \in Databases
           /\ DropBookings(d, bs).slot = d.slot
           /\ \A b \in Ids : DropBookings(d, bs).booking[b] = IF b \in bs THEN NoBooking ELSE d.booking[b]
<1> DEFINE n == DropBookings(d, bs)
<1>1. n.booking = [b \in Ids |-> IF b \in bs THEN NoBooking ELSE d.booking[b]]
  BY DEF DropBookings, Databases
<1>2. n.booking \in [Ids -> BookingRows \cup {NoBooking}]
  BY <1>1 DEF Databases
<1>3. n = [d EXCEPT !.booking = n.booking]
  BY <1>1 DEF DropBookings, Databases
<1>4. n \in Databases /\ n.slot = d.slot
  BY <1>2, <1>3 DEF Databases
<1> QED BY <1>1, <1>4

\* Deleting waiting-list rows changes neither bookings nor counters.
LEMMA DropWaitsFacts ==
    ASSUME NEW d \in Databases, NEW keys
    PROVE  /\ DropWaits(d, keys) \in Databases
           /\ DropWaits(d, keys).booking = d.booking
           /\ DropWaits(d, keys).slot = d.slot
BY DEF DropWaits, Databases

\* Telling the waiting list changes neither bookings nor counters.
LEMMA NotifyFacts ==
    ASSUME NEW d \in Databases, NEW freed
    PROVE  /\ Notify(d, freed) \in Databases
           /\ Notify(d, freed).booking = d.booking
           /\ Notify(d, freed).slot = d.slot
<1> DEFINE w == [k \in Users \X Places |->
        IF /\ d.wait[k] = "waiting"
           /\ Cardinality({v \in Waiting(d, k[2]) : d.since[v, k[2]] < d.since[k]}) < freed[k[2]]
        THEN "notified" ELSE d.wait[k]]
<1>1. Notify(d, freed) = [d EXCEPT !.wait = w]
  BY DEF Notify, Databases
<1>2. w \in [Users \X Places -> {"none", "waiting", "notified"}]
  BY DEF Databases
<1>3. [d EXCEPT !.wait = w] \in Databases
  BY <1>2 DEF Databases
<1> QED BY <1>1, <1>3 DEF Databases
-----------------------------------------------------------------------------
(* Merging and committing. *)

\* Ranking the rows of a waiting list yields natural numbers.
LEMMA RanksFacts ==
    ASSUME NEW cur \in Databases, NEW j, NEW w
    PROVE  Ranks(cur, j, w) \in [Users \X Places -> Nat]
<1> DEFINE raw == [k \in Users \X Places |->
                     IF cur.wait[k] = "none" THEN 2 * j[k] + 1 ELSE 2 * cur.since[k]]
           older(k) == {v \in Users : /\ w[v, k[2]] # "none"
                                      /\ raw[v, k[2]] <= raw[k]}
<1>1. \A k \in Users \X Places : Cardinality(older(k)) \in Nat
  BY FiniteAssumption, FS_Subset, FS_CardinalityType
<1>2. Ranks(cur, j, w) = [k \in Users \X Places |-> IF w[k] = "none" THEN 0 ELSE Cardinality(older(k))]
  BY DEF Ranks
<1> HIDE DEF older
<1> QED BY <1>1, <1>2

\* A merge takes from `new` the documents the transaction changed, and the
\* others from the current database.
LEMMA MergeFacts ==
    ASSUME NEW cur \in Databases, NEW old \in Databases, NEW new \in Databases
    PROVE  /\ Merge(cur, old, new) \in Databases
           /\ \A b \in Ids : Merge(cur, old, new).booking[b]
                  = IF old.booking[b] # new.booking[b] THEN new.booking[b] ELSE cur.booking[b]
           /\ \A p \in Places : Merge(cur, old, new).slot[p]
                  = IF old.slot[p] # new.slot[p] THEN new.slot[p] ELSE cur.slot[p]
<1> DEFINE m == Merge(cur, old, new)
           w == [k \in Users \X Places |->
                    IF old.wait[k] # new.wait[k] THEN new.wait[k] ELSE cur.wait[k]]
           bk == [b \in Ids |->
                    IF old.booking[b] # new.booking[b] THEN new.booking[b] ELSE cur.booking[b]]
           sl == [p \in Places |->
                    IF old.slot[p] # new.slot[p] THEN new.slot[p] ELSE cur.slot[p]]
           sv == IF old.service # new.service THEN new.service ELSE cur.service
<1>1. m = [booking |-> bk, slot |-> sl, wait |-> w, since |-> Ranks(cur, new.since, w), service |-> sv]
  BY DEF Merge
<1>2. Ranks(cur, new.since, w) \in [Users \X Places -> Nat]
  BY RanksFacts
<1>3. w \in [Users \X Places -> {"none", "waiting", "notified"}]
  BY DEF Databases
<1>4. bk \in [Ids -> BookingRows \cup {NoBooking}]
  BY DEF Databases
<1>5. sl \in [Places -> Slots]
  BY DEF Databases
<1>6. sv \in {"live", "trashed", "gone"}
  BY DEF Databases
<1>7. m \in Databases
  <2> HIDE DEF w, bk, sl, sv
  <2> QED BY <1>1, <1>2, <1>3, <1>4, <1>5, <1>6 DEF Databases
<1> QED BY <1>1, <1>7

\* What a write of `docs` to the database leaves of the snapshots.
LEMMA WriteFacts ==
    ASSUME TypeOK, NEW d \in Databases, NEW docs \in SUBSET Docs, NEW closed \in SUBSET Txns,
           Write(d, docs, closed)
    PROVE  /\ TypeOK'
           /\ \A x \in open' : x \in open /\ snap'[x] = snap[x] /\ dirty'[x] = dirty[x] \cup docs
<1>1. open' \subseteq Txns
  BY DEF TypeOK, Write
<1>2. snap' \in [Txns -> Databases]
  BY EmptyFacts DEF TypeOK, Write
<1>3. dirty' \in [Txns -> SUBSET Docs]
  BY DEF TypeOK, Write
<1> QED BY <1>1, <1>2, <1>3 DEF TypeOK, Write

\* The documents a handler changed, whatever it computed, are documents.
LEMMA ChangedFacts ==
    ASSUME NEW old \in Databases, NEW new \in Databases
    PROVE  /\ Changed(old, new) \in SUBSET Docs
           /\ \A p \in Places : <<"slot", SlotOf[p]>> \notin Changed(old, new) => old.slot[p] = new.slot[p]
           /\ \A b \in Ids : <<"booking", b>> \notin Changed(old, new) => old.booking[b] = new.booking[b]
<1>1. \A p \in Places : <<"slot", SlotOf[p]>> \in {"slot"} \X SlotDocs
  BY SlotAssumption
<1>2. Changed(old, new) \in SUBSET Docs
  BY <1>1 DEF Changed, Docs
<1>3. \A p \in Places : old.slot[p] # new.slot[p] => <<"slot", SlotOf[p]>> \in Changed(old, new)
  BY DEF Changed
<1>4. \A b \in Ids : old.booking[b] # new.booking[b] => <<"booking", b>> \in Changed(old, new)
  BY DEF Changed
<1> QED BY <1>2, <1>3, <1>4

\* The heart of the argument: a transaction that owes GoodResult keeps the
\* invariant and overbooks nothing when it commits.
LEMMA CommitPreserves ==
    ASSUME Inv, NEW t \in Txns, NEW new, NEW touched \in SUBSET Docs,
           Commit(t, new, touched),
           GoodResult(snap[t], new, Changed(snap[t], new) \cup touched)
    PROVE  Inv' /\ OverbookingStep
<1> DEFINE old  == snap[t]
           docs == Changed(old, new) \cup touched
           d    == Merge(db, old, new)
<1>1. /\ old \in Databases /\ new \in Databases /\ db \in Databases
      /\ t \in open /\ docs \cap dirty[t] = {} /\ db' = d /\ Write(d, docs, {t})
  BY DEF Inv, TypeOK, Commit, GoodResult, Write
<1>2. /\ d \in Databases
      /\ \A b \in Ids : d.booking[b]
            = IF old.booking[b] # new.booking[b] THEN new.booking[b] ELSE db.booking[b]
      /\ \A p \in Places : d.slot[p]
            = IF old.slot[p] # new.slot[p] THEN new.slot[p] ELSE db.slot[p]
  BY <1>1, MergeFacts
<1>3. /\ docs \in SUBSET Docs
      /\ \A p \in Places : <<"slot", SlotOf[p]>> \notin docs => old.slot[p] = new.slot[p]
      /\ \A b \in Ids : <<"booking", b>> \notin docs => old.booking[b] = new.booking[b]
  BY <1>1, ChangedFacts
<1>4. /\ TypeOK'
      /\ \A x \in open' : x \in open /\ snap'[x] = snap[x] /\ dirty'[x] = dirty[x] \cup docs
  <2>1. TypeOK /\ {t} \in SUBSET Txns
    BY DEF Inv
  <2> HIDE DEF old, docs, d
  <2> QED BY <2>1, <1>1, <1>2, <1>3, WriteFacts
<1> HIDE DEF old, docs, d
\* A booking the transaction changed nobody else has written.
<1>5. \A b \in Ids : old.booking[b] # new.booking[b] => db.booking[b] = old.booking[b]
  <2> SUFFICES ASSUME NEW b \in Ids, old.booking[b] # new.booking[b]
               PROVE  db.booking[b] = old.booking[b]
    OBVIOUS
  <2>1. <<"booking", b>> \notin dirty[t]
    BY <1>1, <1>3
  <2> QED BY <2>1, <1>1 DEF Inv, Fresh, old
\* At the places of a slot document it wrote, the result is the database.
<1>6. ASSUME NEW p \in Places, <<"slot", SlotOf[p]>> \in docs
      PROVE  d.slot[p] = new.slot[p] /\ Active(d, p) \subseteq Active(new, p)
  <2>1. <<"slot", SlotOf[p]>> \notin dirty[t]
    BY <1>1, <1>6
  <2>2. old.slot[p] = db.slot[p] /\ Active(db, p) \subseteq Active(old, p)
    BY <2>1, <1>1 DEF Inv, Fresh, old
  <2>3. ASSUME NEW b \in Active(d, p) PROVE b \in Active(new, p)
    <3>1. b \in Ids /\ IsActive(d, b) /\ d.booking[b].place = p
      BY <2>3 DEF Active
    <3>2. CASE old.booking[b] # new.booking[b]
      BY <3>1, <3>2, <1>2 DEF Active, IsActive
    <3>3. CASE old.booking[b] = new.booking[b]
      <4>1. d.booking[b] = db.booking[b]
        BY <3>1, <3>3, <1>2
      <4>2. b \in Active(db, p)
        BY <3>1, <4>1 DEF Active, IsActive
      <4>3. b \in Active(old, p)
        BY <4>2, <2>2
      <4> QED BY <4>3, <3>3 DEF Active, IsActive
    <3> QED BY <3>2, <3>3
  <2> QED BY <2>2, <2>3, <1>2
\* At the others, the slots stay and no active booking appears.
<1>7. ASSUME NEW p \in Places, <<"slot", SlotOf[p]>> \notin docs
      PROVE  d.slot[p] = db.slot[p] /\ Active(d, p) \subseteq Active(db, p)
  <2>1. old.slot[p] = new.slot[p] /\ Active(new, p) \subseteq Active(old, p)
    BY <1>3, <1>7 DEF GoodResult, old, docs
  <2>2. ASSUME NEW b \in Active(d, p) PROVE b \in Active(db, p)
    <3>1. b \in Ids /\ IsActive(d, b) /\ d.booking[b].place = p
      BY <2>2 DEF Active
    <3>2. CASE old.booking[b] # new.booking[b]
      <4>1. b \in Active(new, p)
        BY <3>1, <3>2, <1>2 DEF Active, IsActive
      <4>2. b \in Active(old, p)
        BY <4>1, <2>1
      <4> QED BY <4>2, <3>1, <3>2, <1>5 DEF Active, IsActive
    <3>3. CASE old.booking[b] = new.booking[b]
      BY <3>1, <3>3, <1>2 DEF Active, IsActive
    <3> QED BY <3>2, <3>3
  <2> QED BY <2>1, <2>2, <1>2
<1>8. Covers(d)
  <2> SUFFICES ASSUME NEW p \in Places, Active(d, p) # {}
               PROVE  d.slot[p].exists /\ Cardinality(Active(d, p)) <= d.slot[p].count
    BY DEF Covers
  <2>1. d.slot[p].count \in Nat /\ new.slot[p].count \in Nat /\ db.slot[p].count \in Nat
    BY <1>1, <1>2 DEF Databases, Slots
  <2>2. CASE <<"slot", SlotOf[p]>> \in docs
    <3>1. d.slot[p] = new.slot[p] /\ Active(d, p) \subseteq Active(new, p)
      BY <1>6, <2>2
    <3>2. new.slot[p].exists /\ Cardinality(Active(new, p)) <= new.slot[p].count
      BY <3>1 DEF GoodResult, Covers
    <3>3. Cardinality(Active(d, p)) <= Cardinality(Active(new, p))
      BY <3>1, ActiveFinite, SubsetCover
    <3> QED BY <3>1, <3>2, <3>3, <2>1, ActiveFinite
  <2>3. CASE <<"slot", SlotOf[p]>> \notin docs
    <3>1. d.slot[p] = db.slot[p] /\ Active(d, p) \subseteq Active(db, p)
      BY <1>7, <2>3
    <3>2. db.slot[p].exists /\ Cardinality(Active(db, p)) <= db.slot[p].count
      BY <3>1 DEF Inv, Covers
    <3>3. Cardinality(Active(d, p)) <= Cardinality(Active(db, p))
      BY <3>1, ActiveFinite, SubsetCover
    <3> QED BY <3>1, <3>2, <3>3, <2>1, ActiveFinite
  <2> QED BY <2>2, <2>3
<1>9. Fresh'
  <2> SUFFICES ASSUME NEW x \in open'
               PROVE  /\ \A p \in Places :
                            <<"slot", SlotOf[p]>> \notin dirty'[x] =>
                                /\ snap'[x].slot[p] = d.slot[p]
                                /\ Active(d, p) \subseteq Active(snap'[x], p)
                      /\ \A b \in Ids :
                            <<"booking", b>> \notin dirty'[x] => snap'[x].booking[b] = d.booking[b]
    BY <1>1 DEF Fresh, Active, IsActive
  <2>1. x \in open /\ snap'[x] = snap[x] /\ dirty'[x] = dirty[x] \cup docs
    BY <1>4
  <2>2. ASSUME NEW p \in Places, <<"slot", SlotOf[p]>> \notin dirty'[x]
        PROVE  snap[x].slot[p] = d.slot[p] /\ Active(d, p) \subseteq Active(snap[x], p)
    <3>1. d.slot[p] = db.slot[p] /\ Active(d, p) \subseteq Active(db, p)
      BY <1>7, <2>1, <2>2
    <3>2. snap[x].slot[p] = db.slot[p] /\ Active(db, p) \subseteq Active(snap[x], p)
      BY <2>1, <2>2 DEF Inv, Fresh
    <3> QED BY <3>1, <3>2
  <2>3. ASSUME NEW b \in Ids, <<"booking", b>> \notin dirty'[x]
        PROVE  snap[x].booking[b] = d.booking[b]
    <3>1. old.booking[b] = new.booking[b]
      BY <1>3, <2>1, <2>3
    <3>2. snap[x].booking[b] = db.booking[b]
      BY <2>1, <2>3 DEF Inv, Fresh
    <3> QED BY <3>1, <3>2, <1>2
  <2> QED BY <2>1, <2>2, <2>3
<1>10. Inv'
  <2>1. Covers(db)'
    BY <1>1, <1>8 DEF Covers, Active, IsActive
  <2>2. \A x \in open' : Covers(snap'[x])
    BY <1>4 DEF Inv
  <2>3. (\A x \in open : Covers(snap[x]))'
    BY <2>2 DEF Covers, Active, IsActive
  <2> QED BY <1>4, <1>9, <2>1, <2>3 DEF Inv
<1>11. OverbookingStep
  <2> SUFFICES ASSUME NEW p \in Places, ~(Active(d, p) \subseteq Active(db, p)),
                      d.slot[p].limit # NoLimit
               PROVE  Cardinality(Active(d, p)) <= d.slot[p].limit
    BY <1>1 DEF OverbookingStep
  <2>1. <<"slot", SlotOf[p]>> \in docs
    BY <1>7
  <2>2. d.slot[p] = new.slot[p] /\ Active(d, p) \subseteq Active(new, p)
    BY <1>6, <2>1
  <2>3. WithinLimit(new, p)
    <3>1. old.slot[p] = db.slot[p] /\ Active(db, p) \subseteq Active(old, p)
      BY <1>1, <2>1 DEF Inv, Fresh, old
    <3>2. PICK b \in Active(d, p) : b \notin Active(db, p)
      OBVIOUS
    <3>3. b \in Ids /\ IsActive(d, b) /\ d.booking[b].place = p
      BY DEF Active
    <3>4. old.booking[b] # new.booking[b]
      BY <3>2, <3>3, <1>2 DEF Active, IsActive
    <3>5. b \notin Active(old, p)
      BY <3>2, <3>3, <3>4, <1>5 DEF Active, IsActive
    <3>6. b \in Active(new, p)
      BY <2>2
    <3> QED BY <3>5, <3>6 DEF GoodResult, old
  <2>4. Cardinality(Active(new, p)) <= new.slot[p].count
    BY <2>2 DEF GoodResult, Covers
  <2>5. Cardinality(Active(d, p)) <= Cardinality(Active(new, p))
    BY <2>2, ActiveFinite, SubsetCover
  <2>6. new.slot[p].count \in Nat /\ new.slot[p].limit \in Nat
    BY <2>2, <1>1 DEF Databases, Slots
  <2> QED BY <2>2, <2>3, <2>4, <2>5, <2>6, ActiveFinite DEF WithinLimit
<1> QED BY <1>10, <1>11

-----------------------------------------------------------------------------
(* What the handlers owe. *)

\* A result in which a place gains a booking only with a counter that moved
\* and is within the limit, and in which counters still cover.
LEMMA GoodIntro ==
    ASSUME NEW old \in Databases, NEW new \in Databases, NEW touched,
           Covers(new),
           \A p \in Places : ~(Active(new, p) \subseteq Active(old, p)) =>
                               old.slot[p] # new.slot[p] /\ WithinLimit(new, p)
    PROVE  GoodResult(old, new, Changed(old, new) \cup touched)
BY ChangedFacts DEF GoodResult

\* A place whose slot is the same and which gained nothing is still covered.
LEMMA SameCover ==
    ASSUME NEW old \in Databases, NEW new \in Databases, NEW p \in Places, Covers(old),
           Active(new, p) # {}, Active(new, p) \subseteq Active(old, p),
           new.slot[p] = old.slot[p]
    PROVE  new.slot[p].exists /\ Cardinality(Active(new, p)) <= new.slot[p].count
<1>1. old.slot[p].exists /\ Cardinality(Active(old, p)) <= old.slot[p].count
  BY DEF Covers
<1>2. Cardinality(Active(new, p)) <= Cardinality(Active(old, p))
  BY ActiveFinite, SubsetCover
<1>3. old.slot[p].count \in Nat
  BY DEF Databases, Slots
<1> QED BY <1>1, <1>2, <1>3, ActiveFinite

\* One counter step down for one booking that left.
LEMMA LeaveCover ==
    ASSUME NEW old \in Databases, NEW new \in Databases, NEW p \in Places, Covers(old),
           NEW b \in Active(old, p), Active(new, p) \subseteq Active(old, p) \ {b},
           new.slot[p].exists = old.slot[p].exists,
           new.slot[p].count = IF old.slot[p].count > 0
                               THEN old.slot[p].count - 1 ELSE old.slot[p].count
    PROVE  new.slot[p].exists /\ Cardinality(Active(new, p)) <= new.slot[p].count
<1>1. old.slot[p].exists /\ Cardinality(Active(old, p)) <= old.slot[p].count
  BY DEF Covers
<1>2. IsFiniteSet(Active(old, p) \ {b})
      /\ Cardinality(Active(old, p) \ {b}) = Cardinality(Active(old, p)) - 1
  BY ActiveFinite, FS_RemoveElement
<1>3. Cardinality(Active(new, p)) <= Cardinality(Active(old, p)) - 1
  BY <1>2, SubsetCover
<1>4. old.slot[p].count \in Nat
  BY DEF Databases, Slots
<1> QED BY <1>1, <1>3, <1>4, ActiveFinite

\* One counter step up for one booking that came.
LEMMA JoinCover ==
    ASSUME NEW old \in Databases, NEW new \in Databases, NEW p \in Places, Covers(old),
           NEW b, Active(new, p) \subseteq Active(old, p) \cup {b},
           new.slot[p].count = old.slot[p].count + 1
    PROVE  Cardinality(Active(new, p)) <= new.slot[p].count
<1>1. old.slot[p].count \in Nat
  BY DEF Databases, Slots
<1>2. Cardinality(Active(old, p)) <= old.slot[p].count
  <2>1. CASE Active(old, p) = {}
    <3>1. Cardinality({}) = 0
      BY FS_EmptySet
    <3> QED BY <2>1, <3>1, <1>1
  <2>2. CASE Active(old, p) # {}
    BY <2>2 DEF Covers
  <2> QED BY <2>1, <2>2
<1>3. IsFiniteSet(Active(old, p) \cup {b})
      /\ Cardinality(Active(old, p) \cup {b}) <= Cardinality(Active(old, p)) + 1
  <2> DEFINE A == Active(old, p)
  <2>1. IsFiniteSet(A) /\ Cardinality(A) \in Nat
    BY ActiveFinite
  <2> HIDE DEF A
  <2>2. IsFiniteSet(A \cup {b})
        /\ Cardinality(A \cup {b}) = IF b \in A THEN Cardinality(A) ELSE Cardinality(A) + 1
    BY <2>1, FS_AddElement
  <2>3. Cardinality(A \cup {b}) <= Cardinality(A) + 1
    BY <2>1, <2>2
  <2> QED BY <2>2, <2>3 DEF A
<1>4. Cardinality(Active(new, p)) <= Cardinality(Active(old, p) \cup {b})
  BY <1>3, SubsetCover
<1>5. Cardinality(Active(old, p) \cup {b}) \in Nat
  BY <1>3, FS_CardinalityType
<1> QED BY <1>1, <1>2, <1>3, <1>4, <1>5, ActiveFinite

\* A handler that reads a snapshot reads a database whose counters cover.
LEMMA SnapshotFacts ==
    ASSUME Inv, NEW t \in Txns, NEW new, NEW touched, Commit(t, new, touched)
    PROVE  snap[t] \in Databases /\ Covers(snap[t])
BY DEF Inv, TypeOK, Commit

\* A booking made adds one active row and one to the counter of its place, below
\* the limit; both are documents that conflict.
LEMMA CreatePreserves ==
    ASSUME Inv, NEW t \in Txns, NEW u \in Users, NEW b \in Ids, NEW p \in Places,
           NEW s \in ActiveStatuses, Create(t, u, b, p, s)
    PROVE  Inv' /\ OverbookingStep
<1> DEFINE old  == snap[t]
           ins  == [old EXCEPT !.booking[b] = BookingRow(u, p, s)]
           tak  == Take(ins, p)
           new  == DropWaits(tak, {<<u, p>>})
<1>1. Commit(t, new, {}) /\ MayTake(old, p) /\ old.booking[b] = NoBooking
  BY DEF Create
<1>2. old \in Databases /\ Covers(old)
  BY <1>1, SnapshotFacts
<1> HIDE DEF old
<1>3. /\ ins \in Databases /\ ins.slot = old.slot
      /\ ins.booking = [old.booking EXCEPT ![b] = BookingRow(u, p, s)]
  <2>1. BookingRow(u, p, s) \in BookingRows
    BY DEF BookingRow, BookingRows, Statuses
  <2> QED BY <1>2, <2>1 DEF Databases
<1> HIDE DEF ins
<1>4. /\ tak \in Databases /\ tak.booking = ins.booking
      /\ tak.slot = [old.slot EXCEPT ![p] = [old.slot[p] EXCEPT !.count = @ + 1]]
  BY <1>3, TakeFacts
<1> HIDE DEF tak
<1>5. new \in Databases /\ new.booking = ins.booking /\ new.slot = tak.slot
  BY <1>4, DropWaitsFacts
<1> HIDE DEF new
<1>6. ASSUME NEW q \in Places, q # p
      PROVE  new.slot[q] = old.slot[q] /\ Active(new, q) \subseteq Active(old, q)
  <2>1. new.slot[q] = old.slot[q]
    BY <1>2, <1>4, <1>5, <1>6 DEF Databases
  <2>2. Active(new, q) \subseteq Active(old, q)
    BY <1>2, <1>3, <1>5, <1>6 DEF Databases, Active, IsActive, BookingRow
  <2> QED BY <2>1, <2>2
<1>7. /\ Active(new, p) \subseteq Active(old, p) \cup {b}
      /\ new.slot[p].exists /\ new.slot[p].limit = old.slot[p].limit
      /\ new.slot[p].count = old.slot[p].count + 1
      /\ old.slot[p].count \in Nat
  <2>1. Active(new, p) \subseteq Active(old, p) \cup {b}
    BY <1>2, <1>3, <1>5 DEF Databases, Active, IsActive, BookingRow
  <2>2. new.slot[p] = [old.slot[p] EXCEPT !.count = @ + 1] /\ old.slot[p] \in Slots
    BY <1>2, <1>4, <1>5 DEF Databases
  <2> QED BY <2>1, <2>2, <1>1 DEF Slots, MayTake
<1>8. Covers(new)
  BY <1>2, <1>5, <1>6, <1>7, SameCover, JoinCover DEF Covers
<1>9. WithinLimit(new, p)
  BY <1>1, <1>2, <1>7 DEF MayTake, WithinLimit, Databases, Slots
<1>10. \A q \in Places : ~(Active(new, q) \subseteq Active(old, q)) =>
                            old.slot[q] # new.slot[q] /\ WithinLimit(new, q)
  BY <1>6, <1>7, <1>9
<1>11. GoodResult(old, new, Changed(old, new) \cup {})
  BY <1>2, <1>5, <1>8, <1>10, GoodIntro
<1> QED BY <1>1, <1>11, CommitPreserves DEF old

\* Handlers that give no place a booking it did not have.
LEMMA ShrinkingPreserves ==
    ASSUME Inv, NEW t \in Txns, NEW new \in Databases, NEW touched \in SUBSET Docs,
           Commit(t, new, touched), Covers(new),
           \A p \in Places : Active(new, p) \subseteq Active(snap[t], p)
    PROVE  Inv' /\ OverbookingStep
<1>1. snap[t] \in Databases
  BY SnapshotFacts
<1>2. GoodResult(snap[t], new, Changed(snap[t], new) \cup touched)
  BY <1>1, GoodIntro
<1> QED BY <1>2, CommitPreserves

\* Rows that existed end elsewhere, or were active already: nothing appears.
LEMMA TransitionShrinks ==
    ASSUME NEW d \in Databases, NEW bs \in SUBSET Ids, NEW to \in Statuses,
           \A b \in bs : d.booking[b] # NoBooking,
           to \in ActiveStatuses => \A b \in bs : IsActive(d, b),
           NEW new, new.booking = Transition(d, bs, to).booking,
           NEW p \in Places
    PROVE  /\ Active(new, p) \subseteq Active(d, p)
           /\ to \notin ActiveStatuses => Active(new, p) = Active(d, p) \ bs
<1>1. /\ \A b \in bs : new.booking[b] = BookingRow(d.booking[b].user, d.booking[b].place, to)
      /\ \A b \in Ids \ bs : new.booking[b] = d.booking[b]
  BY TransitionFacts
<1>2. \A b \in bs : new.booking[b].status = to /\ new.booking[b].place = d.booking[b].place
  <2> SUFFICES ASSUME NEW b \in bs
               PROVE  new.booking[b].status = to /\ new.booking[b].place = d.booking[b].place
    OBVIOUS
  <2>1. new.booking[b] = [user |-> d.booking[b].user, place |-> d.booking[b].place, status |-> to]
    BY <1>1 DEF BookingRow
  <2> QED BY <2>1
<1> QED BY <1>1, <1>2 DEF Active, IsActive

\* What a handler with an unchanged slot collection owes.
LEMMA SameSlotsPreserve ==
    ASSUME Inv, NEW t \in Txns, NEW new \in Databases, NEW touched \in SUBSET Docs,
           Commit(t, new, touched), new.slot = snap[t].slot,
           \A p \in Places : Active(new, p) \subseteq Active(snap[t], p)
    PROVE  Inv' /\ OverbookingStep
<1>1. snap[t] \in Databases /\ Covers(snap[t])
  BY SnapshotFacts
<1>2. Covers(new)
  BY <1>1, SameCover DEF Covers
<1> QED BY <1>2, ShrinkingPreserves

\* A status change never makes a row active that was not: the counter stays.
LEMMA SetStatusPreserves ==
    ASSUME Inv, NEW t \in Txns, NEW b \in Ids, NEW to \in Statuses, SetStatus(t, b, to)
    PROVE  Inv' /\ OverbookingStep
<1> DEFINE old == snap[t]
           new == Transition(old, {b}, to)
<1>1. Commit(t, new, {}) /\ <<old.booking[b].status, to>> \in Transitions
  BY DEF SetStatus
<1>2. old \in Databases
  BY <1>1, SnapshotFacts
<1>3. old.booking[b] # NoBooking /\ (to \in ActiveStatuses => IsActive(old, b))
  BY <1>1 DEF Transitions, NoBooking, ActiveStatuses, IsActive
<1> HIDE DEF old
<1>4. new \in Databases /\ new.slot = old.slot
  BY <1>2, <1>3, TransitionFacts
<1>5. \A p \in Places : Active(new, p) \subseteq Active(old, p)
  <2> DEFINE bs == {b}
  <2>1. /\ bs \in SUBSET Ids
        /\ \A c \in bs : old.booking[c] # NoBooking
        /\ to \in ActiveStatuses => \A c \in bs : IsActive(old, c)
    BY <1>3
  <2>2. new.booking = Transition(old, bs, to).booking
    OBVIOUS
  <2> HIDE DEF bs, new
  <2> QED BY <1>2, <2>1, <2>2, TransitionShrinks
<1> HIDE DEF new
<1> QED BY <1>1, <1>4, <1>5, SameSlotsPreserve DEF old

\* A check-in makes no booking active.
LEMMA CheckInPreserves ==
    ASSUME Inv, NEW t \in Txns, NEW b \in Ids, CheckIn(t, b)
    PROVE  Inv' /\ OverbookingStep
<1> DEFINE old == snap[t]
           new == Transition(old, {b}, "arrived")
<1>1. Commit(t, new, {}) /\ old.booking[b] # NoBooking
  BY DEF CheckIn, NoBooking
<1>2. old \in Databases
  BY <1>1, SnapshotFacts
<1> HIDE DEF old
<1>3. "arrived" \in Statuses /\ "arrived" \notin ActiveStatuses
  BY DEF Statuses, ActiveStatuses
<1>4. new \in Databases /\ new.slot = old.slot
  BY <1>1, <1>2, <1>3, TransitionFacts
<1>5. \A p \in Places : Active(new, p) \subseteq Active(old, p)
  BY <1>1, <1>2, <1>3, TransitionShrinks
<1> HIDE DEF new
<1> QED BY <1>1, <1>4, <1>5, SameSlotsPreserve DEF old

\* A missed booking stops being active; its place stays counted.
LEMMA MarkNoShowPreserves ==
    ASSUME Inv, NEW t \in Txns, NEW b \in Ids, MarkNoShow(t, b)
    PROVE  Inv' /\ OverbookingStep
<1> DEFINE old == snap[t]
           new == Transition(old, {b}, "no_show")
<1>1. Commit(t, new, {}) /\ old.booking[b] # NoBooking
  BY DEF MarkNoShow, NoBooking
<1>2. old \in Databases
  BY <1>1, SnapshotFacts
<1> HIDE DEF old
<1>3. "no_show" \in Statuses /\ "no_show" \notin ActiveStatuses
  BY DEF Statuses, ActiveStatuses
<1>4. new \in Databases /\ new.slot = old.slot
  BY <1>1, <1>2, <1>3, TransitionFacts
<1>5. \A p \in Places : Active(new, p) \subseteq Active(old, p)
  BY <1>1, <1>2, <1>3, TransitionShrinks
<1> HIDE DEF new
<1> QED BY <1>1, <1>4, <1>5, SameSlotsPreserve DEF old

\* Joining a list changes neither bookings nor counters.
LEMMA JoinWaitlistPreserves ==
    ASSUME Inv, NEW t \in Txns, NEW u \in Users, NEW p \in Places, JoinWaitlist(t, u, p)
    PROVE  Inv' /\ OverbookingStep
<1> DEFINE old == snap[t]
           rows == {v \in Users : db.wait[v, p] # "none"}
<1>0. Cardinality(rows) \in Nat
  BY FiniteAssumption, FS_Subset, FS_CardinalityType
<1>1. PICK r \in 0 .. Cardinality(rows) :
          Commit(t, [old EXCEPT !.wait[<<u, p>>] = "waiting", !.since[<<u, p>>] = r], {})
  BY Zenon DEF JoinWaitlist
<1>r. r \in Nat
  <2> HIDE DEF rows
  <2> QED BY <1>0, <1>1
<1> DEFINE new == [old EXCEPT !.wait[<<u, p>>] = "waiting", !.since[<<u, p>>] = r]
<1>2. Commit(t, new, {})
  BY <1>1
<1>3. old \in Databases
  BY <1>2, SnapshotFacts
<1> HIDE DEF old
<1>4. new \in Databases /\ new.slot = old.slot /\ new.booking = old.booking
  BY <1>3, <1>r DEF Databases
<1>5. \A q \in Places : Active(new, q) \subseteq Active(old, q)
  BY <1>4 DEF Active, IsActive
<1> HIDE DEF new
<1> QED BY <1>2, <1>4, <1>5, SameSlotsPreserve DEF old

\* Ending the bookings bs, at most one per place, with one release for each.
LEMMA EndAndRelease ==
    ASSUME NEW old \in Databases, Covers(old), NEW bs \in SUBSET Ids,
           \A b \in bs : IsActive(old, b),
           NEW ps, ps = {old.booking[b].place : b \in bs},
           NEW mid \in Databases, mid.booking = old.booking, mid.slot = old.slot,
           NEW freed
    PROVE  LET new == Notify(Release(Transition(mid, bs, "cancelled"), ps), freed)
           IN /\ new \in Databases
              /\ Covers(new)
              /\ \A p \in Places : Active(new, p) \subseteq Active(old, p)
<1> DEFINE tr  == Transition(mid, bs, "cancelled")
           rel == Release(tr, ps)
           new == Notify(rel, freed)
<1>1. "cancelled" \in Statuses /\ "cancelled" \notin ActiveStatuses
  BY DEF Statuses, ActiveStatuses
<1>2. \A b \in bs : mid.booking[b] # NoBooking
  BY DEF IsActive, ActiveStatuses, NoBooking
<1>3. tr \in Databases /\ tr.slot = old.slot
  BY <1>1, <1>2, TransitionFacts
<1>4. \A p \in Places : \A n : n.booking = tr.booking => Active(n, p) = Active(old, p) \ bs
  <2>1. \A p \in Places : Active(mid, p) = Active(old, p)
    BY DEF Active, IsActive
  <2> QED BY <1>1, <1>2, <2>1, TransitionShrinks
<1> HIDE DEF tr
<1>5. /\ rel \in Databases /\ rel.booking = tr.booking
      /\ \A p \in Places :
            rel.slot[p] = IF p \in ps /\ old.slot[p].exists /\ old.slot[p].count > 0
                          THEN [old.slot[p] EXCEPT !.count = @ - 1] ELSE old.slot[p]
  BY <1>3, ReleaseFacts
<1> HIDE DEF rel
<1>6. new \in Databases /\ new.booking = tr.booking /\ new.slot = rel.slot
  BY <1>5, NotifyFacts
<1> HIDE DEF new
<1>7. \A p \in Places : Active(new, p) = Active(old, p) \ bs
  BY <1>4, <1>6
<1>8. ASSUME NEW p \in Places, Active(new, p) # {}
      PROVE  new.slot[p].exists /\ Cardinality(Active(new, p)) <= new.slot[p].count
  <2>1. CASE p \notin ps
    <3>1. new.slot[p] = old.slot[p]
      BY <2>1, <1>5, <1>6
    <3> QED BY <3>1, <1>6, <1>7, <1>8, SameCover
  <2>2. CASE p \in ps
    <3>1. PICK b \in bs : old.booking[b].place = p
      BY <2>2
    <3>2. b \in Active(old, p)
      BY <3>1 DEF Active
    <3>3. old.slot[p].exists /\ old.slot[p] \in Slots
      BY <3>2 DEF Covers, Databases
    <3>4. /\ new.slot[p].exists = old.slot[p].exists
          /\ new.slot[p].count = IF old.slot[p].count > 0
                                 THEN old.slot[p].count - 1 ELSE old.slot[p].count
      <4>1. new.slot[p] = IF old.slot[p].count > 0
                          THEN [old.slot[p] EXCEPT !.count = @ - 1] ELSE old.slot[p]
        BY <2>2, <3>3, <1>5, <1>6
      <4> QED BY <4>1, <3>3 DEF Slots
    <3>5. Active(new, p) \subseteq Active(old, p) \ {b}
      BY <3>1, <1>7
    <3> QED BY <3>2, <3>4, <3>5, <1>6, LeaveCover
  <2> QED BY <2>1, <2>2
<1>9. Covers(new)
  BY <1>8 DEF Covers
<1>10. \A p \in Places : Active(new, p) \subseteq Active(old, p)
  BY <1>7
<1>11. new = Notify(Release(Transition(mid, bs, "cancelled"), ps), freed)
  BY DEF new, rel, tr
<1> QED BY <1>6, <1>9, <1>10, <1>11

\* A cancellation ends one active row and takes one from the counter of its place.
LEMMA CancelPreserves ==
    ASSUME Inv, NEW t \in Txns, NEW b \in Ids, Cancel(t, b)
    PROVE  Inv' /\ OverbookingStep
<1> DEFINE old  == snap[t]
           p    == old.booking[b].place
           bs   == {b}
           ps   == {p}
           once == Once(p)
           new  == Notify(Release(Transition(old, bs, "cancelled"), ps), once)
<1>1. Commit(t, new, {}) /\ IsActive(old, b)
  BY DEF Cancel
<1>2. old \in Databases /\ Covers(old)
  BY <1>1, SnapshotFacts
<1>3. /\ bs \in SUBSET Ids /\ \A c \in bs : IsActive(old, c)
      /\ ps = {old.booking[c].place : c \in bs}
  BY <1>1
<1> HIDE DEF old, bs, ps, once
<1>4. /\ new \in Databases /\ Covers(new)
      /\ \A q \in Places : Active(new, q) \subseteq Active(old, q)
  BY <1>2, <1>3, EndAndRelease
<1> HIDE DEF new
<1> QED BY <1>1, <1>4, ShrinkingPreserves DEF old

\* A withdrawn client had at most one active booking at each place (the unique
\* index), so giving each place back once keeps every counter covering.
LEMMA WithdrawPreserves ==
    ASSUME Inv, NEW t \in Txns, NEW u \in Users, Withdraw(t, u)
    PROVE  Inv' /\ OverbookingStep
<1> DEFINE old   == snap[t]
           mine  == {b \in Ids : IsActive(old, b) /\ old.booking[b].user = u}
           freed == {old.booking[b].place : b \in mine}
           ones  == [p \in Places |-> IF p \in freed THEN 1 ELSE 0]
           mid   == DropWaits(old, {u} \X Places)
           new   == Notify(Release(Transition(mid, mine, "cancelled"), freed), ones)
<1>1. Commit(t, new, {})
  BY DEF Withdraw
<1>2. old \in Databases /\ Covers(old)
  BY <1>1, SnapshotFacts
<1> HIDE DEF old
<1>3. mid \in Databases /\ mid.booking = old.booking /\ mid.slot = old.slot
  BY <1>2, DropWaitsFacts
<1>4. mine \in SUBSET Ids /\ \A b \in mine : IsActive(old, b)
  OBVIOUS
<1>5. freed = {old.booking[b].place : b \in mine}
  OBVIOUS
<1> HIDE DEF mine, freed, mid, ones
<1>6. /\ new \in Databases /\ Covers(new)
      /\ \A q \in Places : Active(new, q) \subseteq Active(old, q)
  BY <1>2, <1>3, <1>4, <1>5, EndAndRelease
<1> HIDE DEF new
<1> QED BY <1>1, <1>6, ShrinkingPreserves DEF old

\* A bulk operation: nothing active is left at the places it addresses, and
\* the other slots are untouched.
LEMMA BulkPreserves ==
    ASSUME Inv, NEW t \in Txns, NEW new \in Databases, NEW touched \in SUBSET Docs, NEW ps,
           Commit(t, new, touched),
           \A p \in Places : p \in ps => Active(new, p) = {},
           \A p \in Places : p \notin ps => new.slot[p] = snap[t].slot[p],
           \A p \in Places : Active(new, p) \subseteq Active(snap[t], p)
    PROVE  Inv' /\ OverbookingStep
<1>1. snap[t] \in Databases /\ Covers(snap[t])
  BY SnapshotFacts
<1>2. ASSUME NEW p \in Places, Active(new, p) # {}
      PROVE  new.slot[p].exists /\ Cardinality(Active(new, p)) <= new.slot[p].count
  BY <1>1, <1>2, SameCover
<1>3. Covers(new)
  BY <1>2 DEF Covers
<1> QED BY <1>3, ShrinkingPreserves

\* What a handler touches without changing are documents.
LEMMA TouchedFacts ==
    /\ {} \in SUBSET Docs
    /\ {<<"service">>} \in SUBSET Docs
    /\ \A ps \in SUBSET Places : SlotKeys(ps) \in SUBSET Docs
<1>1. \A p \in Places : <<"slot", SlotOf[p]>> \in {"slot"} \X SlotDocs
  BY SlotAssumption
<1> QED BY <1>1 DEF Docs, SlotKeys

\* Ending every active booking of ps leaves none there.
LEMMA EndAll ==
    ASSUME NEW d \in Databases, NEW ps
    PROVE  LET gone == ActiveOf(d, ps)
               tr   == Transition(d, gone, "cancelled")
           IN /\ tr \in Databases
              /\ tr.slot = d.slot
              /\ \A n : n.booking = tr.booking =>
                    /\ \A p \in Places : Active(n, p) \subseteq Active(d, p)
                    /\ \A p \in Places : p \in ps => Active(n, p) = {}
<1> DEFINE gone == ActiveOf(d, ps)
           tr   == Transition(d, gone, "cancelled")
<1>1. /\ gone \in SUBSET Ids
      /\ \A b \in gone : d.booking[b] # NoBooking
      /\ "cancelled" \in Statuses /\ "cancelled" \notin ActiveStatuses
  BY DEF ActiveOf, IsActive, ActiveStatuses, Statuses, NoBooking
<1>2. \A p \in Places : p \in ps => Active(d, p) \subseteq gone
  BY DEF Active, ActiveOf
<1> HIDE DEF gone
<1>3. tr \in Databases /\ tr.slot = d.slot
  BY <1>1, TransitionFacts
<1>4. \A n : n.booking = tr.booking => \A p \in Places : Active(n, p) = Active(d, p) \ gone
  <2> SUFFICES ASSUME NEW n, n.booking = tr.booking, NEW p \in Places
               PROVE  Active(n, p) = Active(d, p) \ gone
    OBVIOUS
  <2> QED BY <1>1, TransitionShrinks
<1>5. \A n : n.booking = tr.booking =>
          /\ \A p \in Places : Active(n, p) \subseteq Active(d, p)
          /\ \A p \in Places : p \in ps => Active(n, p) = {}
  BY <1>2, <1>4
<1> QED BY <1>3, <1>5 DEF gone

\* A place is added with no booking: none was active where no slot was.
LEMMA AddSlotPreserves ==
    ASSUME Inv, NEW t \in Txns, NEW p \in Places, NEW l \in Limits, AddSlot(t, p, l)
    PROVE  Inv' /\ OverbookingStep
<1> DEFINE old  == snap[t]
           slot == [exists |-> TRUE, limit |-> l, count |-> 0]
           new  == [old EXCEPT !.slot[p] = slot]
<1>1. Commit(t, new, {<<"service">>}) /\ ~old.slot[p].exists
  BY DEF AddSlot
<1>2. old \in Databases /\ Covers(old)
  BY <1>1, SnapshotFacts
<1>3. slot \in Slots
  BY LimitAssumption DEF Slots
<1> HIDE DEF old, slot
<1>4. /\ new \in Databases /\ new.booking = old.booking
      /\ \A q \in Places : q \notin {p} => new.slot[q] = old.slot[q]
  BY <1>2, <1>3 DEF Databases
<1> HIDE DEF new
<1>5. \A q \in Places : Active(new, q) = Active(old, q)
  BY <1>4 DEF Active, IsActive
<1>6. Active(old, p) = {}
  BY <1>1, <1>2 DEF Covers
<1>7. /\ \A q \in Places : q \in {p} => Active(new, q) = {}
      /\ \A q \in Places : Active(new, q) \subseteq Active(old, q)
  BY <1>5, <1>6
<1> DEFINE ps == {p}
<1> HIDE DEF ps
<1>8. /\ \A q \in Places : q \in ps => Active(new, q) = {}
      /\ \A q \in Places : q \notin ps => new.slot[q] = old.slot[q]
  BY <1>4, <1>7 DEF ps
<1> QED BY <1>1, <1>4, <1>7, <1>8, TouchedFacts, BulkPreserves DEF old

\* A change of limit makes no booking active, so it overbooks nothing new.
LEMMA SetLimitPreserves ==
    ASSUME Inv, NEW t \in Txns, NEW p \in Places, NEW l \in Limits, SetLimit(t, p, l)
    PROVE  Inv' /\ OverbookingStep
<1> DEFINE old == snap[t]
           new == [old EXCEPT !.slot[p].limit = l]
<1>1. Commit(t, new, {<<"service">>})
  BY DEF SetLimit
<1>2. old \in Databases /\ Covers(old)
  BY <1>1, SnapshotFacts
<1> HIDE DEF old
<1>3. /\ new.booking = old.booking
      /\ new = [old EXCEPT !.slot = new.slot]
      /\ new.slot = [old.slot EXCEPT ![p] = [old.slot[p] EXCEPT !.limit = l]]
  BY <1>2 DEF Databases
<1>4. [old.slot[p] EXCEPT !.limit = l] \in Slots
  BY <1>2, LimitAssumption DEF Databases, Slots
<1>5. new \in Databases
  BY <1>2, <1>3, <1>4 DEF Databases
<1> HIDE DEF new
<1>6. \A q \in Places : Active(new, q) = Active(old, q)
  BY <1>3 DEF Active, IsActive
<1>7. \A q \in Places : new.slot[q].exists = old.slot[q].exists
                        /\ new.slot[q].count = old.slot[q].count
  BY <1>2, <1>3 DEF Databases, Slots
<1>8. Covers(new)
  BY <1>2, <1>6, <1>7 DEF Covers
<1> QED BY <1>1, <1>5, <1>6, <1>8, TouchedFacts, ShrinkingPreserves DEF old

\* A place is removed only when its snapshot shows no active booking there, and
\* the slot document it deletes is the one every new booking writes.
LEMMA RemoveSlotPreserves ==
    ASSUME Inv, NEW t \in Txns, NEW ps, RemoveSlot(t, ps)
    PROVE  Inv' /\ OverbookingStep
<1> DEFINE old == snap[t]
           new == DropSlots(old, ps)
<1>1. Commit(t, new, {<<"service">>}) /\ ActiveOf(old, ps) = {}
  BY DEF RemoveSlot
<1>2. old \in Databases
  BY <1>1, SnapshotFacts
<1> HIDE DEF old
<1>3. /\ new \in Databases /\ new.booking = old.booking
      /\ \A p \in Places : p \notin ps => new.slot[p] = old.slot[p]
  BY <1>2, DropSlotsFacts
<1> HIDE DEF new
<1>4. \A p \in Places : Active(new, p) = Active(old, p)
  BY <1>3 DEF Active, IsActive
<1>5. \A p \in Places : p \in ps => Active(old, p) = {}
  BY <1>1 DEF Active, ActiveOf
<1> QED BY <1>1, <1>3, <1>4, <1>5, TouchedFacts, BulkPreserves DEF old

\* Closing ends every active booking of the places whose counters it resets.
LEMMA ClosePreserves ==
    ASSUME Inv, NEW t \in Txns, NEW ps \in SUBSET Places, Close(t, ps)
    PROVE  Inv' /\ OverbookingStep
<1> DEFINE old   == snap[t]
           gone  == ActiveOf(old, ps)
           freed == [p \in Places |-> Cardinality({b \in gone : old.booking[b].place = p})]
           keys  == SlotKeys({p \in ps : old.slot[p].exists})
           tr    == Transition(old, gone, "cancelled")
           clr   == ClearCounts(tr, ps)
           new   == Notify(clr, freed)
<1>1. Commit(t, new, keys)
  BY DEF Close
<1>2. old \in Databases
  BY <1>1, SnapshotFacts
<1>3. keys \in SUBSET Docs
  BY TouchedFacts
<1> HIDE DEF old, freed, keys
<1>4. /\ tr \in Databases /\ tr.slot = old.slot
      /\ \A n : n.booking = tr.booking =>
            /\ \A p \in Places : Active(n, p) \subseteq Active(old, p)
            /\ \A p \in Places : p \in ps => Active(n, p) = {}
  BY <1>2, EndAll
<1> HIDE DEF tr
<1>5. /\ clr \in Databases /\ clr.booking = tr.booking
      /\ \A p \in Places \ ps : clr.slot[p] = tr.slot[p]
  BY <1>4, ClearCountsFacts
<1> HIDE DEF clr
<1>6. new \in Databases /\ new.booking = tr.booking /\ new.slot = clr.slot
  BY <1>5, NotifyFacts
<1> HIDE DEF new
<1>7. \A p \in Places : p \notin ps => new.slot[p] = old.slot[p]
  BY <1>4, <1>5, <1>6
<1> QED BY <1>1, <1>3, <1>4, <1>6, <1>7, BulkPreserves DEF old

\* Closing with `remove` ends every active booking of the places it deletes.
LEMMA CloseAndRemovePreserves ==
    ASSUME Inv, NEW t \in Txns, NEW ps, CloseAndRemove(t, ps)
    PROVE  Inv' /\ OverbookingStep
<1> DEFINE old  == snap[t]
           gone == ActiveOf(old, ps)
           tr   == Transition(old, gone, "cancelled")
           drop == DropSlots(tr, ps)
           new  == DropWaits(drop, Users \X ps)
<1>1. Commit(t, new, {<<"service">>})
  BY DEF CloseAndRemove
<1>2. old \in Databases
  BY <1>1, SnapshotFacts
<1> HIDE DEF old
<1>3. /\ tr \in Databases /\ tr.slot = old.slot
      /\ \A n : n.booking = tr.booking =>
            /\ \A p \in Places : Active(n, p) \subseteq Active(old, p)
            /\ \A p \in Places : p \in ps => Active(n, p) = {}
  BY <1>2, EndAll
<1> HIDE DEF tr
<1>4. /\ drop \in Databases /\ drop.booking = tr.booking
      /\ \A p \in Places \ ps : drop.slot[p] = tr.slot[p]
  BY <1>3, DropSlotsFacts
<1> HIDE DEF drop
<1>5. new \in Databases /\ new.booking = tr.booking /\ new.slot = drop.slot
  BY <1>4, DropWaitsFacts
<1> HIDE DEF new
<1>6. \A p \in Places : p \notin ps => new.slot[p] = old.slot[p]
  BY <1>3, <1>4, <1>5
<1> QED BY <1>1, <1>3, <1>5, <1>6, TouchedFacts, BulkPreserves DEF old

\* Trashing resets the counters only with the bookings it has cancelled.
LEMMA DeletePreserves ==
    ASSUME Inv, NEW t \in Txns, Delete(t)
    PROVE  Inv' /\ OverbookingStep
<1> DEFINE old   == snap[t]
           trash == [old EXCEPT !.service = "trashed"]
           gone  == ActiveOf(old, Places)
           timed == {p \in Places : SlotOf[p] \in TimedSlots /\ old.slot[p].exists}
           keys  == SlotKeys(timed) \cup {<<"service">>}
           tr    == Transition(trash, gone, "cancelled")
           wt    == DropWaits(tr, Users \X Places)
           new   == ClearCounts(wt, Places)
<1>1. CASE gone = {}
  <2>1. Commit(t, trash, {<<"service">>})
    BY <1>1 DEF Delete
  <2>2. old \in Databases
    BY <2>1, SnapshotFacts
  <2> HIDE DEF old
  <2>3. trash \in Databases /\ trash.slot = old.slot /\ trash.booking = old.booking
    BY <2>2 DEF Databases
  <2>4. \A p \in Places : Active(trash, p) \subseteq Active(old, p)
    BY <2>3 DEF Active, IsActive
  <2> HIDE DEF trash
  <2> QED BY <2>1, <2>3, <2>4, TouchedFacts, SameSlotsPreserve DEF old
<1>2. CASE gone # {}
  <2>1. Commit(t, new, keys)
    BY <1>2 DEF Delete
  <2>2. old \in Databases
    BY <2>1, SnapshotFacts
  <2>3. keys \in SUBSET Docs
    BY TouchedFacts
  <2> HIDE DEF old, keys, timed
  <2>4. /\ trash \in Databases /\ trash.booking = old.booking
    BY <2>2 DEF Databases
  <2>5. gone = ActiveOf(trash, Places) /\ \A p \in Places : Active(trash, p) = Active(old, p)
    BY <2>4 DEF ActiveOf, Active, IsActive
  <2> HIDE DEF trash, gone
  <2>6. /\ tr \in Databases
        /\ \A n : n.booking = tr.booking =>
              /\ \A p \in Places : Active(n, p) \subseteq Active(trash, p)
              /\ \A p \in Places : p \in Places => Active(n, p) = {}
    BY <2>4, <2>5, EndAll
  <2> HIDE DEF tr
  <2>7. wt \in Databases /\ wt.booking = tr.booking
    BY <2>6, DropWaitsFacts
  <2> HIDE DEF wt
  <2>8. new \in Databases /\ new.booking = tr.booking
    BY <2>7, ClearCountsFacts
  <2> HIDE DEF new
  <2>9. \A p \in Places : Active(new, p) = {}
    BY <2>6, <2>8
  <2> QED BY <2>1, <2>3, <2>8, <2>9, BulkPreserves
<1> QED BY <1>1, <1>2

\* A purge leaves no booking and no slot.
LEMMA PurgeCommitPreserves ==
    ASSUME Inv, NEW t \in Txns, Commit(t, [EmptyDb EXCEPT !.service = "gone"], {})
    PROVE  Inv' /\ OverbookingStep
<1> DEFINE new == [EmptyDb EXCEPT !.service = "gone"]
<1>1. Commit(t, new, {})
  OBVIOUS
<1>2. new \in Databases /\ new.booking = EmptyDb.booking
  BY EmptyFacts DEF Databases
<1>3. \A p \in Places : Active(new, p) = {}
  BY <1>2, EmptyFacts DEF Active, IsActive
<1> HIDE DEF new
<1> QED BY <1>1, <1>2, <1>3, TouchedFacts, BulkPreserves

\* The same, for the purge an administrator asks for.
LEMMA PurgePreserves ==
    ASSUME Inv, NEW t \in Txns, Purge(t)
    PROVE  Inv' /\ OverbookingStep
BY PurgeCommitPreserves DEF Purge

\* An expired slot takes its active bookings with it.
LEMMA SlotExpiryPreserves ==
    ASSUME Inv, NEW t \in Txns, NEW s \in SlotDocs, SlotExpiry(t, s)
    PROVE  Inv' /\ OverbookingStep
<1> DEFINE old  == snap[t]
           ps   == PlacesOf(s)
           gone == ActiveOf(old, ps)
           drop == DropSlots(old, ps)
           dbk  == DropBookings(drop, gone)
           new  == DropWaits(dbk, Users \X ps)
<1>1. Commit(t, new, {})
  BY DEF SlotExpiry
<1>2. old \in Databases
  BY <1>1, SnapshotFacts
<1>3. \A b \in Ids : IsActive(old, b) /\ old.booking[b].place \in ps => b \in gone
  BY DEF ActiveOf
<1> HIDE DEF old, ps, gone
<1>4. /\ drop \in Databases /\ drop.booking = old.booking
      /\ \A p \in Places \ ps : drop.slot[p] = old.slot[p]
  BY <1>2, DropSlotsFacts
<1> HIDE DEF drop
<1>5. /\ dbk \in Databases /\ dbk.slot = drop.slot
      /\ \A b \in Ids : dbk.booking[b] = IF b \in gone THEN NoBooking ELSE old.booking[b]
  BY <1>4, DropBookingsFacts
<1> HIDE DEF dbk
<1>6. new \in Databases /\ new.booking = dbk.booking /\ new.slot = dbk.slot
  BY <1>5, DropWaitsFacts
<1> HIDE DEF new
<1>7. \A b \in Ids : IsActive(new, b) => b \notin gone /\ new.booking[b] = old.booking[b]
  BY <1>5, <1>6 DEF IsActive, ActiveStatuses, NoBooking
<1>8. \A p \in Places : Active(new, p) \subseteq Active(old, p)
  BY <1>7 DEF Active, IsActive
<1>9. \A p \in Places : p \in ps => Active(new, p) = {}
  BY <1>3, <1>7 DEF Active, IsActive
<1>10. \A p \in Places : p \notin ps => new.slot[p] = old.slot[p]
  BY <1>4, <1>5, <1>6
<1> QED BY <1>1, <1>6, <1>8, <1>9, <1>10, TouchedFacts, BulkPreserves DEF old

\* Leaving a place and taking another, in one result.
LEMMA ReschedulePreserves ==
    ASSUME Inv, NEW t \in Txns, NEW b \in Ids, NEW p \in Places, Reschedule(t, b, p)
    PROVE  Inv' /\ OverbookingStep
<1> DEFINE old  == snap[t]
           row  == old.booking[b]
           from == row.place
           ps   == {from}
           rel  == Release(old, ps)
           ins  == [rel EXCEPT !.booking[b] = BookingRow(row.user, p, row.status)]
           tak  == Take(ins, p)
           once == Once(from)
           new  == Notify(tak, once)
<1>1. /\ Commit(t, new, {}) /\ IsActive(old, b) /\ p # from /\ MayTake(rel, p)
  BY DEF Reschedule
<1>2. old \in Databases /\ Covers(old)
  BY <1>1, SnapshotFacts
<1>3. row \in BookingRows /\ BookingRow(row.user, p, row.status) \in BookingRows
  <2>1. row \in BookingRows
    BY <1>1, <1>2 DEF Databases, IsActive, ActiveStatuses, NoBooking
  <2> HIDE DEF row
  <2> QED BY <2>1 DEF BookingRow, BookingRows
<1>4. from \in Places /\ b \in Active(old, from)
  BY <1>1, <1>3 DEF BookingRows, Active
<1> HIDE DEF old, row, from
<1>5. /\ rel \in Databases /\ rel.booking = old.booking
      /\ \A q \in Places :
            rel.slot[q] = IF q \in ps /\ old.slot[q].exists /\ old.slot[q].count > 0
                          THEN [old.slot[q] EXCEPT !.count = @ - 1] ELSE old.slot[q]
  BY <1>2, ReleaseFacts
<1>6. from \in ps /\ \A q \in Places : q # from => q \notin ps
  OBVIOUS
<1> HIDE DEF rel, ps
<1>7. /\ ins \in Databases /\ ins.slot = rel.slot
      /\ ins.booking = [old.booking EXCEPT ![b] = BookingRow(row.user, p, row.status)]
  BY <1>3, <1>5 DEF Databases
<1> HIDE DEF ins
<1>8. /\ tak \in Databases /\ tak.booking = ins.booking
      /\ tak.slot = [rel.slot EXCEPT ![p] = [rel.slot[p] EXCEPT !.count = @ + 1]]
  <2>1. /\ tak \in Databases /\ tak.booking = ins.booking
        /\ tak.slot = [ins.slot EXCEPT ![p] = [ins.slot[p] EXCEPT !.count = @ + 1]]
    BY <1>7, TakeFacts
  <2> QED BY <2>1, <1>7
<1> HIDE DEF tak
<1>9. new \in Databases /\ new.booking = ins.booking /\ new.slot = tak.slot
  BY <1>8, NotifyFacts
<1> HIDE DEF new
<1>10. /\ new.booking[b].place = p
       /\ \A c \in Ids : c # b => new.booking[c] = old.booking[c]
  BY <1>2, <1>7, <1>9 DEF Databases, BookingRow
<1>11. \A q \in Places : /\ q # p => Active(new, q) \subseteq Active(old, q) \ {b}
                         /\ Active(new, q) \subseteq Active(old, q) \cup {b}
  BY <1>10 DEF Active, IsActive
<1>12. \A q \in Places : q # p => new.slot[q] = rel.slot[q]
  BY <1>5, <1>8, <1>9 DEF Databases
<1>13. rel.slot[p] = old.slot[p]
  BY <1>1, <1>5, <1>6
<1>14. new.slot[p] = [old.slot[p] EXCEPT !.count = @ + 1] /\ old.slot[p] \in Slots
  BY <1>2, <1>5, <1>8, <1>9, <1>13 DEF Databases
<1>15. /\ new.slot[p].exists /\ new.slot[p].limit = old.slot[p].limit
       /\ new.slot[p].count = old.slot[p].count + 1 /\ old.slot[p].count \in Nat
  BY <1>1, <1>13, <1>14 DEF Slots, MayTake
<1>16. ASSUME NEW q \in Places, Active(new, q) # {}
       PROVE  new.slot[q].exists /\ Cardinality(Active(new, q)) <= new.slot[q].count
  <2>1. CASE q = p
    BY <2>1, <1>2, <1>9, <1>11, <1>15, JoinCover
  <2>2. CASE q = from
    <3>1. old.slot[q].exists /\ old.slot[q] \in Slots
      BY <2>2, <1>2, <1>4 DEF Covers, Databases
    <3>2. new.slot[q] = IF old.slot[q].count > 0
                        THEN [old.slot[q] EXCEPT !.count = @ - 1] ELSE old.slot[q]
      BY <2>2, <3>1, <1>1, <1>5, <1>6, <1>12
    <3>3. /\ new.slot[q].exists = old.slot[q].exists
          /\ new.slot[q].count = IF old.slot[q].count > 0
                                 THEN old.slot[q].count - 1 ELSE old.slot[q].count
      BY <3>1, <3>2 DEF Slots
    <3> QED BY <2>2, <3>3, <1>1, <1>2, <1>4, <1>9, <1>11, LeaveCover
  <2>3. CASE q # p /\ q # from
    <3>1. new.slot[q] = old.slot[q]
      BY <2>3, <1>5, <1>6, <1>12
    <3>2. Active(new, q) \subseteq Active(old, q)
      BY <2>3, <1>11
    <3> QED BY <3>1, <3>2, <1>2, <1>9, <1>16, SameCover
  <2> QED BY <2>1, <2>2, <2>3
<1>17. Covers(new)
  BY <1>16 DEF Covers
<1>18. WithinLimit(new, p)
  <2>1. old.slot[p].limit # NoLimit => old.slot[p].count < old.slot[p].limit
    BY <1>1, <1>13 DEF MayTake
  <2> QED BY <2>1, <1>14, <1>15 DEF WithinLimit, Slots
<1>19. \A q \in Places : ~(Active(new, q) \subseteq Active(old, q)) =>
                            old.slot[q] # new.slot[q] /\ WithinLimit(new, q)
  BY <1>11, <1>15, <1>18
<1>20. GoodResult(old, new, Changed(old, new) \cup {})
  BY <1>2, <1>9, <1>17, <1>19, GoodIntro
<1> QED BY <1>1, <1>20, TouchedFacts, CommitPreserves DEF old

-----------------------------------------------------------------------------
(* Steps outside a handler's commit. *)

\* A write outside any handler that touches no slot and makes no booking active.
LEMMA OutsidePreserves ==
    ASSUME Inv, NEW d \in Databases, d.slot = db.slot,
           NEW docs \in SUBSET Docs, NEW closed \in SUBSET Txns, Write(d, docs, closed),
           \A b \in Ids : d.booking[b] # db.booking[b] => <<"booking", b>> \in docs,
           \A p \in Places : Active(d, p) \subseteq Active(db, p)
    PROVE  Inv' /\ OverbookingStep
<1>1. /\ TypeOK' /\ db' = d
      /\ \A x \in open' : x \in open /\ snap'[x] = snap[x] /\ dirty'[x] = dirty[x] \cup docs
  BY WriteFacts DEF Inv, Write
<1>2. db \in Databases /\ Covers(db)
  BY DEF Inv, TypeOK
<1>3. Covers(d)
  <2> SUFFICES ASSUME NEW p \in Places, Active(d, p) # {}
               PROVE  d.slot[p].exists /\ Cardinality(Active(d, p)) <= d.slot[p].count
    BY DEF Covers
  <2> QED BY <1>2, SameCover
<1>4. Covers(db)'
  BY <1>1, <1>3 DEF Covers, Active, IsActive
<1>5. \A x \in open' : Covers(snap'[x])
  BY <1>1 DEF Inv
<1>6. (\A x \in open : Covers(snap[x]))'
  BY <1>5 DEF Covers, Active, IsActive
<1>7. \A x \in open' :
        /\ \A p \in Places :
              <<"slot", SlotOf[p]>> \notin dirty'[x] =>
                  /\ snap'[x].slot[p] = d.slot[p]
                  /\ Active(d, p) \subseteq Active(snap'[x], p)
        /\ \A b \in Ids :
              <<"booking", b>> \notin dirty'[x] => snap'[x].booking[b] = d.booking[b]
  <2> SUFFICES ASSUME NEW x \in open'
               PROVE  /\ \A p \in Places :
                            <<"slot", SlotOf[p]>> \notin dirty'[x] =>
                                /\ snap'[x].slot[p] = d.slot[p]
                                /\ Active(d, p) \subseteq Active(snap'[x], p)
                      /\ \A b \in Ids :
                            <<"booking", b>> \notin dirty'[x] => snap'[x].booking[b] = d.booking[b]
    OBVIOUS
  <2>1. x \in open /\ snap'[x] = snap[x] /\ dirty'[x] = dirty[x] \cup docs
    BY <1>1
  <2>2. ASSUME NEW p \in Places, <<"slot", SlotOf[p]>> \notin dirty'[x]
        PROVE  snap[x].slot[p] = d.slot[p] /\ Active(d, p) \subseteq Active(snap[x], p)
    <3>1. snap[x].slot[p] = db.slot[p] /\ Active(db, p) \subseteq Active(snap[x], p)
      BY <2>1, <2>2 DEF Inv, Fresh
    <3> QED BY <3>1
  <2>3. ASSUME NEW b \in Ids, <<"booking", b>> \notin dirty'[x]
        PROVE  snap[x].booking[b] = d.booking[b]
    <3>1. snap[x].booking[b] = db.booking[b] /\ d.booking[b] = db.booking[b]
      BY <2>1, <2>3 DEF Inv, Fresh
    <3> QED BY <3>1
  <2> QED BY <2>1, <2>2, <2>3
<1>8. Fresh'
  BY <1>1, <1>7 DEF Fresh, Active, IsActive
<1>9. OverbookingStep
  BY <1>1 DEF OverbookingStep
<1> QED BY <1>1, <1>4, <1>6, <1>8, <1>9 DEF Inv

\* A write that touches neither bookings nor slots.
LEMMA AsidePreserves ==
    ASSUME Inv, NEW d \in Databases, d.booking = db.booking, d.slot = db.slot,
           NEW docs \in SUBSET Docs, NEW closed \in SUBSET Txns, Write(d, docs, closed)
    PROVE  Inv' /\ OverbookingStep
<1>1. \A p \in Places : Active(d, p) \subseteq Active(db, p)
  BY DEF Active, IsActive
<1> QED BY <1>1, OutsidePreserves

\* Leaving a list changes neither bookings nor counters.
LEMMA LeaveWaitlistPreserves ==
    ASSUME Inv, NEW u \in Users, NEW p \in Places, LeaveWaitlist(u, p)
    PROVE  Inv' /\ OverbookingStep
<1> DEFINE keys == {<<u, p>>}
           drop == DropWaits(db, keys)
           d    == Merge(db, db, drop)
           docs == {<<"wait", <<u, p>>>>}
<1>1. Write(d, docs, {})
  BY DEF LeaveWaitlist
<1>2. db \in Databases
  BY DEF Inv, TypeOK
<1> HIDE DEF keys
<1>3. drop \in Databases /\ drop.booking = db.booking /\ drop.slot = db.slot
  BY <1>2, DropWaitsFacts
<1> HIDE DEF drop
<1>4. /\ d \in Databases
      /\ \A b \in Ids : d.booking[b] = db.booking[b]
      /\ \A q \in Places : d.slot[q] = db.slot[q]
  BY <1>2, <1>3, MergeFacts
<1> HIDE DEF d
<1>5. d.booking = db.booking /\ d.slot = db.slot
  BY <1>2, <1>4 DEF Databases
<1>6. docs \in SUBSET Docs
  BY DEF Docs
<1> HIDE DEF docs
<1> QED BY <1>1, <1>4, <1>5, <1>6, AsidePreserves

\* Restoring a service changes neither bookings nor counters.
LEMMA RestorePreserves ==
    ASSUME Inv, Restore
    PROVE  Inv' /\ OverbookingStep
<1> DEFINE d == [db EXCEPT !.service = "live"]
<1>1. Write(d, {<<"service">>}, {})
  BY DEF Restore
<1>2. d \in Databases /\ d.booking = db.booking /\ d.slot = db.slot
  BY DEF Inv, TypeOK, Databases
<1> HIDE DEF d
<1> QED BY <1>1, <1>2, TouchedFacts, AsidePreserves

\* A transaction that does not commit changes nothing.
LEMMA AbortPreserves ==
    ASSUME Inv, NEW t \in Txns, Abort(t)
    PROVE  Inv' /\ OverbookingStep
<1>1. Write(db, {}, {t}) /\ db \in Databases
  BY DEF Abort, Inv, TypeOK
<1> QED BY <1>1, TouchedFacts, AsidePreserves

\* A new snapshot is the committed database, which is covered.
LEMMA BeginPreserves ==
    ASSUME Inv, NEW t \in Txns, Begin(t)
    PROVE  Inv' /\ OverbookingStep
<1>1. /\ t \notin open /\ open' = open \cup {t} /\ db' = db /\ dirty' = dirty
      /\ snap' = [snap EXCEPT ![t] = db]
  BY DEF Begin
<1>2. TypeOK'
  BY <1>1 DEF Inv, TypeOK
<1>3. \A x \in open' : IF x = t THEN snap'[x] = db ELSE x \in open /\ snap'[x] = snap[x]
  BY <1>1 DEF Inv, TypeOK
<1>4. Covers(db)'
  BY <1>1 DEF Inv, Covers, Active, IsActive
<1>5. \A x \in open' : Covers(snap'[x])
  BY <1>3 DEF Inv
<1>6. (\A x \in open : Covers(snap[x]))'
  BY <1>5 DEF Covers, Active, IsActive
<1>7. \A x \in open' :
        /\ \A p \in Places :
              <<"slot", SlotOf[p]>> \notin dirty'[x] =>
                  /\ snap'[x].slot[p] = db'.slot[p]
                  /\ Active(db', p) \subseteq Active(snap'[x], p)
        /\ \A b \in Ids :
              <<"booking", b>> \notin dirty'[x] => snap'[x].booking[b] = db'.booking[b]
  BY <1>1, <1>3 DEF Inv, Fresh
<1>8. Fresh'
  BY <1>7 DEF Fresh, Active, IsActive
<1>9. OverbookingStep
  BY <1>1 DEF OverbookingStep, Active, IsActive
<1> QED BY <1>2, <1>4, <1>6, <1>8, <1>9 DEF Inv

-----------------------------------------------------------------------------
(* The theorems. *)

\* At the start nothing is booked and no transaction is open.
LEMMA InitInv == Init => Inv
<1> SUFFICES ASSUME Init PROVE Inv
  OBVIOUS
<1> PICK f \in [Places -> Limits] :
           db = [EmptyDb EXCEPT !.slot =
                    [p \in Places |-> [exists |-> TRUE, limit |-> f[p], count |-> 0]]]
  BY DEF Init
<1>1. [p \in Places |-> [exists |-> TRUE, limit |-> f[p], count |-> 0]] \in [Places -> Slots]
  BY LimitAssumption DEF Slots
<1>2. db \in Databases /\ db.booking = EmptyDb.booking
  BY <1>1, EmptyFacts DEF Databases
<1>3. \A p \in Places : Active(db, p) = {}
  BY <1>2, EmptyFacts DEF Active, IsActive
<1>4. Covers(db)
  BY <1>3 DEF Covers
<1>5. TypeOK /\ open = {}
  BY <1>2, EmptyFacts DEF Init, TypeOK
<1> QED BY <1>4, <1>5 DEF Inv, Fresh

\* Every step keeps the invariant and overbooks nothing.
LEMMA NextInv == Inv /\ [Next]_vars => Inv' /\ (OverbookingStep \/ UNCHANGED vars)
<1> SUFFICES ASSUME Inv, [Next]_vars PROVE Inv' /\ (OverbookingStep \/ UNCHANGED vars)
  OBVIOUS
<1>1. ASSUME NEW t \in Txns, Begin(t) \/ Abort(t) PROVE Inv' /\ OverbookingStep
  BY <1>1, BeginPreserves, AbortPreserves
<1>2. ASSUME NEW t \in Txns, BookingStep(t) PROVE Inv' /\ OverbookingStep
  <2>1. CASE \E u \in Users, b \in Ids, p \in Places, s \in ActiveStatuses : Create(t, u, b, p, s)
    BY <2>1, CreatePreserves
  <2>2. CASE \E b \in Ids : Cancel(t, b)
    BY <2>2, CancelPreserves
  <2>3. CASE \E u \in Users : Withdraw(t, u)
    BY <2>3, WithdrawPreserves
  <2>4. CASE \E b \in Ids, to \in Statuses : SetStatus(t, b, to)
    BY <2>4, SetStatusPreserves
  <2>5. CASE \E b \in Ids : CheckIn(t, b)
    BY <2>5, CheckInPreserves
  <2>6. CASE \E b \in Ids : MarkNoShow(t, b)
    BY <2>6, MarkNoShowPreserves
  <2>7. CASE \E b \in Ids, p \in Places : Reschedule(t, b, p)
    BY <2>7, ReschedulePreserves
  <2>8. CASE \E u \in Users, p \in Places : JoinWaitlist(t, u, p)
    BY <2>8, JoinWaitlistPreserves
  <2> QED BY <1>2, <2>1, <2>2, <2>3, <2>4, <2>5, <2>6, <2>7, <2>8 DEF BookingStep
<1>3. ASSUME NEW t \in Txns, AdminStep(t) PROVE Inv' /\ OverbookingStep
  <2>0. Targets \subseteq SUBSET Places
    BY DEF Targets, PlacesOf
  <2>1. CASE \E p \in Places, l \in Limits : AddSlot(t, p, l)
    BY <2>1, AddSlotPreserves
  <2>2. CASE \E p \in Places, l \in Limits : SetLimit(t, p, l)
    BY <2>2, SetLimitPreserves
  <2>3. CASE \E ps \in Targets : RemoveSlot(t, ps)
    BY <2>3, RemoveSlotPreserves
  <2>4. CASE \E ps \in Targets : Close(t, ps)
    BY <2>0, <2>4, ClosePreserves
  <2>5. CASE \E ps \in Targets : CloseAndRemove(t, ps)
    BY <2>5, CloseAndRemovePreserves
  <2>6. CASE Delete(t)
    BY <2>6, DeletePreserves
  <2>7. CASE Purge(t)
    BY <2>7, PurgePreserves
  <2>8. CASE \E s \in SlotDocs : SlotExpiry(t, s)
    BY <2>8, SlotExpiryPreserves
  <2> QED BY <1>3, <2>1, <2>2, <2>3, <2>4, <2>5, <2>6, <2>7, <2>8 DEF AdminStep
<1>4. ASSUME \E u \in Users, p \in Places : LeaveWaitlist(u, p) PROVE Inv' /\ OverbookingStep
  BY <1>4, LeaveWaitlistPreserves
<1>5. ASSUME Restore PROVE Inv' /\ OverbookingStep
  BY <1>5, RestorePreserves
<1>6. ASSUME UNCHANGED vars PROVE Inv'
  <2>1. TypeOK'
    BY <1>6 DEF vars, Inv, TypeOK
  <2>2. Covers(db)' /\ (\A x \in open : Covers(snap[x]))'
    BY <1>6 DEF vars, Inv, Covers, Active, IsActive
  <2>3. Fresh'
    BY <1>6 DEF vars, Inv, Fresh, Active, IsActive
  <2> QED BY <2>1, <2>2, <2>3 DEF Inv
<1> QED BY <1>1, <1>2, <1>3, <1>4, <1>5, <1>6 DEF Next

\* The inductive invariant holds in every reachable state.
THEOREM Invariant == Spec => []Inv
<1>1. Init => Inv
  BY InitInv
<1>2. Inv /\ [Next]_vars => Inv'
  BY NextInv
<1> QED BY <1>1, <1>2, PTL DEF Spec

\* Every reachable state is well-formed.
THEOREM TypeCorrect == Spec => []TypeOK
<1>1. Inv => TypeOK
  BY DEF Inv
<1> QED BY <1>1, Invariant, PTL

\* Whatever handlers, bulk operations and jobs interleave, the counter that
\* `take` compares with the limit never understates the active bookings.
THEOREM CountersCover == Spec => []CounterCoversBookings
<1>1. Inv => CounterCoversBookings
  BY DEF Inv, Covers, CounterCoversBookings
<1> QED BY <1>1, Invariant, PTL

\* No step gives a place a booking beyond its limit.
THEOREM NeverOverbooked == Spec => NoOverbooking
<1>1. Inv /\ [Next]_vars => [OverbookingStep]_vars
  BY NextInv
<1>2. OverbookingStep <=>
        \A p \in Places :
          /\ ~(Active(db', p) \subseteq Active(db, p))
          /\ db'.slot[p].limit # NoLimit
          => Cardinality(Active(db', p)) <= db'.slot[p].limit
  BY DEF OverbookingStep
<1> QED BY <1>1, <1>2, Invariant, PTL DEF Spec, NoOverbooking

-----------------------------------------------------------------------------
(* No phantom place.                                                       *)
(*                                                                         *)
(* The other half of the counters: none of them counts a place nobody has. *)
(* Again a handler computes from a snapshot, and what carries the claim is *)
(* that a slot document nobody wrote still has, in the database, every     *)
(* booking that held it in the snapshot: whoever takes such a booking away *)
(* writes that document.  A purge is the exception, for the bookings left  *)
(* of a slot that is gone; it writes the service document, as does whoever *)
(* would add the slot again.                                               *)

\* The bookings that hold a place.
Held(d, p) == {b \in Ids : /\ d.booking[b] # NoBooking
                           /\ d.booking[b].status # "cancelled"
                           /\ d.booking[b].place = p}

NoPhantom(d) == \A p \in Places : d.slot[p].count <= Cardinality(Held(d, p))
Tidy(d) == \A p \in Places : ~d.slot[p].exists => d.slot[p].count = 0
Whole(d) == NoPhantom(d) /\ Tidy(d) /\ IndexHolds(d)

\* What a snapshot still says of the slot and service documents nobody wrote.
StillHeld ==
    \A t \in open, p \in Places :
        /\ <<"slot", SlotOf[p]>> \notin dirty[t] /\ snap[t].slot[p].exists
           => Held(snap[t], p) \subseteq Held(db, p)
        /\ <<"service">> \notin dirty[t] /\ db.slot[p].exists => snap[t].slot[p].exists

Ledger == Whole(db) /\ (\A t \in open : Whole(snap[t])) /\ StillHeld

\* What a handler that read `old` and wrote `docs` may do to a place: leave it
\* to those who hold it, empty it, let one booking go, or let one in.
Kept(old, new, p) ==
    /\ new.slot[p].exists = old.slot[p].exists
    /\ new.slot[p].count <= old.slot[p].count
    /\ Held(old, p) \subseteq Held(new, p)

Emptied(old, new, docs, p) ==
    /\ new.slot[p].count = 0
    /\ new.slot[p].exists => old.slot[p].exists \/ <<"service">> \in docs
    /\ \/ <<"slot", SlotOf[p]>> \in docs
       \/ Held(old, p) \subseteq Held(new, p)
       \/ <<"service">> \in docs /\ ~old.slot[p].exists

Vacated(old, new, p) ==
    /\ old.slot[p].exists /\ new.slot[p].exists
    /\ new.slot[p].count = old.slot[p].count - 1
    /\ \E b \in Held(old, p) : Held(old, p) \ {b} \subseteq Held(new, p)

Entered(old, new, p) ==
    /\ old.slot[p].exists /\ new.slot[p].exists
    /\ new.slot[p].count = old.slot[p].count + 1
    /\ Held(old, p) \subseteq Held(new, p)
    /\ \E b \in Held(new, p) : b \notin Held(old, p)

Dealt(old, new, docs, p) ==
    \/ Kept(old, new, p)
    \/ Emptied(old, new, docs, p)
    \/ Vacated(old, new, p)
    \/ Entered(old, new, p)

\* What the result of a handler owes the ledger.
LedgerResult(old, new, docs) ==
    /\ NoPhantom(new) /\ Tidy(new)
    /\ \A p \in Places :
          /\ <<"slot", SlotOf[p]>> \notin docs =>
                \/ Held(old, p) \subseteq Held(new, p)
                \/ <<"service">> \in docs /\ ~old.slot[p].exists
          /\ ~old.slot[p].exists =>
                /\ new.slot[p].count = 0
                /\ new.slot[p].exists => <<"service">> \in docs

\* The bookings that hold a place are finitely many, and no fewer than those of
\* any part of them.
LEMMA HeldFinite ==
    ASSUME NEW d, NEW p
    PROVE  /\ IsFiniteSet(Held(d, p)) /\ Cardinality(Held(d, p)) \in Nat
           /\ \A S : S \subseteq Held(d, p) => Cardinality(S) <= Cardinality(Held(d, p))
BY FiniteAssumption, FS_Subset, FS_CardinalityType DEF Held

\* A handler that deals fairly with every place keeps the counters honest.
LEMMA DealIntro ==
    ASSUME NEW old \in Databases, NEW new \in Databases, NEW docs, Whole(old),
           Changed(old, new) \subseteq docs,
           \A p \in Places : Dealt(old, new, docs, p)
    PROVE  LedgerResult(old, new, docs)
<1>1. ASSUME NEW p \in Places
      PROVE  /\ new.slot[p].count <= Cardinality(Held(new, p))
             /\ ~new.slot[p].exists => new.slot[p].count = 0
             /\ <<"slot", SlotOf[p]>> \notin docs =>
                   \/ Held(old, p) \subseteq Held(new, p)
                   \/ <<"service">> \in docs /\ ~old.slot[p].exists
             /\ ~old.slot[p].exists =>
                   /\ new.slot[p].count = 0
                   /\ new.slot[p].exists => <<"service">> \in docs
  <2>1. /\ old.slot[p].count \in Nat /\ new.slot[p].count \in Nat
        /\ old.slot[p].exists \in BOOLEAN /\ new.slot[p].exists \in BOOLEAN
    BY DEF Databases, Slots
  <2>2. /\ old.slot[p].count <= Cardinality(Held(old, p))
        /\ ~old.slot[p].exists => old.slot[p].count = 0
    BY DEF Whole, NoPhantom, Tidy
  <2>3. <<"slot", SlotOf[p]>> \notin docs => old.slot[p] = new.slot[p]
    BY ChangedFacts
  <2>4. /\ Cardinality(Held(old, p)) \in Nat /\ Cardinality(Held(new, p)) \in Nat
        /\ Held(old, p) \subseteq Held(new, p) => Cardinality(Held(old, p)) <= Cardinality(Held(new, p))
    BY HeldFinite
  <2>5. CASE Kept(old, new, p)
    BY <2>1, <2>2, <2>4, <2>5 DEF Kept
  <2>6. CASE Emptied(old, new, docs, p)
    BY <2>1, <2>4, <2>6 DEF Emptied
  <2>7. CASE Vacated(old, new, p)
    <3>1. PICK b \in Held(old, p) : Held(old, p) \ {b} \subseteq Held(new, p)
      BY <2>7 DEF Vacated
    <3>2. Cardinality(Held(old, p) \ {b}) = Cardinality(Held(old, p)) - 1
      BY HeldFinite, FS_RemoveElement
    <3>3. Cardinality(Held(old, p) \ {b}) <= Cardinality(Held(new, p))
      BY <3>1, HeldFinite
    <3>4. old.slot[p].exists /\ new.slot[p].exists /\ new.slot[p].count = old.slot[p].count - 1
      BY <2>7 DEF Vacated
    <3>5. <<"slot", SlotOf[p]>> \in docs
      BY <3>4, <2>1, <2>3
    <3> QED BY <3>2, <3>3, <3>4, <3>5, <2>1, <2>2, <2>4
  <2>8. CASE Entered(old, new, p)
    <3> DEFINE H == Held(old, p)
    <3>1. PICK b \in Held(new, p) : b \notin H
      BY <2>8 DEF Entered
    <3>2. H \cup {b} \subseteq Held(new, p)
      BY <2>8, <3>1 DEF Entered
    <3>3. Cardinality(H \cup {b}) <= Cardinality(Held(new, p))
      BY <3>2, HeldFinite
    <3>4. IsFiniteSet(H)
      BY HeldFinite
    <3>5. Cardinality(H \cup {b}) = Cardinality(H) + 1
      <4> HIDE DEF H
      <4> QED BY <3>1, <3>4, FS_AddElement
    <3>6. /\ old.slot[p].exists /\ new.slot[p].exists
          /\ new.slot[p].count = old.slot[p].count + 1 /\ H \subseteq Held(new, p)
      BY <2>8 DEF Entered
    <3> QED BY <3>3, <3>5, <3>6, <2>1, <2>2, <2>4
  <2> QED BY <2>5, <2>6, <2>7, <2>8 DEF Dealt
<1> QED BY <1>1 DEF LedgerResult, NoPhantom, Tidy

\* The heart of the argument: a transaction that owes LedgerResult keeps the
\* ledger when it commits.
LEMMA CommitLedger ==
    ASSUME Inv, Ledger, NEW t \in Txns, NEW new \in Databases, NEW touched \in SUBSET Docs,
           Commit(t, new, touched),
           LedgerResult(snap[t], new, Changed(snap[t], new) \cup touched)
    PROVE  Ledger'
<1> DEFINE old  == snap[t]
           docs == Changed(old, new) \cup touched
           d    == Merge(db, old, new)
<1>1. /\ old \in Databases /\ db \in Databases
      /\ t \in open /\ docs \cap dirty[t] = {} /\ db' = d /\ Write(d, docs, {t}) /\ IndexHolds(d)
  BY DEF Inv, TypeOK, Commit, Write
<1>2. /\ d \in Databases
      /\ \A b \in Ids : d.booking[b]
            = IF old.booking[b] # new.booking[b] THEN new.booking[b] ELSE db.booking[b]
      /\ \A p \in Places : d.slot[p]
            = IF old.slot[p] # new.slot[p] THEN new.slot[p] ELSE db.slot[p]
  BY <1>1, MergeFacts
<1>3. /\ docs \in SUBSET Docs
      /\ \A p \in Places : <<"slot", SlotOf[p]>> \notin docs => old.slot[p] = new.slot[p]
      /\ \A b \in Ids : <<"booking", b>> \notin docs => old.booking[b] = new.booking[b]
  BY <1>1, ChangedFacts
<1>4. \A x \in open' : x \in open /\ snap'[x] = snap[x] /\ dirty'[x] = dirty[x] \cup docs
  <2>1. TypeOK /\ {t} \in SUBSET Txns
    BY DEF Inv
  <2> HIDE DEF old, docs, d
  <2> QED BY <2>1, <1>1, <1>2, <1>3, WriteFacts
<1>5. LedgerResult(old, new, docs)
  OBVIOUS
<1> HIDE DEF old, docs, d
<1>6. \A b \in Ids : old.booking[b] # new.booking[b] => db.booking[b] = old.booking[b]
  <2> SUFFICES ASSUME NEW b \in Ids, old.booking[b] # new.booking[b]
               PROVE  db.booking[b] = old.booking[b]
    OBVIOUS
  <2>1. <<"booking", b>> \notin dirty[t]
    BY <1>1, <1>3
  <2> QED BY <2>1, <1>1 DEF Inv, Fresh, old
\* Where the slot document was written, whoever holds the place in the result
\* holds it in the database.
<1>7. ASSUME NEW p \in Places, <<"slot", SlotOf[p]>> \in docs
      PROVE  /\ d.slot[p] = new.slot[p] /\ db.slot[p] = old.slot[p]
             /\ old.slot[p].exists => Held(new, p) \subseteq Held(d, p)
  <2>1. <<"slot", SlotOf[p]>> \notin dirty[t]
    BY <1>1, <1>7
  <2>2. old.slot[p] = db.slot[p]
    BY <2>1, <1>1 DEF Inv, Fresh, old
  <2>3. old.slot[p].exists => Held(old, p) \subseteq Held(db, p)
    BY <2>1, <1>1 DEF Ledger, StillHeld, old
  <2>4. ASSUME old.slot[p].exists, NEW b \in Held(new, p) PROVE b \in Held(d, p)
    <3>1. b \in Ids
      BY DEF Held
    <3>2. CASE old.booking[b] # new.booking[b]
      BY <2>4, <3>1, <3>2, <1>2 DEF Held
    <3>3. CASE old.booking[b] = new.booking[b]
      <4>1. b \in Held(db, p)
        BY <2>3, <2>4, <3>3 DEF Held
      <4> QED BY <4>1, <3>1, <3>3, <1>2 DEF Held
    <3> QED BY <3>2, <3>3
  <2> QED BY <2>2, <2>4, <1>2
\* Where it was not, whoever held the place still does, unless the slot is gone.
<1>8. ASSUME NEW p \in Places, <<"slot", SlotOf[p]>> \notin docs
      PROVE  /\ d.slot[p] = db.slot[p]
             /\ db.slot[p].exists => Held(db, p) \subseteq Held(d, p)
  <2>1. d.slot[p] = db.slot[p]
    BY <1>2, <1>3, <1>8
  <2>2. CASE Held(old, p) \subseteq Held(new, p)
    <3>1. ASSUME NEW b \in Held(db, p) PROVE b \in Held(d, p)
      <4>1. b \in Ids
        BY DEF Held
      <4>2. CASE old.booking[b] # new.booking[b]
        <5>1. b \in Held(old, p)
          BY <3>1, <4>1, <4>2, <1>6 DEF Held
        <5>2. b \in Held(new, p)
          BY <5>1, <2>2
        <5> QED BY <5>2, <4>1, <4>2, <1>2 DEF Held
      <4>3. CASE old.booking[b] = new.booking[b]
        BY <3>1, <4>1, <4>3, <1>2 DEF Held
      <4> QED BY <4>2, <4>3
    <3> QED BY <3>1, <2>1
  <2>3. CASE <<"service">> \in docs /\ ~old.slot[p].exists
    <3>1. <<"service">> \notin dirty[t]
      BY <1>1, <2>3
    <3>2. db.slot[p].exists => old.slot[p].exists
      BY <3>1, <1>1 DEF Ledger, StillHeld, old
    <3> QED BY <3>2, <2>1, <2>3
  <2> QED BY <2>2, <2>3, <1>5, <1>8 DEF LedgerResult
<1>9. ASSUME NEW p \in Places
      PROVE  /\ d.slot[p].count <= Cardinality(Held(d, p))
             /\ ~d.slot[p].exists => d.slot[p].count = 0
  <2>1. /\ d.slot[p].count \in Nat /\ Cardinality(Held(d, p)) \in Nat
        /\ Cardinality(Held(new, p)) \in Nat /\ Cardinality(Held(db, p)) \in Nat
    BY <1>2, HeldFinite DEF Databases, Slots
  <2>2. CASE <<"slot", SlotOf[p]>> \in docs
    <3>1. /\ new.slot[p].count <= Cardinality(Held(new, p))
          /\ ~new.slot[p].exists => new.slot[p].count = 0
          /\ ~old.slot[p].exists => new.slot[p].count = 0
      BY <1>5 DEF LedgerResult, NoPhantom, Tidy
    <3>2. old.slot[p].exists => Cardinality(Held(new, p)) <= Cardinality(Held(d, p))
      BY <2>2, <1>7, HeldFinite
    <3>3. d.slot[p] = new.slot[p]
      BY <2>2, <1>7
    <3> QED BY <3>1, <3>2, <3>3, <2>1
  <2>3. CASE <<"slot", SlotOf[p]>> \notin docs
    <3>1. /\ db.slot[p].count <= Cardinality(Held(db, p))
          /\ ~db.slot[p].exists => db.slot[p].count = 0
      BY DEF Ledger, Whole, NoPhantom, Tidy
    <3>2. db.slot[p].exists => Cardinality(Held(db, p)) <= Cardinality(Held(d, p))
      BY <2>3, <1>8, HeldFinite
    <3>3. d.slot[p] = db.slot[p]
      BY <2>3, <1>8
    <3> QED BY <3>1, <3>2, <3>3, <2>1
  <2> QED BY <2>2, <2>3
<1>10. Whole(d)
  BY <1>1, <1>9 DEF Whole, NoPhantom, Tidy
<1>11. \A x \in open' : Whole(snap'[x])
  BY <1>4 DEF Ledger
<1>12. ASSUME NEW x \in open', NEW p \in Places
       PROVE  /\ <<"slot", SlotOf[p]>> \notin dirty'[x] /\ snap'[x].slot[p].exists
                 => Held(snap'[x], p) \subseteq Held(d, p)
              /\ <<"service">> \notin dirty'[x] /\ d.slot[p].exists => snap'[x].slot[p].exists
  <2>1. x \in open /\ snap'[x] = snap[x] /\ dirty'[x] = dirty[x] \cup docs
    BY <1>4
  <2>2. ASSUME <<"slot", SlotOf[p]>> \notin dirty'[x], snap[x].slot[p].exists
        PROVE  Held(snap[x], p) \subseteq Held(d, p)
    <3>1. <<"slot", SlotOf[p]>> \notin docs /\ <<"slot", SlotOf[p]>> \notin dirty[x]
      BY <2>1, <2>2
    <3>2. snap[x].slot[p] = db.slot[p]
      BY <2>1, <3>1 DEF Inv, Fresh
    <3>3. Held(snap[x], p) \subseteq Held(db, p)
      BY <2>1, <2>2, <3>1 DEF Ledger, StillHeld
    <3> QED BY <2>2, <3>1, <3>2, <3>3, <1>8
  <2>3. ASSUME <<"service">> \notin dirty'[x], d.slot[p].exists
        PROVE  snap[x].slot[p].exists
    <3>1. <<"service">> \notin docs /\ <<"service">> \notin dirty[x]
      BY <2>1, <2>3
    <3>2. db.slot[p].exists
      <4>1. CASE <<"slot", SlotOf[p]>> \in docs
        <5>1. new.slot[p].exists /\ db.slot[p] = old.slot[p]
          BY <4>1, <2>3, <1>7
        <5> QED BY <5>1, <3>1, <1>5 DEF LedgerResult
      <4>2. CASE <<"slot", SlotOf[p]>> \notin docs
        BY <4>2, <2>3, <1>8
      <4> QED BY <4>1, <4>2
    <3> QED BY <2>1, <3>1, <3>2 DEF Ledger, StillHeld
  <2> QED BY <2>1, <2>2, <2>3
<1>13. Whole(db)'
  BY <1>1, <1>10 DEF Whole, NoPhantom, Tidy, IndexHolds, Held, IsActive
<1>14. (\A x \in open : Whole(snap[x]))'
  BY <1>11 DEF Whole, NoPhantom, Tidy, IndexHolds, Held, IsActive
<1>15. StillHeld'
  BY <1>1, <1>12 DEF StillHeld, Held
<1> QED BY <1>13, <1>14, <1>15 DEF Ledger

-----------------------------------------------------------------------------
(* What each handler does to the places. *)

\* A handler whose every place is dealt with fairly keeps the ledger.
LEMMA DealtLedger ==
    ASSUME Inv, Ledger, NEW t \in Txns, NEW new \in Databases, NEW touched \in SUBSET Docs,
           Commit(t, new, touched),
           \A p \in Places : Dealt(snap[t], new, Changed(snap[t], new) \cup touched, p)
    PROVE  Ledger'
<1>1. snap[t] \in Databases /\ Whole(snap[t])
  BY DEF Inv, TypeOK, Commit, Ledger
<1>2. LedgerResult(snap[t], new, Changed(snap[t], new) \cup touched)
  BY <1>1, DealIntro
<1> QED BY <1>2, CommitLedger

\* A place with the same slot, which nobody who held it has left.
LEMMA SameKept ==
    ASSUME NEW old \in Databases, NEW new, NEW docs, NEW p \in Places,
           new.slot[p] = old.slot[p], Held(old, p) \subseteq Held(new, p)
    PROVE  Dealt(old, new, docs, p)
<1>1. old.slot[p].count \in Nat
  BY DEF Databases, Slots
<1> QED BY <1>1 DEF Dealt, Kept

\* A handler with an unchanged slot collection that takes nobody's place away.
LEMMA SameSlotsLedger ==
    ASSUME Inv, Ledger, NEW t \in Txns, NEW new \in Databases, NEW touched \in SUBSET Docs,
           Commit(t, new, touched), new.slot = snap[t].slot,
           \A p \in Places : Held(snap[t], p) \subseteq Held(new, p)
    PROVE  Ledger'
<1>1. snap[t] \in Databases
  BY SnapshotFacts
<1>2. \A p \in Places : Dealt(snap[t], new, Changed(snap[t], new) \cup touched, p)
  BY <1>1, SameKept
<1> QED BY <1>2, DealtLedger

\* A change of status takes no place from a row it does not name, nor from one
\* that it does not cancel.
LEMMA TransitionHolds ==
    ASSUME NEW d \in Databases, NEW bs \in SUBSET Ids, NEW to \in Statuses,
           \A b \in bs : d.booking[b] # NoBooking,
           NEW new, new.booking = Transition(d, bs, to).booking,
           NEW p \in Places
    PROVE  /\ Held(d, p) \ bs \subseteq Held(new, p)
           /\ to # "cancelled" => Held(d, p) \subseteq Held(new, p)
<1>1. /\ \A b \in bs : new.booking[b] = BookingRow(d.booking[b].user, d.booking[b].place, to)
      /\ \A b \in Ids \ bs : new.booking[b] = d.booking[b]
  BY TransitionFacts
<1>2. \A b \in bs : new.booking[b].status = to /\ new.booking[b].place = d.booking[b].place
  <2> SUFFICES ASSUME NEW b \in bs
               PROVE  new.booking[b].status = to /\ new.booking[b].place = d.booking[b].place
    OBVIOUS
  <2>1. new.booking[b] = [user |-> d.booking[b].user, place |-> d.booking[b].place, status |-> to]
    BY <1>1 DEF BookingRow
  <2> QED BY <2>1
<1>3. \A b \in bs : new.booking[b] # NoBooking
  <2> SUFFICES ASSUME NEW b \in bs, new.booking[b] = NoBooking PROVE FALSE
    OBVIOUS
  <2>1. new.booking[b] = [user |-> d.booking[b].user, place |-> d.booking[b].place, status |-> to]
    BY <1>1 DEF BookingRow
  <2>2. "place" \in DOMAIN new.booking[b] /\ "place" \notin DOMAIN NoBooking
    BY <2>1 DEF NoBooking
  <2> QED BY <2>2
<1> QED BY <1>1, <1>2, <1>3 DEF Held

\* A change of status other than a cancellation keeps the ledger.
LEMMA StatusLedger ==
    ASSUME Inv, Ledger, NEW t \in Txns, NEW b \in Ids, NEW to \in Statuses,
           Commit(t, Transition(snap[t], {b}, to), {}),
           snap[t].booking[b] # NoBooking, to # "cancelled"
    PROVE  Ledger'
<1> DEFINE old == snap[t]
           new == Transition(old, {b}, to)
<1>1. old \in Databases
  BY SnapshotFacts
<1>2. {b} \in SUBSET Ids /\ \A c \in {b} : old.booking[c] # NoBooking
  OBVIOUS
<1> HIDE DEF old
<1>3. new \in Databases /\ new.slot = old.slot
  BY <1>1, <1>2, TransitionFacts
<1>4. \A p \in Places : Held(old, p) \subseteq Held(new, p)
  BY <1>1, <1>2, TransitionHolds
<1>5. Commit(t, new, {})
  BY DEF old
<1> HIDE DEF new
<1> QED BY <1>3, <1>4, <1>5, TouchedFacts, SameSlotsLedger DEF old

\* Of the transitions none is a cancellation.
LEMMA SetStatusLedger ==
    ASSUME Inv, Ledger, NEW t \in Txns, NEW b \in Ids, NEW to \in Statuses, SetStatus(t, b, to)
    PROVE  Ledger'
<1>1. Commit(t, Transition(snap[t], {b}, to), {}) /\ <<snap[t].booking[b].status, to>> \in Transitions
  BY DEF SetStatus
<1>2. snap[t].booking[b] # NoBooking /\ to # "cancelled"
  BY <1>1 DEF Transitions, NoBooking
<1> QED BY <1>1, <1>2, StatusLedger

\* An arrived booking holds its place.
LEMMA CheckInLedger ==
    ASSUME Inv, Ledger, NEW t \in Txns, NEW b \in Ids, CheckIn(t, b)
    PROVE  Ledger'
<1>1. Commit(t, Transition(snap[t], {b}, "arrived"), {}) /\ snap[t].booking[b] # NoBooking
  BY DEF CheckIn, NoBooking
<1>2. "arrived" \in Statuses
  BY DEF Statuses
<1> QED BY <1>1, <1>2, StatusLedger

\* So does a missed one.
LEMMA MarkNoShowLedger ==
    ASSUME Inv, Ledger, NEW t \in Txns, NEW b \in Ids, MarkNoShow(t, b)
    PROVE  Ledger'
<1>1. Commit(t, Transition(snap[t], {b}, "no_show"), {}) /\ snap[t].booking[b] # NoBooking
  BY DEF MarkNoShow, NoBooking
<1>2. "no_show" \in Statuses
  BY DEF Statuses
<1> QED BY <1>1, <1>2, StatusLedger

\* A booking made enters the place it is counted at.
LEMMA CreateLedger ==
    ASSUME Inv, Ledger, NEW t \in Txns, NEW u \in Users, NEW b \in Ids, NEW p \in Places,
           NEW s \in ActiveStatuses, Create(t, u, b, p, s)
    PROVE  Ledger'
<1> DEFINE old  == snap[t]
           ins  == [old EXCEPT !.booking[b] = BookingRow(u, p, s)]
           tak  == Take(ins, p)
           new  == DropWaits(tak, {<<u, p>>})
<1>1. Commit(t, new, {}) /\ MayTake(old, p) /\ old.booking[b] = NoBooking
  BY DEF Create
<1>2. old \in Databases
  BY <1>1, SnapshotFacts
<1> HIDE DEF old
<1>3. BookingRow(u, p, s) \in BookingRows
  BY DEF BookingRow, BookingRows, Statuses
<1>4. /\ ins \in Databases /\ ins.slot = old.slot
      /\ ins.booking = [old.booking EXCEPT ![b] = BookingRow(u, p, s)]
  BY <1>2, <1>3 DEF Databases
<1> HIDE DEF ins
<1>5. /\ tak \in Databases /\ tak.booking = ins.booking
      /\ tak.slot = [old.slot EXCEPT ![p] = [old.slot[p] EXCEPT !.count = @ + 1]]
  BY <1>4, TakeFacts
<1> HIDE DEF tak
<1>6. new \in Databases /\ new.booking = ins.booking /\ new.slot = tak.slot
  BY <1>5, DropWaitsFacts
<1> HIDE DEF new
<1>7. \A q \in Places : Held(old, q) \subseteq Held(new, q)
  BY <1>1, <1>2, <1>4, <1>6 DEF Databases, Held
<1>8. b \in Held(new, p) /\ b \notin Held(old, p)
  <2>1. new.booking[b] = [user |-> u, place |-> p, status |-> s] /\ s # "cancelled"
    BY <1>2, <1>4, <1>6 DEF Databases, BookingRow, ActiveStatuses
  <2>2. "place" \in DOMAIN new.booking[b] /\ "place" \notin DOMAIN NoBooking
    BY <2>1 DEF NoBooking
  <2> QED BY <1>1, <2>1, <2>2 DEF Held
<1>9. Entered(old, new, p)
  <2>1. new.slot[p] = [old.slot[p] EXCEPT !.count = @ + 1] /\ old.slot[p] \in Slots
    BY <1>2, <1>5, <1>6 DEF Databases
  <2>2. /\ old.slot[p].exists /\ new.slot[p].exists
        /\ new.slot[p].count = old.slot[p].count + 1
    BY <1>1, <2>1 DEF Slots, MayTake
  <2> QED BY <1>7, <1>8, <2>2 DEF Entered
<1>10. \A q \in Places : Dealt(old, new, Changed(old, new) \cup {}, q)
  <2> SUFFICES ASSUME NEW q \in Places PROVE Dealt(old, new, Changed(old, new) \cup {}, q)
    OBVIOUS
  <2>1. CASE q = p
    BY <1>9, <2>1 DEF Dealt
  <2>2. CASE q # p
    <3>1. new.slot[q] = old.slot[q]
      BY <1>2, <1>5, <1>6, <2>2 DEF Databases
    <3> QED BY <3>1, <1>2, <1>7, SameKept
  <2> QED BY <2>1, <2>2
<1> QED BY <1>1, <1>6, <1>10, TouchedFacts, DealtLedger DEF old

\* The active booking whose place is given back was counted there.
LEMMA ReleasedVacates ==
    ASSUME NEW old \in Databases, Covers(old), NEW b \in Ids, IsActive(old, b),
           NEW p \in Places, old.booking[b].place = p,
           NEW new, Held(old, p) \ {b} \subseteq Held(new, p),
           new.slot[p] = IF old.slot[p].exists /\ old.slot[p].count > 0
                         THEN [old.slot[p] EXCEPT !.count = @ - 1] ELSE old.slot[p]
    PROVE  Vacated(old, new, p)
<1>1. b \in Held(old, p)
  BY DEF Held, IsActive, ActiveStatuses, NoBooking
<1>2. old.slot[p].exists /\ old.slot[p].count > 0 /\ old.slot[p] \in Slots
  BY BookedCounted
<1>3. new.slot[p] = [old.slot[p] EXCEPT !.count = @ - 1]
  BY <1>2
<1>4. new.slot[p].exists /\ new.slot[p].count = old.slot[p].count - 1
  BY <1>2, <1>3 DEF Slots
<1> QED BY <1>1, <1>2, <1>4 DEF Vacated

\* Ending bookings, at most one at each place, with one release for each.
LEMMA EndLedger ==
    ASSUME NEW old \in Databases, Covers(old), NEW bs \in SUBSET Ids,
           \A b \in bs : IsActive(old, b),
           \A b, c \in bs : old.booking[b].place = old.booking[c].place => b = c,
           NEW ps, ps = {old.booking[b].place : b \in bs},
           NEW mid \in Databases, mid.booking = old.booking, mid.slot = old.slot,
           NEW freed, NEW docs
    PROVE  LET new == Notify(Release(Transition(mid, bs, "cancelled"), ps), freed)
           IN /\ new \in Databases
              /\ \A p \in Places : Dealt(old, new, docs, p)
<1> DEFINE tr  == Transition(mid, bs, "cancelled")
           rel == Release(tr, ps)
           new == Notify(rel, freed)
<1>1. "cancelled" \in Statuses
  BY DEF Statuses
<1>2. \A b \in bs : mid.booking[b] # NoBooking
  BY DEF IsActive, ActiveStatuses, NoBooking
<1>3. tr \in Databases /\ tr.slot = old.slot
  BY <1>1, <1>2, TransitionFacts
<1>4. \A p \in Places : \A n : n.booking = tr.booking => Held(old, p) \ bs \subseteq Held(n, p)
  <2>1. \A p \in Places : Held(mid, p) = Held(old, p)
    BY DEF Held
  <2> QED BY <1>1, <1>2, <2>1, TransitionHolds
<1> HIDE DEF tr
<1>5. /\ rel \in Databases /\ rel.booking = tr.booking
      /\ \A p \in Places :
            rel.slot[p] = IF p \in ps /\ old.slot[p].exists /\ old.slot[p].count > 0
                          THEN [old.slot[p] EXCEPT !.count = @ - 1] ELSE old.slot[p]
  BY <1>3, ReleaseFacts
<1> HIDE DEF rel
<1>6. new \in Databases /\ new.booking = tr.booking /\ new.slot = rel.slot
  BY <1>5, NotifyFacts
<1> HIDE DEF new
<1>7. ASSUME NEW p \in Places PROVE Dealt(old, new, docs, p)
  <2>1. Held(old, p) \ bs \subseteq Held(new, p)
    BY <1>4, <1>6
  <2>2. CASE p \notin ps
    <3>1. new.slot[p] = old.slot[p]
      BY <2>2, <1>5, <1>6
    <3>2. Held(old, p) \subseteq Held(new, p)
      BY <2>1, <2>2 DEF Held
    <3> QED BY <3>1, <3>2, SameKept
  <2>3. CASE p \in ps
    <3>1. PICK b \in bs : old.booking[b].place = p
      BY <2>3
    <3>2. Held(old, p) \ {b} \subseteq Held(new, p)
      BY <2>1, <3>1 DEF Held
    <3>3. new.slot[p] = IF old.slot[p].exists /\ old.slot[p].count > 0
                        THEN [old.slot[p] EXCEPT !.count = @ - 1] ELSE old.slot[p]
      BY <2>3, <1>5, <1>6
    <3>4. b \in Ids /\ IsActive(old, b)
      BY <3>1
    <3> QED BY <3>1, <3>2, <3>3, <3>4, ReleasedVacates DEF Dealt
  <2> QED BY <2>2, <2>3
<1>8. new = Notify(Release(Transition(mid, bs, "cancelled"), ps), freed)
  BY DEF new, rel, tr
<1> QED BY <1>6, <1>7, <1>8

\* A cancellation lets its booking go.
LEMMA CancelLedger ==
    ASSUME Inv, Ledger, NEW t \in Txns, NEW b \in Ids, Cancel(t, b)
    PROVE  Ledger'
<1> DEFINE old  == snap[t]
           p    == old.booking[b].place
           bs   == {b}
           ps   == {p}
           once == Once(p)
           new  == Notify(Release(Transition(old, bs, "cancelled"), ps), once)
           docs == Changed(old, new) \cup {}
<1>1. Commit(t, new, {}) /\ IsActive(old, b)
  BY DEF Cancel
<1>2. old \in Databases /\ Covers(old)
  BY <1>1, SnapshotFacts
<1>3. /\ bs \in SUBSET Ids /\ \A c \in bs : IsActive(old, c)
      /\ \A c, e \in bs : old.booking[c].place = old.booking[e].place => c = e
      /\ ps = {old.booking[c].place : c \in bs}
  BY <1>1
<1> HIDE DEF old, bs, ps, once
<1>4. \A ds : new \in Databases /\ \A q \in Places : Dealt(old, new, ds, q)
  BY <1>2, <1>3, EndLedger
<1>5. new \in Databases /\ \A q \in Places : Dealt(old, new, docs, q)
  BY <1>4
<1> HIDE DEF new
<1> QED BY <1>1, <1>5, TouchedFacts, DealtLedger DEF old

\* A withdrawal lets one booking go at each of its places: the unique index
\* leaves a client no more.
LEMMA WithdrawLedger ==
    ASSUME Inv, Ledger, NEW t \in Txns, NEW u \in Users, Withdraw(t, u)
    PROVE  Ledger'
<1> DEFINE old   == snap[t]
           mine  == {b \in Ids : IsActive(old, b) /\ old.booking[b].user = u}
           freed == {old.booking[b].place : b \in mine}
           ones  == [p \in Places |-> IF p \in freed THEN 1 ELSE 0]
           mid   == DropWaits(old, {u} \X Places)
           new   == Notify(Release(Transition(mid, mine, "cancelled"), freed), ones)
           docs  == Changed(old, new) \cup {}
<1>1. Commit(t, new, {})
  BY DEF Withdraw
<1>2. old \in Databases /\ Covers(old)
  BY <1>1, SnapshotFacts
<1>3. IndexHolds(old)
  BY <1>1 DEF Ledger, Whole, Commit
<1> HIDE DEF old
<1>4. mid \in Databases /\ mid.booking = old.booking /\ mid.slot = old.slot
  BY <1>2, DropWaitsFacts
<1>5. /\ mine \in SUBSET Ids /\ \A b \in mine : IsActive(old, b)
      /\ \A b, c \in mine : old.booking[b].place = old.booking[c].place => b = c
  BY <1>3 DEF IndexHolds
<1>6. freed = {old.booking[b].place : b \in mine}
  OBVIOUS
<1> HIDE DEF mine, freed, mid, ones
<1>7. \A ds : new \in Databases /\ \A q \in Places : Dealt(old, new, ds, q)
  BY <1>2, <1>4, <1>5, <1>6, EndLedger
<1>8. new \in Databases /\ \A q \in Places : Dealt(old, new, docs, q)
  BY <1>7
<1> HIDE DEF new
<1> QED BY <1>1, <1>8, TouchedFacts, DealtLedger DEF old

\* A booking that moves leaves one place and enters the other.
LEMMA RescheduleLedger ==
    ASSUME Inv, Ledger, NEW t \in Txns, NEW b \in Ids, NEW p \in Places, Reschedule(t, b, p)
    PROVE  Ledger'
<1> DEFINE old  == snap[t]
           row  == old.booking[b]
           from == row.place
           ps   == {from}
           rel  == Release(old, ps)
           ins  == [rel EXCEPT !.booking[b] = BookingRow(row.user, p, row.status)]
           tak  == Take(ins, p)
           once == Once(from)
           new  == Notify(tak, once)
<1>1. /\ Commit(t, new, {}) /\ IsActive(old, b) /\ p # from /\ MayTake(rel, p)
  BY DEF Reschedule
<1>2. old \in Databases /\ Covers(old)
  BY <1>1, SnapshotFacts
<1>3. /\ row \in BookingRows /\ BookingRow(row.user, p, row.status) \in BookingRows
      /\ row.status \in ActiveStatuses /\ row = old.booking[b]
  <2>1. row \in BookingRows /\ row.status \in ActiveStatuses /\ row = old.booking[b]
    BY <1>1, <1>2 DEF Databases, IsActive, ActiveStatuses, NoBooking
  <2> HIDE DEF row
  <2> QED BY <2>1 DEF BookingRow, BookingRows
<1>4. from \in Places /\ old.booking[b].place = from
  BY <1>1, <1>3 DEF BookingRows
<1> HIDE DEF old, row, from
<1>5. /\ rel \in Databases /\ rel.booking = old.booking
      /\ \A q \in Places :
            rel.slot[q] = IF q \in ps /\ old.slot[q].exists /\ old.slot[q].count > 0
                          THEN [old.slot[q] EXCEPT !.count = @ - 1] ELSE old.slot[q]
  BY <1>2, ReleaseFacts
<1>6. from \in ps /\ \A q \in Places : q # from => q \notin ps
  OBVIOUS
<1> HIDE DEF rel, ps
<1>7. /\ ins \in Databases /\ ins.slot = rel.slot
      /\ ins.booking = [old.booking EXCEPT ![b] = BookingRow(row.user, p, row.status)]
  BY <1>3, <1>5 DEF Databases
<1> HIDE DEF ins
<1>8. /\ tak \in Databases /\ tak.booking = ins.booking
      /\ tak.slot = [rel.slot EXCEPT ![p] = [rel.slot[p] EXCEPT !.count = @ + 1]]
  <2>1. /\ tak \in Databases /\ tak.booking = ins.booking
        /\ tak.slot = [ins.slot EXCEPT ![p] = [ins.slot[p] EXCEPT !.count = @ + 1]]
    BY <1>7, TakeFacts
  <2> QED BY <2>1, <1>7
<1> HIDE DEF tak
<1>9. new \in Databases /\ new.booking = ins.booking /\ new.slot = tak.slot
  BY <1>8, NotifyFacts
<1> HIDE DEF new
<1>10. /\ \A c \in Ids : c # b => new.booking[c] = old.booking[c]
       /\ new.booking[b] = [user |-> row.user, place |-> p, status |-> row.status]
  BY <1>2, <1>7, <1>9 DEF Databases, BookingRow
<1>11. \A q \in Places : Held(old, q) \ {b} \subseteq Held(new, q)
  BY <1>10 DEF Held
<1>12. \A q \in Places : q # from => b \notin Held(old, q)
  BY <1>4 DEF Held
<1>13. b \in Held(new, p)
  <2>1. "place" \in DOMAIN new.booking[b] /\ "place" \notin DOMAIN NoBooking
    BY <1>10 DEF NoBooking
  <2> QED BY <2>1, <1>3, <1>10 DEF Held, ActiveStatuses
<1>14. \A q \in Places : q # p => new.slot[q] = rel.slot[q]
  BY <1>5, <1>8, <1>9 DEF Databases
<1>15. rel.slot[p] = old.slot[p]
  BY <1>1, <1>5, <1>6
<1>16. Entered(old, new, p)
  <2>1. new.slot[p] = [old.slot[p] EXCEPT !.count = @ + 1] /\ old.slot[p] \in Slots
    BY <1>2, <1>5, <1>8, <1>9, <1>15 DEF Databases
  <2>2. /\ old.slot[p].exists /\ new.slot[p].exists
        /\ new.slot[p].count = old.slot[p].count + 1
    BY <1>1, <1>15, <2>1 DEF Slots, MayTake
  <2> QED BY <1>1, <1>11, <1>12, <1>13, <2>2 DEF Entered
<1>17. Vacated(old, new, from)
  <2>1. new.slot[from] = IF old.slot[from].exists /\ old.slot[from].count > 0
                         THEN [old.slot[from] EXCEPT !.count = @ - 1] ELSE old.slot[from]
    BY <1>1, <1>4, <1>5, <1>6, <1>14
  <2> QED BY <2>1, <1>1, <1>2, <1>4, <1>11, ReleasedVacates
<1>18. \A q \in Places : Dealt(old, new, Changed(old, new) \cup {}, q)
  <2> SUFFICES ASSUME NEW q \in Places PROVE Dealt(old, new, Changed(old, new) \cup {}, q)
    OBVIOUS
  <2>1. CASE q = p
    BY <1>16, <2>1 DEF Dealt
  <2>2. CASE q = from
    BY <1>17, <2>2 DEF Dealt
  <2>3. CASE q # p /\ q # from
    <3>1. new.slot[q] = old.slot[q]
      BY <2>3, <1>5, <1>6, <1>14
    <3>2. Held(old, q) \subseteq Held(new, q)
      BY <2>3, <1>11, <1>12
    <3> QED BY <3>1, <3>2, <1>2, SameKept
  <2> QED BY <2>1, <2>2, <2>3
<1> QED BY <1>1, <1>9, <1>18, TouchedFacts, DealtLedger DEF old

\* Joining a list changes neither bookings nor counters.
LEMMA JoinWaitlistLedger ==
    ASSUME Inv, Ledger, NEW t \in Txns, NEW u \in Users, NEW p \in Places, JoinWaitlist(t, u, p)
    PROVE  Ledger'
<1> DEFINE old == snap[t]
           rows == {v \in Users : db.wait[v, p] # "none"}
<1>0. Cardinality(rows) \in Nat
  BY FiniteAssumption, FS_Subset, FS_CardinalityType
<1>1. PICK r \in 0 .. Cardinality(rows) :
          Commit(t, [old EXCEPT !.wait[<<u, p>>] = "waiting", !.since[<<u, p>>] = r], {})
  BY Zenon DEF JoinWaitlist
<1>r. r \in Nat
  <2> HIDE DEF rows
  <2> QED BY <1>0, <1>1
<1> DEFINE new == [old EXCEPT !.wait[<<u, p>>] = "waiting", !.since[<<u, p>>] = r]
<1>2. Commit(t, new, {})
  BY <1>1
<1>3. old \in Databases
  BY <1>2, SnapshotFacts
<1> HIDE DEF old
<1>4. new \in Databases /\ new.slot = old.slot /\ new.booking = old.booking
  BY <1>3, <1>r DEF Databases
<1>5. \A q \in Places : Held(old, q) \subseteq Held(new, q)
  BY <1>4 DEF Held
<1> HIDE DEF new
<1> QED BY <1>2, <1>4, <1>5, TouchedFacts, SameSlotsLedger DEF old

\* A slot added counts nothing, and its handler writes the service document.
LEMMA AddSlotLedger ==
    ASSUME Inv, Ledger, NEW t \in Txns, NEW p \in Places, NEW l \in Limits, AddSlot(t, p, l)
    PROVE  Ledger'
<1> DEFINE old  == snap[t]
           slot == [exists |-> TRUE, limit |-> l, count |-> 0]
           new  == [old EXCEPT !.slot[p] = slot]
           docs == Changed(old, new) \cup {<<"service">>}
<1>1. Commit(t, new, {<<"service">>})
  BY DEF AddSlot
<1>2. old \in Databases
  BY <1>1, SnapshotFacts
<1>3. slot \in Slots /\ slot.count = 0
  BY LimitAssumption DEF Slots
<1> HIDE DEF old, slot
<1>4. /\ new \in Databases /\ new.booking = old.booking /\ new.slot[p] = slot
      /\ \A q \in Places : q # p => new.slot[q] = old.slot[q]
  BY <1>2, <1>3 DEF Databases
<1> HIDE DEF new
<1>5. \A q \in Places : Held(old, q) \subseteq Held(new, q)
  BY <1>4 DEF Held
<1>6. Dealt(old, new, docs, p)
  BY <1>3, <1>4, <1>5 DEF Dealt, Emptied
<1>7. \A q \in Places : Dealt(old, new, docs, q)
  BY <1>2, <1>4, <1>5, <1>6, SameKept
<1> QED BY <1>1, <1>4, <1>7, TouchedFacts, DealtLedger DEF old

\* A change of limit moves nobody.
LEMMA SetLimitLedger ==
    ASSUME Inv, Ledger, NEW t \in Txns, NEW p \in Places, NEW l \in Limits, SetLimit(t, p, l)
    PROVE  Ledger'
<1> DEFINE old  == snap[t]
           new  == [old EXCEPT !.slot[p].limit = l]
           docs == Changed(old, new) \cup {<<"service">>}
<1>1. Commit(t, new, {<<"service">>})
  BY DEF SetLimit
<1>2. old \in Databases
  BY <1>1, SnapshotFacts
<1> HIDE DEF old
<1>3. /\ new.booking = old.booking
      /\ new = [old EXCEPT !.slot = new.slot]
      /\ new.slot = [old.slot EXCEPT ![p] = [old.slot[p] EXCEPT !.limit = l]]
  BY <1>2 DEF Databases
<1>4. [old.slot[p] EXCEPT !.limit = l] \in Slots
  BY <1>2, LimitAssumption DEF Databases, Slots
<1>5. new \in Databases
  BY <1>2, <1>3, <1>4 DEF Databases
<1> HIDE DEF new
<1>6. \A q \in Places : /\ new.slot[q].exists = old.slot[q].exists
                        /\ new.slot[q].count = old.slot[q].count
                        /\ old.slot[q].count \in Nat
  BY <1>2, <1>3 DEF Databases, Slots
<1>7. \A q \in Places : Held(old, q) \subseteq Held(new, q)
  BY <1>3 DEF Held
<1>8. \A q \in Places : Dealt(old, new, docs, q)
  BY <1>6, <1>7 DEF Dealt, Kept
<1> QED BY <1>1, <1>5, <1>8, TouchedFacts, DealtLedger DEF old

\* Deleting slots empties their places: of those that exist the slot document
\* is written, and where there was none nobody active was.
LEMMA DropLedger ==
    ASSUME Inv, Ledger, NEW t \in Txns, NEW new \in Databases, NEW touched \in SUBSET Docs,
           NEW ps, Commit(t, new, touched),
           \A p \in Places : new.slot[p] = IF p \in ps THEN NoSlot ELSE snap[t].slot[p],
           \A p \in Places : Held(snap[t], p) \ ActiveOf(snap[t], ps) \subseteq Held(new, p)
    PROVE  Ledger'
<1> DEFINE old  == snap[t]
           docs == Changed(old, new) \cup touched
<1>1. old \in Databases /\ Covers(old)
  BY SnapshotFacts
<1>2. \A p \in Places : new.slot[p] = IF p \in ps THEN NoSlot ELSE old.slot[p]
  OBVIOUS
<1>3. \A p \in Places : Held(old, p) \ ActiveOf(old, ps) \subseteq Held(new, p)
  OBVIOUS
<1>4. \A p \in Places : <<"slot", SlotOf[p]>> \notin docs => old.slot[p] = new.slot[p]
  BY <1>1, ChangedFacts
<1> HIDE DEF old, docs
<1>5. ASSUME NEW p \in Places PROVE Dealt(old, new, docs, p)
  <2>1. CASE p \notin ps
    <3>1. Held(old, p) \subseteq Held(new, p)
      BY <2>1, <1>3 DEF Held, ActiveOf
    <3> QED BY <3>1, <2>1, <1>1, <1>2, SameKept
  <2>2. CASE p \in ps
    <3>1. new.slot[p].count = 0 /\ ~new.slot[p].exists
      BY <2>2, <1>2 DEF NoSlot
    <3>2. CASE old.slot[p].exists
      BY <3>1, <3>2, <1>4 DEF Dealt, Emptied
    <3>3. CASE ~old.slot[p].exists
      <4>1. Active(old, p) = {}
        BY <3>3, <1>1 DEF Covers
      <4>2. Held(old, p) \cap ActiveOf(old, ps) \subseteq Active(old, p)
        BY DEF Held, ActiveOf, Active
      <4>3. Held(old, p) \subseteq Held(new, p)
        BY <4>1, <4>2, <1>3
      <4> QED BY <3>1, <4>3 DEF Dealt, Emptied
    <3> QED BY <3>2, <3>3
  <2> QED BY <2>1, <2>2
<1> QED BY <1>5, DealtLedger DEF old, docs

\* A slot removed takes no booking with it.
LEMMA RemoveSlotLedger ==
    ASSUME Inv, Ledger, NEW t \in Txns, NEW ps, RemoveSlot(t, ps)
    PROVE  Ledger'
<1> DEFINE old == snap[t]
           new == DropSlots(old, ps)
<1>1. Commit(t, new, {<<"service">>})
  BY DEF RemoveSlot
<1>2. old \in Databases
  BY <1>1, SnapshotFacts
<1> HIDE DEF old
<1>3. /\ new \in Databases /\ new.booking = old.booking
      /\ \A p \in Places : new.slot[p] = IF p \in ps THEN NoSlot ELSE old.slot[p]
  BY <1>2, DropSlotsFacts
<1> HIDE DEF new
<1>4. \A p \in Places : Held(old, p) \ ActiveOf(old, ps) \subseteq Held(new, p)
  BY <1>3 DEF Held
<1> QED BY <1>1, <1>3, <1>4, TouchedFacts, DropLedger DEF old

\* A slot closed with `remove` takes its active bookings with it.
LEMMA CloseAndRemoveLedger ==
    ASSUME Inv, Ledger, NEW t \in Txns, NEW ps, CloseAndRemove(t, ps)
    PROVE  Ledger'
<1> DEFINE old  == snap[t]
           gone == ActiveOf(old, ps)
           tr   == Transition(old, gone, "cancelled")
           drop == DropSlots(tr, ps)
           new  == DropWaits(drop, Users \X ps)
<1>1. Commit(t, new, {<<"service">>})
  BY DEF CloseAndRemove
<1>2. old \in Databases
  BY <1>1, SnapshotFacts
<1> HIDE DEF old
<1>3. /\ gone \in SUBSET Ids /\ "cancelled" \in Statuses
      /\ \A b \in gone : old.booking[b] # NoBooking
  BY DEF ActiveOf, IsActive, ActiveStatuses, Statuses, NoBooking
<1>4. gone = ActiveOf(old, ps)
  OBVIOUS
<1> HIDE DEF gone
<1>5. /\ tr \in Databases /\ tr.slot = old.slot
      /\ \A n : n.booking = tr.booking => \A p \in Places : Held(old, p) \ gone \subseteq Held(n, p)
  BY <1>2, <1>3, TransitionFacts, TransitionHolds
<1> HIDE DEF tr
<1>6. /\ drop \in Databases /\ drop.booking = tr.booking
      /\ \A p \in Places : drop.slot[p] = IF p \in ps THEN NoSlot ELSE tr.slot[p]
  BY <1>5, DropSlotsFacts
<1> HIDE DEF drop
<1>7. new \in Databases /\ new.booking = tr.booking /\ new.slot = drop.slot
  BY <1>6, DropWaitsFacts
<1> HIDE DEF new
<1>8. /\ \A p \in Places : new.slot[p] = IF p \in ps THEN NoSlot ELSE old.slot[p]
      /\ \A p \in Places : Held(old, p) \ ActiveOf(old, ps) \subseteq Held(new, p)
  BY <1>4, <1>5, <1>6, <1>7
<1> QED BY <1>1, <1>7, <1>8, TouchedFacts, DropLedger DEF old

\* An expired slot takes its active bookings with it.
LEMMA SlotExpiryLedger ==
    ASSUME Inv, Ledger, NEW t \in Txns, NEW s \in SlotDocs, SlotExpiry(t, s)
    PROVE  Ledger'
<1> DEFINE old  == snap[t]
           ps   == PlacesOf(s)
           gone == ActiveOf(old, ps)
           drop == DropSlots(old, ps)
           dbk  == DropBookings(drop, gone)
           new  == DropWaits(dbk, Users \X ps)
<1>1. Commit(t, new, {})
  BY DEF SlotExpiry
<1>2. old \in Databases
  BY <1>1, SnapshotFacts
<1>3. gone = ActiveOf(old, ps)
  OBVIOUS
<1> HIDE DEF old, ps, gone
<1>4. /\ drop \in Databases /\ drop.booking = old.booking
      /\ \A p \in Places : drop.slot[p] = IF p \in ps THEN NoSlot ELSE old.slot[p]
  BY <1>2, DropSlotsFacts
<1> HIDE DEF drop
<1>5. /\ dbk \in Databases /\ dbk.slot = drop.slot
      /\ \A b \in Ids : dbk.booking[b] = IF b \in gone THEN NoBooking ELSE old.booking[b]
  BY <1>4, DropBookingsFacts
<1> HIDE DEF dbk
<1>6. new \in Databases /\ new.booking = dbk.booking /\ new.slot = dbk.slot
  BY <1>5, DropWaitsFacts
<1> HIDE DEF new
<1>7. \A p \in Places : new.slot[p] = IF p \in ps THEN NoSlot ELSE old.slot[p]
  BY <1>4, <1>5, <1>6
<1>8. \A p \in Places : Held(old, p) \ ActiveOf(old, ps) \subseteq Held(new, p)
  BY <1>3, <1>5, <1>6 DEF Held
<1> QED BY <1>1, <1>6, <1>7, <1>8, TouchedFacts, DropLedger DEF old

\* Resetting counters empties their places: where a booking is ended with it,
\* a counter above zero is reset, so its slot document is written.
LEMMA ClearLedger ==
    ASSUME Inv, Ledger, NEW t \in Txns, NEW new \in Databases, NEW touched \in SUBSET Docs,
           NEW ps, Commit(t, new, touched),
           \A p \in Places : new.slot[p] = IF p \in ps /\ snap[t].slot[p].exists
                                           THEN [snap[t].slot[p] EXCEPT !.count = 0]
                                           ELSE snap[t].slot[p],
           \A p \in Places : Held(snap[t], p) \ ActiveOf(snap[t], ps) \subseteq Held(new, p)
    PROVE  Ledger'
<1> DEFINE old  == snap[t]
           docs == Changed(old, new) \cup touched
<1>1. old \in Databases /\ Covers(old)
  BY SnapshotFacts
<1>2. \A p \in Places : new.slot[p] = IF p \in ps /\ old.slot[p].exists
                                      THEN [old.slot[p] EXCEPT !.count = 0] ELSE old.slot[p]
  OBVIOUS
<1>3. \A p \in Places : Held(old, p) \ ActiveOf(old, ps) \subseteq Held(new, p)
  OBVIOUS
<1>4. \A p \in Places : <<"slot", SlotOf[p]>> \notin docs => old.slot[p] = new.slot[p]
  BY <1>1, ChangedFacts
<1> HIDE DEF old, docs
<1>5. ASSUME NEW p \in Places PROVE Dealt(old, new, docs, p)
  <2>0. old.slot[p] \in Slots
    BY <1>1 DEF Databases
  <2>1. CASE Active(old, p) = {} \/ p \notin ps
    <3>1. Held(old, p) \cap ActiveOf(old, ps) = {}
      BY <2>1 DEF Held, ActiveOf, Active
    <3>2. Held(old, p) \subseteq Held(new, p)
      BY <3>1, <1>3
    <3>3. new.slot[p].exists = old.slot[p].exists /\ new.slot[p].count <= old.slot[p].count
      <4>1. CASE p \in ps /\ old.slot[p].exists
        <5>1. new.slot[p] = [old.slot[p] EXCEPT !.count = 0]
          BY <4>1, <1>2
        <5> QED BY <5>1, <2>0 DEF Slots
      <4>2. CASE ~(p \in ps /\ old.slot[p].exists)
        <5>1. new.slot[p] = old.slot[p]
          BY <4>2, <1>2
        <5> QED BY <5>1, <2>0 DEF Slots
      <4> QED BY <4>1, <4>2
    <3> QED BY <3>2, <3>3 DEF Dealt, Kept
  <2>2. CASE Active(old, p) # {} /\ p \in ps
    <3>1. old.slot[p].exists /\ Cardinality(Active(old, p)) <= old.slot[p].count
      BY <2>2, <1>1 DEF Covers
    <3>2. Cardinality(Active(old, p)) # 0
      BY <2>2, ActiveFinite, FS_EmptySet
    <3>3. new.slot[p] = [old.slot[p] EXCEPT !.count = 0]
      BY <2>2, <3>1, <1>2
    <3>4. new.slot[p].count = 0 /\ old.slot[p].count # 0
      BY <2>0, <3>1, <3>2, <3>3, ActiveFinite DEF Slots
    <3>5. <<"slot", SlotOf[p]>> \in docs
      BY <3>4, <1>4
    <3> QED BY <3>1, <3>4, <3>5 DEF Dealt, Emptied
  <2> QED BY <2>1, <2>2
<1> QED BY <1>5, DealtLedger DEF old, docs

\* Closing resets the counters of the places whose active bookings it cancels.
LEMMA CloseLedger ==
    ASSUME Inv, Ledger, NEW t \in Txns, NEW ps \in SUBSET Places, Close(t, ps)
    PROVE  Ledger'
<1> DEFINE old   == snap[t]
           gone  == ActiveOf(old, ps)
           freed == [p \in Places |-> Cardinality({b \in gone : old.booking[b].place = p})]
           keys  == SlotKeys({p \in ps : old.slot[p].exists})
           tr    == Transition(old, gone, "cancelled")
           clr   == ClearCounts(tr, ps)
           new   == Notify(clr, freed)
<1>1. Commit(t, new, keys)
  BY DEF Close
<1>2. old \in Databases
  BY <1>1, SnapshotFacts
<1>3. keys \in SUBSET Docs
  BY TouchedFacts
<1> HIDE DEF old, freed, keys
<1>4. /\ gone \in SUBSET Ids /\ "cancelled" \in Statuses
      /\ \A b \in gone : old.booking[b] # NoBooking
  BY DEF ActiveOf, IsActive, ActiveStatuses, Statuses, NoBooking
<1>5. gone = ActiveOf(old, ps)
  OBVIOUS
<1> HIDE DEF gone
<1>6. /\ tr \in Databases /\ tr.slot = old.slot
      /\ \A n : n.booking = tr.booking => \A p \in Places : Held(old, p) \ gone \subseteq Held(n, p)
  BY <1>2, <1>4, TransitionFacts, TransitionHolds
<1> HIDE DEF tr
<1>7. /\ clr \in Databases /\ clr.booking = tr.booking
      /\ \A p \in Places : clr.slot[p] = IF p \in ps /\ tr.slot[p].exists
                                         THEN [tr.slot[p] EXCEPT !.count = 0] ELSE tr.slot[p]
  BY <1>6, ClearCountsFacts
<1> HIDE DEF clr
<1>8. new \in Databases /\ new.booking = tr.booking /\ new.slot = clr.slot
  BY <1>7, NotifyFacts
<1> HIDE DEF new
<1>9. /\ \A p \in Places : new.slot[p] = IF p \in ps /\ old.slot[p].exists
                                         THEN [old.slot[p] EXCEPT !.count = 0] ELSE old.slot[p]
      /\ \A p \in Places : Held(old, p) \ ActiveOf(old, ps) \subseteq Held(new, p)
  BY <1>5, <1>6, <1>7, <1>8
<1> QED BY <1>1, <1>3, <1>8, <1>9, ClearLedger DEF old

\* Trashing resets every counter when it cancels, and none when nothing is booked.
LEMMA DeleteLedger ==
    ASSUME Inv, Ledger, NEW t \in Txns, Delete(t)
    PROVE  Ledger'
<1> DEFINE old   == snap[t]
           trash == [old EXCEPT !.service = "trashed"]
           gone  == ActiveOf(old, Places)
           timed == {p \in Places : SlotOf[p] \in TimedSlots /\ old.slot[p].exists}
           keys  == SlotKeys(timed) \cup {<<"service">>}
           tr    == Transition(trash, gone, "cancelled")
           wt    == DropWaits(tr, Users \X Places)
           new   == ClearCounts(wt, Places)
<1>1. CASE gone = {}
  <2>1. Commit(t, trash, {<<"service">>})
    BY <1>1 DEF Delete
  <2>2. old \in Databases
    BY <2>1, SnapshotFacts
  <2> HIDE DEF old
  <2>3. trash \in Databases /\ trash.slot = old.slot /\ trash.booking = old.booking
    BY <2>2 DEF Databases
  <2>4. \A p \in Places : Held(old, p) \subseteq Held(trash, p)
    BY <2>3 DEF Held
  <2> HIDE DEF trash
  <2> QED BY <2>1, <2>3, <2>4, TouchedFacts, SameSlotsLedger DEF old
<1>2. CASE gone # {}
  <2>1. Commit(t, new, keys)
    BY <1>2 DEF Delete
  <2>2. old \in Databases
    BY <2>1, SnapshotFacts
  <2>3. keys \in SUBSET Docs
    BY TouchedFacts
  <2> HIDE DEF old, keys, timed
  <2>4. trash \in Databases /\ trash.booking = old.booking /\ trash.slot = old.slot
    BY <2>2 DEF Databases
  <2>5. /\ gone \in SUBSET Ids /\ "cancelled" \in Statuses
        /\ \A b \in gone : old.booking[b] # NoBooking
    BY DEF ActiveOf, IsActive, ActiveStatuses, Statuses, NoBooking
  <2>6. gone = ActiveOf(old, Places) /\ \A p \in Places : Held(trash, p) = Held(old, p)
    BY <2>4 DEF Held
  <2> HIDE DEF trash, gone
  <2>7. /\ tr \in Databases /\ tr.slot = old.slot
        /\ \A n : n.booking = tr.booking => \A p \in Places : Held(old, p) \ gone \subseteq Held(n, p)
    BY <2>4, <2>5, <2>6, TransitionFacts, TransitionHolds
  <2> HIDE DEF tr
  <2>8. wt \in Databases /\ wt.booking = tr.booking /\ wt.slot = tr.slot
    BY <2>7, DropWaitsFacts
  <2> HIDE DEF wt
  <2>9. /\ new \in Databases /\ new.booking = tr.booking
        /\ \A p \in Places : new.slot[p] = IF p \in Places /\ old.slot[p].exists
                                           THEN [old.slot[p] EXCEPT !.count = 0] ELSE old.slot[p]
    BY <2>7, <2>8, ClearCountsFacts
  <2> HIDE DEF new
  <2>10. \A p \in Places : Held(old, p) \ ActiveOf(old, Places) \subseteq Held(new, p)
    BY <2>6, <2>7, <2>9
  <2> QED BY <2>1, <2>3, <2>9, <2>10, ClearLedger DEF old
<1> QED BY <1>1, <1>2

\* A purge takes every booking and every slot, and writes the service document.
LEMMA PurgeLedger ==
    ASSUME Inv, Ledger, NEW t \in Txns, Purge(t)
    PROVE  Ledger'
<1> DEFINE old  == snap[t]
           new  == [EmptyDb EXCEPT !.service = "gone"]
           docs == Changed(old, new) \cup {}
<1>1. Commit(t, new, {}) /\ old.service # "gone"
  BY DEF Purge
<1>2. old \in Databases
  BY <1>1, SnapshotFacts
<1> HIDE DEF old
<1>3. /\ new \in Databases /\ new.service = "gone"
      /\ \A p \in Places : new.slot[p] = NoSlot
  BY EmptyFacts DEF Databases, EmptyDb
<1> HIDE DEF new
<1>4. <<"service">> \in docs
  BY <1>1, <1>3 DEF Changed
<1>5. \A p \in Places : <<"slot", SlotOf[p]>> \notin docs => old.slot[p] = new.slot[p]
  BY <1>2, <1>3, ChangedFacts
<1>6. \A p \in Places : new.slot[p].count = 0 /\ ~new.slot[p].exists
  BY <1>3 DEF NoSlot
<1>7. \A p \in Places : Dealt(old, new, docs, p)
  BY <1>4, <1>5, <1>6 DEF Dealt, Emptied
<1> QED BY <1>1, <1>3, <1>7, TouchedFacts, DealtLedger DEF old

\* A write outside any handler that touches neither bookings nor slots.
LEMMA AsideLedger ==
    ASSUME Inv, Ledger, NEW d \in Databases, d.booking = db.booking, d.slot = db.slot,
           NEW docs \in SUBSET Docs, NEW closed \in SUBSET Txns, Write(d, docs, closed)
    PROVE  Ledger'
<1>1. /\ db' = d
      /\ \A x \in open' : x \in open /\ snap'[x] = snap[x] /\ dirty'[x] = dirty[x] \cup docs
  BY WriteFacts DEF Inv, Write
<1>2. \A p \in Places : Held(d, p) = Held(db, p)
  BY DEF Held
<1>3. IndexHolds(d)
  BY DEF Ledger, Whole, IndexHolds, IsActive
<1>4. Whole(d)
  BY <1>2, <1>3 DEF Ledger, Whole, NoPhantom, Tidy
<1>5. \A x \in open' : Whole(snap'[x])
  BY <1>1 DEF Ledger
<1>6. ASSUME NEW x \in open', NEW p \in Places
      PROVE  /\ <<"slot", SlotOf[p]>> \notin dirty'[x] /\ snap'[x].slot[p].exists
                => Held(snap'[x], p) \subseteq Held(d, p)
             /\ <<"service">> \notin dirty'[x] /\ d.slot[p].exists => snap'[x].slot[p].exists
  <2>1. x \in open /\ snap'[x] = snap[x] /\ dirty'[x] = dirty[x] \cup docs
    BY <1>1
  <2> QED BY <2>1, <1>2 DEF Ledger, StillHeld
<1>7. Whole(db)' /\ (\A x \in open : Whole(snap[x]))'
  BY <1>1, <1>4, <1>5 DEF Whole, NoPhantom, Tidy, IndexHolds, Held, IsActive
<1>8. StillHeld'
  BY <1>1, <1>6 DEF StillHeld, Held
<1> QED BY <1>7, <1>8 DEF Ledger

\* Leaving a list, restoring a service, and a transaction that does not commit.
LEMMA OutsideLedger ==
    ASSUME Inv, Ledger,
           \/ \E u \in Users, p \in Places : LeaveWaitlist(u, p)
           \/ Restore
           \/ \E t \in Txns : Abort(t)
    PROVE  Ledger'
<1>0. db \in Databases
  BY DEF Inv, TypeOK
<1>1. ASSUME NEW u \in Users, NEW p \in Places, LeaveWaitlist(u, p) PROVE Ledger'
  <2> DEFINE keys == {<<u, p>>}
             drop == DropWaits(db, keys)
             d    == Merge(db, db, drop)
             docs == {<<"wait", <<u, p>>>>}
  <2>1. Write(d, docs, {})
    BY <1>1 DEF LeaveWaitlist
  <2> HIDE DEF keys
  <2>2. drop \in Databases /\ drop.booking = db.booking /\ drop.slot = db.slot
    BY <1>0, DropWaitsFacts
  <2> HIDE DEF drop
  <2>3. /\ d \in Databases
        /\ \A b \in Ids : d.booking[b] = db.booking[b]
        /\ \A q \in Places : d.slot[q] = db.slot[q]
    BY <1>0, <2>2, MergeFacts
  <2> HIDE DEF d
  <2>4. d.booking = db.booking /\ d.slot = db.slot
    BY <1>0, <2>3 DEF Databases
  <2>5. docs \in SUBSET Docs
    BY DEF Docs
  <2> HIDE DEF docs
  <2> QED BY <2>1, <2>3, <2>4, <2>5, AsideLedger
<1>2. ASSUME Restore PROVE Ledger'
  <2> DEFINE d == [db EXCEPT !.service = "live"]
  <2>1. Write(d, {<<"service">>}, {})
    BY <1>2 DEF Restore
  <2>2. d \in Databases /\ d.booking = db.booking /\ d.slot = db.slot
    BY <1>0 DEF Databases
  <2> HIDE DEF d
  <2> QED BY <2>1, <2>2, TouchedFacts, AsideLedger
<1>3. ASSUME NEW t \in Txns, Abort(t) PROVE Ledger'
  <2>1. Write(db, {}, {t})
    BY <1>3 DEF Abort
  <2> QED BY <2>1, <1>0, TouchedFacts, AsideLedger
<1> QED BY <1>1, <1>2, <1>3

\* A new snapshot is the database, whose ledger is whole.
LEMMA BeginLedger ==
    ASSUME Inv, Ledger, NEW t \in Txns, Begin(t)
    PROVE  Ledger'
<1>1. /\ db' = db /\ dirty' = dirty
      /\ \A x \in open' : IF x = t THEN snap'[x] = db ELSE x \in open /\ snap'[x] = snap[x]
  BY DEF Begin, Inv, TypeOK
<1>2. \A x \in open' : Whole(snap'[x])
  BY <1>1 DEF Ledger
<1>3. Whole(db)' /\ (\A x \in open : Whole(snap[x]))'
  BY <1>1, <1>2 DEF Ledger, Whole, NoPhantom, Tidy, IndexHolds, Held, IsActive
<1>4. \A x \in open', p \in Places :
        /\ <<"slot", SlotOf[p]>> \notin dirty'[x] /\ snap'[x].slot[p].exists
           => Held(snap'[x], p) \subseteq Held(db, p)
        /\ <<"service">> \notin dirty'[x] /\ db.slot[p].exists => snap'[x].slot[p].exists
  BY <1>1 DEF Ledger, StillHeld
<1>5. StillHeld'
  BY <1>1, <1>4 DEF StillHeld, Held
<1> QED BY <1>3, <1>5 DEF Ledger

\* At the start every counter is zero.
LEMMA InitLedger == Init => Ledger
<1> SUFFICES ASSUME Init PROVE Ledger
  OBVIOUS
<1> PICK f \in [Places -> Limits] :
           db = [EmptyDb EXCEPT !.slot =
                    [p \in Places |-> [exists |-> TRUE, limit |-> f[p], count |-> 0]]]
  BY DEF Init
<1>1. \A p \in Places : db.slot[p].exists /\ db.slot[p].count = 0
  BY DEF EmptyDb
<1>2. \A b \in Ids : ~IsActive(db, b)
  BY DEF EmptyDb, IsActive, ActiveStatuses, NoBooking
<1>3. Whole(db)
  BY <1>1, <1>2, HeldFinite DEF Whole, NoPhantom, Tidy, IndexHolds
<1>4. open = {}
  BY DEF Init
<1> QED BY <1>3, <1>4 DEF Ledger, StillHeld

\* Every step keeps the ledger.
LEMMA NextLedger == Inv /\ Ledger /\ [Next]_vars => Ledger'
<1> SUFFICES ASSUME Inv, Ledger, [Next]_vars PROVE Ledger'
  OBVIOUS
<1>1. ASSUME NEW t \in Txns, BookingStep(t) PROVE Ledger'
  <2>1. CASE \E u \in Users, b \in Ids, p \in Places, s \in ActiveStatuses : Create(t, u, b, p, s)
    BY <2>1, CreateLedger
  <2>2. CASE \E b \in Ids : Cancel(t, b)
    BY <2>2, CancelLedger
  <2>3. CASE \E u \in Users : Withdraw(t, u)
    BY <2>3, WithdrawLedger
  <2>4. CASE \E b \in Ids, to \in Statuses : SetStatus(t, b, to)
    BY <2>4, SetStatusLedger
  <2>5. CASE \E b \in Ids : CheckIn(t, b)
    BY <2>5, CheckInLedger
  <2>6. CASE \E b \in Ids : MarkNoShow(t, b)
    BY <2>6, MarkNoShowLedger
  <2>7. CASE \E b \in Ids, p \in Places : Reschedule(t, b, p)
    BY <2>7, RescheduleLedger
  <2>8. CASE \E u \in Users, p \in Places : JoinWaitlist(t, u, p)
    BY <2>8, JoinWaitlistLedger
  <2> QED BY <1>1, <2>1, <2>2, <2>3, <2>4, <2>5, <2>6, <2>7, <2>8 DEF BookingStep
<1>2. ASSUME NEW t \in Txns, AdminStep(t) PROVE Ledger'
  <2>0. Targets \subseteq SUBSET Places
    BY DEF Targets, PlacesOf
  <2>1. CASE \E p \in Places, l \in Limits : AddSlot(t, p, l)
    BY <2>1, AddSlotLedger
  <2>2. CASE \E p \in Places, l \in Limits : SetLimit(t, p, l)
    BY <2>2, SetLimitLedger
  <2>3. CASE \E ps \in Targets : RemoveSlot(t, ps)
    BY <2>3, RemoveSlotLedger
  <2>4. CASE \E ps \in Targets : Close(t, ps)
    BY <2>0, <2>4, CloseLedger
  <2>5. CASE \E ps \in Targets : CloseAndRemove(t, ps)
    BY <2>5, CloseAndRemoveLedger
  <2>6. CASE Delete(t)
    BY <2>6, DeleteLedger
  <2>7. CASE Purge(t)
    BY <2>7, PurgeLedger
  <2>8. CASE \E s \in SlotDocs : SlotExpiry(t, s)
    BY <2>8, SlotExpiryLedger
  <2> QED BY <1>2, <2>1, <2>2, <2>3, <2>4, <2>5, <2>6, <2>7, <2>8 DEF AdminStep
<1>3. ASSUME NEW t \in Txns, Begin(t) PROVE Ledger'
  BY <1>3, BeginLedger
<1>4. CASE \/ \E u \in Users, p \in Places : LeaveWaitlist(u, p)
           \/ Restore
           \/ \E t \in Txns : Abort(t)
  BY <1>4, OutsideLedger
<1>5. CASE UNCHANGED vars
  BY <1>5 DEF vars, Ledger, Whole, NoPhantom, Tidy, IndexHolds, StillHeld, Held, IsActive
<1> QED BY <1>1, <1>2, <1>3, <1>4, <1>5 DEF Next

\* Whatever handlers, bulk operations and jobs interleave, a counter never keeps
\* from the clients a place that nobody has.
THEOREM NoPlaceIsLost == Spec => []NoPhantomPlace
<1>1. Init => Ledger
  BY InitLedger
<1>2. Inv /\ Ledger /\ [Next]_vars => Ledger'
  BY NextLedger
<1>3. Ledger => NoPhantomPlace
  BY DEF Ledger, Whole, NoPhantom, Held, NoPhantomPlace
<1> QED BY <1>1, <1>2, <1>3, Invariant, PTL DEF Spec

-----------------------------------------------------------------------------
(* The waiting lists.                                                      *)

WaitDoc(u, p) == <<"wait", <<u, p>>>>

\* The rows of a list older than the row of u, as the snapshot of a claim has them.
Ahead(d, u, p) == {v \in Waiting(d, p) : d.since[<<v, p>>] < d.since[<<u, p>>]}

Raw(cur, joined, u, p) == IF cur.wait[<<u, p>>] = "none" THEN 2 * joined[<<u, p>>] + 1 ELSE 2 * cur.since[<<u, p>>]

\* The rows that wait for a place.
LEMMA WaitingFacts ==
    ASSUME NEW d, NEW p
    PROVE  Waiting(d, p) = {u \in Users : d.wait[<<u, p>>] = "waiting"}
BY Zenon DEF Waiting

\* What each update does to the lists.
LEMMA UpdatesAside ==
    ASSUME NEW d \in Databases, NEW bs, NEW to, NEW ps, NEW p
    PROVE  /\ Transition(d, bs, to).wait = d.wait /\ Transition(d, bs, to).since = d.since
           /\ Release(d, ps).wait = d.wait /\ Release(d, ps).since = d.since
           /\ Take(d, p).wait = d.wait /\ Take(d, p).since = d.since
           /\ ClearCounts(d, ps).wait = d.wait /\ ClearCounts(d, ps).since = d.since
           /\ DropSlots(d, ps).wait = d.wait /\ DropSlots(d, ps).since = d.since
           /\ DropBookings(d, bs).wait = d.wait /\ DropBookings(d, bs).since = d.since
BY DEF Transition, Release, Take, ClearCounts, DropSlots, DropBookings, Databases

\* Rows that are deleted are gone, the others stay.
LEMMA DropWaitsWaits ==
    ASSUME NEW d \in Databases, NEW keys
    PROVE  /\ DropWaits(d, keys).since = d.since
           /\ \A u \in Users, p \in Places :
                 DropWaits(d, keys).wait[<<u, p>>] = IF <<u, p>> \in keys THEN "none" ELSE d.wait[<<u, p>>]
BY DEF DropWaits, Databases

\* Deleting rows of a database whose lists are those of another.
LEMMA DropRows ==
    ASSUME NEW d \in Databases, NEW old, d.wait = old.wait, NEW keys
    PROVE  \A u \in Users, p \in Places :
              \/ DropWaits(d, keys).wait[<<u, p>>] = old.wait[<<u, p>>]
              \/ DropWaits(d, keys).wait[<<u, p>>] = "none"
BY DEF DropWaits, Databases

\* A notice claims the rows with fewer rows ahead than places freed.
LEMMA NotifyWaits ==
    ASSUME NEW d \in Databases, NEW freed
    PROVE  /\ Notify(d, freed).since = d.since
           /\ \A u \in Users, p \in Places :
                 Notify(d, freed).wait[<<u, p>>]
                     = IF d.wait[<<u, p>>] = "waiting" /\ Cardinality(Ahead(d, u, p)) < freed[p]
                       THEN "notified" ELSE d.wait[<<u, p>>]
<1> DEFINE w == [k \in Users \X Places |->
        IF /\ d.wait[k] = "waiting"
           /\ Cardinality({v \in Waiting(d, k[2]) : d.since[<<v, k[2]>>] < d.since[k]}) < freed[k[2]]
        THEN "notified" ELSE d.wait[k]]
<1>1. Notify(d, freed) = [d EXCEPT !.wait = w]
  BY Zenon DEF Notify
<1>2. Notify(d, freed).wait = w /\ Notify(d, freed).since = d.since
  BY <1>1 DEF Databases
<1>3. \A u \in Users, p \in Places :
         w[<<u, p>>] = IF d.wait[<<u, p>>] = "waiting" /\ Cardinality(Ahead(d, u, p)) < freed[p]
                       THEN "notified" ELSE d.wait[<<u, p>>]
  BY DEF Ahead
<1> HIDE DEF w
<1> QED BY <1>2, <1>3

\* Waiting lists of a place are finite.
LEMMA AheadFacts ==
    ASSUME NEW d \in Databases, NEW u \in Users, NEW v \in Users, NEW p \in Places
    PROVE  /\ Cardinality(Ahead(d, u, p)) \in Nat
           /\ d.since[<<u, p>>] <= d.since[<<v, p>>] =>
                 Cardinality(Ahead(d, u, p)) <= Cardinality(Ahead(d, v, p))
<1>1. \A x \in Users : IsFiniteSet(Ahead(d, x, p)) /\ Cardinality(Ahead(d, x, p)) \in Nat
  BY FiniteAssumption, FS_Subset, FS_CardinalityType DEF Ahead, Waiting
<1>2. \A x \in Users : d.since[<<x, p>>] \in Nat
  BY DEF Databases
<1>3. d.since[<<u, p>>] <= d.since[<<v, p>>] => Ahead(d, u, p) \subseteq Ahead(d, v, p)
  BY <1>2, WaitingFacts DEF Ahead
<1> QED BY <1>1, <1>3, FS_Subset

\* Ranking keeps the order of the rows.
LEMMA RanksOrder ==
    ASSUME NEW cur \in Databases, NEW j \in [Users \X Places -> Nat], NEW w,
           NEW u \in Users, NEW v \in Users, NEW p \in Places,
           w[<<u, p>>] # "none", w[<<v, p>>] # "none"
    PROVE  Ranks(cur, j, w)[<<u, p>>] < Ranks(cur, j, w)[<<v, p>>] <=> Raw(cur, j, u, p) < Raw(cur, j, v, p)
<1> DEFINE raw == [k \in Users \X Places |->
                     IF cur.wait[k] = "none" THEN 2 * j[k] + 1 ELSE 2 * cur.since[k]]
           upto(x) == {y \in Users : /\ w[<<y, p>>] # "none" /\ raw[<<y, p>>] <= raw[<<x, p>>]}
<1>1. \A x \in Users : raw[<<x, p>>] = Raw(cur, j, x, p) /\ raw[<<x, p>>] \in Nat
  BY DEF Raw, Databases
<1>2. \A x \in Users : w[<<x, p>>] # "none" => Ranks(cur, j, w)[<<x, p>>] = Cardinality(upto(x))
  BY DEF Ranks
<1>3. \A x \in Users : IsFiniteSet(upto(x)) /\ Cardinality(upto(x)) \in Nat
  BY FiniteAssumption, FS_Subset, FS_CardinalityType
<1> HIDE DEF raw
<1>4. CASE raw[<<u, p>>] < raw[<<v, p>>]
  <2>1. upto(u) \subseteq upto(v) /\ v \in upto(v) /\ v \notin upto(u)
    BY <1>1, <1>4
  <2> DEFINE U == upto(u)
             V == upto(v)
  <2>2. IsFiniteSet(U) /\ IsFiniteSet(V) /\ U \subseteq V /\ U # V
    BY <2>1, <1>3
  <2> HIDE DEF U, V
  <2>3. Cardinality(U) <= Cardinality(V) /\ Cardinality(U) # Cardinality(V)
    BY <2>2, FS_Subset
  <2>4. U = upto(u) /\ V = upto(v)
    BY DEF U, V
  <2> HIDE DEF upto
  <2>5. Cardinality(upto(u)) < Cardinality(upto(v))
    BY <2>3, <2>4, <1>3
  <2> QED BY <2>5, <1>1, <1>2, <1>4
<1>5. CASE ~(raw[<<u, p>>] < raw[<<v, p>>])
  <2>1. upto(v) \subseteq upto(u)
    BY <1>1, <1>5
  <2>2. Cardinality(upto(v)) <= Cardinality(upto(u))
    BY <2>1, <1>3, FS_Subset
  <2> QED BY <2>2, <1>1, <1>2, <1>3, <1>5
<1> QED BY <1>4, <1>5

\* A merge takes the rows a handler changed from its result, and keeps the
\* order of the others.
LEMMA MergeWaits ==
    ASSUME NEW cur \in Databases, NEW old \in Databases, NEW new \in Databases
    PROVE  LET m == Merge(cur, old, new)
           IN /\ \A u \in Users, p \in Places :
                    m.wait[<<u, p>>] = IF old.wait[<<u, p>>] # new.wait[<<u, p>>] THEN new.wait[<<u, p>>]
                                                                      ELSE cur.wait[<<u, p>>]
              /\ \A u, v \in Users, p \in Places :
                    m.wait[<<u, p>>] # "none" /\ m.wait[<<v, p>>] # "none" =>
                       (m.since[<<u, p>>] < m.since[<<v, p>>]
                           <=> Raw(cur, new.since, u, p) < Raw(cur, new.since, v, p))
<1> DEFINE m == Merge(cur, old, new)
           w == [k \in Users \X Places |->
                    IF old.wait[k] # new.wait[k] THEN new.wait[k] ELSE cur.wait[k]]
<1>1. m.wait = w /\ m.since = Ranks(cur, new.since, w)
  BY DEF Merge
<1>2. new.since \in [Users \X Places -> Nat]
  BY DEF Databases
<1>3. \A u \in Users, p \in Places :
         w[<<u, p>>] = IF old.wait[<<u, p>>] # new.wait[<<u, p>>] THEN new.wait[<<u, p>>] ELSE cur.wait[<<u, p>>]
  OBVIOUS
<1> HIDE DEF w
<1>4. \A u, v \in Users, p \in Places :
         w[<<u, p>>] # "none" /\ w[<<v, p>>] # "none" =>
            (Ranks(cur, new.since, w)[<<u, p>>] < Ranks(cur, new.since, w)[<<v, p>>]
                <=> Raw(cur, new.since, u, p) < Raw(cur, new.since, v, p))
  BY <1>2, RanksOrder
<1> QED BY <1>1, <1>3, <1>4

-----------------------------------------------------------------------------

Recedes(old, new, u, p) ==
    \/ new.wait[<<u, p>>] = old.wait[<<u, p>>]
    \/ new.wait[<<u, p>>] = "none"
    \/ old.wait[<<u, p>>] = "waiting" /\ new.wait[<<u, p>>] = "notified"

\* The row joins behind every row its handler could have seen.
Joins(t, new, u, p) ==
    /\ snap[t].wait[<<u, p>>] = "none" /\ new.wait[<<u, p>>] = "waiting"
    /\ \A v \in Users :
          WaitDoc(v, p) \notin dirty[t] /\ db.wait[<<v, p>>] # "none"
          => db.since[<<v, p>>] <= new.since[<<u, p>>]

\* Of the rows that waited, no younger one is claimed before an older one.
InLine(old, new) ==
    \A u, v \in Users, p \in Places :
        /\ old.wait[<<u, p>>] = "waiting" /\ old.wait[<<v, p>>] = "waiting"
        /\ old.since[<<u, p>>] < old.since[<<v, p>>]
        /\ new.wait[<<v, p>>] = "notified"
        => new.wait[<<u, p>>] # "waiting"

\* A row is claimed together with a place given back.
PaidFor(old, new, docs) ==
    \A u \in Users, p \in Places :
        old.wait[<<u, p>>] = "waiting" /\ new.wait[<<u, p>>] = "notified" =>
            /\ <<"slot", SlotOf[p]>> \in docs
            /\ new.slot[p].limit = old.slot[p].limit
            /\ new.slot[p].count = 0 \/ new.slot[p].count = old.slot[p].count - 1

Within(d) == \A p \in Places : WithinLimit(d, p)

QueueResult(t, new, docs) ==
    /\ \A u \in Users, p \in Places : Recedes(snap[t], new, u, p) \/ Joins(t, new, u, p)
    /\ InLine(snap[t], new)
    /\ PaidFor(snap[t], new, docs)
    /\ "setLimit" \notin Operations /\ Within(snap[t]) => Within(new)

SnapWaits ==
    \A t \in open, u \in Users, p \in Places :
        WaitDoc(u, p) \notin dirty[t] => snap[t].wait[<<u, p>>] = db.wait[<<u, p>>]

SnapOrder ==
    \A t \in open, u, v \in Users, p \in Places :
        /\ WaitDoc(u, p) \notin dirty[t] /\ WaitDoc(v, p) \notin dirty[t]
        /\ db.wait[<<u, p>>] # "none" /\ db.wait[<<v, p>>] # "none"
        /\ db.since[<<u, p>>] < db.since[<<v, p>>]
        => snap[t].since[<<u, p>>] < snap[t].since[<<v, p>>]

\* A row that left and joined again is behind those that stayed.
Rejoined ==
    \A t \in open, u, v \in Users, p \in Places :
        /\ WaitDoc(u, p) \in dirty[t] /\ WaitDoc(v, p) \notin dirty[t]
        /\ snap[t].wait[<<u, p>>] = "waiting" /\ db.wait[<<u, p>>] = "waiting"
        /\ db.wait[<<v, p>>] # "none"
        => db.since[<<v, p>>] < db.since[<<u, p>>]

\* Of two transactions the one that began earlier has missed what the other has.
Nested ==
    /\ \A t, s \in open : dirty[t] \subseteq dirty[s] \/ dirty[s] \subseteq dirty[t]
    /\ \A t \in Txns \ open : dirty[t] = {}

Room == Within(db) /\ \A t \in open : Within(snap[t])

Queue ==
    /\ SnapWaits /\ SnapOrder /\ Rejoined /\ Nested
    /\ "setLimit" \notin Operations => Room

OldestStep ==
    \A t \in open \ open', u, v \in Users, p \in Places :
        /\ snap[t].wait[<<u, p>>] = "waiting" /\ db.wait[<<u, p>>] = "waiting"
        /\ db.since[<<u, p>>] < db.since[<<v, p>>]
        /\ db.wait[<<v, p>>] = "waiting" /\ db'.wait[<<v, p>>] = "notified"
        => db'.wait[<<u, p>>] # "waiting"

PaidStep ==
    \A u \in Users, p \in Places :
        db.wait[<<u, p>>] = "waiting" /\ db'.wait[<<u, p>>] = "notified" =>
            /\ db'.slot[p].limit = db.slot[p].limit
            /\ db'.slot[p].count = 0 \/ db'.slot[p].count = db.slot[p].count - 1

\* The rows a handler changed are among the documents it wrote.
LEMMA ChangedWaits ==
    ASSUME NEW old \in Databases, NEW new \in Databases, NEW u \in Users, NEW p \in Places
    PROVE  WaitDoc(u, p) \in Changed(old, new) <=> old.wait[<<u, p>>] # new.wait[<<u, p>>]
<1>1. \A k \in Users \X Places : <<"wait", k>> \in Changed(old, new) <=> old.wait[k] # new.wait[k]
  BY DEF Changed
<1> QED BY <1>1 DEF WaitDoc

\* The heart of the argument: a transaction that owes QueueResult keeps the
\* queue when it commits, overtakes nobody and pays for what it claims.
LEMMA CommitQueue ==
    ASSUME Inv, Queue, NEW t \in Txns, NEW new \in Databases, NEW touched \in SUBSET Docs,
           Commit(t, new, touched),
           \A u \in Users, p \in Places : WaitDoc(u, p) \notin touched,
           QueueResult(t, new, Changed(snap[t], new) \cup touched)
    PROVE  Queue' /\ OldestStep /\ PaidStep
<1> DEFINE old  == snap[t]
           docs == Changed(old, new) \cup touched
           d    == Merge(db, old, new)
<1>1. /\ old \in Databases /\ db \in Databases
      /\ t \in open /\ docs \cap dirty[t] = {} /\ db' = d /\ Write(d, docs, {t})
  BY DEF Inv, TypeOK, Commit, Write
<1>2. /\ d \in Databases
      /\ \A p \in Places : d.slot[p]
            = IF old.slot[p] # new.slot[p] THEN new.slot[p] ELSE db.slot[p]
  BY <1>1, MergeFacts
<1>3. /\ \A u \in Users, p \in Places : d.wait[<<u, p>>]
            = IF old.wait[<<u, p>>] # new.wait[<<u, p>>] THEN new.wait[<<u, p>>] ELSE db.wait[<<u, p>>]
      /\ \A u, v \in Users, p \in Places :
            d.wait[<<u, p>>] # "none" /\ d.wait[<<v, p>>] # "none" =>
               (d.since[<<u, p>>] < d.since[<<v, p>>]
                   <=> Raw(db, new.since, u, p) < Raw(db, new.since, v, p))
  BY <1>1, MergeWaits
<1>4. /\ docs \in SUBSET Docs
      /\ \A u \in Users, p \in Places : WaitDoc(u, p) \in docs
            <=> old.wait[<<u, p>>] # new.wait[<<u, p>>]
  BY <1>1, ChangedFacts, ChangedWaits
<1>5. \A x \in open' : x \in open /\ snap'[x] = snap[x] /\ dirty'[x] = dirty[x] \cup docs
  <2>1. TypeOK /\ {t} \in SUBSET Txns
    BY DEF Inv
  <2> HIDE DEF old, docs, d
  <2> QED BY <2>1, <1>1, <1>2, <1>4, WriteFacts
<1>6. /\ open \ open' = {t}
      /\ \A x \in Txns \ open' : dirty'[x] = {}
  BY <1>1 DEF Write
<1>7. QueueResult(t, new, docs)
  OBVIOUS
<1>8. \A u \in Users, p \in Places : Recedes(old, new, u, p) \/ Joins(t, new, u, p)
  BY DEF QueueResult
<1> HIDE DEF docs, d
<1>9. \A u \in Users, p \in Places : db.since[<<u, p>>] \in Nat /\ new.since[<<u, p>>] \in Nat
  BY <1>1 DEF Databases
\* A row that stays keeps its place in the order.
<1>10. ASSUME NEW u \in Users, NEW p \in Places, WaitDoc(u, p) \notin docs, d.wait[<<u, p>>] # "none"
       PROVE  /\ d.wait[<<u, p>>] = db.wait[<<u, p>>]
              /\ Raw(db, new.since, u, p) = 2 * db.since[<<u, p>>]
  BY <1>3, <1>4, <1>10 DEF Raw
<1>11. SnapWaits'
  <2> SUFFICES ASSUME NEW x \in open', NEW u \in Users, NEW p \in Places,
                      WaitDoc(u, p) \notin dirty'[x]
               PROVE  snap'[x].wait[<<u, p>>] = d.wait[<<u, p>>]
    BY <1>1 DEF SnapWaits, WaitDoc
  <2>1. x \in open /\ snap'[x] = snap[x] /\ WaitDoc(u, p) \notin dirty[x] /\ WaitDoc(u, p) \notin docs
    BY <1>5
  <2>2. snap[x].wait[<<u, p>>] = db.wait[<<u, p>>]
    BY <2>1 DEF Queue, SnapWaits
  <2> QED BY <2>1, <2>2, <1>3, <1>4
<1>12. SnapOrder'
  <2> SUFFICES ASSUME NEW x \in open', NEW u \in Users, NEW v \in Users, NEW p \in Places,
                      WaitDoc(u, p) \notin dirty'[x], WaitDoc(v, p) \notin dirty'[x],
                      d.wait[<<u, p>>] # "none", d.wait[<<v, p>>] # "none",
                      d.since[<<u, p>>] < d.since[<<v, p>>]
               PROVE  snap'[x].since[<<u, p>>] < snap'[x].since[<<v, p>>]
    BY <1>1 DEF SnapOrder, WaitDoc
  <2>1. /\ x \in open /\ snap'[x] = snap[x]
        /\ WaitDoc(u, p) \notin dirty[x] /\ WaitDoc(u, p) \notin docs
        /\ WaitDoc(v, p) \notin dirty[x] /\ WaitDoc(v, p) \notin docs
    BY <1>5
  <2>2. Raw(db, new.since, u, p) < Raw(db, new.since, v, p)
    BY <1>3
  <2>3. /\ db.wait[<<u, p>>] # "none" /\ db.wait[<<v, p>>] # "none"
        /\ Raw(db, new.since, u, p) = 2 * db.since[<<u, p>>]
        /\ Raw(db, new.since, v, p) = 2 * db.since[<<v, p>>]
    BY <2>1, <1>10
  <2>4. db.since[<<u, p>>] < db.since[<<v, p>>]
    BY <2>2, <2>3, <1>9
  <2> QED BY <2>1, <2>3, <2>4 DEF Queue, SnapOrder
<1>13. Rejoined'
  <2> SUFFICES ASSUME NEW x \in open', NEW u \in Users, NEW v \in Users, NEW p \in Places,
                      WaitDoc(u, p) \in dirty'[x], WaitDoc(v, p) \notin dirty'[x],
                      snap'[x].wait[<<u, p>>] = "waiting", d.wait[<<u, p>>] = "waiting",
                      d.wait[<<v, p>>] # "none"
               PROVE  d.since[<<v, p>>] < d.since[<<u, p>>]
    BY <1>1 DEF Rejoined, WaitDoc
  <2>1. /\ x \in open /\ snap'[x] = snap[x] /\ dirty'[x] = dirty[x] \cup docs
        /\ WaitDoc(v, p) \notin dirty[x] /\ WaitDoc(v, p) \notin docs
    BY <1>5
  <2>2. /\ db.wait[<<v, p>>] # "none"
        /\ Raw(db, new.since, v, p) = 2 * db.since[<<v, p>>]
    BY <2>1, <1>10
  <2>3. Raw(db, new.since, v, p) < Raw(db, new.since, u, p)
    <3>1. CASE old.wait[<<u, p>>] = new.wait[<<u, p>>]
      <4>1. WaitDoc(u, p) \notin docs /\ WaitDoc(u, p) \in dirty[x]
        BY <3>1, <2>1, <1>4
      <4>2. /\ db.wait[<<u, p>>] = "waiting"
            /\ Raw(db, new.since, u, p) = 2 * db.since[<<u, p>>]
        BY <4>1, <1>10
      <4>3. db.since[<<v, p>>] < db.since[<<u, p>>]
        BY <4>1, <4>2, <2>1, <2>2 DEF Queue, Rejoined
      <4> QED BY <4>2, <4>3, <2>2, <1>9
    <3>2. CASE old.wait[<<u, p>>] # new.wait[<<u, p>>]
      <4>1. new.wait[<<u, p>>] = "waiting"
        BY <3>2, <1>3
      <4>2. Joins(t, new, u, p)
        BY <3>2, <4>1, <1>8 DEF Recedes
      <4>3. WaitDoc(u, p) \notin dirty[t]
        BY <3>2, <1>1, <1>4
      <4>4. db.wait[<<u, p>>] = "none"
        BY <4>2, <4>3, <1>1 DEF Joins, Queue, SnapWaits
      <4>5. WaitDoc(u, p) \in dirty[x]
        BY <4>4, <2>1 DEF Queue, SnapWaits
      <4>6. dirty[t] \subseteq dirty[x]
        BY <4>3, <4>5, <2>1, <1>1 DEF Queue, Nested
      <4>7. db.since[<<v, p>>] <= new.since[<<u, p>>]
        BY <4>2, <4>6, <2>1, <2>2 DEF Joins
      <4>8. Raw(db, new.since, u, p) = 2 * new.since[<<u, p>>] + 1
        BY <4>4 DEF Raw
      <4> QED BY <4>7, <4>8, <2>2, <1>9
    <3> QED BY <3>1, <3>2
  <2> QED BY <2>3, <1>3
<1>14. Nested'
  BY <1>5, <1>6 DEF Queue, Nested
<1>15. ("setLimit" \notin Operations => Room)'
  <2> SUFFICES ASSUME "setLimit" \notin Operations PROVE Room'
    OBVIOUS
  <2>1. Within(db) /\ \A x \in open : Within(snap[x])
    BY DEF Queue, Room
  <2>2. Within(new)
    BY <2>1, <1>1, <1>7 DEF QueueResult
  <2>3. Within(d)
    <3> SUFFICES ASSUME NEW p \in Places PROVE WithinLimit(d, p)
      BY DEF Within
    <3>1. d.slot[p] = new.slot[p] \/ d.slot[p] = db.slot[p]
      BY <1>2
    <3> QED BY <3>1, <2>1, <2>2 DEF Within, WithinLimit
  <2>4. \A x \in open' : Within(snap'[x])
    BY <2>1, <1>5
  <2> QED BY <2>3, <2>4, <1>1 DEF Room, Within, WithinLimit
<1>16. Queue'
  BY <1>11, <1>12, <1>13, <1>14, <1>15 DEF Queue
<1>17. OldestStep
  <2> SUFFICES ASSUME NEW u \in Users, NEW v \in Users, NEW p \in Places,
                      old.wait[<<u, p>>] = "waiting", db.wait[<<u, p>>] = "waiting",
                      db.since[<<u, p>>] < db.since[<<v, p>>],
                      db.wait[<<v, p>>] = "waiting", d.wait[<<v, p>>] = "notified"
               PROVE  d.wait[<<u, p>>] # "waiting"
    BY <1>1, <1>6 DEF OldestStep
  <2>1. old.wait[<<v, p>>] # new.wait[<<v, p>>] /\ new.wait[<<v, p>>] = "notified"
    BY <1>3
  <2>2. WaitDoc(v, p) \notin dirty[t] /\ old.wait[<<v, p>>] = "waiting"
    BY <2>1, <1>1, <1>4 DEF Queue, SnapWaits
  <2>3. WaitDoc(u, p) \notin dirty[t]
    <3> SUFFICES ASSUME WaitDoc(u, p) \in dirty[t] PROVE FALSE
      OBVIOUS
    <3>1. db.since[<<v, p>>] < db.since[<<u, p>>]
      BY <2>2, <1>1 DEF Queue, Rejoined
    <3> QED BY <3>1, <1>9
  <2>4. old.since[<<u, p>>] < old.since[<<v, p>>]
    BY <2>2, <2>3, <1>1 DEF Queue, SnapOrder
  <2>5. new.wait[<<u, p>>] # "waiting"
    BY <2>1, <2>2, <2>4 DEF QueueResult, InLine
  <2> QED BY <2>5, <1>3
<1>18. PaidStep
  <2> SUFFICES ASSUME NEW u \in Users, NEW p \in Places,
                      db.wait[<<u, p>>] = "waiting", d.wait[<<u, p>>] = "notified"
               PROVE  /\ d.slot[p].limit = db.slot[p].limit
                      /\ d.slot[p].count = 0 \/ d.slot[p].count = db.slot[p].count - 1
    BY <1>1 DEF PaidStep
  <2>1. old.wait[<<u, p>>] # new.wait[<<u, p>>] /\ new.wait[<<u, p>>] = "notified"
    BY <1>3
  <2>2. old.wait[<<u, p>>] = "waiting"
    BY <2>1, <1>1, <1>4 DEF Queue, SnapWaits
  <2>3. /\ <<"slot", SlotOf[p]>> \in docs
        /\ new.slot[p].limit = old.slot[p].limit
        /\ new.slot[p].count = 0 \/ new.slot[p].count = old.slot[p].count - 1
    BY <2>1, <2>2, <1>7 DEF QueueResult, PaidFor
  <2>4. old.slot[p] = db.slot[p]
    BY <2>3, <1>1 DEF Inv, Fresh
  <2> QED BY <2>3, <2>4, <1>2
<1> QED BY <1>16, <1>17, <1>18

-----------------------------------------------------------------------------
(* What the handlers do to the lists. *)

\* A counter that did not grow under the same limit, or is zero, is within it.
Lowered(old, new, p) ==
    \/ new.slot[p].count = 0
    \/ new.slot[p].limit = old.slot[p].limit /\ new.slot[p].count <= old.slot[p].count

\* A counter that did not grow is still within its limit.
LEMMA LoweredWithin ==
    ASSUME NEW old \in Databases, NEW new \in Databases, NEW p \in Places,
           WithinLimit(old, p), Lowered(old, new, p)
    PROVE  WithinLimit(new, p)
<1>1. /\ old.slot[p].count \in Nat /\ new.slot[p].count \in Nat
      /\ old.slot[p].limit # NoLimit => old.slot[p].limit \in Nat
      /\ new.slot[p].limit # NoLimit => new.slot[p].limit \in Nat
  BY DEF Databases, Slots
<1> QED BY <1>1 DEF WithinLimit, Lowered

\* A slot that did not change.
LEMMA SameLowered ==
    ASSUME NEW old \in Databases, NEW new, NEW p \in Places, new.slot[p] = old.slot[p]
    PROVE  Lowered(old, new, p)
BY DEF Lowered, Databases, Slots

\* A slot whose counter may have been cleared.
LEMMA ClearedLowered ==
    ASSUME NEW old \in Databases, NEW new, NEW p \in Places, NEW c \in BOOLEAN,
           new.slot[p] = IF c THEN [old.slot[p] EXCEPT !.count = 0] ELSE old.slot[p]
    PROVE  Lowered(old, new, p)
<1>1. old.slot[p] \in Slots
  BY DEF Databases
<1>2. CASE c
  <2>1. new.slot[p].count = 0
    BY <1>1, <1>2 DEF Slots
  <2> QED BY <2>1 DEF Lowered
<1>3. CASE ~c
  BY <1>3, SameLowered
<1> QED BY <1>2, <1>3

\* Documents a handler writes without changing them are not rows of a list.
LEMMA TouchedRows ==
    /\ \A u, p : WaitDoc(u, p) \notin {} /\ WaitDoc(u, p) \notin {<<"service">>}
    /\ \A ps : \A u, p : WaitDoc(u, p) \notin SlotKeys(ps) /\ WaitDoc(u, p) \notin SlotKeys(ps) \cup {<<"service">>}
<1>1. \A u, p : WaitDoc(u, p) # <<"service">>
  BY DEF WaitDoc
<1>2. \A u, p, s : WaitDoc(u, p) # <<"slot", s>>
  BY DEF WaitDoc
<1> QED BY <1>1, <1>2 DEF SlotKeys

\* A handler that tells nobody: rows stay or go.
LEMMA QuietQueue ==
    ASSUME Inv, Queue, NEW t \in Txns, NEW new \in Databases, NEW touched \in SUBSET Docs,
           Commit(t, new, touched),
           \A u \in Users, p \in Places : WaitDoc(u, p) \notin touched,
           \A u \in Users, p \in Places :
               new.wait[<<u, p>>] = snap[t].wait[<<u, p>>] \/ new.wait[<<u, p>>] = "none",
           "setLimit" \notin Operations /\ Within(snap[t]) => Within(new)
    PROVE  Queue' /\ OldestStep /\ PaidStep
<1> DEFINE old == snap[t]
           docs == Changed(old, new) \cup touched
<1>1. \A u \in Users, p \in Places :
          new.wait[<<u, p>>] = old.wait[<<u, p>>] \/ new.wait[<<u, p>>] = "none"
  OBVIOUS
<1> HIDE DEF docs
<1>2. \A u \in Users, p \in Places : Recedes(old, new, u, p)
  BY <1>1 DEF Recedes
<1>3. InLine(old, new)
  BY <1>1 DEF InLine
<1>4. PaidFor(old, new, docs)
  BY <1>1 DEF PaidFor
<1>5. QueueResult(t, new, docs)
  BY <1>2, <1>3, <1>4 DEF QueueResult
<1> QED BY <1>5, CommitQueue DEF docs

\* The same, where the rows are all left alone.
LEMMA SameWaitsQueue ==
    ASSUME Inv, Queue, NEW t \in Txns, NEW new \in Databases, NEW touched \in SUBSET Docs,
           Commit(t, new, touched),
           \A u \in Users, p \in Places : WaitDoc(u, p) \notin touched,
           new.wait = snap[t].wait,
           \A p \in Places : Lowered(snap[t], new, p)
    PROVE  Queue' /\ OldestStep /\ PaidStep
<1>1. snap[t] \in Databases
  BY SnapshotFacts
<1>2. Within(snap[t]) => Within(new)
  BY <1>1, LoweredWithin DEF Within
<1> QED BY <1>2, QuietQueue

\* A handler that tells as many as it gives places back.
LEMMA NotifyQueue ==
    ASSUME Inv, Queue, NEW t \in Txns, NEW mid \in Databases, NEW freed,
           NEW touched \in SUBSET Docs, NEW new, new = Notify(mid, freed),
           Commit(t, new, touched),
           \A u \in Users, p \in Places : WaitDoc(u, p) \notin touched,
           mid.since = snap[t].since,
           \A u \in Users, p \in Places :
               mid.wait[<<u, p>>] = snap[t].wait[<<u, p>>] \/ mid.wait[<<u, p>>] = "none",
           \A p \in Places : freed[p] \in Nat,
           \A p \in Places : freed[p] > 0 =>
               /\ <<"slot", SlotOf[p]>> \in Changed(snap[t], new) \cup touched
               /\ mid.slot[p].limit = snap[t].slot[p].limit
               /\ mid.slot[p].count = 0 \/ mid.slot[p].count = snap[t].slot[p].count - 1,
           Within(snap[t]) => Within(mid)
    PROVE  Queue' /\ OldestStep /\ PaidStep
<1> DEFINE old  == snap[t]
           docs == Changed(old, new) \cup touched
<1>1. new \in Databases /\ new.slot = mid.slot
  BY NotifyFacts
<1>2. \A u \in Users, p \in Places :
         new.wait[<<u, p>>] = IF mid.wait[<<u, p>>] = "waiting" /\ Cardinality(Ahead(mid, u, p)) < freed[p]
                              THEN "notified" ELSE mid.wait[<<u, p>>]
  BY NotifyWaits
<1>3. \A u \in Users, p \in Places :
         mid.wait[<<u, p>>] = old.wait[<<u, p>>] \/ mid.wait[<<u, p>>] = "none"
  OBVIOUS
<1>4. \A u \in Users, p \in Places :
         Cardinality(Ahead(mid, u, p)) \in Nat /\ old.since[<<u, p>>] \in Nat
         /\ mid.since[<<u, p>>] = old.since[<<u, p>>]
  BY AheadFacts DEF Databases
<1>5. \A p \in Places : freed[p] > 0 =>
         /\ <<"slot", SlotOf[p]>> \in docs
         /\ new.slot[p].limit = old.slot[p].limit
         /\ new.slot[p].count = 0 \/ new.slot[p].count = old.slot[p].count - 1
  BY <1>1
<1> HIDE DEF docs
<1>6. \A u \in Users, p \in Places : Recedes(old, new, u, p)
  BY <1>2, <1>3 DEF Recedes
<1>7. InLine(old, new)
  <2> SUFFICES ASSUME NEW u \in Users, NEW v \in Users, NEW p \in Places,
                      old.wait[<<u, p>>] = "waiting", old.wait[<<v, p>>] = "waiting",
                      old.since[<<u, p>>] < old.since[<<v, p>>],
                      new.wait[<<v, p>>] = "notified", new.wait[<<u, p>>] = "waiting"
               PROVE  FALSE
    BY DEF InLine
  <2>1. mid.wait[<<v, p>>] = "waiting" /\ Cardinality(Ahead(mid, v, p)) < freed[p]
    BY <1>2, <1>3
  <2>2. mid.wait[<<u, p>>] = "waiting" /\ ~(Cardinality(Ahead(mid, u, p)) < freed[p])
    BY <1>2, <1>3
  <2>3. mid.since[<<u, p>>] <= mid.since[<<v, p>>]
    BY <1>4
  <2>4. Cardinality(Ahead(mid, u, p)) <= Cardinality(Ahead(mid, v, p))
    BY <2>3, AheadFacts
  <2> QED BY <2>1, <2>2, <2>4, <1>4
<1>8. PaidFor(old, new, docs)
  <2> SUFFICES ASSUME NEW u \in Users, NEW p \in Places,
                      old.wait[<<u, p>>] = "waiting", new.wait[<<u, p>>] = "notified"
               PROVE  freed[p] > 0
    BY <1>5 DEF PaidFor
  <2>1. Cardinality(Ahead(mid, u, p)) < freed[p]
    BY <1>2, <1>3
  <2> QED BY <2>1, <1>4
<1>9. Within(old) => Within(new)
  BY <1>1 DEF Within, WithinLimit
<1>10. QueueResult(t, new, docs)
  BY <1>6, <1>7, <1>8, <1>9 DEF QueueResult
<1> QED BY <1>1, <1>10, CommitQueue DEF docs

\* Status changes leave the lists and the counters alone.
LEMMA StatusQueue ==
    ASSUME Inv, Queue, NEW t \in Txns, NEW b \in Ids, NEW to \in Statuses,
           Commit(t, Transition(snap[t], {b}, to), {}), snap[t].booking[b] # NoBooking
    PROVE  Queue' /\ OldestStep /\ PaidStep
<1> DEFINE old == snap[t]
           new == Transition(old, {b}, to)
<1>1. old \in Databases
  BY SnapshotFacts
<1>2. {b} \in SUBSET Ids /\ \A c \in {b} : old.booking[c] # NoBooking
  OBVIOUS
<1>3. Commit(t, new, {})
  OBVIOUS
<1> HIDE DEF old
<1>4. new \in Databases /\ new.slot = old.slot /\ new.wait = old.wait
  <2>1. new \in Databases /\ new.slot = old.slot
    BY <1>1, <1>2, TransitionFacts
  <2>2. new.wait = old.wait
    BY <1>1, UpdatesAside
  <2> QED BY <2>1, <2>2
<1> HIDE DEF new
<1>5. \A p \in Places : Lowered(old, new, p)
  BY <1>1, <1>4, SameLowered
<1> QED BY <1>3, <1>4, <1>5, TouchedFacts, TouchedRows, SameWaitsQueue DEF old

\* Confirming, completing, checking in and missing a booking.
LEMMA StatusesQueue ==
    ASSUME Inv, Queue, NEW t \in Txns, NEW b \in Ids,
           \/ \E to \in Statuses : SetStatus(t, b, to)
           \/ CheckIn(t, b)
           \/ MarkNoShow(t, b)
    PROVE  Queue' /\ OldestStep /\ PaidStep
<1>1. ASSUME NEW to \in Statuses, SetStatus(t, b, to) PROVE Queue' /\ OldestStep /\ PaidStep
  <2>1. /\ Commit(t, Transition(snap[t], {b}, to), {})
        /\ snap[t].booking[b] # NoBooking
    BY <1>1 DEF SetStatus, Transitions, NoBooking
  <2> QED BY <2>1, StatusQueue
<1>2. CASE CheckIn(t, b)
  <2>1. /\ Commit(t, Transition(snap[t], {b}, "arrived"), {})
        /\ snap[t].booking[b] # NoBooking /\ "arrived" \in Statuses
    BY <1>2 DEF CheckIn, NoBooking, Statuses
  <2> QED BY <2>1, StatusQueue
<1>3. CASE MarkNoShow(t, b)
  <2>1. /\ Commit(t, Transition(snap[t], {b}, "no_show"), {})
        /\ snap[t].booking[b] # NoBooking /\ "no_show" \in Statuses
    BY <1>3 DEF MarkNoShow, NoBooking, Statuses
  <2> QED BY <2>1, StatusQueue
<1> QED BY <1>1, <1>2, <1>3

\* A booking is made below the limit, and ends its client's waiting.
LEMMA CreateQueue ==
    ASSUME Inv, Queue, NEW t \in Txns, NEW u \in Users, NEW b \in Ids, NEW p \in Places,
           NEW s \in ActiveStatuses, Create(t, u, b, p, s)
    PROVE  Queue' /\ OldestStep /\ PaidStep
<1> DEFINE old  == snap[t]
           ins  == [old EXCEPT !.booking[b] = BookingRow(u, p, s)]
           tak  == Take(ins, p)
           keys == {<<u, p>>}
           new  == DropWaits(tak, keys)
<1>1. Commit(t, new, {}) /\ MayTake(old, p)
  BY DEF Create
<1>2. old \in Databases
  BY <1>1, SnapshotFacts
<1> HIDE DEF old, keys
<1>3. /\ ins \in Databases /\ ins.slot = old.slot /\ ins.wait = old.wait
  <2>1. BookingRow(u, p, s) \in BookingRows
    BY DEF BookingRow, BookingRows, Statuses
  <2> QED BY <1>2, <2>1 DEF Databases
<1> HIDE DEF ins
<1>4. /\ tak \in Databases /\ tak.wait = old.wait
      /\ tak.slot = [old.slot EXCEPT ![p] = [old.slot[p] EXCEPT !.count = @ + 1]]
  BY <1>3, TakeFacts, UpdatesAside
<1> HIDE DEF tak
<1>5. /\ new \in Databases /\ new.slot = tak.slot
      /\ \A v \in Users, q \in Places :
            new.wait[<<v, q>>] = old.wait[<<v, q>>] \/ new.wait[<<v, q>>] = "none"
  BY <1>4, DropWaitsFacts, DropWaitsWaits
<1> HIDE DEF new
<1>6. WithinLimit(new, p)
  <2>1. new.slot[p] = [old.slot[p] EXCEPT !.count = @ + 1] /\ old.slot[p] \in Slots
    BY <1>2, <1>4, <1>5 DEF Databases
  <2>2. /\ new.slot[p].limit = old.slot[p].limit
        /\ new.slot[p].count = old.slot[p].count + 1 /\ old.slot[p].count \in Nat
        /\ old.slot[p].limit # NoLimit => old.slot[p].limit \in Nat
    BY <2>1 DEF Slots
  <2> QED BY <2>2, <1>1 DEF WithinLimit, MayTake
<1>7. \A q \in Places : q # p => new.slot[q] = old.slot[q]
  BY <1>2, <1>4, <1>5 DEF Databases
<1>8. Within(old) => Within(new)
  BY <1>6, <1>7 DEF Within, WithinLimit
<1> QED BY <1>1, <1>5, <1>8, TouchedFacts, TouchedRows, QuietQueue DEF old

\* Ending bookings tells the lists of the places they give back.
LEMMA EndQueue ==
    ASSUME Inv, Queue, NEW t \in Txns, NEW bs \in SUBSET Ids,
           \A b \in bs : IsActive(snap[t], b),
           NEW ps, ps = {snap[t].booking[b].place : b \in bs},
           NEW mid \in Databases, mid.booking = snap[t].booking, mid.slot = snap[t].slot,
           mid.since = snap[t].since,
           \A u \in Users, p \in Places :
               mid.wait[<<u, p>>] = snap[t].wait[<<u, p>>] \/ mid.wait[<<u, p>>] = "none",
           NEW freed, \A p \in Places : freed[p] = IF p \in ps THEN 1 ELSE 0,
           Commit(t, Notify(Release(Transition(mid, bs, "cancelled"), ps), freed), {})
    PROVE  Queue' /\ OldestStep /\ PaidStep
<1> DEFINE old == snap[t]
           tr  == Transition(mid, bs, "cancelled")
           rel == Release(tr, ps)
           new == Notify(rel, freed)
<1>1. Commit(t, new, {})
  OBVIOUS
<1>2. old \in Databases /\ Covers(old)
  BY SnapshotFacts
<1>3. "cancelled" \in Statuses /\ \A b \in bs : mid.booking[b] # NoBooking
  BY DEF IsActive, ActiveStatuses, NoBooking, Statuses
<1>4. tr \in Databases /\ tr.slot = old.slot
  BY <1>3, TransitionFacts
<1>5. tr.wait = mid.wait /\ tr.since = old.since
  BY UpdatesAside
<1> HIDE DEF tr
<1>6. /\ rel \in Databases
      /\ \A p \in Places :
            rel.slot[p] = IF p \in ps /\ old.slot[p].exists /\ old.slot[p].count > 0
                          THEN [old.slot[p] EXCEPT !.count = @ - 1] ELSE old.slot[p]
  BY <1>4, ReleaseFacts
<1>7. rel.wait = mid.wait /\ rel.since = old.since
  BY <1>4, <1>5, UpdatesAside
<1> HIDE DEF rel
<1>8. new \in Databases /\ new.slot = rel.slot
  BY <1>6, NotifyFacts
<1>9. ASSUME NEW p \in Places, p \in ps
      PROVE  /\ rel.slot[p].limit = old.slot[p].limit
             /\ rel.slot[p].count = old.slot[p].count - 1
             /\ <<"slot", SlotOf[p]>> \in Changed(old, new)
  <2>1. PICK b \in bs : old.booking[b].place = p
    BY <1>9
  <2>2. old.slot[p].exists /\ old.slot[p].count > 0 /\ old.slot[p] \in Slots
    BY <2>1, <1>2, BookedCounted
  <2>3. rel.slot[p] = [old.slot[p] EXCEPT !.count = @ - 1]
    BY <2>2, <1>6, <1>9
  <2>4. /\ rel.slot[p].limit = old.slot[p].limit
        /\ rel.slot[p].count = old.slot[p].count - 1 /\ rel.slot[p] # old.slot[p]
    BY <2>2, <2>3 DEF Slots
  <2>5. <<"slot", SlotOf[p]>> \in Changed(old, new)
    BY <2>4, <1>2, <1>8, ChangedFacts
  <2> QED BY <2>4, <2>5
<1>10. \A p \in Places : Lowered(old, rel, p)
  <2> SUFFICES ASSUME NEW p \in Places PROVE Lowered(old, rel, p)
    OBVIOUS
  <2>1. old.slot[p].count \in Nat
    BY <1>2 DEF Databases, Slots
  <2>2. CASE p \in ps
    <3>1. rel.slot[p].limit = old.slot[p].limit /\ rel.slot[p].count = old.slot[p].count - 1
      BY <2>2, <1>9
    <3> QED BY <2>1, <3>1 DEF Lowered
  <2>3. CASE p \notin ps
    BY <2>3, <1>2, <1>6, SameLowered
  <2> QED BY <2>2, <2>3
<1>11. Within(old) => Within(rel)
  BY <1>2, <1>6, <1>10, LoweredWithin DEF Within
<1>12. \A p \in Places : freed[p] \in Nat /\ (freed[p] > 0 => p \in ps)
  OBVIOUS
<1>13. \A p \in Places : freed[p] > 0 =>
          /\ <<"slot", SlotOf[p]>> \in Changed(old, new) \cup {}
          /\ rel.slot[p].limit = old.slot[p].limit
          /\ rel.slot[p].count = 0 \/ rel.slot[p].count = old.slot[p].count - 1
  BY <1>9, <1>12
<1>14. \A u \in Users, p \in Places :
          rel.wait[<<u, p>>] = old.wait[<<u, p>>] \/ rel.wait[<<u, p>>] = "none"
  BY <1>7
<1>15. \A u \in Users, p \in Places : WaitDoc(u, p) \notin {}
  OBVIOUS
<1> DEFINE none == {}
<1>16. /\ none \in SUBSET Docs /\ Commit(t, new, none)
       /\ \A u \in Users, p \in Places : WaitDoc(u, p) \notin none
       /\ \A p \in Places : freed[p] > 0 =>
             /\ <<"slot", SlotOf[p]>> \in Changed(old, new) \cup none
             /\ rel.slot[p].limit = old.slot[p].limit
             /\ rel.slot[p].count = 0 \/ rel.slot[p].count = old.slot[p].count - 1
  BY <1>1, <1>13
<1>17. new = Notify(rel, freed)
  OBVIOUS
<1> HIDE DEF new, none
<1> QED BY <1>6, <1>7, <1>11, <1>12, <1>14, <1>16, <1>17, NotifyQueue DEF old

\* A cancellation tells the list of its place.
LEMMA CancelQueue ==
    ASSUME Inv, Queue, NEW t \in Txns, NEW b \in Ids, Cancel(t, b)
    PROVE  Queue' /\ OldestStep /\ PaidStep
<1> DEFINE old   == snap[t]
           p     == old.booking[b].place
           bs    == {b}
           ps    == {p}
           freed == Once(p)
<1>1. /\ Commit(t, Notify(Release(Transition(old, bs, "cancelled"), ps), freed), {})
      /\ IsActive(old, b)
  BY DEF Cancel
<1>2. old \in Databases
  BY <1>1, SnapshotFacts
<1>3. /\ bs \in SUBSET Ids /\ \A c \in bs : IsActive(old, c)
      /\ ps = {old.booking[c].place : c \in bs}
  BY <1>1
<1>4. \A q \in Places : freed[q] = IF q \in ps THEN 1 ELSE 0
  BY DEF Once
<1>5. \A u \in Users, q \in Places :
          old.wait[<<u, q>>] = old.wait[<<u, q>>] \/ old.wait[<<u, q>>] = "none"
  OBVIOUS
<1> HIDE DEF bs, ps, freed
<1> QED BY <1>1, <1>2, <1>3, <1>4, <1>5, EndQueue

\* A withdrawal ends its client's waiting and tells the lists of its places.
LEMMA WithdrawQueue ==
    ASSUME Inv, Queue, NEW t \in Txns, NEW u \in Users, Withdraw(t, u)
    PROVE  Queue' /\ OldestStep /\ PaidStep
<1> DEFINE old   == snap[t]
           mine  == {b \in Ids : IsActive(old, b) /\ old.booking[b].user = u}
           ps    == {old.booking[b].place : b \in mine}
           freed == [p \in Places |-> IF p \in ps THEN 1 ELSE 0]
           keys  == {u} \X Places
           mid   == DropWaits(old, keys)
<1>1. Commit(t, Notify(Release(Transition(mid, mine, "cancelled"), ps), freed), {})
  BY DEF Withdraw
<1>2. old \in Databases
  BY <1>1, SnapshotFacts
<1> HIDE DEF keys
<1>3. /\ mid \in Databases /\ mid.booking = old.booking /\ mid.slot = old.slot
      /\ mid.since = old.since
      /\ \A v \in Users, p \in Places :
            mid.wait[<<v, p>>] = old.wait[<<v, p>>] \/ mid.wait[<<v, p>>] = "none"
  BY <1>2, DropWaitsFacts, DropWaitsWaits
<1>4. mine \in SUBSET Ids /\ \A b \in mine : IsActive(old, b)
  OBVIOUS
<1>5. ps = {old.booking[b].place : b \in mine}
  OBVIOUS
<1>6. \A p \in Places : freed[p] = IF p \in ps THEN 1 ELSE 0
  OBVIOUS
<1> HIDE DEF mine, ps, mid, freed
<1> QED BY <1>1, <1>3, <1>4, <1>5, <1>6, EndQueue

\* A move tells the list of the place it leaves.
LEMMA RescheduleQueue ==
    ASSUME Inv, Queue, NEW t \in Txns, NEW b \in Ids, NEW p \in Places, Reschedule(t, b, p)
    PROVE  Queue' /\ OldestStep /\ PaidStep
<1> DEFINE old   == snap[t]
           row   == old.booking[b]
           from  == row.place
           ps    == {from}
           rel   == Release(old, ps)
           ins   == [rel EXCEPT !.booking[b] = BookingRow(row.user, p, row.status)]
           tak   == Take(ins, p)
           freed == Once(from)
           new   == Notify(tak, freed)
<1>1. /\ Commit(t, new, {}) /\ IsActive(old, b) /\ p # from /\ MayTake(rel, p)
  BY DEF Reschedule
<1>2. old \in Databases /\ Covers(old)
  BY <1>1, SnapshotFacts
<1>3. /\ row \in BookingRows /\ BookingRow(row.user, p, row.status) \in BookingRows
      /\ old.booking[b] = row
  <2>1. row \in BookingRows /\ old.booking[b] = row
    BY <1>1, <1>2 DEF Databases, IsActive, ActiveStatuses, NoBooking
  <2> HIDE DEF row
  <2> QED BY <2>1 DEF BookingRow, BookingRows
<1>4. from \in Places /\ old.booking[b].place = from
  BY <1>3 DEF BookingRows
<1>5. \A q \in Places : freed[q] = IF q = from THEN 1 ELSE 0
  BY DEF Once
<1> HIDE DEF old, row, from, freed
<1>6. /\ rel \in Databases
      /\ \A q \in Places :
            rel.slot[q] = IF q = from /\ old.slot[q].exists /\ old.slot[q].count > 0
                          THEN [old.slot[q] EXCEPT !.count = @ - 1] ELSE old.slot[q]
  BY <1>2, ReleaseFacts
<1>7. rel.wait = old.wait /\ rel.since = old.since
  BY <1>2, UpdatesAside
<1> HIDE DEF rel
<1>8. /\ ins \in Databases /\ ins.slot = rel.slot /\ ins.wait = old.wait /\ ins.since = old.since
  BY <1>3, <1>6, <1>7 DEF Databases
<1> HIDE DEF ins
<1>9. /\ tak \in Databases
      /\ tak.slot = [rel.slot EXCEPT ![p] = [rel.slot[p] EXCEPT !.count = @ + 1]]
  <2>1. /\ tak \in Databases
        /\ tak.slot = [ins.slot EXCEPT ![p] = [ins.slot[p] EXCEPT !.count = @ + 1]]
    BY <1>8, TakeFacts
  <2> QED BY <2>1, <1>8
<1>10. tak.wait = old.wait /\ tak.since = old.since
  BY <1>8, UpdatesAside
<1> HIDE DEF tak
<1>11. new \in Databases /\ new.slot = tak.slot
  BY <1>9, NotifyFacts
<1>12. /\ rel.slot[p] = old.slot[p]
       /\ \A q \in Places : q # p => tak.slot[q] = rel.slot[q]
       /\ \A q \in Places : q # p /\ q # from => tak.slot[q] = old.slot[q]
  BY <1>1, <1>6, <1>9 DEF Databases
<1>13. /\ tak.slot[from].limit = old.slot[from].limit
       /\ tak.slot[from].count = old.slot[from].count - 1
       /\ old.slot[from].count \in Nat
       /\ <<"slot", SlotOf[from]>> \in Changed(old, new)
  <2>1. old.slot[from].exists /\ old.slot[from].count > 0 /\ old.slot[from] \in Slots
    BY <1>1, <1>2, <1>4, BookedCounted
  <2>2. tak.slot[from] = [old.slot[from] EXCEPT !.count = @ - 1]
    BY <2>1, <1>1, <1>4, <1>6, <1>12
  <2>3. /\ tak.slot[from].limit = old.slot[from].limit
        /\ tak.slot[from].count = old.slot[from].count - 1 /\ tak.slot[from] # old.slot[from]
        /\ old.slot[from].count \in Nat
    BY <2>1, <2>2 DEF Slots
  <2> QED BY <2>3, <1>2, <1>4, <1>11, ChangedFacts
<1>14. Within(old) => Within(tak)
  <2> SUFFICES ASSUME Within(old), NEW q \in Places PROVE WithinLimit(tak, q)
    BY DEF Within
  <2>1. CASE q = p
    <3>1. tak.slot[p] = [old.slot[p] EXCEPT !.count = @ + 1] /\ old.slot[p] \in Slots
      BY <1>2, <1>6, <1>9, <1>12 DEF Databases
    <3>2. /\ tak.slot[p].limit = old.slot[p].limit
          /\ tak.slot[p].count = old.slot[p].count + 1 /\ old.slot[p].count \in Nat
          /\ old.slot[p].limit # NoLimit => old.slot[p].limit \in Nat
      BY <3>1 DEF Slots
    <3>3. old.slot[p].limit # NoLimit => old.slot[p].count < old.slot[p].limit
      BY <1>1, <1>12 DEF MayTake
    <3> QED BY <2>1, <3>2, <3>3 DEF WithinLimit
  <2>2. CASE q # p
    <3>1. Lowered(old, tak, q)
      BY <2>2, <1>2, <1>12, <1>13, SameLowered DEF Lowered
    <3> QED BY <3>1, <1>2, <1>9, LoweredWithin DEF Within
  <2> QED BY <2>1, <2>2
<1> DEFINE none == {}
<1>15. /\ none \in SUBSET Docs
       /\ \A u \in Users, q \in Places : WaitDoc(u, q) \notin none
  OBVIOUS
<1>16. Commit(t, new, none) /\ new = Notify(tak, freed)
  BY <1>1
<1>17. \A q \in Places : freed[q] \in Nat
  BY <1>5
<1>18. \A q \in Places : freed[q] > 0 =>
          /\ <<"slot", SlotOf[q]>> \in Changed(snap[t], new) \cup none
          /\ tak.slot[q].limit = snap[t].slot[q].limit
          /\ tak.slot[q].count = 0 \/ tak.slot[q].count = snap[t].slot[q].count - 1
  BY <1>5, <1>13 DEF old
<1>19. tak.since = snap[t].since /\ tak.wait = snap[t].wait /\ (Within(snap[t]) => Within(tak))
  BY <1>10, <1>14 DEF old
<1>20. \A u \in Users, q \in Places :
          tak.wait[<<u, q>>] = snap[t].wait[<<u, q>>] \/ tak.wait[<<u, q>>] = "none"
  BY <1>19
<1> HIDE DEF new, none, ps
<1>21. tak \in Databases
  BY <1>9
<1>22. tak.since = snap[t].since /\ (Within(snap[t]) => Within(tak))
  BY <1>19
<1> QED BY <1>15, <1>16, <1>17, <1>18, <1>20, <1>21, <1>22, NotifyQueue, SMTT(60)

\* A row joins behind every row its handler could have seen.
LEMMA JoinWaitlistQueue ==
    ASSUME Inv, Queue, NEW t \in Txns, NEW u \in Users, NEW p \in Places, JoinWaitlist(t, u, p)
    PROVE  Queue' /\ OldestStep /\ PaidStep
<1> DEFINE old   == snap[t]
           older == {v \in Users : old.wait[<<v, p>>] # "none" /\ <<"wait", <<v, p>>>> \notin dirty[t]}
           rows  == {v \in Users : db.wait[<<v, p>>] # "none"}
<1>0. Cardinality(rows) \in Nat
  BY FiniteAssumption, FS_Subset, FS_CardinalityType
<1>1. old.wait[<<u, p>>] = "none"
  BY Zenon DEF JoinWaitlist
<1>2. PICK r \in 0 .. Cardinality(rows) :
          /\ \A v \in older : db.since[<<v, p>>] <= r
          /\ Commit(t, [old EXCEPT !.wait[<<u, p>>] = "waiting", !.since[<<u, p>>] = r], {})
  BY Zenon DEF JoinWaitlist
<1>r. r \in Nat
  <2> HIDE DEF rows
  <2> QED BY <1>0, <1>2
<1> DEFINE new == [old EXCEPT !.wait[<<u, p>>] = "waiting", !.since[<<u, p>>] = r]
<1>3. Commit(t, new, {})
  BY <1>2
<1>4. old \in Databases /\ t \in open
  BY <1>3, SnapshotFacts DEF Commit
<1>5. \A v \in Users : WaitDoc(v, p) \notin dirty[t] /\ db.wait[<<v, p>>] # "none" => db.since[<<v, p>>] <= r
  <2> SUFFICES ASSUME NEW v \in Users, WaitDoc(v, p) \notin dirty[t], db.wait[<<v, p>>] # "none"
               PROVE  db.since[<<v, p>>] <= r
    OBVIOUS
  <2>1. old.wait[<<v, p>>] # "none"
    BY <1>4 DEF Queue, SnapWaits
  <2> QED BY <2>1, <1>2 DEF WaitDoc
<1> HIDE DEF older, rows
<1>6. /\ new \in Databases /\ new.slot = old.slot
      /\ new.wait[<<u, p>>] = "waiting" /\ new.since[<<u, p>>] = r
      /\ \A v \in Users, q \in Places :
            <<v, q>> # <<u, p>> => new.wait[<<v, q>>] = old.wait[<<v, q>>]
  <2>1. new = [old EXCEPT !.wait = [old.wait EXCEPT ![<<u, p>>] = "waiting"],
                          !.since = [old.since EXCEPT ![<<u, p>>] = r]]
    BY <1>4 DEF Databases
  <2> HIDE DEF old, new
  <2>2. /\ new.wait = [old.wait EXCEPT ![<<u, p>>] = "waiting"]
        /\ new.since = [old.since EXCEPT ![<<u, p>>] = r]
        /\ new.slot = old.slot /\ new \in Databases
    BY <2>1, <1>4, <1>r DEF Databases
  <2> QED BY <2>2, <1>4 DEF Databases
<1> HIDE DEF new
<1>7. Joins(t, new, u, p)
  BY <1>1, <1>5, <1>6 DEF Joins
<1>8. \A v \in Users, q \in Places : Recedes(old, new, v, q) \/ Joins(t, new, v, q)
  BY <1>6, <1>7 DEF Recedes
<1>9. \A v \in Users, q \in Places :
         old.wait[<<v, q>>] = "waiting" => new.wait[<<v, q>>] # "notified"
  BY <1>1, <1>6
<1>10. InLine(old, new)
  <2> SUFFICES ASSUME NEW v \in Users, NEW q \in Places, old.wait[<<v, q>>] = "waiting",
                      new.wait[<<v, q>>] = "notified"
               PROVE  FALSE
    BY DEF InLine
  <2> QED BY <1>9
<1>11. Within(old) => Within(new)
  BY <1>6 DEF Within, WithinLimit
<1> DEFINE none == {}
           docs == Changed(old, new) \cup none
<1>12. /\ none \in SUBSET Docs /\ Commit(t, new, none)
       /\ \A v \in Users, q \in Places : WaitDoc(v, q) \notin none
  BY <1>3
<1>13. PaidFor(old, new, docs)
  BY <1>9 DEF PaidFor
<1> HIDE DEF none
<1>14. QueueResult(t, new, docs)
  BY <1>8, <1>10, <1>11, <1>13 DEF QueueResult
<1> QED BY <1>6, <1>12, <1>14, CommitQueue

\* A slot added counts nothing.
LEMMA AddSlotQueue ==
    ASSUME Inv, Queue, NEW t \in Txns, NEW p \in Places, NEW l \in Limits, AddSlot(t, p, l)
    PROVE  Queue' /\ OldestStep /\ PaidStep
<1> DEFINE old  == snap[t]
           slot == [exists |-> TRUE, limit |-> l, count |-> 0]
           new  == [old EXCEPT !.slot[p] = slot]
<1>1. Commit(t, new, {<<"service">>})
  BY DEF AddSlot
<1>2. old \in Databases
  BY <1>1, SnapshotFacts
<1>3. slot \in Slots /\ slot.count = 0
  BY LimitAssumption DEF Slots
<1> HIDE DEF old, slot
<1>4. /\ new \in Databases /\ new.wait = old.wait /\ new.slot[p] = slot
      /\ \A q \in Places : q # p => new.slot[q] = old.slot[q]
  BY <1>2, <1>3 DEF Databases
<1> HIDE DEF new
<1>5. \A q \in Places : Lowered(old, new, q)
  BY <1>2, <1>3, <1>4, SameLowered DEF Lowered
<1> QED BY <1>1, <1>4, <1>5, TouchedFacts, TouchedRows, SameWaitsQueue DEF old

\* A change of limit tells nobody.
LEMMA SetLimitQueue ==
    ASSUME Inv, Queue, NEW t \in Txns, NEW p \in Places, NEW l \in Limits, SetLimit(t, p, l)
    PROVE  Queue' /\ OldestStep /\ PaidStep
<1> DEFINE old == snap[t]
           new == [old EXCEPT !.slot[p].limit = l]
<1>1. Commit(t, new, {<<"service">>}) /\ "setLimit" \in Operations
  BY DEF SetLimit
<1>2. old \in Databases
  BY <1>1, SnapshotFacts
<1> HIDE DEF old
<1>3. /\ new.wait = old.wait
      /\ new = [old EXCEPT !.slot = new.slot]
      /\ new.slot = [old.slot EXCEPT ![p] = [old.slot[p] EXCEPT !.limit = l]]
  BY <1>2 DEF Databases
<1>4. [old.slot[p] EXCEPT !.limit = l] \in Slots
  BY <1>2, LimitAssumption DEF Databases, Slots
<1>5. new \in Databases
  BY <1>2, <1>3, <1>4 DEF Databases
<1> HIDE DEF new
<1>6. \A u \in Users, q \in Places :
          new.wait[<<u, q>>] = old.wait[<<u, q>>] \/ new.wait[<<u, q>>] = "none"
  BY <1>3
<1> QED BY <1>1, <1>5, <1>6, TouchedFacts, TouchedRows, QuietQueue DEF old

\* Slots deleted, with rows of their lists or without.
LEMMA DropQueue ==
    ASSUME Inv, Queue, NEW t \in Txns, NEW new \in Databases, NEW touched \in SUBSET Docs,
           Commit(t, new, touched),
           \A u \in Users, p \in Places : WaitDoc(u, p) \notin touched,
           \A u \in Users, p \in Places :
               new.wait[<<u, p>>] = snap[t].wait[<<u, p>>] \/ new.wait[<<u, p>>] = "none",
           \A p \in Places : new.slot[p] = NoSlot \/ new.slot[p] = snap[t].slot[p]
    PROVE  Queue' /\ OldestStep /\ PaidStep
<1>1. snap[t] \in Databases
  BY SnapshotFacts
<1>2. \A p \in Places : Lowered(snap[t], new, p)
  BY <1>1, SameLowered DEF Lowered, NoSlot
<1>3. Within(snap[t]) => Within(new)
  BY <1>1, <1>2, LoweredWithin DEF Within
<1> QED BY <1>3, QuietQueue

\* A slot removed leaves its rows alone.
LEMMA RemoveSlotQueue ==
    ASSUME Inv, Queue, NEW t \in Txns, NEW ps, RemoveSlot(t, ps)
    PROVE  Queue' /\ OldestStep /\ PaidStep
<1> DEFINE old == snap[t]
           new == DropSlots(old, ps)
<1>1. Commit(t, new, {<<"service">>})
  BY DEF RemoveSlot
<1>2. old \in Databases
  BY <1>1, SnapshotFacts
<1> HIDE DEF old
<1>3. /\ new \in Databases
      /\ \A p \in Places : new.slot[p] = NoSlot \/ new.slot[p] = old.slot[p]
  BY <1>2, DropSlotsFacts
<1>4. new.wait = old.wait
  BY <1>2, UpdatesAside
<1> HIDE DEF new
<1>5. \A u \in Users, p \in Places :
          new.wait[<<u, p>>] = old.wait[<<u, p>>] \/ new.wait[<<u, p>>] = "none"
  BY <1>4
<1> QED BY <1>1, <1>3, <1>5, TouchedFacts, TouchedRows, DropQueue DEF old

\* A slot closed and removed takes its rows with it.
LEMMA CloseAndRemoveQueue ==
    ASSUME Inv, Queue, NEW t \in Txns, NEW ps, CloseAndRemove(t, ps)
    PROVE  Queue' /\ OldestStep /\ PaidStep
<1> DEFINE old  == snap[t]
           gone == ActiveOf(old, ps)
           tr   == Transition(old, gone, "cancelled")
           drop == DropSlots(tr, ps)
           keys == Users \X ps
           new  == DropWaits(drop, keys)
<1>1. Commit(t, new, {<<"service">>})
  BY DEF CloseAndRemove
<1>2. old \in Databases
  BY <1>1, SnapshotFacts
<1> HIDE DEF old, keys
<1>3. tr \in Databases /\ tr.slot = old.slot
  BY <1>2, EndAll
<1>4. tr.wait = old.wait
  BY <1>2, UpdatesAside
<1> HIDE DEF tr
<1>5. /\ drop \in Databases
      /\ \A p \in Places : drop.slot[p] = IF p \in ps THEN NoSlot ELSE tr.slot[p]
  BY <1>3, DropSlotsFacts
<1>6. drop.wait = old.wait
  BY <1>3, <1>4, UpdatesAside
<1> HIDE DEF drop
<1>7. new \in Databases /\ new.slot = drop.slot
  BY <1>5, DropWaitsFacts
<1>8. \A u \in Users, p \in Places :
          new.wait[<<u, p>>] = old.wait[<<u, p>>] \/ new.wait[<<u, p>>] = "none"
  BY <1>5, <1>6, DropRows
<1> HIDE DEF new
<1>9. \A p \in Places : new.slot[p] = NoSlot \/ new.slot[p] = old.slot[p]
  BY <1>3, <1>5, <1>7
<1> QED BY <1>1, <1>7, <1>8, <1>9, TouchedFacts, TouchedRows, DropQueue DEF old

\* A slot that has expired takes its rows with it.
LEMMA SlotExpiryQueue ==
    ASSUME Inv, Queue, NEW t \in Txns, NEW s \in SlotDocs, SlotExpiry(t, s)
    PROVE  Queue' /\ OldestStep /\ PaidStep
<1> DEFINE old  == snap[t]
           ps   == PlacesOf(s)
           gone == ActiveOf(old, ps)
           drop == DropSlots(old, ps)
           dbk  == DropBookings(drop, gone)
           keys == Users \X ps
           new  == DropWaits(dbk, keys)
<1>1. Commit(t, new, {})
  BY DEF SlotExpiry
<1>2. old \in Databases
  BY <1>1, SnapshotFacts
<1> HIDE DEF old, ps, gone, keys
<1>3. /\ drop \in Databases
      /\ \A p \in Places : drop.slot[p] = IF p \in ps THEN NoSlot ELSE old.slot[p]
  BY <1>2, DropSlotsFacts
<1>4. drop.wait = old.wait
  BY <1>2, UpdatesAside
<1> HIDE DEF drop
<1>5. dbk \in Databases /\ dbk.slot = drop.slot
  BY <1>3, DropBookingsFacts
<1>6. dbk.wait = old.wait
  BY <1>3, <1>4, UpdatesAside
<1> HIDE DEF dbk
<1>7. new \in Databases /\ new.slot = dbk.slot
  BY <1>5, DropWaitsFacts
<1>8. \A u \in Users, p \in Places :
          new.wait[<<u, p>>] = old.wait[<<u, p>>] \/ new.wait[<<u, p>>] = "none"
  BY <1>5, <1>6, DropRows
<1> HIDE DEF new
<1>9. \A p \in Places : new.slot[p] = NoSlot \/ new.slot[p] = old.slot[p]
  BY <1>3, <1>5, <1>7
<1> QED BY <1>1, <1>7, <1>8, <1>9, TouchedFacts, TouchedRows, DropQueue DEF old

\* A purge takes every slot and every row.
LEMMA PurgeCommitQueue ==
    ASSUME Inv, Queue, NEW t \in Txns, Commit(t, [EmptyDb EXCEPT !.service = "gone"], {})
    PROVE  Queue' /\ OldestStep /\ PaidStep
<1> DEFINE new == [EmptyDb EXCEPT !.service = "gone"]
<1>1. Commit(t, new, {})
  OBVIOUS
<1>2. /\ new \in Databases
      /\ \A p \in Places : new.slot[p] = NoSlot
  BY EmptyFacts DEF Databases, EmptyDb
<1>3. \A u \in Users, p \in Places : new.wait[<<u, p>>] = "none"
  BY DEF EmptyDb
<1> HIDE DEF new
<1> QED BY <1>1, <1>2, <1>3, TouchedFacts, TouchedRows, DropQueue

\* Trashing tells nobody: the lists go with the bookings.
LEMMA DeleteQueue ==
    ASSUME Inv, Queue, NEW t \in Txns, Delete(t)
    PROVE  Queue' /\ OldestStep /\ PaidStep
<1> DEFINE old   == snap[t]
           trash == [old EXCEPT !.service = "trashed"]
           gone  == ActiveOf(old, Places)
           timed == {p \in Places : SlotOf[p] \in TimedSlots /\ old.slot[p].exists}
           keys  == SlotKeys(timed) \cup {<<"service">>}
           rows  == Users \X Places
           tr    == Transition(trash, gone, "cancelled")
           wt    == DropWaits(tr, rows)
           new   == ClearCounts(wt, Places)
<1>1. CASE gone = {}
  <2>1. Commit(t, trash, {<<"service">>})
    BY <1>1 DEF Delete
  <2>2. old \in Databases
    BY <2>1, SnapshotFacts
  <2> HIDE DEF old
  <2>3. trash \in Databases /\ trash.slot = old.slot /\ trash.wait = old.wait
    BY <2>2 DEF Databases
  <2> HIDE DEF trash
  <2>4. \A p \in Places : Lowered(old, trash, p)
    BY <2>2, <2>3, SameLowered
  <2> QED BY <2>1, <2>3, <2>4, TouchedFacts, TouchedRows, SameWaitsQueue DEF old
<1>2. CASE gone # {}
  <2>1. Commit(t, new, keys)
    BY <1>2 DEF Delete
  <2>2. old \in Databases
    BY <2>1, SnapshotFacts
  <2>3. keys \in SUBSET Docs /\ \A u \in Users, p \in Places : WaitDoc(u, p) \notin keys
    BY TouchedFacts, TouchedRows
  <2> HIDE DEF old, keys, timed, rows
  <2>4. trash \in Databases /\ trash.booking = old.booking /\ trash.slot = old.slot
    BY <2>2 DEF Databases
  <2>5. /\ gone \in SUBSET Ids /\ "cancelled" \in Statuses
        /\ \A b \in gone : trash.booking[b] # NoBooking
    BY <2>4 DEF ActiveOf, IsActive, ActiveStatuses, Statuses, NoBooking
  <2>6. trash.wait = old.wait
    BY <2>2 DEF Databases
  <2> HIDE DEF trash, gone
  <2>7. tr \in Databases /\ tr.slot = old.slot
    BY <2>4, <2>5, TransitionFacts
  <2>8. tr.wait = old.wait
    BY <2>4, <2>6, UpdatesAside
  <2> HIDE DEF tr
  <2>9. wt \in Databases /\ wt.slot = old.slot
    BY <2>7, DropWaitsFacts
  <2>10. \A u \in Users, p \in Places :
            wt.wait[<<u, p>>] = old.wait[<<u, p>>] \/ wt.wait[<<u, p>>] = "none"
    BY <2>7, <2>8, DropRows
  <2> HIDE DEF wt
  <2>11. /\ new \in Databases
         /\ \A p \in Places : new.slot[p] = IF p \in Places /\ old.slot[p].exists
                                            THEN [old.slot[p] EXCEPT !.count = 0] ELSE old.slot[p]
    BY <2>9, ClearCountsFacts
  <2>12. new.wait = wt.wait
    BY <2>9, UpdatesAside
  <2> HIDE DEF new
  <2>13. \A p \in Places : Lowered(old, new, p)
    BY <2>2, <2>11, ClearedLowered
  <2>14. Within(old) => Within(new)
    BY <2>2, <2>11, <2>13, LoweredWithin DEF Within
  <2>15. \A u \in Users, p \in Places :
            new.wait[<<u, p>>] = old.wait[<<u, p>>] \/ new.wait[<<u, p>>] = "none"
    BY <2>10, <2>12
  <2> QED BY <2>1, <2>3, <2>11, <2>14, <2>15, QuietQueue DEF old
<1> QED BY <1>1, <1>2

\* A close tells the lists of its places as many rows as bookings it cancels.
LEMMA CloseQueue ==
    ASSUME Inv, Queue, NEW t \in Txns, NEW ps \in SUBSET Places, Close(t, ps)
    PROVE  Queue' /\ OldestStep /\ PaidStep
<1> DEFINE old   == snap[t]
           gone  == ActiveOf(old, ps)
           at(p) == {b \in gone : old.booking[b].place = p}
           freed == [p \in Places |-> Cardinality(at(p))]
           keys  == SlotKeys({p \in ps : old.slot[p].exists})
           tr    == Transition(old, gone, "cancelled")
           clr   == ClearCounts(tr, ps)
           new   == Notify(clr, freed)
<1>1. Commit(t, new, keys)
  BY DEF Close
<1>2. old \in Databases /\ Covers(old)
  BY <1>1, SnapshotFacts
<1>3. /\ keys \in SUBSET Docs
      /\ \A u \in Users, p \in Places : WaitDoc(u, p) \notin keys
  BY TouchedFacts, TouchedRows
<1>4. \A p \in Places : /\ freed[p] \in Nat
                        /\ freed[p] > 0 => \E b \in gone : old.booking[b].place = p
  <2> SUFFICES ASSUME NEW p \in Places
               PROVE  /\ Cardinality(at(p)) \in Nat
                      /\ Cardinality(at(p)) > 0 => at(p) # {}
    OBVIOUS
  <2>1. IsFiniteSet(at(p)) /\ Cardinality(at(p)) \in Nat
    BY FiniteAssumption, FS_Subset, FS_CardinalityType DEF ActiveOf
  <2>2. at(p) = {} => Cardinality(at(p)) = 0
    BY FS_EmptySet
  <2> HIDE DEF at
  <2> QED BY <2>1, <2>2
<1>5. ASSUME NEW p \in Places, freed[p] > 0
      PROVE  p \in ps /\ old.slot[p].exists /\ <<"slot", SlotOf[p]>> \in keys
  <2>1. PICK b \in gone : old.booking[b].place = p
    BY <1>4, <1>5
  <2>2. b \in Ids /\ IsActive(old, b) /\ p \in ps
    BY <2>1 DEF ActiveOf
  <2>3. old.slot[p].exists
    BY <2>1, <2>2, <1>2, BookedCounted
  <2> QED BY <2>2, <2>3 DEF SlotKeys
<1> HIDE DEF old, freed, keys
<1>6. tr \in Databases /\ tr.slot = old.slot
  BY <1>2, EndAll
<1>7. tr.wait = old.wait /\ tr.since = old.since
  BY <1>2, UpdatesAside
<1> HIDE DEF gone, tr
<1>8. /\ clr \in Databases
      /\ \A p \in Places : clr.slot[p] = IF p \in ps /\ old.slot[p].exists
                                         THEN [old.slot[p] EXCEPT !.count = 0] ELSE old.slot[p]
  BY <1>6, ClearCountsFacts
<1>9. clr.wait = old.wait /\ clr.since = old.since
  BY <1>6, <1>7, UpdatesAside
<1> HIDE DEF clr
<1>10. new \in Databases /\ new = Notify(clr, freed)
  BY <1>8, NotifyFacts
<1> HIDE DEF new
<1>11. \A p \in Places : Lowered(old, clr, p)
  BY <1>2, <1>8, ClearedLowered
<1>12. Within(old) => Within(clr)
  BY <1>2, <1>8, <1>11, LoweredWithin DEF Within
<1>13. ASSUME NEW p \in Places, freed[p] > 0
       PROVE  /\ <<"slot", SlotOf[p]>> \in Changed(old, new) \cup keys
              /\ clr.slot[p].limit = old.slot[p].limit
              /\ clr.slot[p].count = 0 \/ clr.slot[p].count = old.slot[p].count - 1
  <2>1. p \in ps /\ old.slot[p].exists /\ <<"slot", SlotOf[p]>> \in keys
    BY <1>5, <1>13
  <2>2. clr.slot[p] = [old.slot[p] EXCEPT !.count = 0] /\ old.slot[p] \in Slots
    BY <2>1, <1>2, <1>8 DEF Databases
  <2>3. clr.slot[p].limit = old.slot[p].limit /\ clr.slot[p].count = 0
    BY <2>2 DEF Slots
  <2> QED BY <2>1, <2>3
<1>14. \A u \in Users, p \in Places :
          clr.wait[<<u, p>>] = old.wait[<<u, p>>] \/ clr.wait[<<u, p>>] = "none"
  BY <1>9
<1>15. \A p \in Places : freed[p] \in Nat
  BY <1>4
<1>16. clr \in Databases /\ clr.since = snap[t].since /\ (Within(snap[t]) => Within(clr))
  BY <1>8, <1>9, <1>12 DEF old
<1>17. \A u \in Users, p \in Places :
          clr.wait[<<u, p>>] = snap[t].wait[<<u, p>>] \/ clr.wait[<<u, p>>] = "none"
  BY <1>14 DEF old
<1>18. \A p \in Places : freed[p] > 0 =>
          /\ <<"slot", SlotOf[p]>> \in Changed(snap[t], new) \cup keys
          /\ clr.slot[p].limit = snap[t].slot[p].limit
          /\ clr.slot[p].count = 0 \/ clr.slot[p].count = snap[t].slot[p].count - 1
  BY <1>13 DEF old
<1> QED BY <1>1, <1>3, <1>10, <1>15, <1>16, <1>17, <1>18, NotifyQueue, SMTT(60)

-----------------------------------------------------------------------------
(* Steps outside the handlers, and the whole.                              *)

\* A write that lets rows go and tells nobody, and changes no counter.
LEMMA AsideQueue ==
    ASSUME Inv, Queue, NEW d \in Databases, d.slot = db.slot,
           NEW docs \in SUBSET Docs, NEW closed \in SUBSET Txns, Write(d, docs, closed),
           \A u \in Users, p \in Places :
               d.wait[<<u, p>>] = IF WaitDoc(u, p) \in docs THEN "none" ELSE db.wait[<<u, p>>],
           \A u, v \in Users, p \in Places :
               d.wait[<<u, p>>] # "none" /\ d.wait[<<v, p>>] # "none" =>
                   (d.since[<<u, p>>] < d.since[<<v, p>>] <=> db.since[<<u, p>>] < db.since[<<v, p>>])
    PROVE  Queue' /\ OldestStep /\ PaidStep
<1>1. /\ db' = d
      /\ \A x \in open' : x \in open /\ snap'[x] = snap[x] /\ dirty'[x] = dirty[x] \cup docs
      /\ \A x \in Txns \ open' : dirty'[x] = {}
  BY WriteFacts DEF Inv, Write
<1>2. \A u \in Users, p \in Places :
          /\ d.wait[<<u, p>>] # "none" => d.wait[<<u, p>>] = db.wait[<<u, p>>]
          /\ WaitDoc(u, p) \notin docs => d.wait[<<u, p>>] = db.wait[<<u, p>>]
  OBVIOUS
<1>3. \A u, v \in Users, p \in Places :
          d.wait[<<u, p>>] # "none" /\ d.wait[<<v, p>>] # "none" =>
              (d.since[<<u, p>>] < d.since[<<v, p>>] <=> db.since[<<u, p>>] < db.since[<<v, p>>])
  OBVIOUS
<1>4. SnapWaits'
  <2> SUFFICES ASSUME NEW x \in open', NEW u \in Users, NEW p \in Places,
                      WaitDoc(u, p) \notin dirty'[x]
               PROVE  snap'[x].wait[<<u, p>>] = d.wait[<<u, p>>]
    BY <1>1 DEF SnapWaits, WaitDoc
  <2>1. x \in open /\ snap'[x] = snap[x] /\ WaitDoc(u, p) \notin dirty[x] /\ WaitDoc(u, p) \notin docs
    BY <1>1
  <2> QED BY <2>1, <1>2 DEF Queue, SnapWaits
<1>5. SnapOrder'
  <2> SUFFICES ASSUME NEW x \in open', NEW u \in Users, NEW v \in Users, NEW p \in Places,
                      WaitDoc(u, p) \notin dirty'[x], WaitDoc(v, p) \notin dirty'[x],
                      d.wait[<<u, p>>] # "none", d.wait[<<v, p>>] # "none",
                      d.since[<<u, p>>] < d.since[<<v, p>>]
               PROVE  snap'[x].since[<<u, p>>] < snap'[x].since[<<v, p>>]
    BY <1>1 DEF SnapOrder, WaitDoc
  <2>1. /\ x \in open /\ snap'[x] = snap[x]
        /\ WaitDoc(u, p) \notin dirty[x] /\ WaitDoc(v, p) \notin dirty[x]
    BY <1>1
  <2>2. /\ db.wait[<<u, p>>] # "none" /\ db.wait[<<v, p>>] # "none"
        /\ db.since[<<u, p>>] < db.since[<<v, p>>]
    BY <1>2, <1>3
  <2> QED BY <2>1, <2>2 DEF Queue, SnapOrder
<1>6. Rejoined'
  <2> SUFFICES ASSUME NEW x \in open', NEW u \in Users, NEW v \in Users, NEW p \in Places,
                      WaitDoc(u, p) \in dirty'[x], WaitDoc(v, p) \notin dirty'[x],
                      snap'[x].wait[<<u, p>>] = "waiting", d.wait[<<u, p>>] = "waiting",
                      d.wait[<<v, p>>] # "none"
               PROVE  d.since[<<v, p>>] < d.since[<<u, p>>]
    BY <1>1 DEF Rejoined, WaitDoc
  <2>1. /\ x \in open /\ snap'[x] = snap[x] /\ dirty'[x] = dirty[x] \cup docs
        /\ WaitDoc(v, p) \notin dirty[x]
    BY <1>1
  <2>2. db.wait[<<u, p>>] = "waiting" /\ db.wait[<<v, p>>] # "none" /\ WaitDoc(u, p) \notin docs
    BY <1>2
  <2>3. db.since[<<v, p>>] < db.since[<<u, p>>]
    BY <2>1, <2>2 DEF Queue, Rejoined
  <2> QED BY <2>3, <1>3
<1>7. Nested'
  BY <1>1 DEF Queue, Nested
<1>8. ("setLimit" \notin Operations => Room)'
  BY <1>1 DEF Queue, Room, Within, WithinLimit
<1>9. OldestStep
  BY <1>1, <1>2 DEF OldestStep
<1>10. PaidStep
  BY <1>1, <1>2 DEF PaidStep
<1> QED BY <1>4, <1>5, <1>6, <1>7, <1>8, <1>9, <1>10 DEF Queue

\* Leaving a list, restoring a service, and a transaction that does not commit.
LEMMA OutsideQueue ==
    ASSUME Inv, Queue,
           \/ \E u \in Users, p \in Places : LeaveWaitlist(u, p)
           \/ Restore
           \/ \E t \in Txns : Abort(t)
    PROVE  Queue' /\ OldestStep /\ PaidStep
<1>0. db \in Databases
  BY DEF Inv, TypeOK
<1>1. ASSUME NEW u \in Users, NEW p \in Places, LeaveWaitlist(u, p)
      PROVE  Queue' /\ OldestStep /\ PaidStep
  <2> DEFINE keys == {<<u, p>>}
             drop == DropWaits(db, keys)
             d    == Merge(db, db, drop)
             docs == {WaitDoc(u, p)}
  <2>1. Write(d, docs, {}) /\ db.wait[<<u, p>>] # "none"
    BY <1>1, Zenon DEF LeaveWaitlist, WaitDoc
  <2>2. \A v \in Users, q \in Places : WaitDoc(v, q) \in docs <=> <<v, q>> \in keys
    BY DEF WaitDoc
  <2>3. docs \in SUBSET Docs
    BY DEF Docs, WaitDoc
  <2> HIDE DEF keys, docs
  <2>4. drop \in Databases /\ drop.slot = db.slot
    BY <1>0, DropWaitsFacts
  <2>5. drop.since = db.since
    BY <1>0, DropWaitsWaits
  <2>6. \A v \in Users, q \in Places :
           drop.wait[<<v, q>>] = IF <<v, q>> \in keys THEN "none" ELSE db.wait[<<v, q>>]
    BY <1>0 DEF DropWaits, Databases
  <2> HIDE DEF drop
  <2>7. d \in Databases /\ \A q \in Places : d.slot[q] = db.slot[q]
    BY <1>0, <2>4, MergeFacts
  <2>8. /\ \A v \in Users, q \in Places : d.wait[<<v, q>>]
             = IF db.wait[<<v, q>>] # drop.wait[<<v, q>>] THEN drop.wait[<<v, q>>] ELSE db.wait[<<v, q>>]
        /\ \A v, w \in Users, q \in Places :
             d.wait[<<v, q>>] # "none" /\ d.wait[<<w, q>>] # "none" =>
                (d.since[<<v, q>>] < d.since[<<w, q>>]
                    <=> Raw(db, drop.since, v, q) < Raw(db, drop.since, w, q))
    BY <1>0, <2>4, MergeWaits
  <2> HIDE DEF d
  <2>9. d.slot = db.slot
    BY <1>0, <2>7 DEF Databases
  <2>10. \A v \in Users, q \in Places :
            d.wait[<<v, q>>] = IF WaitDoc(v, q) \in docs THEN "none" ELSE db.wait[<<v, q>>]
    BY <2>2, <2>6, <2>8
  <2>11. \A v \in Users, q \in Places :
            /\ db.since[<<v, q>>] \in Nat
            /\ d.wait[<<v, q>>] # "none" => Raw(db, drop.since, v, q) = 2 * db.since[<<v, q>>]
    BY <1>0, <2>10 DEF Raw, Databases
  <2>12. \A v, w \in Users, q \in Places :
             d.wait[<<v, q>>] # "none" /\ d.wait[<<w, q>>] # "none" =>
                (d.since[<<v, q>>] < d.since[<<w, q>>] <=> db.since[<<v, q>>] < db.since[<<w, q>>])
    BY <2>8, <2>11
  <2> QED BY <2>1, <2>3, <2>7, <2>9, <2>10, <2>12, AsideQueue
<1>2. ASSUME Restore PROVE Queue' /\ OldestStep /\ PaidStep
  <2> DEFINE d == [db EXCEPT !.service = "live"]
             docs == {<<"service">>}
  <2>1. Write(d, docs, {})
    BY <1>2 DEF Restore
  <2>2. d \in Databases /\ d.slot = db.slot /\ d.wait = db.wait /\ d.since = db.since
    BY <1>0 DEF Databases
  <2>3. docs \in SUBSET Docs /\ \A u \in Users, p \in Places : WaitDoc(u, p) \notin docs
    BY TouchedFacts, TouchedRows
  <2> HIDE DEF d, docs
  <2> QED BY <2>1, <2>2, <2>3, AsideQueue
<1>3. ASSUME NEW t \in Txns, Abort(t) PROVE Queue' /\ OldestStep /\ PaidStep
  <2> DEFINE docs == {}
  <2>1. Write(db, docs, {t})
    BY <1>3 DEF Abort
  <2>2. docs \in SUBSET Docs /\ \A u \in Users, p \in Places : WaitDoc(u, p) \notin docs
    OBVIOUS
  <2> HIDE DEF docs
  <2> QED BY <2>1, <2>2, <1>0, AsideQueue
<1> QED BY <1>1, <1>2, <1>3

\* A new snapshot has missed nothing.
LEMMA BeginQueue ==
    ASSUME Inv, Queue, NEW t \in Txns, Begin(t)
    PROVE  Queue' /\ OldestStep /\ PaidStep
<1>1. /\ db' = db /\ dirty' = dirty /\ dirty[t] = {}
      /\ open' = open \cup {t}
      /\ \A x \in open' : IF x = t THEN snap'[x] = db ELSE x \in open /\ snap'[x] = snap[x]
  BY DEF Begin, Inv, TypeOK, Queue, Nested
<1>2. SnapWaits'
  BY <1>1 DEF Queue, SnapWaits, WaitDoc
<1>3. SnapOrder'
  BY <1>1 DEF Queue, SnapOrder, WaitDoc
<1>4. Rejoined'
  <2> SUFFICES ASSUME NEW x \in open', NEW u \in Users, NEW v \in Users, NEW p \in Places,
                      WaitDoc(u, p) \in dirty[x], WaitDoc(v, p) \notin dirty[x],
                      snap'[x].wait[<<u, p>>] = "waiting", db.wait[<<u, p>>] = "waiting",
                      db.wait[<<v, p>>] # "none"
               PROVE  db.since[<<v, p>>] < db.since[<<u, p>>]
    BY <1>1 DEF Rejoined, WaitDoc
  <2> QED BY <1>1 DEF Queue, Rejoined
<1>5. Nested'
  BY <1>1 DEF Queue, Nested
<1>6. ("setLimit" \notin Operations => Room)'
  BY <1>1 DEF Queue, Room, Within, WithinLimit
<1>7. OldestStep /\ PaidStep
  <2>1. db.wait' = db.wait
    BY <1>1
  <2> QED BY <1>1, <2>1 DEF OldestStep, PaidStep
<1> QED BY <1>2, <1>3, <1>4, <1>5, <1>6, <1>7 DEF Queue

\* At the start nobody waits and every counter is zero.
LEMMA InitQueue == Init => Queue
<1> SUFFICES ASSUME Init PROVE Queue
  OBVIOUS
<1> PICK f \in [Places -> Limits] :
           db = [EmptyDb EXCEPT !.slot =
                    [p \in Places |-> [exists |-> TRUE, limit |-> f[p], count |-> 0]]]
  BY DEF Init
<1>1. \A p \in Places : db.slot[p].count = 0 /\ db.slot[p].limit \in Limits
  BY DEF EmptyDb
<1>2. Within(db)
  BY <1>1, LimitAssumption DEF Within, WithinLimit
<1>3. open = {} /\ \A t \in Txns : dirty[t] = {}
  BY DEF Init
<1> QED BY <1>2, <1>3 DEF Queue, SnapWaits, SnapOrder, Rejoined, Nested, Room

\* Every step keeps the queue.
LEMMA NextQueue == Inv /\ Queue /\ [Next]_vars => Queue' /\ OldestStep /\ PaidStep
<1> SUFFICES ASSUME Inv, Queue, [Next]_vars PROVE Queue' /\ OldestStep /\ PaidStep
  OBVIOUS
<1>1. ASSUME NEW t \in Txns, BookingStep(t) PROVE Queue' /\ OldestStep /\ PaidStep
  <2>1. CASE \E u \in Users, b \in Ids, p \in Places, s \in ActiveStatuses : Create(t, u, b, p, s)
    BY <2>1, CreateQueue
  <2>2. CASE \E b \in Ids : Cancel(t, b)
    BY <2>2, CancelQueue
  <2>3. CASE \E u \in Users : Withdraw(t, u)
    BY <2>3, WithdrawQueue
  <2>4. CASE \/ \E b \in Ids, to \in Statuses : SetStatus(t, b, to)
             \/ \E b \in Ids : CheckIn(t, b)
             \/ \E b \in Ids : MarkNoShow(t, b)
    BY <2>4, StatusesQueue
  <2>5. CASE \E b \in Ids, p \in Places : Reschedule(t, b, p)
    BY <2>5, RescheduleQueue
  <2>6. CASE \E u \in Users, p \in Places : JoinWaitlist(t, u, p)
    BY <2>6, JoinWaitlistQueue
  <2> QED BY <1>1, <2>1, <2>2, <2>3, <2>4, <2>5, <2>6 DEF BookingStep
<1>2. ASSUME NEW t \in Txns, AdminStep(t) PROVE Queue' /\ OldestStep /\ PaidStep
  <2>0. Targets \subseteq SUBSET Places
    BY DEF Targets, PlacesOf
  <2>1. CASE \E p \in Places, l \in Limits : AddSlot(t, p, l)
    BY <2>1, AddSlotQueue
  <2>2. CASE \E p \in Places, l \in Limits : SetLimit(t, p, l)
    BY <2>2, SetLimitQueue
  <2>3. CASE \E ps \in Targets : RemoveSlot(t, ps)
    BY <2>3, RemoveSlotQueue
  <2>4. CASE \E ps \in Targets : Close(t, ps)
    BY <2>0, <2>4, CloseQueue
  <2>5. CASE \E ps \in Targets : CloseAndRemove(t, ps)
    BY <2>5, CloseAndRemoveQueue
  <2>6. CASE Delete(t)
    BY <2>6, DeleteQueue
  <2>7. CASE Purge(t)
    BY <2>7, PurgeCommitQueue DEF Purge
  <2>8. CASE \E s \in SlotDocs : SlotExpiry(t, s)
    BY <2>8, SlotExpiryQueue
  <2> QED BY <1>2, <2>1, <2>2, <2>3, <2>4, <2>5, <2>6, <2>7, <2>8 DEF AdminStep
<1>3. ASSUME NEW t \in Txns, Begin(t) PROVE Queue' /\ OldestStep /\ PaidStep
  BY <1>3, BeginQueue
<1>4. CASE \/ \E u \in Users, p \in Places : LeaveWaitlist(u, p)
           \/ Restore
           \/ \E t \in Txns : Abort(t)
  BY <1>4, OutsideQueue
<1>5. CASE UNCHANGED vars
  <2>1. db' = db /\ open' = open /\ snap' = snap /\ dirty' = dirty
    BY <1>5 DEF vars
  <2>2. Queue'
    BY <2>1 DEF Queue, SnapWaits, SnapOrder, Rejoined, Nested, Room, Within, WithinLimit, WaitDoc
  <2>3. OldestStep /\ PaidStep
    BY <2>1 DEF OldestStep, PaidStep
  <2> QED BY <2>2, <2>3
<1> QED BY <1>1, <1>2, <1>3, <1>4, <1>5 DEF Next

\* The lists and the snapshots agree on what no conflict would catch.
THEOREM QueueInvariant == Spec => [](Inv /\ Queue)
<1>1. Init => Queue
  BY InitQueue
<1>2. Inv /\ Queue /\ [Next]_vars => Queue'
  BY NextQueue
<1> QED BY <1>1, <1>2, Invariant, PTL DEF Spec

\* Nobody on a waiting list is overtaken by a row that any handler claims:
\* whatever was claimed, left or joined since the handler's snapshot, the rows
\* older than the one it claims do not go on waiting.
THEOREM OldestIsFirst == Spec => OldestFirst
<1>1. Inv /\ Queue /\ [Next]_vars =>
          [\A t \in open \ open', u, v \in Users, p \in Places :
              /\ snap[t].wait[u, p] = "waiting" /\ db.wait[u, p] = "waiting"
              /\ db.since[u, p] < db.since[v, p]
              /\ db.wait[v, p] = "waiting" /\ db'.wait[v, p] = "notified"
              => db'.wait[u, p] # "waiting"]_vars
  <2>1. Inv /\ Queue /\ [Next]_vars => OldestStep
    BY NextQueue
  <2> QED BY <2>1, Zenon DEF OldestStep
<1> QED BY <1>1, QueueInvariant, PTL DEF Spec, OldestFirst

\* A client is told only of a place that can be booked, wherever limits are
\* not changed: the notice goes with a place given back, and every counter
\* was within its limit.
THEOREM NoticesMeanRoom ==
    ASSUME "setLimit" \notin Operations
    PROVE  Spec => NoticeMeansRoom
<1>1. Inv /\ Queue /\ [Next]_vars =>
          [\A u \in Users, p \in Places :
              /\ db.wait[u, p] = "waiting" /\ db'.wait[u, p] = "notified"
              => db'.slot[p].limit = NoLimit \/ db'.slot[p].count < db'.slot[p].limit]_vars
  <2> SUFFICES ASSUME Inv, Queue, [Next]_vars
               PROVE  \A u \in Users, p \in Places :
                        /\ db.wait[u, p] = "waiting" /\ db'.wait[u, p] = "notified"
                        => db'.slot[p].limit = NoLimit \/ db'.slot[p].count < db'.slot[p].limit
    OBVIOUS
  <2>1. PaidStep
    BY NextQueue
  <2>2. \A u \in Users, p \in Places :
           db.wait[<<u, p>>] = "waiting" /\ db'.wait[<<u, p>>] = "notified" =>
              db'.slot[p].limit = NoLimit \/ db'.slot[p].count < db'.slot[p].limit
    <3> SUFFICES ASSUME NEW u \in Users, NEW p \in Places,
                        db.wait[<<u, p>>] = "waiting", db'.wait[<<u, p>>] = "notified",
                        db'.slot[p].limit # NoLimit
                 PROVE  db'.slot[p].count < db'.slot[p].limit
      OBVIOUS
    <3>1. /\ db'.slot[p].limit = db.slot[p].limit
          /\ db'.slot[p].count = 0 \/ db'.slot[p].count = db.slot[p].count - 1
      BY <2>1 DEF PaidStep
    <3>2. WithinLimit(db, p)
      BY DEF Queue, Room, Within
    <3>3. /\ db.slot[p].count \in Nat
          /\ db.slot[p].limit # NoLimit => db.slot[p].limit \in Nat \ {0}
      BY DEF Inv, TypeOK, Databases, Slots
    <3> QED BY <3>1, <3>2, <3>3 DEF WithinLimit
  <2> QED BY <2>2, Zenon
<1> QED BY <1>1, QueueInvariant, PTL DEF Spec, NoticeMeansRoom

-----------------------------------------------------------------------------
(* The maintenance jobs.                                                   *)

\* The collected ids are bookings.
JobOK == job \in JobRuns /\ doomed \in BOOLEAN /\ added \subseteq Places

\* Every place that exists has been seen by the run of stale_bookings, has been
\* added behind its back, or is in a slot its cursor has not reached.
Seen ==
    job.pc # "idle" =>
        \A p \in Places : db.slot[p].exists =>
            \/ p \in job.live \cup added
            \/ job.pc = "slots" /\ SlotOf[p] \in job.unread

MInv == Inv /\ JobOK /\ Seen

\* What a step may collect.
CollectStep == \A b \in job'.stale \ job.stale : db.booking[b].place \in added

AddedStep ==
    added' = IF job'.pc = "idle" THEN {}
             ELSE added \cup {p \in Places : ~db.slot[p].exists /\ db'.slot[p].exists}

\* What a run has seen stays seen while it reads nothing, whatever happens to
\* the slots.
LEMMA SeenKept ==
    ASSUME MInv, AddedStep,
           job'.pc = job.pc, job'.live = job.live, job'.unread = job.unread
    PROVE  Seen' /\ (added \subseteq Places => added' \subseteq Places)
  BY DEF MInv, Seen, AddedStep

\* Deleting bookings takes them away and leaves every counter as it is.
LEMMA RemoveFacts ==
    ASSUME Inv, NEW bs \in SUBSET Ids
    PROVE  LET d == DropBookings(db, bs)
           IN /\ d \in Databases /\ d.slot = db.slot
              /\ Changed(db, d) \in SUBSET Docs
              /\ \A b \in Ids : d.booking[b] # db.booking[b] => <<"booking", b>> \in Changed(db, d)
              /\ \A p \in Places : Active(d, p) \subseteq Active(db, p)
<1> DEFINE d == DropBookings(db, bs)
<1>1. db \in Databases
  BY DEF Inv, TypeOK
<1>2. /\ d \in Databases /\ d.slot = db.slot
      /\ \A b \in Ids : d.booking[b] = IF b \in bs THEN NoBooking ELSE db.booking[b]
  BY <1>1, DropBookingsFacts
<1> HIDE DEF d
<1>3. /\ Changed(db, d) \in SUBSET Docs
      /\ \A b \in Ids : <<"booking", b>> \notin Changed(db, d) => db.booking[b] = d.booking[b]
  BY <1>1, <1>2, ChangedFacts
<1>4. ASSUME NEW b \in Ids, IsActive(d, b) PROVE IsActive(db, b) /\ d.booking[b] = db.booking[b]
  BY <1>2, <1>4 DEF IsActive, ActiveStatuses, NoBooking
<1>5. \A p \in Places : Active(d, p) \subseteq Active(db, p)
  BY <1>4 DEF Active
<1> QED BY <1>2, <1>3, <1>5 DEF d

\* A batch of stale_bookings keeps the counters covering what is left.
LEMMA StaleRemovePreserves ==
    ASSUME MInv, StaleRemove
    PROVE  Inv' /\ OverbookingStep
<1> DEFINE d == DropBookings(db, job.stale)
           docs == Changed(db, d)
<1>1. Inv /\ job.stale \in SUBSET Ids
  BY DEF MInv, JobOK, JobRuns
<1>2. Write(d, docs, {})
  BY DEF StaleRemove
<1>3. /\ d \in Databases /\ d.slot = db.slot
      /\ docs \in SUBSET Docs
      /\ \A b \in Ids : d.booking[b] # db.booking[b] => <<"booking", b>> \in docs
      /\ \A p \in Places : Active(d, p) \subseteq Active(db, p)
  BY <1>1, RemoveFacts
<1> HIDE DEF d, docs
<1> QED BY <1>1, <1>2, <1>3, OutsidePreserves

\* What a run of stale_bookings has read, and what its cursors may add to it.
LEMMA RunUpdates ==
    ASSUME NEW j \in JobRuns
    PROVE  /\ NoRun \in JobRuns
           /\ j.unread \in SUBSET SlotDocs /\ j.live \in SUBSET Places
           /\ j.rows \in SUBSET Ids /\ j.stale \in SUBSET Ids
           /\ \A u \in SUBSET SlotDocs, l \in SUBSET Places :
                [j EXCEPT !.unread = u, !.live = l] \in JobRuns
           /\ \A r \in SUBSET Ids, s \in SUBSET Ids :
                [j EXCEPT !.rows = r, !.stale = s] \in JobRuns
           /\ \A r \in SUBSET Ids : [j EXCEPT !.pc = "bookings", !.rows = r] \in JobRuns
           /\ \A u \in SUBSET SlotDocs : [NoRun EXCEPT !.pc = "slots", !.unread = u] \in JobRuns
  BY DEF JobRuns, NoRun

\* Every step of the jobs, or among them, keeps the invariant.
LEMMA MNextInv ==
    MInv /\ [MNext]_mvars => MInv' /\ (OverbookingStep \/ UNCHANGED vars) /\ CollectStep
<1> DEFINE Goal == MInv' /\ (OverbookingStep \/ UNCHANGED vars) /\ CollectStep
<1> SUFFICES ASSUME MInv, [MNext]_mvars PROVE Goal
  OBVIOUS
<1>0. /\ Inv /\ JobOK /\ Seen
      /\ job \in JobRuns /\ doomed \in BOOLEAN /\ added \subseteq Places
  BY DEF MInv, JobOK
<1>1. ASSUME Next, UNCHANGED <<job, doomed>>, AddedStep PROVE Goal
  <2>1. Inv' /\ (OverbookingStep \/ UNCHANGED vars)
    BY <1>0, <1>1, NextInv
  <2>2. Seen' /\ added' \subseteq Places
    BY <1>0, <1>1, SeenKept
  <2> QED BY <1>0, <1>1, <2>1, <2>2 DEF MInv, JobOK, CollectStep
<1>2. ASSUME UNCHANGED vars, job' \in JobRuns, doomed' \in BOOLEAN, added' \subseteq Places, Seen',
             CollectStep
      PROVE  Goal
  <2>1. Inv'
    BY <1>0, <1>2, NextInv
  <2> QED BY <2>1, <1>2 DEF MInv, JobOK
<1>3. ASSUME StaleStep, AddedStep PROVE Goal
  <2>1. CASE StaleRemove
    <3>1. /\ job' \in JobRuns /\ doomed' \in BOOLEAN
          /\ job'.pc = job.pc /\ job'.live = job.live /\ job'.unread = job.unread
          /\ job'.stale = {}
      BY <1>0, <2>1 DEF JobRuns, StaleRemove
    <3>2. Seen' /\ added' \subseteq Places
      BY <1>0, <1>3, <3>1, SeenKept
    <3>3. Inv' /\ OverbookingStep
      BY <2>1, StaleRemovePreserves
    <3> QED BY <3>1, <3>2, <3>3 DEF MInv, JobOK, CollectStep
  <2>2. CASE StaleStart
    <3>1. /\ job' = [NoRun EXCEPT !.pc = "slots", !.unread = SlotDocs]
          /\ UNCHANGED vars /\ doomed' = doomed
      BY <2>2 DEF StaleStart, vars
    <3>2. /\ job' \in JobRuns
          /\ job'.pc = "slots" /\ job'.unread = SlotDocs /\ job'.stale = {}
      BY <1>0, <3>1, RunUpdates DEF NoRun
    <3>3. Seen' /\ added' \subseteq Places
      BY <1>0, <1>3, <3>2, SlotAssumption DEF Seen, AddedStep
    <3> QED BY <1>0, <1>2, <3>1, <3>2, <3>3 DEF CollectStep
  <2>3. CASE StaleStream
    <3>1. /\ job' = [job EXCEPT !.pc = "bookings", !.rows = Ids]
          /\ job.unread = {} /\ job.pc = "slots" /\ UNCHANGED vars /\ doomed' = doomed
      BY <2>3 DEF StaleStream, vars
    <3>2. /\ job' \in JobRuns
          /\ job'.pc = "bookings" /\ job'.live = job.live /\ job'.stale = job.stale
      BY <1>0, <3>1, RunUpdates DEF JobRuns
    <3>3. Seen' /\ added' \subseteq Places
      BY <1>0, <1>3, <3>1, <3>2 DEF Seen, AddedStep, vars
    <3> QED BY <1>0, <1>2, <3>1, <3>2, <3>3 DEF CollectStep
  <2>4. CASE StaleEnd \/ StaleCrash
    <3>1. job' = NoRun /\ UNCHANGED vars /\ doomed' = doomed
      BY <2>4 DEF StaleEnd, StaleCrash, vars
    <3>2. job' \in JobRuns /\ job'.pc = "idle" /\ job'.stale = {}
      BY <1>0, <3>1, RunUpdates DEF NoRun
    <3>3. Seen' /\ added' \subseteq Places
      BY <1>3, <3>2 DEF Seen, AddedStep
    <3> QED BY <1>0, <1>2, <3>1, <3>2, <3>3 DEF CollectStep
  <2>5. ASSUME NEW s \in SlotDocs, StaleReadSlot(s) PROVE Goal
    <3> DEFINE unread == job.unread \ {s}
               live == job.live \cup {p \in PlacesOf(s) : db.slot[p].exists}
    <3>1. unread \in SUBSET SlotDocs /\ live \in SUBSET Places
      BY <1>0, RunUpdates DEF PlacesOf
    <3>2. /\ job' = [job EXCEPT !.unread = unread, !.live = live]
          /\ job.pc = "slots" /\ UNCHANGED vars /\ doomed' = doomed
      BY <2>5 DEF StaleReadSlot, vars
    <3>3. \A p \in Places :
              /\ SlotOf[p] \in job.unread => SlotOf[p] \in unread \/ SlotOf[p] = s
              /\ db.slot[p].exists /\ SlotOf[p] = s => p \in live
              /\ p \in job.live => p \in live
      BY DEF PlacesOf
    <3> HIDE DEF unread, live
    <3>4. /\ job' \in JobRuns
          /\ job'.pc = "slots" /\ job'.unread = unread /\ job'.live = live
          /\ job'.stale = job.stale
      BY <1>0, <3>1, <3>2, RunUpdates DEF JobRuns
    <3>5. Seen' /\ added' \subseteq Places
      <4>1. added' = added /\ db' = db
        <5>1. db' = db
          BY <3>2 DEF vars
        <5>2. {p \in Places : ~db.slot[p].exists /\ db'.slot[p].exists} = {}
          BY <5>1
        <5> QED BY <1>3, <3>4, <5>1, <5>2 DEF AddedStep
      <4>2. ASSUME NEW p \in Places, db.slot[p].exists
            PROVE  p \in live \cup added \/ SlotOf[p] \in unread
        <5>1. p \in job.live \cup added \/ SlotOf[p] \in job.unread
          BY <1>0, <3>2, <4>2 DEF Seen
        <5> QED BY <3>3, <4>2, <5>1
      <4> QED BY <1>0, <3>4, <4>1, <4>2 DEF Seen
    <3> QED BY <1>0, <1>2, <3>2, <3>4, <3>5 DEF CollectStep
  <2>6. ASSUME NEW b \in Ids, StaleReadBooking(b) PROVE Goal
    <3> DEFINE rows == job.rows \ {b}
               stale == IF IsActive(db, b) /\ db.booking[b].place \notin job.live
                        THEN job.stale \cup {b} ELSE job.stale
    <3>1. rows \in SUBSET Ids /\ stale \in SUBSET Ids
      BY <1>0, RunUpdates
    <3>2. /\ job' = [job EXCEPT !.rows = rows, !.stale = stale]
          /\ job.pc = "bookings" /\ UNCHANGED vars /\ doomed' = doomed
      BY <2>6 DEF StaleReadBooking, vars
    <3>3. ASSUME IsActive(db, b), db.booking[b].place \notin job.live
          PROVE  db.booking[b].place \in added
      <4>1. db.booking[b].place \in Places
        BY <1>0, <3>3 DEF Inv, TypeOK, Databases, BookingRows, IsActive, ActiveStatuses, NoBooking
      <4>2. b \in Active(db, db.booking[b].place)
        BY <3>3 DEF Active
      <4>3. db.slot[db.booking[b].place].exists
        BY <1>0, <4>1, <4>2 DEF Inv, Covers
      <4> QED BY <1>0, <3>2, <3>3, <4>1, <4>3 DEF Seen
    <3>4. \A c \in stale \ job.stale : db.booking[c].place \in added
      BY <3>3
    <3> HIDE DEF rows, stale
    <3>5. /\ job' \in JobRuns
          /\ job'.pc = job.pc /\ job'.unread = job.unread /\ job'.live = job.live
          /\ job'.stale = stale
      BY <1>0, <3>1, <3>2, RunUpdates DEF JobRuns
    <3>6. Seen' /\ added' \subseteq Places
      BY <1>0, <1>3, <3>5, SeenKept
    <3> QED BY <1>0, <1>2, <3>2, <3>4, <3>5, <3>6 DEF CollectStep
  <2> QED BY <1>3, <2>1, <2>2, <2>3, <2>4, <2>5, <2>6 DEF StaleStep
<1>4. ASSUME TrashStep, AddedStep PROVE Goal
  <2>0. job' = job /\ doomed' \in BOOLEAN
    BY <1>0, <1>4 DEF TrashStep, TrashFind, TrashPurge, TrashCrash
  <2>1. Seen' /\ added' \subseteq Places
    BY <1>0, <1>4, <2>0, SeenKept
  <2>2. CASE TrashFind \/ TrashCrash
    <3>1. UNCHANGED vars
      BY <2>2 DEF TrashFind, TrashCrash, vars
    <3> QED BY <1>0, <1>2, <2>0, <2>1, <3>1 DEF CollectStep
  <2>3. ASSUME NEW t \in Txns, TrashPurge(t) PROVE Goal
    <3>1. Inv' /\ OverbookingStep
      BY <1>0, <2>3, PurgeCommitPreserves DEF TrashPurge
    <3> QED BY <1>0, <2>0, <2>1, <3>1 DEF MInv, JobOK, CollectStep
  <2> QED BY <1>4, <2>2, <2>3 DEF TrashStep
<1>5. CASE UNCHANGED mvars
  <2>1. UNCHANGED vars /\ UNCHANGED <<job, doomed, added, db>>
    BY <1>5 DEF mvars, vars
  <2>2. Seen'
    BY <1>0, <2>1 DEF Seen
  <2> QED BY <1>0, <1>2, <2>1, <2>2 DEF CollectStep
<1> HIDE DEF Goal
<1> QED BY <1>1, <1>3, <1>4, <1>5 DEF MNext, AddedStep

\* The jobs keep the queue, too: stale_bookings touches no list, trash_purge
\* takes them all.
LEMMA MNextQueue ==
    MInv /\ Queue /\ [MNext]_mvars => Queue' /\ OldestStep /\ PaidStep
<1> SUFFICES ASSUME MInv, Queue, [MNext]_mvars PROVE Queue' /\ OldestStep /\ PaidStep
  OBVIOUS
<1>0. Inv /\ job.stale \in SUBSET Ids
  BY DEF MInv, JobOK, JobRuns
<1>1. CASE Next \/ UNCHANGED vars
  BY <1>0, <1>1, NextQueue
<1>2. CASE StaleRemove
  <2> DEFINE d == DropBookings(db, job.stale)
             docs == Changed(db, d)
  <2>1. Write(d, docs, {})
    BY <1>2 DEF StaleRemove
  <2>2. db \in Databases
    BY <1>0 DEF Inv, TypeOK
  <2>3. d \in Databases /\ d.slot = db.slot /\ docs \in SUBSET Docs
    BY <1>0, RemoveFacts
  <2>4. d.wait = db.wait /\ d.since = db.since
    BY <2>2, UpdatesAside
  <2> HIDE DEF d
  <2>5. \A u \in Users, p \in Places : WaitDoc(u, p) \notin docs
    BY <2>2, <2>3, <2>4, ChangedWaits
  <2> HIDE DEF docs
  <2> QED BY <1>0, <2>1, <2>3, <2>4, <2>5, AsideQueue
<1>3. ASSUME NEW t \in Txns, TrashPurge(t) PROVE Queue' /\ OldestStep /\ PaidStep
  BY <1>0, <1>3, PurgeCommitQueue DEF TrashPurge
<1>4. CASE StaleStep
  <2>1. StaleRemove \/ UNCHANGED vars
    BY <1>4 DEF StaleStep, StaleStart, StaleStream, StaleEnd, StaleCrash, StaleReadSlot, StaleReadBooking
  <2> QED BY <2>1, <1>1, <1>2
<1>5. CASE TrashStep
  <2>1. UNCHANGED vars \/ \E t \in Txns : TrashPurge(t)
    BY <1>5 DEF TrashStep, TrashFind, TrashCrash
  <2> QED BY <2>1, <1>1, <1>3
<1> QED BY <1>1, <1>4, <1>5 DEF MNext, mvars

\* The invariant holds with the jobs running.
THEOREM MInvariant == MSpec => []MInv
<1>1. MInit => MInv
  <2>1. NoRun \in JobRuns /\ NoRun.pc = "idle"
    BY DEF NoRun, JobRuns
  <2> QED BY <2>1, InitInv DEF MInit, MInv, JobOK, Seen
<1>2. MInv /\ [MNext]_mvars => MInv'
  BY MNextInv
<1> QED BY <1>1, <1>2, PTL DEF MSpec

\* Whatever the jobs have read and however old it is, the counters still cover
\* the active bookings.
THEOREM CountersCoverThroughJobs == MSpec => []CounterCoversBookings
<1>1. MInv => CounterCoversBookings
  BY DEF MInv, Inv, Covers, CounterCoversBookings
<1> QED BY <1>1, MInvariant, PTL

\* Nobody is overtaken on a waiting list while the jobs run.
THEOREM OldestIsFirstThroughJobs == MSpec => OldestFirst
<1>1. MInit => Queue
  BY InitQueue DEF MInit
<1>2. MInv /\ Queue /\ [MNext]_mvars => Queue'
  BY MNextQueue
<1>3. MInv /\ Queue /\ [MNext]_mvars =>
          [\A t \in open \ open', u, v \in Users, p \in Places :
              /\ snap[t].wait[u, p] = "waiting" /\ db.wait[u, p] = "waiting"
              /\ db.since[u, p] < db.since[v, p]
              /\ db.wait[v, p] = "waiting" /\ db'.wait[v, p] = "notified"
              => db'.wait[u, p] # "waiting"]_vars
  <2>1. MInv /\ Queue /\ [MNext]_mvars => OldestStep
    BY MNextQueue
  <2> QED BY <2>1, Zenon DEF OldestStep
<1> QED BY <1>1, <1>2, <1>3, MInvariant, PTL DEF MSpec, OldestFirst

\* No step of a job, or among them, overbooks a place.
THEOREM NeverOverbookedThroughJobs == MSpec => NoOverbooking
<1>1. MInv /\ [MNext]_mvars => [OverbookingStep]_vars
  BY MNextInv
<1>2. OverbookingStep <=>
        \A p \in Places :
          /\ ~(Active(db', p) \subseteq Active(db, p))
          /\ db'.slot[p].limit # NoLimit
          => Cardinality(Active(db', p)) <= db'.slot[p].limit
  BY DEF OverbookingStep
<1> QED BY <1>1, <1>2, MInvariant, PTL DEF MSpec, NoOverbooking

\* stale_bookings deletes the booking of no place it could have seen: only of
\* places added while it was running.
THEOREM StaleCollectsOnlyAdded == MSpec => CollectsOnlyAdded
<1>1. MInv /\ [MNext]_mvars => [CollectStep]_mvars
  BY MNextInv
<1>2. CollectStep <=> \A b \in job'.stale \ job.stale : db.booking[b].place \in added
  BY DEF CollectStep
<1> QED BY <1>1, <1>2, MInvariant, PTL DEF MSpec, CollectsOnlyAdded
=============================================================================
