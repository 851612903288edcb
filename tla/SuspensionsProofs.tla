-------------------------- MODULE SuspensionsProofs --------------------------
(***************************************************************************)
(* What holds of Suspensions for any numbers of bookings, accounts and     *)
(* concurrent transactions and any limit: type correctness, that the limit *)
(* sanctions however the marks interleave, and that sanctions last.        *)
(*                                                                         *)
(* LimitSanctions is not inductive: a handler counts in its snapshot.      *)
(* What carries it is Marks: as long as nobody wrote the suspension row of *)
(* an account, no booking of it was marked since the snapshot, because     *)
(* every mark writes the row.  The rest of Inv says whose documents an     *)
(* unfinished account deletion has written (OwnWrites).                    *)
(*                                                                         *)
(* At the end, the two action properties: which suspensions end, and how.  *)
(* They need to know what a sanction imposed since a snapshot leaves       *)
(* behind: a booking that was written (Traced).                            *)
(***************************************************************************)
EXTENDS Suspensions, FiniteSetTheorems, TLAPS

UserStates == {"new", "live", "deleted"}

DbOK(d) ==
    /\ d = [x \in Docs |-> d[x]]
    /\ \A a \in Accounts : d[UserDoc(a)] \in UserStates
    /\ \A a \in Accounts : d[RowDoc(a)] \in Rows
    /\ \A a \in Accounts : d[WaitDoc(a)] \in BOOLEAN
    /\ \A b \in Ids : d[BookingDoc(b)] \in BookingRows

OneLive(d) ==
    \A a, c \in Accounts : d[UserDoc(a)] = "live" /\ d[UserDoc(c)] = "live" => a = c

\* Bookings and kept rows belong to accounts that exist, or existed.
NoStray(d) ==
    /\ \A b \in Ids : d[BookingDoc(b)] # NoBooking => d[UserDoc(d[BookingDoc(b)].owner)] # "new"
    /\ \A a \in Accounts : d[RowDoc(a)].phone => d[UserDoc(a)] = "deleted"

\* w is what a transaction sees whose snapshot is s: only the deletion of an
\* account writes before it commits, and only what belongs to the account.
OwnWrites(s, w) ==
    /\ \A a \in Accounts : w[UserDoc(a)] = s[UserDoc(a)]
    /\ \A a \in Accounts : w[RowDoc(a)].phone = s[RowDoc(a)].phone
    /\ \A a \in Accounts : s[UserDoc(a)] # "live" => w[RowDoc(a)] = s[RowDoc(a)]
    /\ \A b \in Ids : w[BookingDoc(b)] # s[BookingDoc(b)] =>
           /\ s[BookingDoc(b)] # NoBooking /\ w[BookingDoc(b)] # NoBooking
           /\ w[BookingDoc(b)].owner = s[BookingDoc(b)].owner
           /\ s[UserDoc(s[BookingDoc(b)].owner)] = "live"

Within(d, a) == Cardinality(Counted(d, a)) < NoShowLimit \/ d[RowDoc(a)].end = "forever"

Shape ==
    /\ open \subseteq Txns
    /\ snap = [t \in Txns |-> snap[t]]
    /\ work = [t \in Txns |-> work[t]]
    /\ dirty \in [Txns -> SUBSET Docs]
    /\ DbOK(db)
    /\ \A t \in open : DbOK(snap[t]) /\ DbOK(work[t])

Same == \A t \in open, x \in Docs : x \notin dirty[t] => snap[t][x] = db[x]

Lives == OneLive(db) /\ \A t \in open : OneLive(snap[t])

Own == \A t \in open : OwnWrites(snap[t], work[t])

\* An account does not become new again.
Past == \A t \in open, a \in Accounts : snap[t][UserDoc(a)] # "new" => db[UserDoc(a)] # "new"

Marks ==
    \A t \in open, a \in Accounts :
        db[UserDoc(a)] = "live" /\ RowDoc(a) \notin dirty[t]
        => MissedBy(db, a) \subseteq MissedBy(snap[t], a)

Inv ==
    /\ Shape
    /\ Same
    /\ Lives
    /\ NoStray(db)
    /\ Own
    /\ Past
    /\ Marks
    /\ LimitSanctions

-----------------------------------------------------------------------------
(* Documents. *)

LEMMA DocsFacts ==
    /\ \A a \in Accounts : UserDoc(a) \in Docs /\ RowDoc(a) \in Docs /\ WaitDoc(a) \in Docs
    /\ \A b \in Ids : BookingDoc(b) \in Docs
    /\ \A a, c \in Accounts : /\ UserDoc(a) # RowDoc(c)
                              /\ UserDoc(a) # WaitDoc(c)
                              /\ RowDoc(a) # WaitDoc(c)
                              /\ UserDoc(a) = UserDoc(c) => a = c
                              /\ RowDoc(a) = RowDoc(c) => a = c
                              /\ WaitDoc(a) = WaitDoc(c) => a = c
    /\ \A a \in Accounts, b \in Ids : /\ BookingDoc(b) # UserDoc(a)
                                      /\ BookingDoc(b) # RowDoc(a)
                                      /\ BookingDoc(b) # WaitDoc(a)
    /\ \A b, e \in Ids : BookingDoc(b) = BookingDoc(e) => b = e
BY DEF UserDoc, RowDoc, WaitDoc, BookingDoc, Docs

LEMMA EmptyFacts ==
    /\ DbOK(EmptyDb)
    /\ \A a \in Accounts : EmptyDb[UserDoc(a)] = "new" /\ EmptyDb[RowDoc(a)] = NoRow
    /\ \A b \in Ids : EmptyDb[BookingDoc(b)] = NoBooking
<1>1. \A a \in Accounts : EmptyDb[UserDoc(a)] = "new" /\ EmptyDb[RowDoc(a)] = NoRow
                          /\ EmptyDb[WaitDoc(a)] = FALSE
  BY DEF EmptyDb, EmptyDoc, UserDoc, RowDoc, WaitDoc, Docs
<1>2. \A b \in Ids : EmptyDb[BookingDoc(b)] = NoBooking
  BY DEF EmptyDb, EmptyDoc, BookingDoc, Docs
<1>3. EmptyDb = [x \in Docs |-> EmptyDb[x]]
  BY DEF EmptyDb
<1> QED
  BY <1>1, <1>2, <1>3 DEF DbOK, UserStates, Rows, BookingRows

\* A set of bookings within another is finite and no larger.
LEMMA Fewer ==
    ASSUME NEW S \in SUBSET Ids, NEW T \in SUBSET S
    PROVE  /\ Cardinality(S) \in Nat /\ Cardinality(T) \in Nat
           /\ Cardinality(T) <= Cardinality(S)
<1>1. IsFiniteSet(S) /\ IsFiniteSet(T)
  BY IdsAssumption, FS_Subset
<1> QED
  BY <1>1, FS_Subset, FS_CardinalityType

LEMMA MissedIds ==
    ASSUME NEW d, NEW a
    PROVE  MissedBy(d, a) \in SUBSET Ids /\ Counted(d, a) \in SUBSET MissedBy(d, a)
BY DEF MissedBy, Counted, With, BookingsOf

\* Which bookings are missed depends on the bookings alone, what is counted
\* on the row too.
LEMMA WithinMono ==
    ASSUME NEW d, NEW e, NEW a \in Accounts,
           d[RowDoc(a)] = e[RowDoc(a)],
           MissedBy(d, a) \subseteq MissedBy(e, a),
           Within(e, a)
    PROVE  Within(d, a)
<1>1. Counted(d, a) \subseteq Counted(e, a)
  BY DEF Counted
<1>2. Counted(d, a) \in SUBSET Ids /\ Counted(e, a) \in SUBSET Ids
  BY MissedIds
<1>3. /\ Cardinality(Counted(d, a)) \in Nat /\ Cardinality(Counted(e, a)) \in Nat
      /\ Cardinality(Counted(d, a)) <= Cardinality(Counted(e, a))
  BY <1>1, <1>2, Fewer
<1>4. NoShowLimit \in Nat
  BY LimitAssumption
<1> QED
  BY <1>3, <1>4 DEF Within

\* Nothing is counted once counted_from is past every mark.
LEMMA WithinAfresh ==
    ASSUME NEW d, NEW a \in Accounts, MissedBy(d, a) \subseteq d[RowDoc(a)].before
    PROVE  Within(d, a)
<1>1. Counted(d, a) = {}
  BY DEF Counted
<1> QED
  BY <1>1, FS_EmptySet, LimitAssumption DEF Within

\* b is missed by a.
LEMMA Missed ==
    ASSUME NEW d, NEW a, NEW b
    PROVE  b \in MissedBy(d, a)
           <=> /\ b \in Ids /\ d[BookingDoc(b)] # NoBooking
               /\ d[BookingDoc(b)].owner = a /\ d[BookingDoc(b)].status \in MissedStatuses
BY DEF MissedBy, With, BookingsOf

LEMMA SameMissed ==
    ASSUME NEW d, NEW e, NEW a, \A b \in Ids : d[BookingDoc(b)] = e[BookingDoc(b)]
    PROVE  MissedBy(d, a) = MissedBy(e, a)
<1>1. BookingsOf(d, a) = BookingsOf(e, a)
  BY DEF BookingsOf
<1> QED
  BY <1>1 DEF MissedBy, With, BookingsOf

-----------------------------------------------------------------------------
(* Writes of one document. *)

LEMMA Put ==
    ASSUME NEW d, d = [y \in Docs |-> d[y]], NEW x \in Docs, NEW v
    PROVE  /\ [d EXCEPT ![x] = v] = [y \in Docs |-> [d EXCEPT ![x] = v][y]]
           /\ [d EXCEPT ![x] = v][x] = v
           /\ \A y \in Docs : y # x => [d EXCEPT ![x] = v][y] = d[y]
OBVIOUS

LEMMA PutRow ==
    ASSUME NEW d, DbOK(d), NEW a \in Accounts, NEW row \in Rows
    PROVE  /\ DbOK([d EXCEPT ![RowDoc(a)] = row])
           /\ [d EXCEPT ![RowDoc(a)] = row][RowDoc(a)] = row
           /\ \A y \in Docs : y # RowDoc(a) => [d EXCEPT ![RowDoc(a)] = row][y] = d[y]
<1> DEFINE e == [d EXCEPT ![RowDoc(a)] = row]
<1>1. d = [y \in Docs |-> d[y]]
  BY DEF DbOK
<1>2. /\ e = [y \in Docs |-> e[y]]
      /\ e[RowDoc(a)] = row
      /\ \A y \in Docs : y # RowDoc(a) => e[y] = d[y]
  BY <1>1, DocsFacts, Put
<1> HIDE DEF e
<1>3. DbOK(e)
  BY <1>2, DocsFacts DEF DbOK
<1> QED
  BY <1>2, <1>3 DEF e

LEMMA PutWait ==
    ASSUME NEW d, DbOK(d), NEW a \in Accounts, NEW waits \in BOOLEAN
    PROVE  /\ DbOK([d EXCEPT ![WaitDoc(a)] = waits])
           /\ \A y \in Docs : y # WaitDoc(a) => [d EXCEPT ![WaitDoc(a)] = waits][y] = d[y]
<1> DEFINE e == [d EXCEPT ![WaitDoc(a)] = waits]
<1>1. d = [y \in Docs |-> d[y]]
  BY DEF DbOK
<1>2. /\ e = [y \in Docs |-> e[y]]
      /\ e[WaitDoc(a)] = waits
      /\ \A y \in Docs : y # WaitDoc(a) => e[y] = d[y]
  BY <1>1, DocsFacts, Put
<1> HIDE DEF e
<1>3. DbOK(e)
  BY <1>2, DocsFacts DEF DbOK
<1> QED
  BY <1>2, <1>3 DEF e

LEMMA PutUser ==
    ASSUME NEW d, DbOK(d), NEW a \in Accounts, NEW state \in UserStates
    PROVE  /\ DbOK([d EXCEPT ![UserDoc(a)] = state])
           /\ [d EXCEPT ![UserDoc(a)] = state][UserDoc(a)] = state
           /\ \A y \in Docs : y # UserDoc(a) => [d EXCEPT ![UserDoc(a)] = state][y] = d[y]
<1> DEFINE e == [d EXCEPT ![UserDoc(a)] = state]
<1>1. d = [y \in Docs |-> d[y]]
  BY DEF DbOK
<1>2. /\ e = [y \in Docs |-> e[y]]
      /\ e[UserDoc(a)] = state
      /\ \A y \in Docs : y # UserDoc(a) => e[y] = d[y]
  BY <1>1, DocsFacts, Put
<1> HIDE DEF e
<1>3. DbOK(e)
  BY <1>2, DocsFacts DEF DbOK
<1> QED
  BY <1>2, <1>3 DEF e

LEMMA PutBooking ==
    ASSUME NEW d, DbOK(d), NEW b \in Ids, NEW a \in Accounts, NEW s \in Statuses
    PROVE  /\ DbOK([d EXCEPT ![BookingDoc(b)] = Booking(a, s)])
           /\ [d EXCEPT ![BookingDoc(b)] = Booking(a, s)][BookingDoc(b)] = Booking(a, s)
           /\ \A y \in Docs : y # BookingDoc(b) => [d EXCEPT ![BookingDoc(b)] = Booking(a, s)][y] = d[y]
           /\ Booking(a, s) # NoBooking /\ Booking(a, s).owner = a /\ Booking(a, s).status = s
<1> DEFINE e == [d EXCEPT ![BookingDoc(b)] = Booking(a, s)]
<1>1. d = [y \in Docs |-> d[y]]
  BY DEF DbOK
<1>2. /\ e = [y \in Docs |-> e[y]]
      /\ e[BookingDoc(b)] = Booking(a, s)
      /\ \A y \in Docs : y # BookingDoc(b) => e[y] = d[y]
  BY <1>1, DocsFacts, Put
<1> HIDE DEF e
<1>3. /\ Booking(a, s) \in BookingRows
      /\ Booking(a, s) # NoBooking /\ Booking(a, s).owner = a /\ Booking(a, s).status = s
  BY DEF Booking, BookingRows, NoBooking, Statuses, MissedStatuses
<1>4. DbOK(e)
  BY <1>2, <1>3, DocsFacts DEF DbOK
<1> QED
  BY <1>2, <1>3, <1>4 DEF e

-----------------------------------------------------------------------------
(* Suspension rows. *)

RowFields == [exists : BOOLEAN, end : {"none", "timed", "forever"}, kind : Kinds,
              ids : SUBSET Ids, before : SUBSET Ids, phone : BOOLEAN]

Legal(row) ==
    /\ row.exists
    /\ row.end = "none" <=> row.kind = "none"
    /\ row.ids # {} => row.kind = "no_show"

LEMMA NoRowFields ==
    /\ NoRow \in RowFields
    /\ NoRow.exists = FALSE /\ NoRow.end = "none" /\ NoRow.kind = "none" /\ NoRow.ids = {}
    /\ NoRow.before = {} /\ NoRow.phone = FALSE
BY DEF NoRow, RowFields, Kinds

LEMMA RowsAre == \A row : row \in Rows <=> row = NoRow \/ (row \in RowFields /\ Legal(row))
<1>1. ASSUME NEW row
      PROVE  row \in [exists : {TRUE}, end : {"none", "timed", "forever"}, kind : Kinds,
                      ids : SUBSET Ids, before : SUBSET Ids, phone : BOOLEAN]
             <=> row \in RowFields /\ row.exists
  BY DEF RowFields
<1>2. ASSUME NEW row, row \in Rows
      PROVE  row = NoRow \/ (row \in RowFields /\ Legal(row))
  BY <1>1, <1>2 DEF Rows, Legal
<1>3. ASSUME NEW row, row \in RowFields, Legal(row)
      PROVE  row \in Rows
  BY <1>1, <1>3 DEF Rows, Legal
<1>4. NoRow \in Rows
  BY DEF Rows
<1> QED
  BY <1>2, <1>3, <1>4

LEMMA RowParts ==
    ASSUME NEW row \in Rows
    PROVE  /\ row \in RowFields
           /\ row.exists \in BOOLEAN
           /\ row.end \in {"none", "timed", "forever"} /\ row.kind \in Kinds
           /\ row.ids \in SUBSET Ids /\ row.before \in SUBSET Ids /\ row.phone \in BOOLEAN
           /\ row.end = "none" <=> row.kind = "none"
           /\ row.ids # {} => row.kind = "no_show"
           /\ row.exists \/ row = NoRow
<1>1. row \in RowFields
  BY RowsAre, NoRowFields
<1>2. CASE row = NoRow
  BY <1>1, <1>2, NoRowFields DEF RowFields
<1>3. CASE Legal(row)
  BY <1>1, <1>3 DEF Legal, RowFields
<1> QED
  BY <1>2, <1>3, RowsAre

LEMMA TouchedRow ==
    ASSUME NEW row \in Rows, NEW marks
    PROVE  /\ Touched(row, marks) \in Rows
           /\ Touched(row, marks).exists
           /\ Touched(row, marks).phone = row.phone
<1> DEFINE r == Touched(row, marks)
<1>1. row \in RowFields
  BY RowParts
<1>2. r \in RowFields /\ r.exists /\ r.end = row.end /\ r.kind = row.kind /\ r.ids = row.ids
      /\ r.phone = row.phone
  BY <1>1 DEF RowFields, Touched
<1> HIDE DEF r
<1>3. Legal(r)
  BY <1>2, RowParts DEF Legal
<1> QED
  BY <1>2, <1>3, RowsAre DEF r

LEMMA SuspendedRow ==
    ASSUME NEW row \in Rows, row.exists,
           NEW end \in {"timed", "forever"}, NEW kind \in {"no_show", "manual"},
           NEW ids \in SUBSET Ids, ids # {} => kind = "no_show",
           NEW missed \in SUBSET Ids
    PROVE  /\ Suspended(row, end, kind, ids, missed) \in Rows
           /\ Suspended(row, end, kind, ids, missed).before = missed
           /\ Suspended(row, end, kind, ids, missed).phone = row.phone
<1> DEFINE r == Suspended(row, end, kind, ids, missed)
<1>1. row \in RowFields
  BY RowParts
<1>2. kind \in Kinds
  BY DEF Kinds
<1>3. r \in RowFields /\ r.exists = row.exists /\ r.end = end /\ r.kind = kind /\ r.ids = ids
      /\ r.before = missed /\ r.phone = row.phone
  BY <1>1, <1>2 DEF RowFields, Suspended
<1> HIDE DEF r
<1>4. Legal(r)
  BY <1>3 DEF Legal
<1> QED
  BY <1>3, <1>4, RowsAre DEF r

LEMMA OverRow ==
    ASSUME NEW row \in Rows, row.exists, NEW missed \in SUBSET Ids
    PROVE  /\ Over(row, missed) \in Rows
           /\ Over(row, missed).before = missed
           /\ Over(row, missed).end = "none"
           /\ Over(row, missed).phone = row.phone
<1> DEFINE r == Over(row, missed)
<1>1. row \in RowFields
  BY RowParts
<1>2. r \in RowFields /\ r.exists = row.exists /\ r.end = "none" /\ r.kind = "none" /\ r.ids = {}
      /\ r.before = missed /\ r.phone = row.phone
  BY <1>1 DEF RowFields, Over, Kinds
<1> HIDE DEF r
<1>3. Legal(r)
  BY <1>2 DEF Legal
<1> QED
  BY <1>2, <1>3, RowsAre DEF r

LEMMA DetachedRow ==
    ASSUME NEW row \in Rows
    PROVE  Detached(row) \in Rows
<1>1. ASSUME row.exists PROVE [row EXCEPT !.phone = TRUE] \in Rows
  <2> DEFINE r == [row EXCEPT !.phone = TRUE]
  <2>1. row \in RowFields
    BY RowParts
  <2>2. r \in RowFields /\ r.exists = row.exists /\ r.end = row.end /\ r.kind = row.kind
        /\ r.ids = row.ids
    BY <2>1 DEF RowFields
  <2> HIDE DEF r
  <2>3. Legal(r)
    BY <1>1, <2>2, RowParts DEF Legal
  <2> QED
    BY <2>2, <2>3, RowsAre DEF r
<1>2. InForce(row) => row.exists
  BY RowParts, NoRowFields DEF InForce
<1>3. NoRow \in Rows
  BY RowsAre
<1>4. CASE InForce(row)
  BY <1>1, <1>2, <1>4 DEF Detached
<1>5. CASE ~InForce(row)
  BY <1>3, <1>5 DEF Detached
<1> QED
  BY <1>4, <1>5

LEMMA RowFacts ==
    /\ NoRow \in Rows /\ NoRow.end = "none" /\ ~NoRow.phone
    /\ \A row \in Rows : row.end # "none" => row.exists
    /\ \A row \in Rows : row.before \in SUBSET Ids /\ row.phone \in BOOLEAN
<1>1. NoRow \in Rows /\ NoRow.end = "none" /\ ~NoRow.phone
  BY RowsAre, NoRowFields
<1>2. ASSUME NEW row \in Rows PROVE row.end # "none" => row.exists
  BY RowParts, NoRowFields
<1>3. ASSUME NEW row \in Rows PROVE row.before \in SUBSET Ids /\ row.phone \in BOOLEAN
  BY RowParts
<1> QED
  BY <1>1, <1>2, <1>3

-----------------------------------------------------------------------------
(* What the handlers write. *)

\* e is d but for the suspension row and the waiting-list place of a.
RowWritten(d, e, a) ==
    /\ DbOK(e)
    /\ \A x \in Docs : x # RowDoc(a) /\ x # WaitDoc(a) => e[x] = d[x]

LEMMA SuspendWrites ==
    ASSUME NEW d, DbOK(d), NEW a \in Accounts, d[RowDoc(a)].exists,
           NEW end \in {"timed", "forever"}, NEW kind \in {"no_show", "manual"},
           NEW ids \in SUBSET Ids, ids # {} => kind = "no_show"
    PROVE  /\ RowWritten(d, Suspend(d, a, end, kind, ids), a)
           /\ Suspend(d, a, end, kind, ids)[RowDoc(a)].phone = d[RowDoc(a)].phone
           /\ Within(Suspend(d, a, end, kind, ids), a)
<1> DEFINE row == Suspended(d[RowDoc(a)], end, kind, ids, MissedBy(d, a))
           f == [d EXCEPT ![RowDoc(a)] = row]
           e == [f EXCEPT ![WaitDoc(a)] = FALSE]
<1>1. d[RowDoc(a)] \in Rows /\ MissedBy(d, a) \in SUBSET Ids
  BY MissedIds DEF DbOK
<1>2. row \in Rows /\ row.before = MissedBy(d, a) /\ row.phone = d[RowDoc(a)].phone
  BY <1>1, SuspendedRow
<1>3. e = Suspend(d, a, end, kind, ids)
  BY DocsFacts DEF Suspend, DbOK
<1> HIDE DEF row
<1>4. DbOK(f) /\ f[RowDoc(a)] = row /\ \A y \in Docs : y # RowDoc(a) => f[y] = d[y]
  BY <1>2, PutRow
<1> HIDE DEF f
<1>5. DbOK(e) /\ \A y \in Docs : y # WaitDoc(a) => e[y] = f[y]
  BY <1>4, PutWait
<1> HIDE DEF e
<1>6. e[RowDoc(a)] = row
  BY <1>4, <1>5, DocsFacts
<1>7. MissedBy(e, a) = MissedBy(d, a)
  BY <1>4, <1>5, DocsFacts, SameMissed
<1>8. Within(e, a)
  BY <1>2, <1>6, <1>7, WithinAfresh
<1>9. RowWritten(d, e, a)
  BY <1>4, <1>5 DEF RowWritten
<1> QED
  BY <1>2, <1>3, <1>6, <1>8, <1>9

LEMMA SanctionWrites ==
    ASSUME NEW d, DbOK(d), NEW a \in Accounts, d[RowDoc(a)].exists
    PROVE  /\ RowWritten(d, Sanction(d, a), a)
           /\ Sanction(d, a)[RowDoc(a)].phone = d[RowDoc(a)].phone
           /\ Within(Sanction(d, a), a)
<1>1. CASE Within(d, a)
  <2>1. Sanction(d, a) = d
    BY <1>1 DEF Within, Sanction
  <2> QED
    BY <1>1, <2>1 DEF RowWritten
<1>2. CASE ~Within(d, a)
  <2>1. \/ Sanction(d, a) = Suspend(d, a, "timed", "manual", {})
        \/ Sanction(d, a) = Suspend(d, a, "timed", "no_show", Counted(d, a))
    BY <1>2 DEF Within, Sanction
  <2>2. Counted(d, a) \in SUBSET Ids
    BY MissedIds
  <2>3. CASE Sanction(d, a) = Suspend(d, a, "timed", "manual", {})
    <3>1. {} \in SUBSET Ids /\ "timed" \in {"timed", "forever"} /\ "manual" \in {"no_show", "manual"}
          /\ ({} # {} => "manual" = "no_show")
      OBVIOUS
    <3> QED
      BY <2>3, <3>1, SuspendWrites
  <2>4. CASE Sanction(d, a) = Suspend(d, a, "timed", "no_show", Counted(d, a))
    <3>1. "timed" \in {"timed", "forever"} /\ "no_show" \in {"no_show", "manual"}
          /\ (Counted(d, a) # {} => "no_show" = "no_show")
      OBVIOUS
    <3> QED
      BY <2>2, <2>4, <3>1, SuspendWrites
  <2> QED
    BY <2>1, <2>3, <2>4
<1> QED
  BY <1>1, <1>2

LEMMA TouchWrites ==
    ASSUME NEW d, DbOK(d), NEW a \in Accounts, NEW marks
    PROVE  /\ RowWritten(d, [d EXCEPT ![RowDoc(a)] = Touched(@, marks)], a)
           /\ [d EXCEPT ![RowDoc(a)] = Touched(@, marks)][RowDoc(a)].exists
           /\ [d EXCEPT ![RowDoc(a)] = Touched(@, marks)][RowDoc(a)].phone = d[RowDoc(a)].phone
<1> DEFINE row == Touched(d[RowDoc(a)], marks)
           e == [d EXCEPT ![RowDoc(a)] = row]
<1>1. d[RowDoc(a)] \in Rows
  BY DEF DbOK
<1>2. row \in Rows /\ row.exists /\ row.phone = d[RowDoc(a)].phone
  BY <1>1, TouchedRow
<1>3. e = [d EXCEPT ![RowDoc(a)] = Touched(@, marks)]
  OBVIOUS
<1> HIDE DEF row
<1>4. DbOK(e) /\ e[RowDoc(a)] = row /\ \A y \in Docs : y # RowDoc(a) => e[y] = d[y]
  BY <1>2, PutRow
<1> HIDE DEF e
<1>5. RowWritten(d, e, a) /\ e[RowDoc(a)].exists /\ e[RowDoc(a)].phone = d[RowDoc(a)].phone
  BY <1>2, <1>4 DEF RowWritten
<1> QED
  BY <1>3, <1>5

LEMMA CountWrites ==
    ASSUME NEW d, DbOK(d), NEW b \in Ids, NEW a \in Accounts, d[BookingDoc(b)].owner = a
    PROVE  /\ RowWritten(d, CountNoShow(d, b), a)
           /\ CountNoShow(d, b)[RowDoc(a)].phone = d[RowDoc(a)].phone
           /\ db[UserDoc(a)] = "live" => /\ Subject(d, b) = {RowDoc(a)}
                                         /\ Within(CountNoShow(d, b), a)
           /\ Subject(d, b) = {} => CountNoShow(d, b) = d
           /\ Subject(d, b) = {} \/ Subject(d, b) = {RowDoc(a)}
<1> DEFINE f == [d EXCEPT ![RowDoc(a)] = Touched(@, {b})]
           e == Sanction(f, a)
           subject == db[UserDoc(a)] = "live" \/ d[RowDoc(a)].exists
<1>1. RowWritten(d, f, a) /\ f[RowDoc(a)].exists /\ f[RowDoc(a)].phone = d[RowDoc(a)].phone
  BY TouchWrites
<1>2. CountNoShow(d, b) = IF subject THEN e ELSE d
  BY DEF CountNoShow
<1>3. Subject(d, b) = IF subject THEN {RowDoc(a)} ELSE {}
  BY DEF Subject
<1> HIDE DEF f
<1>4. RowWritten(f, e, a) /\ e[RowDoc(a)].phone = f[RowDoc(a)].phone /\ Within(e, a)
  BY <1>1, SanctionWrites DEF RowWritten
<1> HIDE DEF e
<1>5. RowWritten(d, e, a)
  BY <1>1, <1>4 DEF RowWritten
<1>6. RowWritten(d, d, a)
  BY DEF RowWritten
<1>7. CASE subject
  BY <1>1, <1>2, <1>3, <1>4, <1>5, <1>7
<1>8. CASE ~subject
  BY <1>2, <1>3, <1>6, <1>8
<1> QED
  BY <1>7, <1>8

LEMMA ReleaseWrites ==
    ASSUME NEW d, DbOK(d), NEW a \in Accounts, InForce(d[RowDoc(a)])
    PROVE  /\ RowWritten(d, Release(d, a), a)
           /\ Release(d, a)[RowDoc(a)].end = "none"
           /\ ~Release(d, a)[RowDoc(a)].phone
           /\ ~d[RowDoc(a)].phone => Within(Release(d, a), a)
<1> DEFINE old == d[RowDoc(a)]
           row == IF old.phone THEN NoRow ELSE Over(old, MissedBy(d, a))
           e == [d EXCEPT ![RowDoc(a)] = row]
<1>1. old \in Rows /\ MissedBy(d, a) \in SUBSET Ids
  BY MissedIds DEF DbOK
<1>2. old.exists
  BY <1>1, RowFacts DEF InForce
<1>3. Release(d, a) = e
  BY DEF Release
<1>4. row \in Rows /\ row.end = "none" /\ ~row.phone
      /\ (~old.phone => row.before = MissedBy(d, a))
  BY <1>1, <1>2, RowFacts, OverRow
<1> HIDE DEF row
<1>5. DbOK(e) /\ e[RowDoc(a)] = row /\ \A y \in Docs : y # RowDoc(a) => e[y] = d[y]
  BY <1>4, PutRow
<1> HIDE DEF e
<1>6. MissedBy(e, a) = MissedBy(d, a)
  BY <1>5, DocsFacts, SameMissed
<1>7. ~old.phone => Within(e, a)
  BY <1>4, <1>5, <1>6, WithinAfresh
<1> QED
  BY <1>3, <1>4, <1>5, <1>7 DEF RowWritten

LEMMA TransitionWrites ==
    ASSUME NEW d, DbOK(d), NEW b \in Ids, NEW s \in Statuses, d[BookingDoc(b)] # NoBooking
    PROVE  /\ d[BookingDoc(b)].owner \in Accounts
           /\ DbOK(Transition(d, b, s))
           /\ Transition(d, b, s)[BookingDoc(b)] # NoBooking
           /\ Transition(d, b, s)[BookingDoc(b)].owner = d[BookingDoc(b)].owner
           /\ Transition(d, b, s)[BookingDoc(b)].status = s
           /\ \A x \in Docs : x # BookingDoc(b) => Transition(d, b, s)[x] = d[x]
<1>1. d[BookingDoc(b)].owner \in Accounts
  BY DEF DbOK, BookingRows
<1> QED
  BY <1>1, PutBooking DEF Transition

-----------------------------------------------------------------------------
(* A commit that is Safe keeps the invariant.                               *)

\* What the transactions of a handler write: accounts only end, rows are kept
\* for the phone of an account that ends, bookings are of an account that is
\* there, and for every account that stays either the commit marks nothing or
\* it writes the row having counted.
Written(t, new, touched) == Changed(snap[t], new) \cup touched

Counts(t, new, touched, a) ==
    \/ /\ RowDoc(a) \notin Written(t, new, touched)
       /\ MissedBy(new, a) \subseteq MissedBy(snap[t], a)
    \/ /\ RowDoc(a) \in Written(t, new, touched)
       /\ Within(new, a)

Ends(t, new, a) == snap[t][UserDoc(a)] = "live" /\ new[UserDoc(a)] = "deleted"

Safe(t, new, touched) ==
    /\ DbOK(new) /\ touched \subseteq Docs
    /\ \A a \in Accounts : new[UserDoc(a)] = snap[t][UserDoc(a)] \/ Ends(t, new, a)
    /\ \A a \in Accounts : new[RowDoc(a)].phone => snap[t][RowDoc(a)].phone \/ Ends(t, new, a)
    /\ \A b \in Ids : new[BookingDoc(b)] # NoBooking =>
           \/ /\ snap[t][BookingDoc(b)] # NoBooking
              /\ new[BookingDoc(b)].owner = snap[t][BookingDoc(b)].owner
           \/ db[UserDoc(new[BookingDoc(b)].owner)] # "new"
    /\ \A a \in Accounts : db[UserDoc(a)] = "live" /\ new[UserDoc(a)] = snap[t][UserDoc(a)]
           => Counts(t, new, touched, a)

LEMMA CommitKeeps ==
    ASSUME Inv, NEW t \in open, NEW new, NEW touched,
           Safe(t, new, touched), Commit(t, new, touched)
    PROVE  Inv'
<1> DEFINE W == Written(t, new, touched)
<1>1. /\ DbOK(db) /\ DbOK(snap[t]) /\ DbOK(work[t]) /\ DbOK(new)
      /\ open \subseteq Txns /\ dirty \in [Txns -> SUBSET Docs]
      /\ snap = [u \in Txns |-> snap[u]] /\ work = [u \in Txns |-> work[u]]
      /\ DOMAIN db = Docs /\ DOMAIN new = Docs
  BY DEF Inv, Shape, Safe, DbOK
<1>2. /\ W \cap dirty[t] = {}
      /\ db' = [x \in Docs |-> IF x \in W THEN new[x] ELSE db[x]]
      /\ dirty' = [u \in Txns |-> IF u \in open \ {t} THEN dirty[u] \cup W ELSE {}]
      /\ open' = open \ {t}
      /\ snap' = [snap EXCEPT ![t] = NoDb]
      /\ work' = [work EXCEPT ![t] = NoDb]
  BY <1>1 DEF Commit, Close, Written
<1>3. W \subseteq Docs /\ \A x \in Docs \ W : new[x] = snap[t][x]
  BY <1>1 DEF Written, Changed, Safe
<1>4. \A x \in W : snap[t][x] = db[x]
  BY <1>2, <1>3 DEF Inv, Same
<1>5. \A a \in Accounts : RowDoc(a) \in W \/ new[RowDoc(a)] = snap[t][RowDoc(a)]
  BY <1>3, DocsFacts
<1>6. \A x \in Docs : db'[x] = IF x \in W THEN new[x] ELSE db[x]
  BY <1>2
<1>7. \A u \in open' : /\ u \in open /\ snap'[u] = snap[u] /\ work'[u] = work[u]
                       /\ dirty'[u] = dirty[u] \cup W
  BY <1>1, <1>2
<1>8. \A a \in Accounts : /\ Counts(t, new, touched, a)
                          <=> \/ RowDoc(a) \notin W /\ MissedBy(new, a) \subseteq MissedBy(snap[t], a)
                              \/ RowDoc(a) \in W /\ Within(new, a)
  BY DEF Counts
<1> HIDE DEF W
<1>9. \A a \in Accounts : \/ db'[UserDoc(a)] = db[UserDoc(a)]
                          \/ db[UserDoc(a)] = "live" /\ db'[UserDoc(a)] = "deleted"
  BY <1>4, <1>6, DocsFacts DEF Safe, Ends
<1>10. \A a \in Accounts : Ends(t, new, a) => db'[UserDoc(a)] = "deleted" \/ UserDoc(a) \notin W
  BY <1>6, DocsFacts DEF Ends
<1>11. \A a \in Accounts : Ends(t, new, a) => UserDoc(a) \in W
  BY <1>3, DocsFacts DEF Ends
<1>12. Shape'
  <2>1. DbOK(db')
    <3>1. db' = [x \in Docs |-> db'[x]]
      BY <1>2
    <3> QED
      BY <1>1, <1>6, <3>1, DocsFacts DEF DbOK
  <2>2. dirty' \in [Txns -> SUBSET Docs]
    BY <1>1, <1>2, <1>3
  <2>3. snap' = [u \in Txns |-> snap'[u]] /\ work' = [u \in Txns |-> work'[u]]
    BY <1>1, <1>2
  <2>4. \A u \in open' : DbOK(snap'[u]) /\ DbOK(work'[u])
    BY <1>7 DEF Inv, Shape
  <2> QED
    BY <1>1, <1>2, <2>1, <2>2, <2>3, <2>4 DEF Shape
<1>13. Same'
  BY <1>6, <1>7 DEF Inv, Same
<1>14. Lives'
  <2>1. OneLive(db')
    BY <1>9 DEF Inv, Lives, OneLive
  <2> QED
    BY <1>7, <2>1 DEF Inv, Lives
<1>15. NoStray(db)'
  <2>1. ASSUME NEW b \in Ids, db'[BookingDoc(b)] # NoBooking
        PROVE  db'[UserDoc(db'[BookingDoc(b)].owner)] # "new"
    <3>1. db'[BookingDoc(b)].owner \in Accounts
      <4>1. DbOK(db')
        BY <1>12 DEF Shape
      <4> QED
        BY <2>1, <4>1 DEF DbOK, BookingRows
    <3>2. CASE BookingDoc(b) \notin W
      <4>1. db'[BookingDoc(b)] = db[BookingDoc(b)]
        BY <1>6, <3>2, DocsFacts
      <4>2. db[UserDoc(db[BookingDoc(b)].owner)] # "new"
        BY <2>1, <4>1 DEF Inv, NoStray
      <4> QED
        BY <1>9, <3>1, <4>1, <4>2
    <3>3. CASE BookingDoc(b) \in W
      <4>1. db'[BookingDoc(b)] = new[BookingDoc(b)] /\ snap[t][BookingDoc(b)] = db[BookingDoc(b)]
        BY <1>4, <1>6, <3>3, DocsFacts
      <4>2. db[UserDoc(new[BookingDoc(b)].owner)] # "new"
        BY <2>1, <4>1 DEF Safe, Inv, NoStray
      <4> QED
        BY <1>9, <3>1, <4>1, <4>2
    <3> QED
      BY <3>2, <3>3
  <2>2. ASSUME NEW a \in Accounts, db'[RowDoc(a)].phone
        PROVE  db'[UserDoc(a)] = "deleted"
    <3>1. CASE db[RowDoc(a)].phone
      <4>1. db[UserDoc(a)] = "deleted"
        BY <3>1 DEF Inv, NoStray
      <4> QED
        BY <1>9, <4>1
    <3>2. CASE ~db[RowDoc(a)].phone
      <4>1. RowDoc(a) \in W
        BY <1>6, <2>2, <3>2, DocsFacts
      <4>2. new[RowDoc(a)].phone /\ ~snap[t][RowDoc(a)].phone
        BY <1>4, <1>6, <2>2, <3>2, <4>1, DocsFacts
      <4>3. Ends(t, new, a)
        BY <4>2 DEF Safe
      <4> QED
        BY <1>10, <1>11, <4>3
    <3> QED
      BY <3>1, <3>2
  <2> QED
    BY <2>1, <2>2 DEF NoStray
<1>16. Own'
  BY <1>7 DEF Inv, Own
<1>17. Past'
  <2>1. ASSUME NEW u \in open', NEW a \in Accounts, snap'[u][UserDoc(a)] # "new"
        PROVE  db'[UserDoc(a)] # "new"
    <3>1. db[UserDoc(a)] # "new"
      BY <1>7, <2>1 DEF Inv, Past
    <3> QED
      BY <1>9, <3>1
  <2> QED
    BY <2>1 DEF Past
<1>18. ASSUME NEW a \in Accounts, db'[UserDoc(a)] = "live"
       PROVE  /\ db[UserDoc(a)] = "live"
              /\ \/ RowDoc(a) \notin W /\ MissedBy(db', a) \subseteq MissedBy(db, a)
                 \/ RowDoc(a) \in W /\ Within(db', a)
  <2>1. db[UserDoc(a)] = "live"
    BY <1>9, <1>18
  <2>2. new[UserDoc(a)] = snap[t][UserDoc(a)]
    BY <1>10, <1>11, <1>18 DEF Safe
  <2>3. CASE RowDoc(a) \notin W /\ MissedBy(new, a) \subseteq MissedBy(snap[t], a)
    <3>1. ASSUME NEW b \in MissedBy(db', a) PROVE b \in MissedBy(db, a)
      <4>1. b \in Ids
        BY <3>1, Missed
      <4>2. CASE BookingDoc(b) \notin W
        <5>1. db'[BookingDoc(b)] = db[BookingDoc(b)]
          BY <1>6, <4>1, <4>2, DocsFacts
        <5> QED
          BY <3>1, <5>1, Missed
      <4>3. CASE BookingDoc(b) \in W
        <5>1. db'[BookingDoc(b)] = new[BookingDoc(b)] /\ snap[t][BookingDoc(b)] = db[BookingDoc(b)]
          BY <1>4, <1>6, <4>1, <4>3, DocsFacts
        <5>2. b \in MissedBy(new, a)
          BY <3>1, <5>1, Missed
        <5> QED
          BY <2>3, <5>1, <5>2, Missed
      <4> QED
        BY <4>2, <4>3
    <3> QED
      BY <2>1, <2>3, <3>1
  <2>4. CASE RowDoc(a) \in W /\ Within(new, a)
    <3>1. MissedBy(db, a) \subseteq MissedBy(snap[t], a)
      BY <1>2, <2>1, <2>4 DEF Inv, Marks
    <3>2. ASSUME NEW b \in MissedBy(db', a) PROVE b \in MissedBy(new, a)
      <4>1. b \in Ids
        BY <3>2, Missed
      <4>2. CASE BookingDoc(b) \notin W
        <5>1. db'[BookingDoc(b)] = db[BookingDoc(b)] /\ new[BookingDoc(b)] = snap[t][BookingDoc(b)]
          BY <1>3, <1>6, <4>1, <4>2, DocsFacts
        <5>2. b \in MissedBy(snap[t], a)
          BY <3>1, <3>2, <5>1, Missed
        <5> QED
          BY <5>1, <5>2, Missed
      <4>3. CASE BookingDoc(b) \in W
        <5>1. db'[BookingDoc(b)] = new[BookingDoc(b)]
          BY <1>6, <4>1, <4>3, DocsFacts
        <5> QED
          BY <3>2, <5>1, Missed
      <4> QED
        BY <4>2, <4>3
    <3>3. db'[RowDoc(a)] = new[RowDoc(a)]
      BY <1>6, <2>4, DocsFacts
    <3>4. Within(db', a)
      BY <2>4, <3>2, <3>3, WithinMono
    <3> QED
      BY <2>1, <2>4, <3>4
  <2> QED
    BY <1>8, <2>1, <2>2, <2>3, <2>4 DEF Safe
<1>19. Marks'
  <2>1. ASSUME NEW u \in open', NEW a \in Accounts, db'[UserDoc(a)] = "live", RowDoc(a) \notin dirty'[u]
        PROVE  MissedBy(db', a) \subseteq MissedBy(snap'[u], a)
    <3>1. u \in open /\ snap'[u] = snap[u] /\ RowDoc(a) \notin dirty[u] /\ RowDoc(a) \notin W
      BY <1>7, <2>1
    <3>2. db[UserDoc(a)] = "live" /\ MissedBy(db', a) \subseteq MissedBy(db, a)
      BY <1>18, <2>1, <3>1
    <3>3. MissedBy(db, a) \subseteq MissedBy(snap[u], a)
      BY <3>1, <3>2 DEF Inv, Marks
    <3> QED
      BY <3>1, <3>2, <3>3
  <2> QED
    BY <2>1 DEF Marks
<1>20. LimitSanctions'
  <2>1. ASSUME NEW a \in Accounts, db'[UserDoc(a)] = "live"
        PROVE  Within(db', a)
    <3>1. CASE RowDoc(a) \notin W /\ MissedBy(db', a) \subseteq MissedBy(db, a)
      <4>1. Within(db, a)
        BY <1>18, <2>1 DEF Inv, LimitSanctions, Within
      <4>2. db'[RowDoc(a)] = db[RowDoc(a)]
        BY <1>6, <3>1, DocsFacts
      <4> QED
        BY <3>1, <4>1, <4>2, WithinMono
    <3> QED
      BY <1>18, <2>1, <3>1
  <2> QED
    BY <2>1 DEF LimitSanctions, Within
<1> QED
  BY <1>12, <1>13, <1>14, <1>15, <1>16, <1>17, <1>19, <1>20 DEF Inv

-----------------------------------------------------------------------------
(* The other steps of a transaction. *)

LEMMA BeginKeeps ==
    ASSUME Inv, NEW t \in Txns, Begin(t)
    PROVE  Inv'
<1>1. /\ db' = db /\ dirty' = dirty /\ open' = open \cup {t}
      /\ snap' = [snap EXCEPT ![t] = db] /\ work' = [work EXCEPT ![t] = db]
  BY DEF Begin
<1>2. /\ DbOK(db) /\ open \subseteq Txns /\ dirty \in [Txns -> SUBSET Docs]
      /\ snap = [u \in Txns |-> snap[u]] /\ work = [u \in Txns |-> work[u]]
      /\ \A u \in open : DbOK(snap[u]) /\ DbOK(work[u])
  BY DEF Inv, Shape
<1>3. \A u \in open' : \/ u \in open /\ snap'[u] = snap[u] /\ work'[u] = work[u]
                       \/ snap'[u] = db /\ work'[u] = db
  BY <1>1, <1>2
<1>4. snap' = [u \in Txns |-> snap'[u]] /\ work' = [u \in Txns |-> work'[u]]
  BY <1>1, <1>2
<1>5. \A u \in open' : DbOK(snap'[u]) /\ DbOK(work'[u])
  BY <1>2, <1>3
<1>6. Shape'
  BY <1>1, <1>2, <1>4, <1>5 DEF Shape
<1>7. Same'
  BY <1>1, <1>3 DEF Inv, Same
<1>8. Lives'
  <2>1. OneLive(db')
    BY <1>1 DEF Inv, Lives
  <2>2. \A u \in open' : OneLive(snap'[u])
    BY <1>3 DEF Inv, Lives
  <2> QED
    BY <2>1, <2>2 DEF Lives
<1>9. Own'
  <2>1. OwnWrites(db, db)
    BY DEF OwnWrites
  <2> QED
    BY <1>3, <2>1 DEF Inv, Own
<1>10. Past'
  BY <1>1, <1>3 DEF Inv, Past
<1>11. Marks'
  BY <1>1, <1>3 DEF Inv, Marks
<1>12. NoStray(db)' /\ LimitSanctions'
  BY <1>1 DEF Inv, LimitSanctions
<1> QED
  BY <1>6, <1>7, <1>8, <1>9, <1>10, <1>11, <1>12 DEF Inv

LEMMA AbortKeeps ==
    ASSUME Inv, NEW t \in Txns, Abort(t)
    PROVE  Inv'
<1>1. /\ db' = db /\ dirty' = [dirty EXCEPT ![t] = {}] /\ open' = open \ {t}
      /\ snap' = [snap EXCEPT ![t] = NoDb] /\ work' = [work EXCEPT ![t] = NoDb]
  BY DEF Abort, Close
<1>2. /\ DbOK(db) /\ open \subseteq Txns /\ dirty \in [Txns -> SUBSET Docs]
      /\ snap = [u \in Txns |-> snap[u]] /\ work = [u \in Txns |-> work[u]]
      /\ \A u \in open : DbOK(snap[u]) /\ DbOK(work[u])
  BY DEF Inv, Shape
<1>3. \A u \in open' : /\ u \in open /\ snap'[u] = snap[u] /\ work'[u] = work[u]
                       /\ dirty'[u] = dirty[u]
  BY <1>1, <1>2
<1>4. /\ snap' = [u \in Txns |-> snap'[u]] /\ work' = [u \in Txns |-> work'[u]]
      /\ dirty' \in [Txns -> SUBSET Docs] /\ open' \subseteq Txns
  BY <1>1, <1>2
<1>5. Shape'
  BY <1>1, <1>2, <1>3, <1>4 DEF Shape
<1>6. Same'
  BY <1>1, <1>3 DEF Inv, Same
<1>7. Lives'
  BY <1>1, <1>3 DEF Inv, Lives
<1>8. Own'
  BY <1>3 DEF Inv, Own
<1>9. Past'
  BY <1>1, <1>3 DEF Inv, Past
<1>10. Marks'
  BY <1>1, <1>3 DEF Inv, Marks
<1>11. NoStray(db)' /\ LimitSanctions'
  BY <1>1 DEF Inv, LimitSanctions
<1> QED
  BY <1>5, <1>6, <1>7, <1>8, <1>9, <1>10, <1>11 DEF Inv

LEMMA UpdateKeeps ==
    ASSUME Inv, NEW t \in Txns, NEW new, Update(t, new), DbOK(new), OwnWrites(snap[t], new)
    PROVE  Inv'
<1>1. /\ db' = db /\ dirty' = dirty /\ open' = open /\ snap' = snap
      /\ work' = [work EXCEPT ![t] = new]
  BY DEF Update
<1>2. work = [u \in Txns |-> work[u]] /\ open \subseteq Txns
  BY DEF Inv, Shape
<1>3. \A u \in open : work'[u] = work[u] \/ (u = t /\ work'[u] = new)
  BY <1>1, <1>2
<1>4. work' = [u \in Txns |-> work'[u]]
  BY <1>1, <1>2
<1>5. \A u \in open : DbOK(work'[u]) /\ OwnWrites(snap[u], work'[u])
  BY <1>3 DEF Inv, Shape, Own
<1>6. Shape' /\ Own'
  BY <1>1, <1>4, <1>5 DEF Inv, Shape, Own
<1>7. Same' /\ Lives' /\ NoStray(db)' /\ Past' /\ Marks' /\ LimitSanctions'
  BY <1>1 DEF Inv, Same, Lives, Past, Marks, LimitSanctions
<1> QED
  BY <1>6, <1>7 DEF Inv

\* A write of one document outside a transaction.
LEMMA WriteKeeps ==
    ASSUME Inv, NEW x \in Docs, NEW v, Write(x, v),
           DbOK(db'), OneLive(db'), NoStray(db'),
           \A a \in Accounts : x = UserDoc(a) => v # "new",
           \A b \in Ids : x # BookingDoc(b),
           \A a \in Accounts : db'[UserDoc(a)] = "live"
               => x # RowDoc(a) /\ (db[UserDoc(a)] = "live" \/ MissedBy(db, a) = {})
    PROVE  Inv'
<1>1. /\ db' = [db EXCEPT ![x] = v] /\ open' = open /\ snap' = snap /\ work' = work
      /\ dirty' = [t \in Txns |-> IF t \in open THEN dirty[t] \cup {x} ELSE {}]
  BY DEF Write
<1>2. /\ db = [y \in Docs |-> db[y]] /\ open \subseteq Txns /\ dirty \in [Txns -> SUBSET Docs]
      /\ \A u \in open : DbOK(snap[u]) /\ DbOK(work[u])
  BY DEF Inv, Shape, DbOK
<1>3. db'[x] = v /\ \A y \in Docs : y # x => db'[y] = db[y]
  BY <1>1, <1>2, Put
<1>4. \A u \in open : dirty'[u] = dirty[u] \cup {x}
  BY <1>1, <1>2
<1>5. dirty' \in [Txns -> SUBSET Docs]
  BY <1>1, <1>2
<1>6. Shape'
  BY <1>1, <1>5 DEF Inv, Shape
<1>7. Same'
  BY <1>1, <1>3, <1>4 DEF Inv, Same
<1>8. Lives'
  BY <1>1 DEF Inv, Lives
<1>9. Own'
  BY <1>1 DEF Inv, Own
<1>10. Past'
  BY <1>1, <1>3, DocsFacts DEF Inv, Past
<1>11. \A a \in Accounts : MissedBy(db', a) = MissedBy(db, a)
  BY <1>3, DocsFacts, SameMissed
<1>12. Marks'
  BY <1>1, <1>2, <1>4, <1>11 DEF Inv, Marks
<1>13. LimitSanctions'
  <2>1. ASSUME NEW a \in Accounts, db'[UserDoc(a)] = "live"
        PROVE  Within(db', a)
    <3>1. db'[RowDoc(a)] = db[RowDoc(a)]
      BY <1>3, <2>1, DocsFacts
    <3>2. CASE db[UserDoc(a)] = "live"
      <4>1. Within(db, a)
        BY <3>2 DEF Inv, LimitSanctions, Within
      <4> QED
        BY <1>11, <3>1, <4>1, WithinMono
    <3>3. CASE MissedBy(db, a) = {}
      BY <1>11, <3>3, WithinAfresh
    <3> QED
      BY <2>1, <3>2, <3>3
  <2> QED
    BY <2>1 DEF LimitSanctions, Within
<1> QED
  BY <1>6, <1>7, <1>8, <1>9, <1>10, <1>12, <1>13 DEF Inv

-----------------------------------------------------------------------------
(* The commits of the handlers are Safe. *)

\* d is the snapshot of t but for the waiting list and transitions of bookings.
Kept(t, d) ==
    /\ DbOK(d)
    /\ \A a \in Accounts : d[UserDoc(a)] = snap[t][UserDoc(a)] /\ d[RowDoc(a)] = snap[t][RowDoc(a)]
    /\ \A b \in Ids : d[BookingDoc(b)] # NoBooking =>
           /\ snap[t][BookingDoc(b)] # NoBooking
           /\ d[BookingDoc(b)].owner = snap[t][BookingDoc(b)].owner

LEMMA SnapKept ==
    ASSUME Inv, NEW t \in open
    PROVE  Kept(t, snap[t])
BY DEF Inv, Shape, Kept

LEMMA KeptSafe ==
    ASSUME Inv, NEW t \in open, NEW d, Kept(t, d),
           \A a \in Accounts : MissedBy(d, a) \subseteq MissedBy(snap[t], a)
    PROVE  Safe(t, d, {})
<1>1. ASSUME NEW a \in Accounts PROVE RowDoc(a) \notin Written(t, d, {})
  BY DEF Kept, Written, Changed
<1> QED
  BY <1>1 DEF Kept, Safe, Counts

\* A row written after a count.
LEMMA RowSafe ==
    ASSUME Inv, NEW t \in open, NEW d, Kept(t, d), NEW a \in Accounts,
           \A c \in Accounts \ {a} : MissedBy(d, c) \subseteq MissedBy(snap[t], c),
           NEW e, RowWritten(d, e, a), e[RowDoc(a)].phone => d[RowDoc(a)].phone,
           NEW touched \in SUBSET {RowDoc(a)},
           db[UserDoc(a)] = "live" => RowDoc(a) \in Written(t, e, touched) /\ Within(e, a)
    PROVE  Safe(t, e, touched)
<1>1. DbOK(e) /\ touched \subseteq Docs
  BY DocsFacts DEF RowWritten
<1>2. \A c \in Accounts : e[UserDoc(c)] = snap[t][UserDoc(c)]
  BY DocsFacts DEF RowWritten, Kept
<1>3. \A c \in Accounts \ {a} : e[RowDoc(c)] = snap[t][RowDoc(c)]
  BY DocsFacts DEF RowWritten, Kept
<1>4. \A b \in Ids : e[BookingDoc(b)] = d[BookingDoc(b)]
  BY DocsFacts DEF RowWritten
<1>5. ASSUME NEW c \in Accounts, db[UserDoc(c)] = "live" PROVE Counts(t, e, touched, c)
  <2>1. CASE c = a
    BY <1>5, <2>1 DEF Counts
  <2>2. CASE c # a
    <3>1. RowDoc(c) \notin touched
      BY <2>2, DocsFacts
    <3>2. RowDoc(c) \notin Written(t, e, touched)
      BY <1>3, <2>2, <3>1 DEF Written, Changed
    <3>3. MissedBy(e, c) = MissedBy(d, c)
      BY <1>4, SameMissed
    <3> QED
      BY <2>2, <3>2, <3>3 DEF Counts
  <2> QED
    BY <2>1, <2>2
<1>6. \A c \in Accounts : e[RowDoc(c)].phone => snap[t][RowDoc(c)].phone
  BY <1>3 DEF Kept
<1> QED
  BY <1>1, <1>2, <1>4, <1>5, <1>6 DEF Kept, Safe

LEMMA TransitionKept ==
    ASSUME Inv, NEW t \in open, NEW b \in Ids, NEW s \in Statuses, snap[t][BookingDoc(b)] # NoBooking
    PROVE  /\ Kept(t, Transition(snap[t], b, s))
           /\ snap[t][BookingDoc(b)].owner \in Accounts
           /\ Transition(snap[t], b, s)[BookingDoc(b)].owner = snap[t][BookingDoc(b)].owner
           /\ \A c \in Accounts :
                  c # snap[t][BookingDoc(b)].owner \/ s \notin MissedStatuses
                  => MissedBy(Transition(snap[t], b, s), c) \subseteq MissedBy(snap[t], c)
<1> DEFINE d == Transition(snap[t], b, s)
<1>1. DbOK(snap[t])
  BY DEF Inv, Shape
<1>2. /\ snap[t][BookingDoc(b)].owner \in Accounts
      /\ DbOK(d) /\ d[BookingDoc(b)] # NoBooking
      /\ d[BookingDoc(b)].owner = snap[t][BookingDoc(b)].owner
      /\ d[BookingDoc(b)].status = s
      /\ \A x \in Docs : x # BookingDoc(b) => d[x] = snap[t][x]
  BY <1>1, TransitionWrites
<1> HIDE DEF d
<1>3. Kept(t, d)
  BY <1>2, DocsFacts DEF Kept
<1>4. ASSUME NEW c \in Accounts, c # snap[t][BookingDoc(b)].owner \/ s \notin MissedStatuses,
             NEW i \in MissedBy(d, c)
      PROVE  i \in MissedBy(snap[t], c)
  <2>1. /\ i \in Ids /\ d[BookingDoc(i)] # NoBooking
        /\ d[BookingDoc(i)].owner = c /\ d[BookingDoc(i)].status \in MissedStatuses
    BY <1>4, Missed
  <2>2. i # b
    BY <1>2, <1>4, <2>1
  <2>3. d[BookingDoc(i)] = snap[t][BookingDoc(i)]
    BY <1>2, <2>1, <2>2, DocsFacts
  <2> QED
    BY <2>1, <2>3, Missed
<1> QED
  BY <1>2, <1>3, <1>4 DEF d

LEMMA BookSafe ==
    ASSUME Inv, NEW t \in open, NEW a \in Accounts, NEW b \in Ids,
           db[UserDoc(a)] # "new", snap[t][BookingDoc(b)] = NoBooking
    PROVE  Safe(t, [snap[t] EXCEPT ![BookingDoc(b)] = Booking(a, "active")], {})
<1> DEFINE d == [snap[t] EXCEPT ![BookingDoc(b)] = Booking(a, "active")]
<1>1. DbOK(snap[t])
  BY DEF Inv, Shape
<1>2. "active" \in Statuses /\ "active" \notin MissedStatuses
  BY DEF Statuses, MissedStatuses
<1>3. /\ DbOK(d) /\ d[BookingDoc(b)].owner = a /\ d[BookingDoc(b)].status = "active"
      /\ \A x \in Docs : x # BookingDoc(b) => d[x] = snap[t][x]
  BY <1>1, <1>2, PutBooking
<1> HIDE DEF d
<1>4. \A c \in Accounts : d[UserDoc(c)] = snap[t][UserDoc(c)] /\ d[RowDoc(c)] = snap[t][RowDoc(c)]
  BY <1>3, DocsFacts
<1>5. ASSUME NEW c \in Accounts PROVE RowDoc(c) \notin Written(t, d, {})
  BY <1>4 DEF Written, Changed
<1>6. ASSUME NEW c \in Accounts, NEW i \in MissedBy(d, c) PROVE i \in MissedBy(snap[t], c)
  <2>1. /\ i \in Ids /\ d[BookingDoc(i)] # NoBooking
        /\ d[BookingDoc(i)].owner = c /\ d[BookingDoc(i)].status \in MissedStatuses
    BY <1>6, Missed
  <2>2. i # b
    BY <1>2, <1>3, <2>1
  <2>3. d[BookingDoc(i)] = snap[t][BookingDoc(i)]
    BY <1>3, <2>1, <2>2, DocsFacts
  <2> QED
    BY <2>1, <2>3, Missed
<1>7. ASSUME NEW i \in Ids, d[BookingDoc(i)] # NoBooking
      PROVE  \/ /\ snap[t][BookingDoc(i)] # NoBooking
                /\ d[BookingDoc(i)].owner = snap[t][BookingDoc(i)].owner
             \/ db[UserDoc(d[BookingDoc(i)].owner)] # "new"
  <2>1. CASE i = b
    BY <1>3, <2>1
  <2>2. CASE i # b
    BY <1>3, <1>7, <2>2, DocsFacts
  <2> QED
    BY <2>1, <2>2
<1>8. Safe(t, d, {})
  BY <1>3, <1>4, <1>5, <1>6, <1>7 DEF Safe, Counts
<1> QED
  BY <1>8 DEF d

LEMMA MarkSafe ==
    ASSUME Inv, NEW t \in open, NEW b \in Ids, NEW s \in Statuses, snap[t][BookingDoc(b)] # NoBooking
    PROVE  LET d == Transition(snap[t], b, s)
           IN Safe(t, CountNoShow(d, b), Subject(d, b))
<1> DEFINE a == snap[t][BookingDoc(b)].owner
           d == Transition(snap[t], b, s)
           e == CountNoShow(d, b)
<1>1. /\ Kept(t, d) /\ a \in Accounts /\ d[BookingDoc(b)].owner = a
      /\ \A c \in Accounts \ {a} : MissedBy(d, c) \subseteq MissedBy(snap[t], c)
  BY TransitionKept
<1>2. DbOK(d)
  BY <1>1 DEF Kept
<1> HIDE DEF a, d
<1>3. /\ RowWritten(d, e, a)
      /\ e[RowDoc(a)].phone = d[RowDoc(a)].phone
      /\ db[UserDoc(a)] = "live" => Subject(d, b) = {RowDoc(a)} /\ Within(e, a)
      /\ Subject(d, b) = {} \/ Subject(d, b) = {RowDoc(a)}
  BY <1>1, <1>2, CountWrites
<1> HIDE DEF e
<1>4. db[UserDoc(a)] = "live" => RowDoc(a) \in Written(t, e, Subject(d, b)) /\ Within(e, a)
  BY <1>3 DEF Written
<1>5. Subject(d, b) \in SUBSET {RowDoc(a)}
  BY <1>3
<1>6. Safe(t, e, Subject(d, b))
  BY <1>1, <1>3, <1>4, <1>5, RowSafe
<1> QED
  BY <1>6 DEF d, e

\* A row kept for a phone, and not written since the snapshot, is of no live
\* account.
LEMMA ReleaseSafe ==
    ASSUME Inv, NEW t \in open, NEW d, Kept(t, d), NEW a \in Accounts,
           \A c \in Accounts : MissedBy(d, c) \subseteq MissedBy(snap[t], c),
           InForce(d[RowDoc(a)]), Commit(t, Release(d, a), {})
    PROVE  Safe(t, Release(d, a), {})
<1> DEFINE e == Release(d, a)
<1>1. DbOK(d) /\ d[RowDoc(a)] = snap[t][RowDoc(a)]
  BY DEF Kept
<1>2. /\ RowWritten(d, e, a) /\ e[RowDoc(a)].end = "none" /\ ~e[RowDoc(a)].phone
      /\ ~d[RowDoc(a)].phone => Within(e, a)
  BY <1>1, ReleaseWrites
<1>3. e[RowDoc(a)] # snap[t][RowDoc(a)]
  BY <1>1, <1>2 DEF InForce
<1>4. RowDoc(a) \in Changed(snap[t], e) /\ Changed(snap[t], e) \cap dirty[t] = {}
  <2>1. DOMAIN e = Docs
    BY <1>2 DEF RowWritten, DbOK
  <2> QED
    BY <1>3, <2>1, DocsFacts DEF Changed, Commit
<1> HIDE DEF e
<1>5. db[RowDoc(a)] = d[RowDoc(a)]
  BY <1>1, <1>4, DocsFacts DEF Inv, Same
<1>6. db[UserDoc(a)] = "live" => RowDoc(a) \in Written(t, e, {}) /\ Within(e, a)
  BY <1>2, <1>4, <1>5 DEF Inv, NoStray, Written
<1>7. Safe(t, e, {})
  <2>1. {} \in SUBSET {RowDoc(a)} /\ (e[RowDoc(a)].phone => d[RowDoc(a)].phone)
    BY <1>2
  <2> QED
    BY <1>2, <1>6, <2>1, RowSafe
<1> QED
  BY <1>7 DEF e

LEMMA SuspendSafe ==
    ASSUME Inv, NEW t \in open, NEW a \in Accounts, NEW end \in {"timed", "forever"}
    PROVE  Safe(t, Suspend([snap[t] EXCEPT ![RowDoc(a)] = Touched(@, {})], a, end, "manual", {}),
                {RowDoc(a)})
<1> DEFINE d == snap[t]
           f == [d EXCEPT ![RowDoc(a)] = Touched(@, {})]
           e == Suspend(f, a, end, "manual", {})
<1>1. Kept(t, d) /\ DbOK(d)
  BY SnapKept DEF Kept
<1>2. RowWritten(d, f, a) /\ f[RowDoc(a)].exists /\ f[RowDoc(a)].phone = d[RowDoc(a)].phone
  BY <1>1, TouchWrites
<1> HIDE DEF f
<1>3. "manual" \in {"no_show", "manual"} /\ {} \in SUBSET Ids /\ ({} # {} => "manual" = "no_show")
  OBVIOUS
<1>4. RowWritten(f, e, a) /\ e[RowDoc(a)].phone = f[RowDoc(a)].phone /\ Within(e, a)
  BY <1>2, <1>3, SuspendWrites DEF RowWritten
<1> HIDE DEF e
<1>5. RowWritten(d, e, a)
  BY <1>2, <1>4 DEF RowWritten
<1>6. RowDoc(a) \in Written(t, e, {RowDoc(a)})
  BY DEF Written
<1>7. Safe(t, e, {RowDoc(a)})
  BY <1>1, <1>2, <1>4, <1>5, <1>6, RowSafe
<1> QED
  BY <1>7 DEF e, f

\* Whatever the deletion has written before is of its own account.
LEMMA DeleteSafe ==
    ASSUME Inv, NEW t \in open, NEW a \in Accounts, work[t][UserDoc(a)] = "live",
           NEW touched \in SUBSET {BookingDoc(b) : b \in Ids}
    PROVE  LET d == [work[t] EXCEPT ![WaitDoc(a)] = FALSE]
           IN Safe(t, [d EXCEPT ![RowDoc(a)] = Detached(@), ![UserDoc(a)] = "deleted"], touched)
<1> DEFINE w == work[t]
           s == snap[t]
           d == [w EXCEPT ![WaitDoc(a)] = FALSE]
           row == Detached(d[RowDoc(a)])
           f == [d EXCEPT ![RowDoc(a)] = row]
           e == [f EXCEPT ![UserDoc(a)] = "deleted"]
           whole == [d EXCEPT ![RowDoc(a)] = Detached(@), ![UserDoc(a)] = "deleted"]
<1>1. DbOK(w) /\ DbOK(s) /\ OneLive(s) /\ OwnWrites(s, w)
  BY DEF Inv, Shape, Lives, Own
<1>2. DbOK(d) /\ \A x \in Docs : x # WaitDoc(a) => d[x] = w[x]
  BY <1>1, PutWait
<1>3. whole = e
  BY DocsFacts
<1>4. w[UserDoc(a)] = "live"
  OBVIOUS
<1> HIDE DEF w, s, d, whole
<1>5. row \in Rows
  BY <1>2, DetachedRow DEF DbOK
<1> HIDE DEF row
<1>6. DbOK(f) /\ \A x \in Docs : x # RowDoc(a) => f[x] = d[x]
  BY <1>2, <1>5, PutRow
<1> HIDE DEF f
<1>7. "deleted" \in UserStates
  BY DEF UserStates
<1>8. DbOK(e) /\ e[UserDoc(a)] = "deleted" /\ \A x \in Docs : x # UserDoc(a) => e[x] = f[x]
  BY <1>6, <1>7, PutUser
<1> HIDE DEF e
<1>9. s[UserDoc(a)] = "live"
  BY <1>1, <1>4 DEF OwnWrites
<1>10. \A c \in Accounts \ {a} : /\ e[UserDoc(c)] = s[UserDoc(c)] /\ s[UserDoc(c)] # "live"
                                 /\ e[RowDoc(c)] = s[RowDoc(c)]
  <2>1. ASSUME NEW c \in Accounts \ {a}
        PROVE  e[UserDoc(c)] = w[UserDoc(c)] /\ e[RowDoc(c)] = w[RowDoc(c)]
    BY <1>2, <1>6, <1>8, DocsFacts
  <2>2. ASSUME NEW c \in Accounts \ {a} PROVE s[UserDoc(c)] # "live"
    BY <1>1, <1>9 DEF OneLive
  <2> QED
    BY <1>1, <2>1, <2>2 DEF OwnWrites
<1>11. \A b \in Ids : e[BookingDoc(b)] = w[BookingDoc(b)]
  BY <1>2, <1>6, <1>8, DocsFacts
<1>12. \A b \in Ids : e[BookingDoc(b)] = s[BookingDoc(b)]
                      \/ (/\ s[BookingDoc(b)] # NoBooking
                          /\ e[BookingDoc(b)].owner = s[BookingDoc(b)].owner
                          /\ s[BookingDoc(b)].owner = a)
  <2>1. ASSUME NEW b \in Ids, w[BookingDoc(b)] # s[BookingDoc(b)]
        PROVE  /\ s[BookingDoc(b)] # NoBooking
               /\ w[BookingDoc(b)].owner = s[BookingDoc(b)].owner
               /\ s[BookingDoc(b)].owner = a
    <3>1. /\ s[BookingDoc(b)] # NoBooking
          /\ w[BookingDoc(b)].owner = s[BookingDoc(b)].owner
          /\ s[UserDoc(s[BookingDoc(b)].owner)] = "live"
      BY <1>1, <2>1 DEF OwnWrites
    <3>2. s[BookingDoc(b)].owner \in Accounts
      BY <1>1, <3>1 DEF DbOK, BookingRows
    <3> QED
      BY <1>1, <1>9, <3>1, <3>2 DEF OneLive
  <2> QED
    BY <1>11, <2>1
<1>13. touched \subseteq Docs /\ \A c \in Accounts : RowDoc(c) \notin touched
  BY DocsFacts
<1>14. ASSUME NEW c \in Accounts \ {a}
       PROVE  /\ RowDoc(c) \notin Changed(s, e) \cup touched
              /\ MissedBy(e, c) \subseteq MissedBy(s, c)
  <2>1. RowDoc(c) \notin Changed(s, e)
    BY <1>10 DEF Changed
  <2>2. ASSUME NEW b \in MissedBy(e, c) PROVE b \in MissedBy(s, c)
    <3>1. b \in Ids /\ e[BookingDoc(b)].owner = c
      BY <2>2, Missed
    <3>2. e[BookingDoc(b)] = s[BookingDoc(b)]
      BY <1>12, <3>1
    <3> QED
      BY <2>2, <3>2, Missed
  <2> QED
    BY <1>13, <2>1, <2>2
<1>15. Safe(t, e, touched)
  <2>1. \A c \in Accounts : e[UserDoc(c)] = snap[t][UserDoc(c)] \/ Ends(t, e, c)
    BY <1>8, <1>9, <1>10 DEF Ends, s
  <2>2. \A c \in Accounts : e[RowDoc(c)].phone => snap[t][RowDoc(c)].phone \/ Ends(t, e, c)
    BY <1>8, <1>9, <1>10 DEF Ends, s
  <2>3. \A b \in Ids : e[BookingDoc(b)] # NoBooking =>
           /\ snap[t][BookingDoc(b)] # NoBooking
           /\ e[BookingDoc(b)].owner = snap[t][BookingDoc(b)].owner
    BY <1>12 DEF s
  <2>4. ASSUME NEW c \in Accounts, e[UserDoc(c)] = snap[t][UserDoc(c)]
        PROVE  Counts(t, e, touched, c)
    <3>1. c # a
      BY <1>8, <1>9, <2>4 DEF s
    <3> QED
      BY <1>14, <3>1 DEF Counts, Written, s
  <2> QED
    BY <1>8, <1>13, <2>1, <2>2, <2>3, <2>4 DEF Safe
<1> QED
  BY <1>3, <1>15 DEF whole, d, w

LEMMA WithdrawKeeps ==
    ASSUME Inv, NEW t \in Txns, NEW a \in Accounts, NEW b \in Ids, NEW late \in BOOLEAN,
           Withdraw(t, a, b, late)
    PROVE  Inv'
<1> DEFINE w == work[t]
           s == snap[t]
           f == [w EXCEPT ![WaitDoc(a)] = FALSE]
           to == IF late THEN "late" ELSE "cancelled"
           d == Transition(f, b, to)
           new == IF late THEN CountNoShow(d, b) ELSE d
<1>1. /\ t \in open /\ w[UserDoc(a)] = "live" /\ db[UserDoc(a)] = "live"
      /\ b \in With(w, a, {"active"}) /\ Update(t, new)
  BY DEF Withdraw
<1>2. DbOK(w) /\ DbOK(s) /\ OwnWrites(s, w)
  BY <1>1 DEF Inv, Shape, Own
<1>3. w[BookingDoc(b)] # NoBooking /\ w[BookingDoc(b)].owner = a
  BY <1>1 DEF With, BookingsOf
<1>4. to \in Statuses
  BY DEF Statuses, MissedStatuses
<1> HIDE DEF w, s, to
<1>5. DbOK(f) /\ \A x \in Docs : x # WaitDoc(a) => f[x] = w[x]
  BY <1>2, PutWait
<1> HIDE DEF f
<1>6. f[BookingDoc(b)] = w[BookingDoc(b)]
  BY <1>5, DocsFacts
<1>7. /\ DbOK(d) /\ d[BookingDoc(b)] # NoBooking /\ d[BookingDoc(b)].owner = a
      /\ \A x \in Docs : x # BookingDoc(b) => d[x] = f[x]
  BY <1>3, <1>4, <1>5, <1>6, TransitionWrites
<1> HIDE DEF d
<1>8. RowWritten(d, new, a) /\ new[RowDoc(a)].phone = d[RowDoc(a)].phone
  <2>1. RowWritten(d, d, a)
    BY <1>7 DEF RowWritten
  <2>2. /\ RowWritten(d, CountNoShow(d, b), a)
        /\ CountNoShow(d, b)[RowDoc(a)].phone = d[RowDoc(a)].phone
    BY <1>7, CountWrites
  <2> QED
    BY <2>1, <2>2
<1> HIDE DEF new
<1>9. \A c \in Accounts : new[UserDoc(c)] = w[UserDoc(c)]
  BY <1>5, <1>7, <1>8, DocsFacts DEF RowWritten
<1>10. \A c \in Accounts : c # a => new[RowDoc(c)] = w[RowDoc(c)]
  BY <1>5, <1>7, <1>8, DocsFacts DEF RowWritten
<1>11. new[RowDoc(a)].phone = w[RowDoc(a)].phone
  BY <1>5, <1>7, <1>8, DocsFacts
<1>12. new[BookingDoc(b)] = d[BookingDoc(b)]
       /\ \A i \in Ids : i # b => new[BookingDoc(i)] = w[BookingDoc(i)]
  BY <1>5, <1>7, <1>8, DocsFacts DEF RowWritten
<1>13. s[UserDoc(a)] = "live"
  BY <1>1, <1>2 DEF OwnWrites
<1>14. OwnWrites(s, new)
  <2>1. \A c \in Accounts : new[UserDoc(c)] = s[UserDoc(c)]
    BY <1>2, <1>9 DEF OwnWrites
  <2>2. \A c \in Accounts : new[RowDoc(c)].phone = s[RowDoc(c)].phone
    BY <1>2, <1>10, <1>11 DEF OwnWrites
  <2>3. \A c \in Accounts : s[UserDoc(c)] # "live" => new[RowDoc(c)] = s[RowDoc(c)]
    BY <1>2, <1>10, <1>13 DEF OwnWrites
  <2>4. ASSUME NEW i \in Ids, new[BookingDoc(i)] # s[BookingDoc(i)]
        PROVE  /\ s[BookingDoc(i)] # NoBooking /\ new[BookingDoc(i)] # NoBooking
               /\ new[BookingDoc(i)].owner = s[BookingDoc(i)].owner
               /\ s[UserDoc(s[BookingDoc(i)].owner)] = "live"
    <3>1. CASE i = b
      <4>1. s[BookingDoc(b)] # NoBooking /\ s[BookingDoc(b)].owner = a
        BY <1>2, <1>3 DEF OwnWrites
      <4> QED
        BY <1>7, <1>12, <1>13, <3>1, <4>1
    <3>2. CASE i # b
      BY <1>2, <1>12, <2>4, <3>2 DEF OwnWrites
    <3> QED
      BY <3>1, <3>2
  <2> QED
    BY <2>1, <2>2, <2>3, <2>4 DEF OwnWrites
<1>15. DbOK(new)
  BY <1>8 DEF RowWritten
<1> QED
  BY <1>1, <1>14, <1>15, UpdateKeeps DEF s

-----------------------------------------------------------------------------
(* Time. *)

LEMMA LapsedWrites ==
    ASSUME NEW d, DbOK(d), NEW a \in Accounts
    PROVE  /\ DbOK(Lapsed(d, a))
           /\ \A x \in Docs : x # RowDoc(a) => Lapsed(d, a)[x] = d[x]
           /\ Lapsed(d, a)[RowDoc(a)] = IF d[RowDoc(a)].end = "timed"
                                        THEN Over(d[RowDoc(a)], d[RowDoc(a)].before)
                                        ELSE d[RowDoc(a)]
           /\ Lapsed(d, a)[RowDoc(a)].phone = d[RowDoc(a)].phone
           /\ Within(d, a) => Within(Lapsed(d, a), a)
<1> DEFINE old == d[RowDoc(a)]
           row == IF old.end = "timed" THEN Over(old, old.before) ELSE old
           e == [d EXCEPT ![RowDoc(a)] = row]
<1>1. old \in Rows
  BY DEF DbOK
<1>2. /\ row \in Rows /\ row.before = old.before /\ row.phone = old.phone
      /\ old.end = "forever" => row.end = "forever"
  <2>1. old.before \in SUBSET Ids /\ (old.end = "timed" => old.exists)
    BY <1>1, RowFacts
  <2>2. CASE old.end = "timed"
    <3>1. Over(old, old.before) \in Rows /\ Over(old, old.before).before = old.before
          /\ Over(old, old.before).phone = old.phone
      BY <1>1, <2>1, <2>2, OverRow
    <3> QED
      BY <2>2, <3>1
  <2>3. CASE old.end # "timed"
    BY <1>1, <2>3
  <2> QED
    BY <2>2, <2>3
<1>3. Lapsed(d, a) = e
  BY DEF Lapsed
<1>4. row = IF old.end = "timed" THEN Over(old, old.before) ELSE old
  OBVIOUS
<1> HIDE DEF row
<1>5. DbOK(e) /\ e[RowDoc(a)] = row /\ \A y \in Docs : y # RowDoc(a) => e[y] = d[y]
  BY <1>2, PutRow
<1> HIDE DEF e
<1>6. MissedBy(e, a) = MissedBy(d, a)
  BY <1>5, DocsFacts, SameMissed
<1>7. Counted(e, a) = Counted(d, a)
  BY <1>2, <1>5, <1>6 DEF Counted
<1>8. Within(d, a) => Within(e, a)
  BY <1>2, <1>5, <1>7 DEF Within
<1> QED
  BY <1>2, <1>3, <1>4, <1>5, <1>8

LEMMA LapsedOwn ==
    ASSUME NEW s, NEW w, DbOK(s), DbOK(w), OwnWrites(s, w), NEW a \in Accounts
    PROVE  OwnWrites(Lapsed(s, a), Lapsed(w, a))
<1> DEFINE p == Lapsed(s, a)
           q == Lapsed(w, a)
<1>1. /\ \A x \in Docs : x # RowDoc(a) => p[x] = s[x] /\ q[x] = w[x]
      /\ p[RowDoc(a)].phone = s[RowDoc(a)].phone /\ q[RowDoc(a)].phone = w[RowDoc(a)].phone
      /\ w[RowDoc(a)] = s[RowDoc(a)] => q[RowDoc(a)] = p[RowDoc(a)]
  BY LapsedWrites
<1> HIDE DEF p, q
<1>2. \A c \in Accounts : /\ p[UserDoc(c)] = s[UserDoc(c)] /\ q[UserDoc(c)] = w[UserDoc(c)]
                          /\ p[RowDoc(c)].phone = s[RowDoc(c)].phone
                          /\ q[RowDoc(c)].phone = w[RowDoc(c)].phone
                          /\ w[RowDoc(c)] = s[RowDoc(c)] => q[RowDoc(c)] = p[RowDoc(c)]
  BY <1>1, DocsFacts
<1>3. \A b \in Ids : p[BookingDoc(b)] = s[BookingDoc(b)] /\ q[BookingDoc(b)] = w[BookingDoc(b)]
  BY <1>1, DocsFacts
<1>4. \A b \in Ids : s[BookingDoc(b)] # NoBooking => s[BookingDoc(b)].owner \in Accounts
  BY DEF DbOK, BookingRows
<1>5. OwnWrites(p, q)
  BY <1>2, <1>3, <1>4 DEF OwnWrites
<1> QED
  BY <1>5 DEF p, q

LEMMA LapseKeeps ==
    ASSUME Inv, NEW a \in Accounts, Lapse(a)
    PROVE  Inv'
<1>1. /\ db' = Lapsed(db, a) /\ open' = open /\ dirty' = dirty
      /\ snap' = [t \in Txns |-> IF t \in open THEN Lapsed(snap[t], a) ELSE NoDb]
      /\ work' = [t \in Txns |-> IF t \in open THEN Lapsed(work[t], a) ELSE NoDb]
  BY DEF Lapse
<1>2. /\ DbOK(db) /\ open \subseteq Txns
      /\ \A t \in open : DbOK(snap[t]) /\ DbOK(work[t])
  BY DEF Inv, Shape
<1>3. \A t \in open : snap'[t] = Lapsed(snap[t], a) /\ work'[t] = Lapsed(work[t], a)
  BY <1>1, <1>2
<1>4. /\ DbOK(db') /\ \A x \in Docs : x # RowDoc(a) => db'[x] = db[x]
      /\ db'[RowDoc(a)] = IF db[RowDoc(a)].end = "timed"
                           THEN Over(db[RowDoc(a)], db[RowDoc(a)].before) ELSE db[RowDoc(a)]
      /\ db'[RowDoc(a)].phone = db[RowDoc(a)].phone
      /\ Within(db, a) => Within(db', a)
  BY <1>1, <1>2, LapsedWrites
<1>5. \A t \in open :
          /\ DbOK(snap'[t]) /\ DbOK(work'[t])
          /\ \A x \in Docs : x # RowDoc(a) => snap'[t][x] = snap[t][x]
          /\ snap'[t][RowDoc(a)] = IF snap[t][RowDoc(a)].end = "timed"
                                   THEN Over(snap[t][RowDoc(a)], snap[t][RowDoc(a)].before)
                                   ELSE snap[t][RowDoc(a)]
  <2>1. ASSUME NEW t \in open
        PROVE  /\ DbOK(Lapsed(snap[t], a)) /\ DbOK(Lapsed(work[t], a))
               /\ \A x \in Docs : x # RowDoc(a) => Lapsed(snap[t], a)[x] = snap[t][x]
               /\ Lapsed(snap[t], a)[RowDoc(a)] = IF snap[t][RowDoc(a)].end = "timed"
                                   THEN Over(snap[t][RowDoc(a)], snap[t][RowDoc(a)].before)
                                   ELSE snap[t][RowDoc(a)]
    BY <1>2, LapsedWrites
  <2> QED
    BY <1>3, <2>1
<1>6. Shape'
  <2>1. snap' = [t \in Txns |-> snap'[t]] /\ work' = [t \in Txns |-> work'[t]]
    BY <1>1
  <2> QED
    BY <1>1, <1>4, <1>5, <2>1 DEF Inv, Shape
<1>7. Same'
  <2>1. ASSUME NEW t \in open, NEW x \in Docs, x \notin dirty[t]
        PROVE  snap'[t][x] = db'[x]
    <3>1. snap[t][x] = db[x]
      BY <2>1 DEF Inv, Same
    <3> QED
      BY <1>4, <1>5, <3>1
  <2> QED
    BY <1>1, <2>1 DEF Same
<1>8. /\ \A c \in Accounts : db'[UserDoc(c)] = db[UserDoc(c)]
      /\ \A t \in open, c \in Accounts : snap'[t][UserDoc(c)] = snap[t][UserDoc(c)]
  BY <1>4, <1>5, DocsFacts
<1>9. Lives'
  BY <1>1, <1>8 DEF Inv, Lives, OneLive
<1>10. NoStray(db)'
  <2>1. \A b \in Ids : db'[BookingDoc(b)] = db[BookingDoc(b)]
    BY <1>4, DocsFacts
  <2>2. \A c \in Accounts : db'[RowDoc(c)].phone = db[RowDoc(c)].phone
    BY <1>4, DocsFacts
  <2>3. \A b \in Ids : db[BookingDoc(b)] # NoBooking => db[BookingDoc(b)].owner \in Accounts
    BY <1>2 DEF DbOK, BookingRows
  <2> QED
    BY <1>8, <2>1, <2>2, <2>3 DEF Inv, NoStray
<1>11. Own'
  <2>1. \A t \in open : OwnWrites(Lapsed(snap[t], a), Lapsed(work[t], a))
    BY <1>2, LapsedOwn DEF Inv, Own
  <2> QED
    BY <1>1, <1>3, <2>1 DEF Own
<1>12. Past'
  BY <1>1, <1>8 DEF Inv, Past
<1>13. /\ \A c \in Accounts : MissedBy(db', c) = MissedBy(db, c)
       /\ \A t \in open, c \in Accounts : MissedBy(snap'[t], c) = MissedBy(snap[t], c)
  BY <1>4, <1>5, DocsFacts, SameMissed
<1>14. Marks'
  BY <1>1, <1>8, <1>13 DEF Inv, Marks
<1>15. LimitSanctions'
  <2>1. ASSUME NEW c \in Accounts, db'[UserDoc(c)] = "live"
        PROVE  Within(db', c)
    <3>1. Within(db, c)
      BY <1>8, <2>1 DEF Inv, LimitSanctions, Within
    <3>2. CASE c = a
      BY <1>4, <3>1, <3>2
    <3>3. CASE c # a
      <4>1. db'[RowDoc(c)] = db[RowDoc(c)]
        BY <1>4, <3>3, DocsFacts
      <4> QED
        BY <1>13, <3>1, <4>1, WithinMono
    <3> QED
      BY <3>2, <3>3
  <2> QED
    BY <2>1 DEF LimitSanctions, Within
<1> QED
  BY <1>6, <1>7, <1>9, <1>10, <1>11, <1>12, <1>14, <1>15 DEF Inv

-----------------------------------------------------------------------------
(* Every step keeps the invariant. *)

LEMMA HandlerKeeps ==
    ASSUME Inv, NEW t \in Txns,
           \/ \E a \in Accounts, b \in Ids : Book(t, a, b) \/ BookOnBehalf(t, a, b)
           \/ \E b \in Ids : Mark(t, b) \/ Attend(t, b) \/ Correct(t, b) \/ Cancel(t, b)
                                \/ CancelLate(t, b)
           \/ \E a \in Accounts : \/ JoinWaitlist(t, a) \/ Lift(t, a) \/ DeleteAccount(t, a)
                                  \/ \E end \in {"timed", "forever"} : SuspendByHand(t, a, end)
    PROVE  Inv'
<1>1. /\ {"active", "attended", "cancelled", "no_show", "late"} \subseteq Statuses
      /\ "attended" \notin MissedStatuses /\ "cancelled" \notin MissedStatuses
      /\ NoBooking.status = "none"
  BY DEF Statuses, MissedStatuses, NoBooking
<1>2. ASSUME NEW a \in Accounts, NEW b \in Ids, Book(t, a, b)
      PROVE  Inv'
  <2>1. /\ t \in open /\ work[t] = snap[t] /\ db[UserDoc(a)] = "live"
        /\ snap[t][BookingDoc(b)] = NoBooking
        /\ Commit(t, [snap[t] EXCEPT ![BookingDoc(b)] = Booking(a, "active")], {})
    BY <1>2 DEF Book, AtStart
  <2> QED
    BY <2>1, BookSafe, CommitKeeps
<1>3. ASSUME NEW a \in Accounts, NEW b \in Ids, BookOnBehalf(t, a, b)
      PROVE  Inv'
  <2>1. /\ t \in open /\ work[t] = snap[t] /\ snap[t][UserDoc(a)] = "live"
        /\ snap[t][BookingDoc(b)] = NoBooking
        /\ Commit(t, [snap[t] EXCEPT ![BookingDoc(b)] = Booking(a, "active")], {})
    BY <1>3 DEF BookOnBehalf, AtStart
  <2>2. db[UserDoc(a)] # "new"
    BY <2>1 DEF Inv, Past
  <2> QED
    BY <2>1, <2>2, BookSafe, CommitKeeps
<1>4. ASSUME NEW b \in Ids, Mark(t, b)
      PROVE  Inv'
  <2>1. /\ t \in open /\ work[t] = snap[t] /\ snap[t][BookingDoc(b)].status \in {"active", "attended"}
        /\ Commit(t, CountNoShow(Transition(snap[t], b, "no_show"), b),
                   Subject(Transition(snap[t], b, "no_show"), b))
    BY <1>4 DEF Mark, AtStart
  <2>2. snap[t][BookingDoc(b)] # NoBooking /\ "no_show" \in Statuses
    BY <1>1, <2>1
  <2>3. Safe(t, CountNoShow(Transition(snap[t], b, "no_show"), b),
             Subject(Transition(snap[t], b, "no_show"), b))
    BY <2>1, <2>2, MarkSafe
  <2> QED
    BY <2>1, <2>3, CommitKeeps
<1>5. ASSUME NEW b \in Ids, CancelLate(t, b)
      PROVE  Inv'
  <2>1. /\ t \in open /\ work[t] = snap[t] /\ snap[t][BookingDoc(b)].status = "active"
        /\ Commit(t, CountNoShow(Transition(snap[t], b, "late"), b),
                   Subject(Transition(snap[t], b, "late"), b))
    BY <1>5 DEF CancelLate, AtStart
  <2>2. snap[t][BookingDoc(b)] # NoBooking /\ "late" \in Statuses
    BY <1>1, <2>1
  <2>3. Safe(t, CountNoShow(Transition(snap[t], b, "late"), b),
             Subject(Transition(snap[t], b, "late"), b))
    BY <2>1, <2>2, MarkSafe
  <2> QED
    BY <2>1, <2>3, CommitKeeps
<1>6. ASSUME NEW b \in Ids, NEW s \in {"attended", "cancelled"},
             t \in open, snap[t][BookingDoc(b)] # NoBooking,
             Commit(t, Transition(snap[t], b, s), {})
      PROVE  Inv'
  <2>1. /\ Kept(t, Transition(snap[t], b, s))
        /\ \A c \in Accounts : MissedBy(Transition(snap[t], b, s), c) \subseteq MissedBy(snap[t], c)
    BY <1>1, <1>6, TransitionKept
  <2>2. Safe(t, Transition(snap[t], b, s), {})
    BY <1>6, <2>1, KeptSafe
  <2> QED
    BY <1>6, <2>2, CommitKeeps
<1>7. ASSUME NEW b \in Ids, Attend(t, b)
      PROVE  Inv'
  <2>1. /\ t \in open /\ work[t] = snap[t] /\ snap[t][BookingDoc(b)].status = "active"
        /\ Commit(t, Transition(snap[t], b, "attended"), {})
    BY <1>7 DEF Attend, AtStart
  <2> QED
    BY <1>1, <1>6, <2>1
<1>8. ASSUME NEW b \in Ids, Cancel(t, b)
      PROVE  Inv'
  <2>1. /\ t \in open /\ work[t] = snap[t] /\ snap[t][BookingDoc(b)].status = "active"
        /\ Commit(t, Transition(snap[t], b, "cancelled"), {})
    BY <1>8 DEF Cancel, AtStart
  <2> QED
    BY <1>1, <1>6, <2>1
<1>9. ASSUME NEW b \in Ids, Correct(t, b)
      PROVE  Inv'
  <2> DEFINE d == Transition(snap[t], b, "attended")
             a == d[BookingDoc(b)].owner
  <2>1. /\ t \in open /\ work[t] = snap[t] /\ snap[t][BookingDoc(b)].status = "no_show"
        /\ \/ Commit(t, d, {})
           \/ InForce(d[RowDoc(a)]) /\ Commit(t, Release(d, a), {})
    BY <1>9 DEF Correct, AtStart
  <2>2. snap[t][BookingDoc(b)] # NoBooking
    BY <1>1, <2>1
  <2>3. CASE Commit(t, d, {})
    BY <1>6, <2>1, <2>2, <2>3
  <2>4. CASE InForce(d[RowDoc(a)]) /\ Commit(t, Release(d, a), {})
    <3>1. /\ Kept(t, d) /\ a \in Accounts
          /\ \A c \in Accounts : MissedBy(d, c) \subseteq MissedBy(snap[t], c)
      BY <1>1, <2>1, <2>2, TransitionKept
    <3> HIDE DEF a, d
    <3>2. Safe(t, Release(d, a), {})
      BY <2>1, <2>4, <3>1, ReleaseSafe
    <3> QED
      BY <2>1, <2>4, <3>2, CommitKeeps
  <2> QED
    BY <2>1, <2>3, <2>4
<1>10. ASSUME NEW a \in Accounts, JoinWaitlist(t, a)
       PROVE  Inv'
  <2> DEFINE d == [snap[t] EXCEPT ![WaitDoc(a)] = TRUE]
  <2>1. t \in open /\ work[t] = snap[t] /\ Commit(t, d, {})
    BY <1>10 DEF JoinWaitlist, AtStart
  <2>2. DbOK(snap[t])
    BY <2>1 DEF Inv, Shape
  <2>3. DbOK(d) /\ \A x \in Docs : x # WaitDoc(a) => d[x] = snap[t][x]
    BY <2>2, PutWait
  <2> HIDE DEF d
  <2>4. Kept(t, d)
    BY <2>3, DocsFacts DEF Kept
  <2>5. \A c \in Accounts : MissedBy(d, c) = MissedBy(snap[t], c)
    BY <2>3, DocsFacts, SameMissed
  <2>6. Safe(t, d, {})
    BY <2>1, <2>4, <2>5, KeptSafe
  <2> QED
    BY <2>1, <2>6, CommitKeeps
<1>11. ASSUME NEW a \in Accounts, Lift(t, a)
       PROVE  Inv'
  <2>1. /\ t \in open /\ work[t] = snap[t] /\ InForce(snap[t][RowDoc(a)])
        /\ Commit(t, Release(snap[t], a), {})
    BY <1>11 DEF Lift, AtStart
  <2>2. Kept(t, snap[t])
    BY <2>1, SnapKept
  <2>3. Safe(t, Release(snap[t], a), {})
    BY <2>1, <2>2, ReleaseSafe
  <2> QED
    BY <2>1, <2>3, CommitKeeps
<1>12. ASSUME NEW a \in Accounts, DeleteAccount(t, a)
       PROVE  Inv'
  <2> DEFINE d == [work[t] EXCEPT ![WaitDoc(a)] = FALSE]
             new == [d EXCEPT ![RowDoc(a)] = Detached(@), ![UserDoc(a)] = "deleted"]
             touched == {BookingDoc(b) : b \in BookingsOf(d, a)}
  <2>1. t \in open /\ d[UserDoc(a)] = "live" /\ Commit(t, new, touched)
    BY <1>12 DEF DeleteAccount
  <2>2. DbOK(work[t])
    BY <2>1 DEF Inv, Shape
  <2>3. work[t][UserDoc(a)] = "live"
    <3>1. \A x \in Docs : x # WaitDoc(a) => d[x] = work[t][x]
      BY <2>2, PutWait
    <3> HIDE DEF d
    <3> QED
      BY <2>1, <3>1, DocsFacts
  <2>4. touched \in SUBSET {BookingDoc(b) : b \in Ids}
    BY DEF BookingsOf
  <2> HIDE DEF touched
  <2>5. Safe(t, new, touched)
    BY <2>1, <2>3, <2>4, DeleteSafe
  <2> HIDE DEF new
  <2> QED
    BY <2>1, <2>5, CommitKeeps
<1>13. ASSUME NEW a \in Accounts, NEW end \in {"timed", "forever"}, SuspendByHand(t, a, end)
       PROVE  Inv'
  <2> DEFINE new == Suspend([snap[t] EXCEPT ![RowDoc(a)] = Touched(@, {})], a, end, "manual", {})
  <2>1. t \in open /\ Commit(t, new, {RowDoc(a)})
    BY <1>13 DEF SuspendByHand, AtStart
  <2>2. Safe(t, new, {RowDoc(a)})
    BY <2>1, SuspendSafe
  <2> HIDE DEF new
  <2> QED
    BY <2>1, <2>2, CommitKeeps
<1> QED
  BY <1>2, <1>3, <1>4, <1>5, <1>7, <1>8, <1>9, <1>10, <1>11, <1>12, <1>13

LEMMA WriterKeeps ==
    ASSUME Inv, NEW a \in Accounts, LeaveWaitlist(a) \/ Register(a) \/ Expire(a)
    PROVE  Inv'
<1>1. DbOK(db) /\ OneLive(db) /\ NoStray(db)
  BY DEF Inv, Shape, Lives
<1>2. CASE LeaveWaitlist(a)
  <2>1. Write(WaitDoc(a), FALSE) /\ db' = [db EXCEPT ![WaitDoc(a)] = FALSE]
    BY <1>2 DEF LeaveWaitlist, Write
  <2>2. DbOK(db') /\ \A x \in Docs : x # WaitDoc(a) => db'[x] = db[x]
    BY <1>1, <2>1, PutWait
  <2>3. /\ \A c \in Accounts : db'[UserDoc(c)] = db[UserDoc(c)] /\ db'[RowDoc(c)] = db[RowDoc(c)]
        /\ \A b \in Ids : db'[BookingDoc(b)] = db[BookingDoc(b)]
    BY <2>2, DocsFacts
  <2>4. OneLive(db')
    BY <1>1, <2>3 DEF OneLive
  <2>5. NoStray(db')
    <3>1. \A b \in Ids : db[BookingDoc(b)] # NoBooking => db[BookingDoc(b)].owner \in Accounts
      BY <1>1 DEF DbOK, BookingRows
    <3> QED
      BY <1>1, <2>3, <3>1 DEF NoStray
  <2>6. /\ WaitDoc(a) \in Docs
        /\ \A c \in Accounts : WaitDoc(a) # UserDoc(c) /\ WaitDoc(a) # RowDoc(c)
        /\ \A b \in Ids : WaitDoc(a) # BookingDoc(b)
    BY DocsFacts
  <2> QED
    BY <2>1, <2>2, <2>3, <2>4, <2>5, <2>6, WriteKeeps
<1>3. CASE Register(a)
  <2>1. /\ db[UserDoc(a)] = "new" /\ \A c \in Accounts : db[UserDoc(c)] # "live"
        /\ Write(UserDoc(a), "live") /\ db' = [db EXCEPT ![UserDoc(a)] = "live"]
    BY <1>3 DEF Register, Write
  <2>2. "live" \in UserStates
    BY DEF UserStates
  <2>3. DbOK(db') /\ db'[UserDoc(a)] = "live" /\ \A x \in Docs : x # UserDoc(a) => db'[x] = db[x]
    <3> DEFINE e == [db EXCEPT ![UserDoc(a)] = "live"]
    <3>1. DbOK(e) /\ e[UserDoc(a)] = "live" /\ \A x \in Docs : x # UserDoc(a) => e[x] = db[x]
      BY <1>1, <2>2, PutUser
    <3>2. db' = e
      BY <2>1
    <3> HIDE DEF e
    <3> QED
      BY <3>1, <3>2
  <2>4. /\ \A c \in Accounts : c # a => db'[UserDoc(c)] = db[UserDoc(c)]
        /\ \A c \in Accounts : db'[RowDoc(c)] = db[RowDoc(c)]
        /\ \A b \in Ids : db'[BookingDoc(b)] = db[BookingDoc(b)]
    BY <2>3, DocsFacts
  <2>5. OneLive(db')
    BY <2>1, <2>4 DEF OneLive
  <2>6. NoStray(db')
    <3>1. \A b \in Ids : db[BookingDoc(b)] # NoBooking => db[BookingDoc(b)].owner \in Accounts
      BY <1>1 DEF DbOK, BookingRows
    <3>2. \A c \in Accounts : db[UserDoc(c)] # "new" => db'[UserDoc(c)] = db[UserDoc(c)]
      BY <2>1, <2>4
    <3> QED
      BY <1>1, <2>4, <3>1, <3>2 DEF NoStray
  <2>7. MissedBy(db, a) = {}
    <3>1. ASSUME NEW b \in MissedBy(db, a) PROVE FALSE
      BY <1>1, <2>1, <3>1, Missed DEF NoStray
    <3> QED
      BY <3>1
  <2>8. \A c \in Accounts : db'[UserDoc(c)] = "live" => c = a
    BY <2>1, <2>4
  <2>9. /\ UserDoc(a) \in Docs
        /\ \A c \in Accounts : UserDoc(a) # RowDoc(c)
        /\ \A b \in Ids : UserDoc(a) # BookingDoc(b)
    BY DocsFacts
  <2>10. "live" # "new"
    OBVIOUS
  <2> QED
    BY <2>1, <2>3, <2>5, <2>6, <2>7, <2>8, <2>9, <2>10, WriteKeeps
<1>4. CASE Expire(a)
  <2>1. /\ db[RowDoc(a)].phone
        /\ Write(RowDoc(a), NoRow) /\ db' = [db EXCEPT ![RowDoc(a)] = NoRow]
    BY <1>4 DEF Expire, Write
  <2>2. DbOK(db') /\ db'[RowDoc(a)] = NoRow /\ \A x \in Docs : x # RowDoc(a) => db'[x] = db[x]
    <3> DEFINE e == [db EXCEPT ![RowDoc(a)] = NoRow]
    <3>1. NoRow \in Rows
      BY RowFacts
    <3>2. DbOK(e) /\ e[RowDoc(a)] = NoRow /\ \A x \in Docs : x # RowDoc(a) => e[x] = db[x]
      BY <1>1, <3>1, PutRow
    <3>3. db' = e
      BY <2>1
    <3> HIDE DEF e
    <3> QED
      BY <3>2, <3>3
  <2>3. /\ \A c \in Accounts : db'[UserDoc(c)] = db[UserDoc(c)]
        /\ \A c \in Accounts : c # a => db'[RowDoc(c)] = db[RowDoc(c)]
        /\ \A b \in Ids : db'[BookingDoc(b)] = db[BookingDoc(b)]
    BY <2>2, DocsFacts
  <2>4. OneLive(db')
    BY <1>1, <2>3 DEF OneLive
  <2>5. NoStray(db')
    <3>1. \A b \in Ids : db[BookingDoc(b)] # NoBooking => db[BookingDoc(b)].owner \in Accounts
      BY <1>1 DEF DbOK, BookingRows
    <3>2. \A c \in Accounts : db'[RowDoc(c)].phone => db[RowDoc(c)].phone
      BY <2>2, <2>3, RowFacts
    <3> QED
      BY <1>1, <2>3, <3>1, <3>2 DEF NoStray
  <2>6. db[UserDoc(a)] = "deleted"
    BY <1>1, <2>1 DEF NoStray
  <2>7. \A c \in Accounts : db'[UserDoc(c)] = "live" => c # a /\ db[UserDoc(c)] = "live"
    BY <2>3, <2>6
  <2>8. /\ RowDoc(a) \in Docs
        /\ \A c \in Accounts : RowDoc(a) # UserDoc(c) /\ (RowDoc(a) = RowDoc(c) => a = c)
        /\ \A b \in Ids : RowDoc(a) # BookingDoc(b)
    BY DocsFacts
  <2>9. \A c \in Accounts : db'[UserDoc(c)] = "live" => RowDoc(a) # RowDoc(c) /\ db[UserDoc(c)] = "live"
    BY <2>7, <2>8
  <2> QED
    BY <2>1, <2>2, <2>4, <2>5, <2>8, <2>9, WriteKeeps
<1> QED
  BY <1>2, <1>3, <1>4

-----------------------------------------------------------------------------
LEMMA InitInv ==
    Init => Inv
<1> SUFFICES ASSUME Init PROVE Inv
  OBVIOUS
<1>1. /\ db = EmptyDb /\ open = {}
      /\ snap = [t \in Txns |-> NoDb] /\ work = [t \in Txns |-> NoDb]
      /\ dirty = [t \in Txns |-> {}]
  BY DEF Init, TxInit
<1>2. Shape
  BY <1>1, EmptyFacts DEF Shape
<1>3. Same /\ Own /\ Past /\ Marks
  BY <1>1 DEF Same, Own, Past, Marks
<1>4. Lives
  BY <1>1, EmptyFacts DEF Lives, OneLive
<1>5. NoStray(db)
  BY <1>1, EmptyFacts, RowFacts DEF NoStray
<1>6. LimitSanctions
  BY <1>1, EmptyFacts DEF LimitSanctions
<1> QED
  BY <1>2, <1>3, <1>4, <1>5, <1>6 DEF Inv

LEMMA NextKeeps ==
    Inv /\ [Next]_txVars => Inv'
<1> SUFFICES ASSUME Inv, [Next]_txVars PROVE Inv'
  OBVIOUS
<1>1. CASE UNCHANGED txVars
  BY <1>1 DEF txVars, Inv, Shape, Same, Lives, Own, Past, Marks, LimitSanctions
<1>2. ASSUME NEW t \in Txns, Begin(t) \/ Abort(t)
      PROVE  Inv'
  BY <1>2, BeginKeeps, AbortKeeps
<1>3. ASSUME NEW t \in Txns, NEW a \in Accounts, NEW b \in Ids, NEW late \in BOOLEAN,
             Withdraw(t, a, b, late)
      PROVE  Inv'
  BY <1>3, WithdrawKeeps
<1>4. ASSUME NEW a \in Accounts, Lapse(a)
      PROVE  Inv'
  BY <1>4, LapseKeeps
<1> QED
  BY <1>1, <1>2, <1>3, <1>4, HandlerKeeps, WriterKeeps DEF Next

LEMMA Always ==
    Spec => []Inv
<1> QED
  BY InitInv, NextKeeps, PTL DEF Spec

\* The database always has the shape of its schemas: a row that counts bookings
\* is a no-show one, a row that does not exist holds nothing (touch upserts).
THEOREM TypesHold ==
    Spec => []TypeOK
<1>1. Inv => TypeOK
  BY DEF Inv, Shape, DbOK, UserStates, TypeOK
<1> QED
  BY Always, <1>1, PTL

\* However marks, corrections, late cancellations, deletions of accounts and
\* suspensions interleave, no client of a live account has NoShowLimit marks
\* standing against them unless they are suspended for good.
THEOREM LimitSanctionsHolds ==
    Spec => []LimitSanctions
<1>1. Inv => LimitSanctions
  BY DEF Inv
<1> QED
  BY Always, <1>1, PTL

-----------------------------------------------------------------------------
(* What a sanction imposed meanwhile leaves behind. *)

Manual(row)   == InForce(row) /\ row.kind = "manual"
Punished(row) == InForce(row) /\ row.kind = "no_show"

\* How counting a mark may change a row.
Harsher(old, row) ==
    /\ Manual(old) => row.end = old.end /\ row.kind = "manual"
    /\ Punished(old) => Punished(row)
    /\ old.end = "forever" <=> row.end = "forever"
    /\ old.end = "forever" => row.kind = old.kind

\* The deletion of an account that is under way has withdrawn active bookings,
\* and punishes only on account of them.
Withdrawn(s, w) ==
    /\ \A b \in Ids : w[BookingDoc(b)] # s[BookingDoc(b)] => w[BookingDoc(b)].status # "active"
    /\ \A a \in Accounts :
          /\ Harsher(s[RowDoc(a)], w[RowDoc(a)])
          /\ Punished(w[RowDoc(a)]) /\ ~Punished(s[RowDoc(a)]) =>
                \E b \in BookingsOf(w, a) : w[BookingDoc(b)] # s[BookingDoc(b)]

\* A punishment imposed since the snapshot wrote a booking of the account.
Imposed ==
    \A t \in open, a \in Accounts :
        Punished(db[RowDoc(a)]) /\ ~Punished(snap[t][RowDoc(a)]) =>
            \E b \in BookingsOf(db, a) : BookingDoc(b) \in dirty[t]

Traced ==
    /\ \A t \in open : Withdrawn(snap[t], work[t])
    /\ \A t \in open, a \in Accounts : snap[t][RowDoc(a)].phone => snap[t][UserDoc(a)] = "deleted"
    /\ Imposed

LEMMA HarsherThan ==
    /\ \A r : Harsher(r, r)
    /\ \A r, s, u : Harsher(r, s) /\ Harsher(s, u) => Harsher(r, u)
<1>1. ASSUME NEW r, NEW s, NEW u, Harsher(r, s), Harsher(s, u) PROVE Harsher(r, u)
  BY <1>1 DEF Harsher, Manual, Punished, InForce
<1>2. ASSUME NEW r PROVE Harsher(r, r)
  BY DEF Harsher, Manual
<1> QED BY <1>1, <1>2, Zenon

LEMMA SuspendedEnds ==
    ASSUME NEW d, DbOK(d), NEW a \in Accounts, NEW end, NEW kind, NEW ids
    PROVE  /\ Suspend(d, a, end, kind, ids)[RowDoc(a)].end = end
           /\ Suspend(d, a, end, kind, ids)[RowDoc(a)].kind = kind
<1>1. d[RowDoc(a)] \in RowFields /\ DOMAIN d = Docs
  BY RowParts DEF DbOK
<1>2. Suspend(d, a, end, kind, ids)[RowDoc(a)]
        = Suspended(d[RowDoc(a)], end, kind, ids, MissedBy(d, a))
  BY <1>1, DocsFacts DEF Suspend
<1> QED BY <1>1, <1>2 DEF Suspended, RowFields

LEMMA SanctionHarsher ==
    ASSUME NEW d, DbOK(d), NEW a \in Accounts
    PROVE  Harsher(d[RowDoc(a)], Sanction(d, a)[RowDoc(a)])
<1> DEFINE old == d[RowDoc(a)]
           row == Sanction(d, a)[RowDoc(a)]
<1>1. CASE Sanction(d, a) = d
  BY <1>1, HarsherThan
<1>2. CASE Sanction(d, a) # d
  <2>1. /\ old.end # "forever"
        /\ \/ Manual(old) /\ Sanction(d, a) = Suspend(d, a, "timed", "manual", {})
           \/ ~Manual(old) /\ Sanction(d, a) = Suspend(d, a, "timed", "no_show", Counted(d, a))
    BY <1>2 DEF Sanction, Manual
  <2>2. row.end = "timed" /\ (Manual(old) => row.kind = "manual") /\ (~Manual(old) => row.kind = "no_show")
    BY <2>1, SuspendedEnds
  <2>3. old.end \in {"none", "timed", "forever"}
    BY RowParts DEF DbOK
  <2> QED BY <2>1, <2>2, <2>3 DEF Harsher, Manual, Punished, InForce
<1> QED BY <1>1, <1>2

LEMMA CountHarsher ==
    ASSUME NEW d, DbOK(d), NEW b \in Ids, NEW a \in Accounts, d[BookingDoc(b)].owner = a
    PROVE  Harsher(d[RowDoc(a)], CountNoShow(d, b)[RowDoc(a)])
<1> DEFINE f == [d EXCEPT ![RowDoc(a)] = Touched(@, {b})]
<1>1. DbOK(f)
  BY TouchWrites DEF RowWritten
<1>2. Harsher(d[RowDoc(a)], f[RowDoc(a)])
  <2>1. d[RowDoc(a)] \in RowFields /\ DOMAIN d = Docs /\ RowDoc(a) \in Docs
    BY RowParts, DocsFacts DEF DbOK
  <2>2. f[RowDoc(a)].end = d[RowDoc(a)].end /\ f[RowDoc(a)].kind = d[RowDoc(a)].kind
    BY <2>1 DEF Touched, RowFields
  <2> QED BY <2>2 DEF Harsher, Manual, Punished, InForce
<1>3. CountNoShow(d, b) = d \/ CountNoShow(d, b) = Sanction(f, a)
  BY DEF CountNoShow
<1> HIDE DEF f
<1>4. Harsher(d[RowDoc(a)], Sanction(f, a)[RowDoc(a)])
  BY <1>1, <1>2, SanctionHarsher, HarsherThan
<1> QED BY <1>3, <1>4, HarsherThan

LEMMA WithdrawTraced ==
    ASSUME Inv, Traced, NEW t \in Txns, NEW a \in Accounts, NEW b \in Ids, NEW late \in BOOLEAN,
           Withdraw(t, a, b, late)
    PROVE  Traced'
<1> DEFINE w == work[t]
           s == snap[t]
           f == [w EXCEPT ![WaitDoc(a)] = FALSE]
           to == IF late THEN "late" ELSE "cancelled"
           d == Transition(f, b, to)
           new == IF late THEN CountNoShow(d, b) ELSE d
<1>1. /\ t \in open /\ b \in With(w, a, {"active"}) /\ Update(t, new)
  BY DEF Withdraw
<1>2. DbOK(w) /\ Withdrawn(s, w) /\ OwnWrites(s, w)
  BY <1>1 DEF Inv, Shape, Traced, Own
<1>3. w[BookingDoc(b)] # NoBooking /\ w[BookingDoc(b)].owner = a /\ w[BookingDoc(b)].status = "active"
  BY <1>1 DEF With, BookingsOf
<1>4. to \in Statuses /\ to # "active"
  BY DEF Statuses, MissedStatuses
<1> HIDE DEF w, s, to
<1>5. DbOK(f) /\ \A x \in Docs : x # WaitDoc(a) => f[x] = w[x]
  BY <1>2, PutWait
<1> HIDE DEF f
<1>6. f[BookingDoc(b)] = w[BookingDoc(b)]
  BY <1>5, DocsFacts
<1>7. /\ DbOK(d) /\ d[BookingDoc(b)] # NoBooking /\ d[BookingDoc(b)].owner = a
      /\ d[BookingDoc(b)].status = to
      /\ \A x \in Docs : x # BookingDoc(b) => d[x] = f[x]
  BY <1>3, <1>4, <1>5, <1>6, TransitionWrites
<1> HIDE DEF d
<1>8. RowWritten(d, new, a) /\ Harsher(d[RowDoc(a)], new[RowDoc(a)])
  <2>1. RowWritten(d, d, a) /\ Harsher(d[RowDoc(a)], d[RowDoc(a)])
    BY <1>7, HarsherThan DEF RowWritten
  <2>2. RowWritten(d, CountNoShow(d, b), a)
    BY <1>7, CountWrites
  <2>3. Harsher(d[RowDoc(a)], CountNoShow(d, b)[RowDoc(a)])
    BY <1>7, CountHarsher
  <2> QED
    BY <2>1, <2>2, <2>3
<1> HIDE DEF new
<1>9. /\ \A c \in Accounts : c # a => new[RowDoc(c)] = w[RowDoc(c)]
      /\ Harsher(w[RowDoc(a)], new[RowDoc(a)])
  BY <1>5, <1>7, <1>8, DocsFacts DEF RowWritten
<1>10. /\ new[BookingDoc(b)] = d[BookingDoc(b)]
       /\ \A i \in Ids : i # b => new[BookingDoc(i)] = w[BookingDoc(i)]
  BY <1>5, <1>7, <1>8, DocsFacts DEF RowWritten
<1>11. s[BookingDoc(b)] = w[BookingDoc(b)]
  BY <1>2, <1>3 DEF Withdrawn
<1>12. b \in BookingsOf(new, a) /\ new[BookingDoc(b)] # s[BookingDoc(b)]
  BY <1>3, <1>4, <1>7, <1>10, <1>11 DEF BookingsOf
<1>13. Withdrawn(s, new)
  <2>1. \A i \in Ids : new[BookingDoc(i)] # s[BookingDoc(i)] => new[BookingDoc(i)].status # "active"
    BY <1>2, <1>4, <1>7, <1>10 DEF Withdrawn
  <2>2. ASSUME NEW c \in Accounts PROVE Harsher(s[RowDoc(c)], new[RowDoc(c)])
    <3>1. Harsher(s[RowDoc(c)], w[RowDoc(c)])
      BY <1>2 DEF Withdrawn
    <3> QED BY <1>9, <3>1, HarsherThan
  <2>3. ASSUME NEW c \in Accounts, c # a, Punished(new[RowDoc(c)]), ~Punished(s[RowDoc(c)])
        PROVE  \E i \in BookingsOf(new, c) : new[BookingDoc(i)] # s[BookingDoc(i)]
    <3>1. PICK i \in BookingsOf(w, c) : w[BookingDoc(i)] # s[BookingDoc(i)]
      BY <1>2, <1>9, <2>3 DEF Withdrawn
    <3>2. i \in Ids /\ i # b
      BY <1>11, <3>1 DEF BookingsOf
    <3>3. i \in BookingsOf(new, c) /\ new[BookingDoc(i)] # s[BookingDoc(i)]
      BY <1>10, <3>1, <3>2 DEF BookingsOf
    <3> QED BY <3>3
  <2>4. \A c \in Accounts : Punished(new[RowDoc(c)]) /\ ~Punished(s[RowDoc(c)]) =>
           \E i \in BookingsOf(new, c) : new[BookingDoc(i)] # s[BookingDoc(i)]
    BY <1>12, <2>3
  <2> QED BY <2>1, <2>2, <2>4 DEF Withdrawn
<1>14. /\ db' = db /\ open' = open /\ snap' = snap /\ dirty' = dirty
       /\ \A u \in open : work'[u] = IF u = t THEN new ELSE work[u]
  BY <1>1 DEF Update, Inv, Shape
<1>15. \A u \in open : Withdrawn(snap[u], work'[u])
  BY <1>13, <1>14 DEF Traced, s
<1> QED BY <1>14, <1>15 DEF Traced, Imposed

\* A timed suspension ends alike in every copy of the row.
LEMMA LapseTraced == ASSUME Inv, Traced, NEW a \in Accounts, Lapse(a) PROVE Traced'
<1>1. /\ open' = open /\ dirty' = dirty /\ db' = Lapsed(db, a)
      /\ \A t \in open : snap'[t] = Lapsed(snap[t], a) /\ work'[t] = Lapsed(work[t], a)
      /\ db[RowDoc(a)].end = "timed" /\ open \subseteq Txns
  BY DEF Lapse, Inv, Shape
<1>2. ASSUME NEW d, DbOK(d)
      PROVE  /\ \A c \in Accounts : c # a => Lapsed(d, a)[RowDoc(c)] = d[RowDoc(c)]
             /\ \A c \in Accounts : Lapsed(d, a)[UserDoc(c)] = d[UserDoc(c)]
             /\ Lapsed(d, a)[RowDoc(a)].phone = d[RowDoc(a)].phone
             /\ \A b \in Ids : Lapsed(d, a)[BookingDoc(b)] = d[BookingDoc(b)]
             /\ d[RowDoc(a)].end = "timed" => Lapsed(d, a)[RowDoc(a)].end = "none"
             /\ d[RowDoc(a)].end # "timed" => Lapsed(d, a)[RowDoc(a)] = d[RowDoc(a)]
             /\ d[RowDoc(a)].end \in {"none", "timed", "forever"}
  <2>1. \A x \in Docs : x # RowDoc(a) => Lapsed(d, a)[x] = d[x]
    BY <1>2, LapsedWrites
  <2>2. /\ Lapsed(d, a)[RowDoc(a)].phone = d[RowDoc(a)].phone
        /\ Lapsed(d, a)[RowDoc(a)] = IF d[RowDoc(a)].end = "timed"
                                     THEN Over(d[RowDoc(a)], d[RowDoc(a)].before) ELSE d[RowDoc(a)]
    BY <1>2, LapsedWrites
  <2>3. d[RowDoc(a)] \in RowFields /\ d[RowDoc(a)].end \in {"none", "timed", "forever"}
    BY <1>2, RowParts DEF DbOK
  <2>4. Over(d[RowDoc(a)], d[RowDoc(a)].before).end = "none"
    BY <2>3 DEF Over, RowFields
  <2> QED BY <2>1, <2>2, <2>3, <2>4, DocsFacts
<1>3. ASSUME NEW t \in open PROVE Withdrawn(snap'[t], work'[t])
  <2> DEFINE s == snap[t]
             w == work[t]
             p == snap'[t]
             q == work'[t]
  <2>1. Withdrawn(s, w) /\ DbOK(s) /\ DbOK(w)
    BY DEF Traced, Inv, Shape
  <2>2. /\ \A c \in Accounts : c # a => p[RowDoc(c)] = s[RowDoc(c)] /\ q[RowDoc(c)] = w[RowDoc(c)]
        /\ \A b \in Ids : p[BookingDoc(b)] = s[BookingDoc(b)] /\ q[BookingDoc(b)] = w[BookingDoc(b)]
    BY <1>1, <1>2, <2>1
  <2>3. /\ s[RowDoc(a)].end = "timed" => p[RowDoc(a)].end = "none"
        /\ s[RowDoc(a)].end # "timed" => p[RowDoc(a)] = s[RowDoc(a)]
        /\ w[RowDoc(a)].end = "timed" => q[RowDoc(a)].end = "none"
        /\ w[RowDoc(a)].end # "timed" => q[RowDoc(a)] = w[RowDoc(a)]
        /\ s[RowDoc(a)].end \in {"none", "timed", "forever"}
        /\ w[RowDoc(a)].end \in {"none", "timed", "forever"}
    BY <1>1, <1>2, <2>1
  <2> HIDE DEF s, w, p, q
  <2>4. Harsher(s[RowDoc(a)], w[RowDoc(a)])
    BY <2>1 DEF Withdrawn
  <2>5. /\ Harsher(p[RowDoc(a)], q[RowDoc(a)])
        /\ Punished(q[RowDoc(a)]) => Punished(p[RowDoc(a)])
    BY <2>3, <2>4 DEF Harsher, Manual, Punished, InForce
  <2>6. \A c \in Accounts : BookingsOf(q, c) = BookingsOf(w, c)
    BY <2>2 DEF BookingsOf
  <2>7. ASSUME NEW c \in Accounts, Punished(q[RowDoc(c)]), ~Punished(p[RowDoc(c)])
        PROVE  \E b \in BookingsOf(q, c) : q[BookingDoc(b)] # p[BookingDoc(b)]
    <3>1. c # a /\ Punished(w[RowDoc(c)]) /\ ~Punished(s[RowDoc(c)])
      BY <2>2, <2>5, <2>7
    <3>2. PICK b \in BookingsOf(w, c) : w[BookingDoc(b)] # s[BookingDoc(b)]
      BY <2>1, <3>1 DEF Withdrawn
    <3>3. b \in Ids
      BY DEF BookingsOf
    <3> QED BY <2>2, <2>6, <3>2, <3>3
  <2>8. \A c \in Accounts : Harsher(p[RowDoc(c)], q[RowDoc(c)])
    BY <2>1, <2>2, <2>5 DEF Withdrawn
  <2>9. \A b \in Ids : q[BookingDoc(b)] # p[BookingDoc(b)] => q[BookingDoc(b)].status # "active"
    BY <2>1, <2>2 DEF Withdrawn
  <2>10. Withdrawn(p, q)
    BY <2>7, <2>8, <2>9 DEF Withdrawn
  <2> QED BY <2>10 DEF p, q
<1>4. ASSUME NEW t \in open, NEW c \in Accounts, snap'[t][RowDoc(c)].phone
      PROVE  snap'[t][UserDoc(c)] = "deleted"
  <2>1. DbOK(snap[t]) /\ snap'[t] = Lapsed(snap[t], a)
    BY <1>1 DEF Inv, Shape
  <2>2. snap[t][RowDoc(c)].phone /\ snap'[t][UserDoc(c)] = snap[t][UserDoc(c)]
    BY <1>2, <1>4, <2>1
  <2> QED BY <2>2 DEF Traced
<1>5. Imposed'
  <2>1. ASSUME NEW t \in open, NEW c \in Accounts,
               Punished(db'[RowDoc(c)]), ~Punished(snap'[t][RowDoc(c)])
        PROVE  \E b \in BookingsOf(db', c) : BookingDoc(b) \in dirty'[t]
    <3>1. DbOK(db) /\ DbOK(snap[t]) /\ snap'[t] = Lapsed(snap[t], a) /\ db' = Lapsed(db, a)
      BY <1>1 DEF Inv, Shape
    <3>2. db'[RowDoc(a)].end = "none"
      BY <1>1, <1>2, <3>1
    <3>3. c # a
      BY <2>1, <3>2 DEF Punished, InForce
    <3>4. Punished(db[RowDoc(c)]) /\ ~Punished(snap[t][RowDoc(c)])
      BY <1>2, <2>1, <3>1, <3>3
    <3>5. PICK b \in BookingsOf(db, c) : BookingDoc(b) \in dirty[t]
      BY <3>4 DEF Traced, Imposed
    <3>6. BookingsOf(db', c) = BookingsOf(db, c)
      <4>1. \A i \in Ids : db'[BookingDoc(i)] = db[BookingDoc(i)]
        BY <1>2, <3>1
      <4> QED BY <4>1 DEF BookingsOf
    <3> QED BY <1>1, <3>5, <3>6
  <2> QED BY <1>1, <2>1 DEF Imposed
<1> QED BY <1>1, <1>3, <1>4, <1>5 DEF Traced

LEMMA EndsTraced == ASSUME Inv, Traced, NEW t \in Txns, Begin(t) \/ Abort(t) PROVE Traced'
<1>1. /\ db' = db /\ open \subseteq Txns /\ dirty \in [Txns -> SUBSET Docs]
      /\ snap = [u \in Txns |-> snap[u]] /\ work = [u \in Txns |-> work[u]]
  BY DEF Begin, Abort, Inv, Shape
<1>2. \A u \in open' :
         \/ /\ u \in open /\ snap'[u] = snap[u] /\ work'[u] = work[u] /\ dirty'[u] = dirty[u]
         \/ snap'[u] = db /\ work'[u] = db
  <2>1. CASE Begin(t)
    BY <1>1, <2>1 DEF Begin
  <2>2. CASE Abort(t)
    BY <1>1, <2>2 DEF Abort, Close
  <2> QED BY <2>1, <2>2
<1>3. Withdrawn(db, db)
  BY HarsherThan DEF Withdrawn
<1>4. \A a \in Accounts : db[RowDoc(a)].phone => db[UserDoc(a)] = "deleted"
  BY DEF Inv, NoStray
<1>5. \A u \in open' : Withdrawn(snap'[u], work'[u])
  BY <1>2, <1>3 DEF Traced
<1>6. \A u \in open', a \in Accounts : snap'[u][RowDoc(a)].phone => snap'[u][UserDoc(a)] = "deleted"
  BY <1>2, <1>4 DEF Traced
<1>7. Imposed'
  BY <1>1, <1>2 DEF Traced, Imposed
<1> QED BY <1>5, <1>6, <1>7 DEF Traced

\* A write outside transactions, which punishes nobody and leaves the bookings.
LEMMA WriteTraced ==
    ASSUME Inv, Traced, NEW x \in Docs, NEW v, Write(x, v), \A b \in Ids : x # BookingDoc(b),
           \A a \in Accounts : x = RowDoc(a) => ~Punished(v)
    PROVE  Traced'
<1>1. /\ db' = [db EXCEPT ![x] = v] /\ open' = open /\ snap' = snap /\ work' = work
      /\ dirty' = [t \in Txns |-> IF t \in open THEN dirty[t] \cup {x} ELSE {}]
  BY DEF Write
<1>2. db = [y \in Docs |-> db[y]] /\ open \subseteq Txns
  BY DEF Inv, Shape, DbOK
<1>3. db'[x] = v /\ \A y \in Docs : y # x => db'[y] = db[y]
  BY <1>1, <1>2, Put
<1>4. ASSUME NEW t \in open, NEW a \in Accounts,
             Punished(db'[RowDoc(a)]), ~Punished(snap[t][RowDoc(a)])
      PROVE  \E b \in BookingsOf(db', a) : BookingDoc(b) \in dirty'[t]
  <2>1. Punished(db[RowDoc(a)])
    BY <1>3, <1>4, DocsFacts
  <2>2. PICK b \in BookingsOf(db, a) : BookingDoc(b) \in dirty[t]
    BY <1>4, <2>1 DEF Traced, Imposed
  <2>3. \A i \in Ids : db'[BookingDoc(i)] = db[BookingDoc(i)]
    BY <1>3, DocsFacts
  <2>4. BookingsOf(db', a) = BookingsOf(db, a)
    BY <2>3 DEF BookingsOf
  <2>5. dirty[t] \subseteq dirty'[t]
    BY <1>1, <1>2
  <2> QED BY <2>2, <2>4, <2>5
<1> QED BY <1>1, <1>4 DEF Traced, Imposed

\* What a handler owes: bookings stay, and remain whose they are, and whoever
\* it punishes has a booking that it writes.
Accountable(t, new, touched) ==
    /\ DOMAIN new = Docs
    /\ \A b \in Ids : snap[t][BookingDoc(b)] # NoBooking =>
          new[BookingDoc(b)] # NoBooking /\ new[BookingDoc(b)].owner = snap[t][BookingDoc(b)].owner
    /\ \A a \in Accounts : Punished(new[RowDoc(a)]) /\ ~Punished(snap[t][RowDoc(a)]) =>
          \E b \in BookingsOf(new, a) : BookingDoc(b) \in Written(t, new, touched)

\* The documents t writes are those of its snapshot.
LEMMA CommitWrites ==
    ASSUME Inv, NEW t \in open, NEW new, NEW touched, DOMAIN new = Docs, Commit(t, new, touched)
    PROVE  \A x \in Docs :
              /\ x \in Written(t, new, touched) =>
                    x \notin dirty[t] /\ snap[t][x] = db[x] /\ db'[x] = new[x]
              /\ x \notin Written(t, new, touched) => new[x] = snap[t][x] /\ db'[x] = db[x]
<1>1. DOMAIN db = Docs
  BY DEF Inv, Shape, DbOK
<1> QED BY <1>1 DEF Commit, Written, Changed, Inv, Same

LEMMA CommitTraced ==
    ASSUME Inv, Traced, NEW t \in open, NEW new, NEW touched,
           Accountable(t, new, touched), Commit(t, new, touched)
    PROVE  Traced'
<1> DEFINE W == Written(t, new, touched)
<1>1. \A x \in Docs :
         /\ x \in W => x \notin dirty[t] /\ snap[t][x] = db[x] /\ db'[x] = new[x]
         /\ x \notin W => new[x] = snap[t][x] /\ db'[x] = db[x]
  BY CommitWrites DEF Accountable
<1>2. \A u \in open' : /\ u \in open /\ snap'[u] = snap[u] /\ work'[u] = work[u]
                       /\ dirty'[u] = dirty[u] \cup W
  BY DEF Commit, Close, Written, Inv, Shape
<1> HIDE DEF W
<1>3. ASSUME NEW a \in Accounts PROVE BookingsOf(db, a) \subseteq BookingsOf(db', a)
  <2>1. ASSUME NEW b \in BookingsOf(db, a) PROVE b \in BookingsOf(db', a)
    <3>1. b \in Ids /\ db[BookingDoc(b)] # NoBooking /\ db[BookingDoc(b)].owner = a
      BY DEF BookingsOf
    <3>2. CASE BookingDoc(b) \in W
      BY <1>1, <3>1, <3>2, DocsFacts DEF Accountable, BookingsOf
    <3>3. CASE BookingDoc(b) \notin W
      BY <1>1, <3>1, <3>3, DocsFacts DEF BookingsOf
    <3> QED BY <3>2, <3>3
  <2> QED BY <2>1
<1>4. ASSUME NEW u \in open', NEW a \in Accounts,
             Punished(db'[RowDoc(a)]), ~Punished(snap'[u][RowDoc(a)])
      PROVE  \E b \in BookingsOf(db', a) : BookingDoc(b) \in dirty'[u]
  <2>1. CASE Punished(db[RowDoc(a)])
    <3>1. PICK b \in BookingsOf(db, a) : BookingDoc(b) \in dirty[u]
      BY <1>2, <1>4, <2>1 DEF Traced, Imposed
    <3> QED BY <1>2, <1>3, <3>1
  <2>2. CASE ~Punished(db[RowDoc(a)])
    <3>1. RowDoc(a) \in W
      BY <1>1, <1>4, <2>2, DocsFacts
    <3>2. Punished(new[RowDoc(a)]) /\ ~Punished(snap[t][RowDoc(a)])
      BY <1>1, <1>4, <2>2, <3>1, DocsFacts
    <3>3. PICK b \in BookingsOf(new, a) : BookingDoc(b) \in W
      BY <3>2 DEF Accountable, W
    <3>4. b \in Ids /\ new[BookingDoc(b)] # NoBooking /\ new[BookingDoc(b)].owner = a
      BY DEF BookingsOf
    <3>5. db'[BookingDoc(b)] = new[BookingDoc(b)]
      BY <1>1, <3>3, <3>4, DocsFacts
    <3>6. b \in BookingsOf(db', a)
      BY <3>4, <3>5 DEF BookingsOf
    <3> QED BY <1>2, <3>3, <3>6
  <2> QED BY <2>1, <2>2
<1> QED BY <1>2, <1>4 DEF Traced, Imposed

\* Only a lift ends a manual suspension.
Spared(t, new) ==
    \A a \in Accounts : Manual(snap[t][RowDoc(a)]) => Manual(new[RowDoc(a)]) \/ Lift(t, a)

\* A handler that writes no row.
LEMMA RowsAlone ==
    ASSUME Inv, NEW t \in open, NEW new, DbOK(new),
           \A a \in Accounts : new[RowDoc(a)] = snap[t][RowDoc(a)],
           \A b \in Ids : snap[t][BookingDoc(b)] # NoBooking =>
              /\ new[BookingDoc(b)] # NoBooking
              /\ new[BookingDoc(b)].owner = snap[t][BookingDoc(b)].owner
    PROVE  Accountable(t, new, {}) /\ Spared(t, new)
<1>1. DOMAIN new = Docs
  BY DEF DbOK
<1> QED BY <1>1 DEF Accountable, Spared

\* One that writes one row and does not punish.
LEMMA NonePunished ==
    ASSUME Inv, NEW t \in open, NEW d, DbOK(d), NEW a \in Accounts, NEW e, NEW touched,
           RowWritten(d, e, a), ~Punished(e[RowDoc(a)]),
           \A c \in Accounts : d[RowDoc(c)] = snap[t][RowDoc(c)],
           \A b \in Ids : snap[t][BookingDoc(b)] # NoBooking =>
              /\ d[BookingDoc(b)] # NoBooking
              /\ d[BookingDoc(b)].owner = snap[t][BookingDoc(b)].owner
    PROVE  Accountable(t, e, touched)
<1>1. DOMAIN e = Docs
  BY DEF RowWritten, DbOK
<1>2. \A b \in Ids : e[BookingDoc(b)] = d[BookingDoc(b)]
  BY DocsFacts DEF RowWritten
<1>3. \A c \in Accounts : c # a => e[RowDoc(c)] = snap[t][RowDoc(c)]
  BY DocsFacts DEF RowWritten
<1> QED BY <1>1, <1>2, <1>3 DEF Accountable

LEMMA TransitionOwners ==
    ASSUME Inv, NEW t \in open, NEW b \in Ids, NEW s \in Statuses, snap[t][BookingDoc(b)] # NoBooking
    PROVE  LET d == Transition(snap[t], b, s)
           IN /\ DbOK(d)
              /\ \A a \in Accounts : d[RowDoc(a)] = snap[t][RowDoc(a)]
              /\ \A i \in Ids : snap[t][BookingDoc(i)] # NoBooking =>
                    /\ d[BookingDoc(i)] # NoBooking
                    /\ d[BookingDoc(i)].owner = snap[t][BookingDoc(i)].owner
              /\ snap[t][BookingDoc(b)].owner \in Accounts
              /\ d[BookingDoc(b)].status = s
<1> DEFINE d == Transition(snap[t], b, s)
<1>1. DbOK(snap[t])
  BY DEF Inv, Shape
<1>2. /\ snap[t][BookingDoc(b)].owner \in Accounts
      /\ DbOK(d) /\ d[BookingDoc(b)] # NoBooking
      /\ d[BookingDoc(b)].owner = snap[t][BookingDoc(b)].owner
      /\ d[BookingDoc(b)].status = s
      /\ \A x \in Docs : x # BookingDoc(b) => d[x] = snap[t][x]
  BY <1>1, TransitionWrites
<1> HIDE DEF d
<1>3. \A a \in Accounts : d[RowDoc(a)] = snap[t][RowDoc(a)]
  BY <1>2, DocsFacts
<1>4. ASSUME NEW i \in Ids, snap[t][BookingDoc(i)] # NoBooking
      PROVE  /\ d[BookingDoc(i)] # NoBooking
             /\ d[BookingDoc(i)].owner = snap[t][BookingDoc(i)].owner
  <2>1. CASE i = b
    BY <1>2, <2>1
  <2>2. CASE i # b
    BY <1>2, <1>4, <2>2, DocsFacts
  <2> QED BY <2>1, <2>2
<1>5. /\ DbOK(d)
      /\ \A a \in Accounts : d[RowDoc(a)] = snap[t][RowDoc(a)]
      /\ \A i \in Ids : snap[t][BookingDoc(i)] # NoBooking =>
            /\ d[BookingDoc(i)] # NoBooking
            /\ d[BookingDoc(i)].owner = snap[t][BookingDoc(i)].owner
      /\ snap[t][BookingDoc(b)].owner \in Accounts
      /\ d[BookingDoc(b)].status = s
  BY <1>2, <1>3, <1>4
<1> QED BY <1>5 DEF d

\* A mark that punishes is written itself.
LEMMA MarkTraced ==
    ASSUME Inv, NEW t \in open, NEW b \in Ids, NEW s \in Statuses, snap[t][BookingDoc(b)] # NoBooking,
           snap[t][BookingDoc(b)].status # s
    PROVE  LET d == Transition(snap[t], b, s)
           IN Accountable(t, CountNoShow(d, b), Subject(d, b)) /\ Spared(t, CountNoShow(d, b))
<1> DEFINE a == snap[t][BookingDoc(b)].owner
           d == Transition(snap[t], b, s)
           e == CountNoShow(d, b)
<1>1. /\ DbOK(d) /\ a \in Accounts
      /\ \A c \in Accounts : d[RowDoc(c)] = snap[t][RowDoc(c)]
      /\ \A i \in Ids : snap[t][BookingDoc(i)] # NoBooking =>
            /\ d[BookingDoc(i)] # NoBooking
            /\ d[BookingDoc(i)].owner = snap[t][BookingDoc(i)].owner
      /\ d[BookingDoc(b)].status = s
  BY TransitionOwners
<1>2. d[BookingDoc(b)].owner = a
  BY <1>1
<1> HIDE DEF a, d
<1>3. RowWritten(d, e, a) /\ Harsher(d[RowDoc(a)], e[RowDoc(a)])
  <2>1. RowWritten(d, e, a)
    BY <1>1, <1>2, CountWrites
  <2>2. Harsher(d[RowDoc(a)], e[RowDoc(a)])
    BY <1>1, <1>2, CountHarsher
  <2> QED BY <2>1, <2>2
<1> HIDE DEF e
<1>4. DOMAIN e = Docs
  BY <1>3 DEF RowWritten, DbOK
<1>5. /\ \A i \in Ids : e[BookingDoc(i)] = d[BookingDoc(i)]
      /\ \A c \in Accounts : c # a => e[RowDoc(c)] = d[RowDoc(c)]
  BY <1>1, <1>3, DocsFacts DEF RowWritten
<1>6. b \in BookingsOf(e, a)
  BY <1>1, <1>2, <1>5 DEF BookingsOf
<1>7. BookingDoc(b) \in Written(t, e, Subject(d, b))
  BY <1>1, <1>4, <1>5, DocsFacts DEF Written, Changed
<1>8. Spared(t, e)
  BY <1>1, <1>3, <1>5 DEF Spared, Harsher, Manual, InForce
<1>9. \A c \in Accounts : Punished(e[RowDoc(c)]) /\ ~Punished(snap[t][RowDoc(c)]) => c = a
  BY <1>1, <1>5
<1>10. Accountable(t, e, Subject(d, b))
  BY <1>1, <1>4, <1>5, <1>6, <1>7, <1>9 DEF Accountable
<1> QED BY <1>8, <1>10 DEF d, e

LEMMA DeleteTraced ==
    ASSUME Inv, Traced, NEW t \in open, NEW a \in Accounts, DeleteAccount(t, a)
    PROVE  \E new, touched :
              /\ Commit(t, new, touched) /\ Accountable(t, new, touched) /\ Spared(t, new)
              /\ touched = {BookingDoc(b) : b \in BookingsOf(work[t], a)}
              /\ new[RowDoc(a)] = Detached(work[t][RowDoc(a)])
              /\ snap[t][UserDoc(a)] = "live"
<1> DEFINE w == work[t]
           s == snap[t]
           d == [w EXCEPT ![WaitDoc(a)] = FALSE]
           row == Detached(d[RowDoc(a)])
           f == [d EXCEPT ![RowDoc(a)] = row]
           e == [f EXCEPT ![UserDoc(a)] = "deleted"]
           whole == [d EXCEPT ![RowDoc(a)] = Detached(@), ![UserDoc(a)] = "deleted"]
           touched == {BookingDoc(b) : b \in BookingsOf(d, a)}
<1>1. DbOK(w) /\ DbOK(s) /\ OwnWrites(s, w) /\ Withdrawn(s, w)
  BY DEF Inv, Shape, Own, Traced
<1>2. d[UserDoc(a)] = "live" /\ Commit(t, whole, touched)
  BY DEF DeleteAccount
<1>3. whole = e
  BY DocsFacts
<1> HIDE DEF w, s, whole
<1>4. DbOK(d) /\ \A x \in Docs : x # WaitDoc(a) => d[x] = w[x]
  BY <1>1, PutWait
<1>5. d[RowDoc(a)] = w[RowDoc(a)] /\ row \in Rows
  BY <1>4, DetachedRow, DocsFacts DEF DbOK
<1>6. BookingsOf(d, a) = BookingsOf(w, a)
  BY <1>4, DocsFacts DEF BookingsOf
<1> HIDE DEF d, row, touched
<1>7. DbOK(f) /\ f[RowDoc(a)] = row /\ \A x \in Docs : x # RowDoc(a) => f[x] = d[x]
  BY <1>4, <1>5, PutRow
<1> HIDE DEF f
<1>8. "deleted" \in UserStates
  BY DEF UserStates
<1>9. DbOK(e) /\ \A x \in Docs : x # UserDoc(a) => e[x] = f[x]
  BY <1>7, <1>8, PutUser
<1> HIDE DEF e
<1>10. s[UserDoc(a)] = "live"
  BY <1>1, <1>2, <1>4, DocsFacts DEF OwnWrites
<1>11. /\ e[RowDoc(a)] = Detached(w[RowDoc(a)])
       /\ \A c \in Accounts : c # a => e[RowDoc(c)] = w[RowDoc(c)]
       /\ \A b \in Ids : e[BookingDoc(b)] = w[BookingDoc(b)]
  BY <1>4, <1>5, <1>7, <1>9, DocsFacts DEF row
<1>12. \A b \in Ids : s[BookingDoc(b)] # NoBooking =>
          e[BookingDoc(b)] # NoBooking /\ e[BookingDoc(b)].owner = s[BookingDoc(b)].owner
  BY <1>1, <1>11 DEF OwnWrites
<1>13. \A c \in Accounts : /\ Punished(e[RowDoc(c)]) => Punished(w[RowDoc(c)])
                           /\ Manual(w[RowDoc(c)]) => Manual(e[RowDoc(c)])
  <2>1. w[RowDoc(a)] \in RowFields
    BY <1>1, RowParts DEF DbOK
  <2>2. /\ Punished(e[RowDoc(a)]) => Punished(w[RowDoc(a)])
        /\ Manual(w[RowDoc(a)]) => Manual(e[RowDoc(a)])
    <3>1. CASE InForce(w[RowDoc(a)])
      <4>1. e[RowDoc(a)] = [w[RowDoc(a)] EXCEPT !.phone = TRUE]
        BY <1>11, <3>1 DEF Detached
      <4> QED BY <2>1, <4>1 DEF RowFields, Punished, Manual, InForce
    <3>2. CASE ~InForce(w[RowDoc(a)])
      <4>1. e[RowDoc(a)] = w[RowDoc(a)] \/ e[RowDoc(a)] = NoRow
        BY <1>11, <3>2 DEF Detached
      <4> QED BY <3>2, <4>1, NoRowFields DEF Punished, Manual, InForce
    <3> QED BY <3>1, <3>2
  <2> QED BY <1>11, <2>2
<1>14. DOMAIN e = Docs
  BY <1>9 DEF DbOK
<1>15. ASSUME NEW c \in Accounts, Punished(e[RowDoc(c)]), ~Punished(s[RowDoc(c)])
       PROVE  \E b \in BookingsOf(e, c) : BookingDoc(b) \in Written(t, e, touched)
  <2>1. PICK b \in BookingsOf(w, c) : w[BookingDoc(b)] # s[BookingDoc(b)]
    BY <1>1, <1>13, <1>15 DEF Withdrawn
  <2>2. b \in Ids
    BY DEF BookingsOf
  <2>3. b \in BookingsOf(e, c)
    BY <1>11, <2>1, <2>2 DEF BookingsOf
  <2>4. BookingDoc(b) \in Written(t, e, touched)
    BY <1>11, <1>14, <2>1, <2>2, DocsFacts DEF Written, Changed, s
  <2> QED BY <2>3, <2>4
<1>16. Accountable(t, e, touched)
  BY <1>12, <1>14, <1>15 DEF Accountable, s
<1>17. Spared(t, e)
  <2>1. \A c \in Accounts : Manual(s[RowDoc(c)]) => Manual(w[RowDoc(c)])
    BY <1>1 DEF Withdrawn, Harsher, Manual, InForce
  <2> QED BY <1>13, <2>1 DEF Spared, s
<1>18. Commit(t, e, touched)
  BY <1>2, <1>3
<1>19. touched = {BookingDoc(b) : b \in BookingsOf(work[t], a)}
  BY <1>6 DEF touched, w
<1>20. e[RowDoc(a)] = Detached(work[t][RowDoc(a)]) /\ snap[t][UserDoc(a)] = "live"
  BY <1>10, <1>11 DEF s, w
<1> QED BY <1>16, <1>17, <1>18, <1>19, <1>20

Concludes(t) ==
    \E new, touched : Commit(t, new, touched) /\ Accountable(t, new, touched) /\ Spared(t, new)

Handler(t) ==
    \/ \E a \in Accounts, b \in Ids : Book(t, a, b) \/ BookOnBehalf(t, a, b)
    \/ \E b \in Ids : Mark(t, b) \/ Attend(t, b) \/ Correct(t, b) \/ Cancel(t, b) \/ CancelLate(t, b)
    \/ \E a \in Accounts : \/ JoinWaitlist(t, a) \/ Lift(t, a) \/ DeleteAccount(t, a)
                           \/ \E end \in {"timed", "forever"} : SuspendByHand(t, a, end)

\* Release ends a suspension.
LEMMA ReleaseTraced ==
    ASSUME Inv, NEW t \in open, NEW d, DbOK(d), NEW a \in Accounts, InForce(d[RowDoc(a)]),
           \A c \in Accounts : d[RowDoc(c)] = snap[t][RowDoc(c)],
           \A b \in Ids : snap[t][BookingDoc(b)] # NoBooking =>
              /\ d[BookingDoc(b)] # NoBooking
              /\ d[BookingDoc(b)].owner = snap[t][BookingDoc(b)].owner
    PROVE  Accountable(t, Release(d, a), {}) /\ (~Manual(d[RowDoc(a)]) \/ Lift(t, a) => Spared(t, Release(d, a)))
<1> DEFINE e == Release(d, a)
<1>1. RowWritten(d, e, a) /\ e[RowDoc(a)].end = "none"
  BY ReleaseWrites
<1> HIDE DEF e
<1>2. ~Punished(e[RowDoc(a)])
  BY <1>1 DEF Punished, InForce
<1>3. \A c \in Accounts : c # a => e[RowDoc(c)] = snap[t][RowDoc(c)]
  BY <1>1, DocsFacts DEF RowWritten
<1>4. ~Manual(d[RowDoc(a)]) \/ Lift(t, a) => Spared(t, e)
  BY <1>3 DEF Spared
<1>5. Accountable(t, e, {})
  BY <1>1, <1>2, NonePunished
<1> QED BY <1>4, <1>5 DEF e

LEMMA HandlerConcludes == ASSUME Inv, Traced, NEW t \in Txns, Handler(t) PROVE t \in open /\ Concludes(t)
<1>1. /\ {"active", "attended", "cancelled", "no_show", "late"} \subseteq Statuses
      /\ NoBooking.status = "none"
  BY DEF Statuses, MissedStatuses, NoBooking
<1>2. ASSUME NEW a \in Accounts, NEW b \in Ids, Book(t, a, b) \/ BookOnBehalf(t, a, b)
      PROVE  t \in open /\ Concludes(t)
  <2> DEFINE new == [snap[t] EXCEPT ![BookingDoc(b)] = Booking(a, "active")]
  <2>1. t \in open /\ snap[t][BookingDoc(b)] = NoBooking /\ Commit(t, new, {})
    BY <1>2 DEF Book, BookOnBehalf, AtStart
  <2>2. DbOK(snap[t])
    BY <2>1 DEF Inv, Shape
  <2>3. DbOK(new) /\ \A x \in Docs : x # BookingDoc(b) => new[x] = snap[t][x]
    BY <1>1, <2>2, PutBooking
  <2> HIDE DEF new
  <2>4. \A c \in Accounts : new[RowDoc(c)] = snap[t][RowDoc(c)]
    BY <2>3, DocsFacts
  <2>5. \A i \in Ids : snap[t][BookingDoc(i)] # NoBooking => new[BookingDoc(i)] = snap[t][BookingDoc(i)]
    BY <2>1, <2>3, DocsFacts
  <2>6. Accountable(t, new, {}) /\ Spared(t, new)
    BY <2>1, <2>3, <2>4, <2>5, RowsAlone
  <2> QED BY <2>1, <2>6 DEF Concludes
<1>3. ASSUME NEW b \in Ids, NEW s \in Statuses, t \in open, snap[t][BookingDoc(b)] # NoBooking,
             Commit(t, Transition(snap[t], b, s), {})
      PROVE  Concludes(t)
  <2> DEFINE new == Transition(snap[t], b, s)
  <2>1. /\ DbOK(new) /\ \A a \in Accounts : new[RowDoc(a)] = snap[t][RowDoc(a)]
        /\ \A i \in Ids : snap[t][BookingDoc(i)] # NoBooking =>
              /\ new[BookingDoc(i)] # NoBooking
              /\ new[BookingDoc(i)].owner = snap[t][BookingDoc(i)].owner
    BY <1>3, TransitionOwners
  <2>2. Commit(t, new, {})
    BY <1>3
  <2> HIDE DEF new
  <2>3. Accountable(t, new, {}) /\ Spared(t, new)
    BY <1>3, <2>1, RowsAlone
  <2> QED BY <2>2, <2>3 DEF Concludes
<1>4. ASSUME NEW b \in Ids, NEW s \in Statuses, t \in open, snap[t][BookingDoc(b)] # NoBooking,
             snap[t][BookingDoc(b)].status # s,
             Commit(t, CountNoShow(Transition(snap[t], b, s), b), Subject(Transition(snap[t], b, s), b))
      PROVE  Concludes(t)
  <2> DEFINE new == CountNoShow(Transition(snap[t], b, s), b)
             touched == Subject(Transition(snap[t], b, s), b)
  <2>1. Accountable(t, new, touched) /\ Spared(t, new)
    BY <1>4, MarkTraced
  <2>2. Commit(t, new, touched)
    BY <1>4
  <2> HIDE DEF new, touched
  <2> QED BY <2>1, <2>2 DEF Concludes
<1>5. ASSUME NEW b \in Ids, Mark(t, b) \/ CancelLate(t, b) PROVE t \in open /\ Concludes(t)
  <2>1. PICK s \in {"no_show", "late"} :
           /\ t \in open /\ snap[t][BookingDoc(b)].status \in {"active", "attended"}
           /\ Commit(t, CountNoShow(Transition(snap[t], b, s), b), Subject(Transition(snap[t], b, s), b))
    BY <1>5 DEF Mark, CancelLate, AtStart
  <2>2. snap[t][BookingDoc(b)] # NoBooking /\ snap[t][BookingDoc(b)].status # s /\ s \in Statuses
    BY <1>1, <2>1
  <2> QED BY <1>4, <2>1, <2>2
<1>6. ASSUME NEW b \in Ids, Attend(t, b) \/ Cancel(t, b) PROVE t \in open /\ Concludes(t)
  <2>1. PICK s \in {"attended", "cancelled"} :
           /\ t \in open /\ snap[t][BookingDoc(b)].status = "active"
           /\ Commit(t, Transition(snap[t], b, s), {})
    BY <1>6 DEF Attend, Cancel, AtStart
  <2>2. snap[t][BookingDoc(b)] # NoBooking /\ s \in Statuses
    BY <1>1, <2>1
  <2> QED BY <1>3, <2>1, <2>2
<1>7. ASSUME NEW b \in Ids, Correct(t, b) PROVE t \in open /\ Concludes(t)
  <2> DEFINE d == Transition(snap[t], b, "attended")
             a == d[BookingDoc(b)].owner
  <2>1. /\ t \in open /\ snap[t][BookingDoc(b)].status = "no_show"
        /\ \/ Commit(t, d, {})
           \/ /\ InForce(d[RowDoc(a)]) /\ d[RowDoc(a)].kind = "no_show"
              /\ Commit(t, Release(d, a), {})
    BY <1>7 DEF Correct, AtStart
  <2>2. snap[t][BookingDoc(b)] # NoBooking /\ "attended" \in Statuses
    BY <1>1, <2>1
  <2>3. CASE Commit(t, d, {})
    BY <1>3, <2>1, <2>2, <2>3
  <2>4. CASE InForce(d[RowDoc(a)]) /\ d[RowDoc(a)].kind = "no_show" /\ Commit(t, Release(d, a), {})
    <3>1. /\ DbOK(d) /\ a \in Accounts
          /\ \A c \in Accounts : d[RowDoc(c)] = snap[t][RowDoc(c)]
          /\ \A i \in Ids : snap[t][BookingDoc(i)] # NoBooking =>
                /\ d[BookingDoc(i)] # NoBooking
                /\ d[BookingDoc(i)].owner = snap[t][BookingDoc(i)].owner
      BY <2>1, <2>2, TransitionOwners
    <3> HIDE DEF a, d
    <3>2. ~Manual(d[RowDoc(a)])
      BY <2>4 DEF Manual
    <3>3. Accountable(t, Release(d, a), {}) /\ Spared(t, Release(d, a))
      BY <2>1, <2>4, <3>1, <3>2, ReleaseTraced
    <3> QED BY <2>1, <2>4, <3>3 DEF Concludes
  <2> QED BY <2>1, <2>3, <2>4
<1>8. ASSUME NEW a \in Accounts, JoinWaitlist(t, a) PROVE t \in open /\ Concludes(t)
  <2> DEFINE new == [snap[t] EXCEPT ![WaitDoc(a)] = TRUE]
  <2>1. t \in open /\ Commit(t, new, {})
    BY <1>8 DEF JoinWaitlist, AtStart
  <2>2. DbOK(snap[t])
    BY <2>1 DEF Inv, Shape
  <2>3. DbOK(new) /\ \A x \in Docs : x # WaitDoc(a) => new[x] = snap[t][x]
    BY <2>2, PutWait
  <2> HIDE DEF new
  <2>4. /\ \A c \in Accounts : new[RowDoc(c)] = snap[t][RowDoc(c)]
        /\ \A i \in Ids : new[BookingDoc(i)] = snap[t][BookingDoc(i)]
    BY <2>3, DocsFacts
  <2>5. Accountable(t, new, {}) /\ Spared(t, new)
    BY <2>1, <2>3, <2>4, RowsAlone
  <2> QED BY <2>1, <2>5 DEF Concludes
<1>9. ASSUME NEW a \in Accounts, Lift(t, a) PROVE t \in open /\ Concludes(t)
  <2>1. t \in open /\ InForce(snap[t][RowDoc(a)]) /\ Commit(t, Release(snap[t], a), {})
    BY <1>9 DEF Lift, AtStart
  <2>2. DbOK(snap[t])
    BY <2>1 DEF Inv, Shape
  <2>3. Accountable(t, Release(snap[t], a), {}) /\ Spared(t, Release(snap[t], a))
    BY <1>9, <2>1, <2>2, ReleaseTraced
  <2> QED BY <2>1, <2>3 DEF Concludes
<1>10. ASSUME NEW a \in Accounts, DeleteAccount(t, a) PROVE t \in open /\ Concludes(t)
  <2>1. t \in open
    BY <1>10 DEF DeleteAccount
  <2> QED BY <1>10, <2>1, DeleteTraced DEF Concludes
<1>11. ASSUME NEW a \in Accounts, NEW end \in {"timed", "forever"}, SuspendByHand(t, a, end)
       PROVE  t \in open /\ Concludes(t)
  <2> DEFINE d == snap[t]
             f == [d EXCEPT ![RowDoc(a)] = Touched(@, {})]
             new == Suspend(f, a, end, "manual", {})
  <2>1. t \in open /\ Commit(t, new, {RowDoc(a)})
    BY <1>11 DEF SuspendByHand, AtStart
  <2>2. DbOK(d)
    BY <2>1 DEF Inv, Shape
  <2>3. RowWritten(d, f, a) /\ f[RowDoc(a)].exists
    BY <2>2, TouchWrites
  <2> HIDE DEF f
  <2>4. /\ RowWritten(f, new, a)
        /\ new[RowDoc(a)].end = end /\ new[RowDoc(a)].kind = "manual"
    <3>1. "manual" \in {"no_show", "manual"} /\ {} \in SUBSET Ids /\ ({} # {} => "manual" = "no_show")
      OBVIOUS
    <3>2. DbOK(f)
      BY <2>3 DEF RowWritten
    <3> QED BY <2>3, <3>1, <3>2, SuspendWrites, SuspendedEnds
  <2> HIDE DEF new
  <2>5. RowWritten(d, new, a)
    BY <2>3, <2>4 DEF RowWritten
  <2>6. ~Punished(new[RowDoc(a)]) /\ Manual(new[RowDoc(a)])
    BY <2>4 DEF Punished, Manual, InForce
  <2>7. Accountable(t, new, {RowDoc(a)})
    BY <2>1, <2>2, <2>5, <2>6, NonePunished
  <2>8. \A c \in Accounts : c # a => new[RowDoc(c)] = d[RowDoc(c)]
    BY <2>5, DocsFacts DEF RowWritten
  <2>9. Spared(t, new)
    BY <2>6, <2>8 DEF Spared
  <2> QED BY <2>1, <2>7, <2>9 DEF Concludes
<1> QED BY <1>2, <1>5, <1>6, <1>7, <1>8, <1>9, <1>10, <1>11 DEF Handler

LEMMA InitTraced == Init => Traced
BY DEF Init, TxInit, Traced, Imposed

LEMMA NextTraced == Inv /\ Traced /\ [Next]_txVars => Traced'
<1> SUFFICES ASSUME Inv, Traced, [Next]_txVars PROVE Traced'
  OBVIOUS
<1>1. CASE UNCHANGED txVars
  BY <1>1 DEF txVars, Traced, Imposed
<1>2. ASSUME NEW t \in Txns, Begin(t) \/ Abort(t) PROVE Traced'
  BY <1>2, EndsTraced
<1>3. ASSUME NEW t \in Txns, NEW a \in Accounts, NEW b \in Ids, NEW late \in BOOLEAN,
             Withdraw(t, a, b, late)
      PROVE  Traced'
  BY <1>3, WithdrawTraced
<1>4. ASSUME NEW t \in Txns, Handler(t) PROVE Traced'
  BY <1>4, HandlerConcludes, CommitTraced DEF Concludes
<1>5. ASSUME NEW a \in Accounts, Lapse(a) PROVE Traced'
  BY <1>5, LapseTraced
<1>6. ASSUME NEW a \in Accounts, LeaveWaitlist(a) \/ Register(a) PROVE Traced'
  <2>1. PICK x \in {WaitDoc(a), UserDoc(a)} : \E v : Write(x, v)
    BY <1>6 DEF LeaveWaitlist, Register
  <2>2. x \in Docs /\ (\A b \in Ids : x # BookingDoc(b)) /\ \A c \in Accounts : x # RowDoc(c)
    BY DocsFacts
  <2> QED BY <2>1, <2>2, WriteTraced
<1>7. ASSUME NEW a \in Accounts, Expire(a) PROVE Traced'
  <2>1. Write(RowDoc(a), NoRow) /\ ~Punished(NoRow)
    BY <1>7, NoRowFields DEF Expire, Punished, InForce
  <2>2. RowDoc(a) \in Docs /\ \A b \in Ids : RowDoc(a) # BookingDoc(b)
    BY DocsFacts
  <2> QED BY <2>1, <2>2, WriteTraced
<1> QED BY <1>1, <1>2, <1>3, <1>4, <1>5, <1>6, <1>7 DEF Next, Handler

\* The deletion of an account writes all its bookings, and so meets a conflict
\* with the mark that punished the account meanwhile; a punishment it knows of,
\* or imposed itself, it keeps for the phone.
LEMMA DeletionKeepsSanction ==
    ASSUME Inv, Traced, NEW t \in Txns, NEW a \in Accounts, DeleteAccount(t, a),
           BookingsOf(db, a) \subseteq BookingsOf(snap[t], a)
    PROVE  /\ Punished(db[RowDoc(a)]) => InForce(db'[RowDoc(a)])
           /\ Punished(db'[RowDoc(a)]) => db'[RowDoc(a)].phone
<1> DEFINE s == snap[t]
           w == work[t]
<1>1. t \in open
  BY DEF DeleteAccount
<1>2. PICK new, touched :
         /\ Commit(t, new, touched) /\ DOMAIN new = Docs
         /\ touched = {BookingDoc(b) : b \in BookingsOf(w, a)}
         /\ new[RowDoc(a)] = Detached(w[RowDoc(a)])
         /\ s[UserDoc(a)] = "live"
  BY <1>1, DeleteTraced DEF Accountable
<1>3. \A x \in Docs :
         /\ x \in Written(t, new, touched) => x \notin dirty[t] /\ s[x] = db[x] /\ db'[x] = new[x]
         /\ x \notin Written(t, new, touched) => new[x] = s[x] /\ db'[x] = db[x]
  BY <1>1, <1>2, CommitWrites
<1>4. /\ DbOK(w) /\ OwnWrites(s, w) /\ Withdrawn(s, w) /\ ~s[RowDoc(a)].phone
      /\ Punished(db[RowDoc(a)]) /\ ~Punished(s[RowDoc(a)]) =>
            \E b \in BookingsOf(db, a) : BookingDoc(b) \in dirty[t]
  BY <1>1, <1>2 DEF Inv, Shape, Own, Traced, Imposed
<1>5. BookingsOf(s, a) \subseteq BookingsOf(w, a)
  BY <1>4 DEF OwnWrites, BookingsOf
<1>6. \A b \in BookingsOf(s, a) : BookingDoc(b) \in Written(t, new, touched)
  BY <1>2, <1>5 DEF Written
<1>7. Punished(db[RowDoc(a)]) => Punished(s[RowDoc(a)])
  <2>1. \A b \in BookingsOf(db, a) : BookingDoc(b) \notin dirty[t]
    BY <1>3, <1>6, DocsFacts DEF BookingsOf
  <2> QED BY <1>4, <2>1
<1>8. Harsher(s[RowDoc(a)], w[RowDoc(a)])
  BY <1>4 DEF Withdrawn
<1>9. w[RowDoc(a)] \in RowFields
  BY <1>4, RowParts DEF DbOK
<1> HIDE DEF s, w
<1>10. /\ InForce(w[RowDoc(a)]) => InForce(new[RowDoc(a)]) /\ new[RowDoc(a)].phone
       /\ ~InForce(w[RowDoc(a)]) => ~InForce(new[RowDoc(a)])
  <2>1. CASE InForce(w[RowDoc(a)])
    <3>1. new[RowDoc(a)] = [w[RowDoc(a)] EXCEPT !.phone = TRUE]
      BY <1>2, <2>1 DEF Detached
    <3> QED BY <1>9, <2>1, <3>1 DEF RowFields, InForce
  <2>2. CASE ~InForce(w[RowDoc(a)])
    <3>1. new[RowDoc(a)] = w[RowDoc(a)] \/ new[RowDoc(a)] = NoRow
      BY <1>2, <2>2 DEF Detached
    <3> QED BY <2>2, <3>1, NoRowFields DEF InForce
  <2> QED BY <2>1, <2>2
<1>11. Punished(db[RowDoc(a)]) => InForce(new[RowDoc(a)]) /\ new[RowDoc(a)].phone
  BY <1>7, <1>8, <1>10 DEF Harsher, Punished
<1>12. Punished(db[RowDoc(a)]) => RowDoc(a) \in Written(t, new, touched)
  BY <1>3, <1>4, <1>11, DocsFacts
<1>13. RowDoc(a) \in Docs
  BY DocsFacts
<1>14. CASE RowDoc(a) \in Written(t, new, touched)
  <2>1. db'[RowDoc(a)] = new[RowDoc(a)]
    BY <1>3, <1>13, <1>14
  <2> QED BY <1>10, <1>11, <2>1 DEF Punished
<1>15. CASE RowDoc(a) \notin Written(t, new, touched)
  <2>1. db'[RowDoc(a)] = db[RowDoc(a)] /\ ~Punished(db[RowDoc(a)])
    BY <1>3, <1>12, <1>13, <1>15
  <2> QED BY <2>1
<1> QED BY <1>14, <1>15

\* Nobody but staff who lift it, or the time, ends a manual suspension.
LEMMA ManualLasts ==
    ASSUME Inv, Traced, [Next]_txVars, NEW a \in Accounts, Manual(db[RowDoc(a)])
    PROVE  \/ Manual(db'[RowDoc(a)])
           \/ Lapse(a)
           \/ \E t \in Txns : Lift(t, a)
<1> SUFFICES ASSUME ~Lapse(a), ~\E t \in Txns : Lift(t, a) PROVE Manual(db'[RowDoc(a)])
  OBVIOUS
<1>1. CASE db' = db
  BY <1>1
<1>2. ASSUME NEW t \in Txns, Handler(t) PROVE Manual(db'[RowDoc(a)])
  <2>1. PICK new, touched : Commit(t, new, touched) /\ DOMAIN new = Docs /\ Spared(t, new)
    BY <1>2, HandlerConcludes DEF Concludes, Accountable
  <2>2. t \in open
    BY <1>2, HandlerConcludes
  <2>3. /\ RowDoc(a) \in Written(t, new, touched) =>
              snap[t][RowDoc(a)] = db[RowDoc(a)] /\ db'[RowDoc(a)] = new[RowDoc(a)]
        /\ RowDoc(a) \notin Written(t, new, touched) => db'[RowDoc(a)] = db[RowDoc(a)]
    BY <2>1, <2>2, CommitWrites, DocsFacts
  <2> QED BY <2>1, <2>3 DEF Spared
<1>3. ASSUME NEW c \in Accounts, LeaveWaitlist(c) \/ Register(c) \/ Expire(c)
      PROVE  Manual(db'[RowDoc(a)])
  <2>1. DOMAIN db = Docs
    BY DEF Inv, Shape, DbOK
  <2>2. Expire(c) => c # a
    BY DEF Expire, Manual
  <2>3. db'[RowDoc(a)] = db[RowDoc(a)]
    BY <1>3, <2>1, <2>2, DocsFacts DEF LeaveWaitlist, Register, Expire, Write
  <2> QED BY <2>3
<1>4. ASSUME NEW c \in Accounts, Lapse(c) PROVE Manual(db'[RowDoc(a)])
  <2>1. DbOK(db) /\ c # a /\ db' = Lapsed(db, c)
    BY <1>4 DEF Inv, Shape, Lapse
  <2>2. db'[RowDoc(a)] = db[RowDoc(a)]
    BY <2>1, LapsedWrites, DocsFacts
  <2> QED BY <2>2
<1>5. ASSUME NEW t \in Txns, \/ Begin(t) \/ Abort(t)
                             \/ \E c \in Accounts, b \in Ids, late \in BOOLEAN : Withdraw(t, c, b, late)
      PROVE  db' = db
  BY <1>5 DEF Begin, Abort, Withdraw, Update
<1> QED BY <1>1, <1>2, <1>3, <1>4, <1>5 DEF Next, Handler, txVars

\* A suspension for no-shows is kept, for the phone, when the account is
\* deleted, also one imposed while the deletion was under way.
THEOREM SanctionsOutliveAccounts == Spec => SanctionOutlivesAccount
<1>1. Inv /\ Traced /\ [Next]_txVars =>
          [\A t \in Txns, a \in Accounts :
              /\ DeleteAccount(t, a)
              /\ BookingsOf(db, a) \subseteq BookingsOf(snap[t], a)
              => LET before == db[RowDoc(a)]
                     after  == db[RowDoc(a)]'
                 IN /\ InForce(before) /\ before.kind = "no_show" => InForce(after)
                    /\ InForce(after) /\ after.kind = "no_show" => after.phone]_txVars
  <2> SUFFICES ASSUME Inv, Traced, NEW t \in Txns, NEW a \in Accounts, DeleteAccount(t, a),
                      BookingsOf(db, a) \subseteq BookingsOf(snap[t], a)
               PROVE  /\ InForce(db[RowDoc(a)]) /\ db[RowDoc(a)].kind = "no_show" =>
                            InForce(db[RowDoc(a)]')
                      /\ InForce(db[RowDoc(a)]') /\ (db[RowDoc(a)]').kind = "no_show" =>
                            (db[RowDoc(a)]').phone
    OBVIOUS
  <2>1. /\ Punished(db[RowDoc(a)]) => InForce(db'[RowDoc(a)])
        /\ Punished(db'[RowDoc(a)]) => db'[RowDoc(a)].phone
    BY DeletionKeepsSanction
  <2>2. db[RowDoc(a)]' = db'[RowDoc(a)]
    BY DEF RowDoc
  <2> QED BY <2>1, <2>2 DEF Punished
<1> QED BY <1>1, InitInv, InitTraced, NextKeeps, NextTraced, PTL DEF Spec, SanctionOutlivesAccount

\* A manual suspension ends when staff lift it or its time is up, and by
\* nothing else: no mark, correction, deletion or race of these.
THEOREM ManualSuspensionsStay == Spec => ManualStays
<1>1. Inv /\ Traced /\ [Next]_txVars =>
          [\A a \in Accounts :
              LET row == db[RowDoc(a)]
              IN InForce(row) /\ row.kind = "manual"
                 => \/ InForce(db[RowDoc(a)]') /\ (db[RowDoc(a)]').kind = "manual"
                    \/ Lapse(a)
                    \/ \E t \in Txns : Lift(t, a)]_txVars
  <2> SUFFICES ASSUME Inv, Traced, [Next]_txVars, NEW a \in Accounts,
                      InForce(db[RowDoc(a)]), db[RowDoc(a)].kind = "manual"
               PROVE  \/ InForce(db[RowDoc(a)]') /\ (db[RowDoc(a)]').kind = "manual"
                      \/ Lapse(a)
                      \/ \E t \in Txns : Lift(t, a)
    OBVIOUS
  <2>1. \/ Manual(db'[RowDoc(a)])
        \/ Lapse(a)
        \/ \E t \in Txns : Lift(t, a)
    BY ManualLasts DEF Manual
  <2>2. db[RowDoc(a)]' = db'[RowDoc(a)]
    BY DEF RowDoc
  <2> QED BY <2>1, <2>2 DEF Manual
<1> QED BY <1>1, InitInv, InitTraced, NextKeeps, NextTraced, PTL DEF Spec, ManualStays

=============================================================================
