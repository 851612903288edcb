--------------------------- MODULE Maintenance ---------------------------
(***************************************************************************)
(* The nightly jobs that delete by what they have read earlier, run among  *)
(* the booking transactions of Bookings:                                   *)
(*   stale_bookings  reads the slots, then streams the active bookings and *)
(*                   deletes by id those that point at no slot it has read;*)
(*   trash_purge     lists the services long enough in the trash, then     *)
(*                   purges each in a transaction of its own.              *)
(* Neither reads under a snapshot: a cursor returns each document as it is *)
(* when its turn comes, so every document is read by a step of its own, in *)
(* any order.  Each job runs in one process at a time (JobLease).          *)
(***************************************************************************)
EXTENDS Bookings

CONSTANTS Batch    \* ids deleted by one transaction of stale_bookings

ASSUME BatchAssumption == Batch \in Nat \ {0}

VARIABLES
    job,      \* the run of stale_bookings
    doomed,   \* trash_purge has listed the service and not purged it yet
    added     \* history: the places added since the run of stale_bookings began

mvars == <<vars, job, doomed, added>>

NoRun == [pc |-> "idle", unread |-> {}, live |-> {}, rows |-> {}, stale |-> {}]

JobRuns == [pc     : {"idle", "slots", "bookings"},
            unread : SUBSET SlotDocs,    \* slots the first cursor has not passed
            live   : SUBSET Places,      \* the places it has seen
            rows   : SUBSET Ids,         \* bookings the second one has not passed
            stale  : SUBSET Ids]         \* bookings about to be deleted

-----------------------------------------------------------------------------
StaleStart ==
    /\ job.pc = "idle"
    /\ job' = [NoRun EXCEPT !.pc = "slots", !.unread = SlotDocs]
    /\ UNCHANGED <<vars, doomed>>

\* (Mutant of StaleReadSlot: the slot's own id is kept, not its places.)
StaleReadSlotId(s) ==
    /\ job.pc = "slots" /\ s \in job.unread
    /\ job' = [job EXCEPT !.unread = @ \ {s}, !.live = @ \cup {s}]
    /\ UNCHANGED <<vars, doomed>>

\* liveSlots: the next slot.
StaleReadSlot(s) ==
    /\ job.pc = "slots" /\ s \in job.unread
    /\ job' = [job EXCEPT !.unread = @ \ {s},
                          !.live = @ \cup {p \in PlacesOf(s) : db.slot[p].exists}]
    /\ UNCHANGED <<vars, doomed>>

StaleStream ==
    /\ job.pc = "slots" /\ job.unread = {}
    /\ job' = [job EXCEPT !.pc = "bookings", !.rows = Ids]
    /\ UNCHANGED <<vars, doomed>>

\* (Mutant of StaleReadBooking: finished bookings are examined too.)
StaleReadEveryBooking(b) ==
    /\ job.pc = "bookings" /\ b \in job.rows
    /\ Cardinality(job.stale) < Batch
    /\ job' = [job EXCEPT !.rows = @ \ {b},
                          !.stale = IF /\ db.booking[b] # NoBooking
                                       /\ db.booking[b].place \notin job.live
                                    THEN @ \cup {b} ELSE @]
    /\ UNCHANGED <<vars, doomed>>

\* iterateActive: the next booking, if it is active by now.
StaleReadBooking(b) ==
    /\ job.pc = "bookings" /\ b \in job.rows
    /\ Cardinality(job.stale) < Batch
    /\ job' = [job EXCEPT !.rows = @ \ {b},
                          !.stale = IF IsActive(db, b) /\ db.booking[b].place \notin job.live
                                    THEN @ \cup {b} ELSE @]
    /\ UNCHANGED <<vars, doomed>>

\* deleteByIds, whatever the bookings are by now: a batch is full, or the
\* stream has ended.
StaleRemove ==
    /\ job.pc = "bookings"
    /\ \/ Cardinality(job.stale) = Batch
       \/ job.rows = {} /\ job.stale # {}
    /\ LET d == DropBookings(db, job.stale)
       IN Write(d, Changed(db, d), {})
    /\ job' = [job EXCEPT !.stale = {}]
    /\ UNCHANGED doomed

StaleEnd ==
    /\ job.pc = "bookings" /\ job.rows = {} /\ job.stale = {}
    /\ job' = NoRun
    /\ UNCHANGED <<vars, doomed>>

\* The worker dies: what the run has read is lost.
StaleCrash ==
    /\ job.pc # "idle"
    /\ job' = NoRun
    /\ UNCHANGED <<vars, doomed>>

\* purgeTrash: findDeletedBefore...
TrashFind ==
    /\ ~doomed /\ db.service = "trashed"
    /\ doomed' = TRUE
    /\ UNCHANGED <<vars, job>>

\* ...and purge of what it has listed: the transaction does not look whether
\* the service is still in the trash.
TrashPurge(t) ==
    /\ doomed
    /\ snap[t].service # "gone"
    /\ Commit(t, [EmptyDb EXCEPT !.service = "gone"], {})
    /\ doomed' = FALSE
    /\ UNCHANGED job

\* The worker dies before the purge, or the purge fails.
TrashCrash ==
    /\ doomed
    /\ doomed' = FALSE
    /\ UNCHANGED <<vars, job>>

-----------------------------------------------------------------------------
MInit == Init /\ job = NoRun /\ doomed = FALSE /\ added = {}

StaleStep ==
    \/ StaleStart \/ StaleStream \/ StaleRemove \/ StaleEnd \/ StaleCrash
    \/ \E s \in SlotDocs : StaleReadSlot(s)
    \/ \E b \in Ids : StaleReadBooking(b)

TrashStep == TrashFind \/ TrashCrash \/ \E t \in Txns : TrashPurge(t)

MNext ==
    /\ \/ Next /\ UNCHANGED <<job, doomed>>
       \/ StaleStep
       \/ TrashStep
    /\ added' = IF job'.pc = "idle" THEN {}
                ELSE added \cup {p \in Places : ~db.slot[p].exists /\ db'.slot[p].exists}

MSpec == MInit /\ [][MNext]_mvars

-----------------------------------------------------------------------------
(* Properties. *)

MTypeOK == TypeOK /\ job \in JobRuns /\ doomed \in BOOLEAN /\ added \subseteq Places

\* docs/jobs.md:99-103: what stale_bookings deletes are active bookings that
\* point at nothing, and a healthy system has none.  The set of places is read
\* first and the bookings later, so the job does collect a booking of a place
\* ADDED while it runs; it collects no other, whatever is booked, moved,
\* cancelled, removed, trashed or restored between its two cursors.
CollectsOnlyAdded ==
    [][\A b \in job'.stale \ job.stale : db.booking[b].place \in added]_mvars
=============================================================================
