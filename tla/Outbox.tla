----------------------------- MODULE Outbox -----------------------------
(***************************************************************************)
(* The transactional outbox: every process that commits an event pokes its *)
(* own dispatcher (OutboxService), and a cron job dispatches every minute. *)
(* A dispatcher claims one due event after another by an atomic update     *)
(* that sets a lease, delivers it to its targets one by one and writes the *)
(* outcome back with an update that does NOT check that the lease is still *)
(* its own.                                                                *)
(*                                                                         *)
(* The lease, and what counts as due, are computed from `now`, the time    *)
(* the PASS started, not the time of the claim.  Times are therefore kept  *)
(* relative to the present: due and lease count down to their moment (and  *)
(* below zero once it is past), age[w] is how long ago the pass of w       *)
(* started.                                                                *)
(***************************************************************************)
EXTENDS Integers, FiniteSets

CONSTANTS
    Events,         \* events that may be committed
    Targets,        \* handlers and webhooks an event fans out to
    Workers,        \* processes with a dispatcher
    CronWorkers,    \* those that run the outbox_dispatch job
    Replayers,      \* those that serve replayEvent, one request at a time
    MaxAttempts,    \* OUTBOX.maxAttempts
    BatchSize,      \* OUTBOX.batchSize
    Lease,          \* CLAIM_LEASE_MS
    Backoff,        \* the delay after each failed attempt
    MaxPass,        \* bound: how long one pass may take
    MayFail,        \* the targets that may refuse a delivery
    MaxCrashes,     \* bound: crashes of processes
    MaxReplays      \* bound: replays an administrator asks for

ASSUME SetsAssumption == CronWorkers \cup Replayers \subseteq Workers /\ MayFail \subseteq Targets
ASSUME BoundsAssumption ==
    /\ MaxAttempts \in Nat \ {0} /\ BatchSize \in Nat \ {0}
    /\ Lease \in Nat \ {0} /\ MaxPass \in Nat
    /\ MaxCrashes \in Nat /\ MaxReplays \in Nat
    /\ Backoff \in [1 .. MaxAttempts -> Nat]

VARIABLES
    event,      \* the rows of the outbox
    pass,       \* the pass each dispatcher makes
    job,        \* its copy of the event it has claimed
    owed,       \* processes that committed and have not poked yet
    replay,     \* what replayEvent has read in each process
    got,        \* successful deliveries of each event to each target
    crashes, replays

vars == <<event, pass, job, owed, replay, got, crashes, replays>>

-----------------------------------------------------------------------------
\* Nothing is ever compared with a time older than the oldest pass.
Past == -MaxPass
Later(x) == IF x > Past THEN x - 1 ELSE x

Rows == [status   : {"none", "pending", "delivered", "failed"},
         attempts : 0 .. MaxAttempts,
         due      : Int,
         lease    : Int,                \* Past also when claimed_until is null
         done     : SUBSET Targets]

NoRow == [status |-> "none", attempts |-> 0, due |-> Past, lease |-> Past, done |-> {}]

Passes == [pc   : {"idle", "claiming", "delivering", "quiet"},
           age  : 0 .. MaxPass,
           left : 0 .. BatchSize, rerun : BOOLEAN]

Jobs == [ev       : Events, began : 0 .. MaxPass,
         attempts : 0 .. MaxAttempts - 1,
         done     : SUBSET Targets, todo : SUBSET Targets]

Replays == [ev : Events, done : SUBSET Targets]

Idle == [pc |-> "idle", age |-> 0, left |-> 0, rerun |-> FALSE]
NewPass == [pc |-> "claiming", age |-> 0, left |-> BatchSize, rerun |-> FALSE]
NoJob == [none |-> TRUE]
Holds(w, e) == job[w] # NoJob /\ job[w].ev = e

\* (Mutant of Claimable: the lease of another dispatcher is not looked at.)
ClaimableLeased(e, age) == event[e].status = "pending" /\ event[e].due <= -age

\* The filter of claimNext, for a pass of that age.
Claimable(e, age) ==
    /\ event[e].status = "pending"
    /\ event[e].due <= -age
    /\ event[e].lease <= -age

\* `sort: { next_attempt_at: 1 }`.
First(e, age) ==
    /\ Claimable(e, age)
    /\ \A f \in Events : Claimable(f, age) => event[e].due <= event[f].due

\* OutboxRepository.finish: whoever calls it, the row becomes this.
Row(status, attempts, due, done) ==
    [status |-> status, attempts |-> attempts, due |-> due, lease |-> Past, done |-> done]

-----------------------------------------------------------------------------
\* A transaction of process w commits an event.
Enqueue(w, e) ==
    /\ event[e].status = "none"
    /\ event' = [event EXCEPT ![e] = Row("pending", 0, 0, {})]
    /\ owed' = owed \cup {w}
    /\ UNCHANGED <<pass, job, replay, got, crashes, replays>>

\* (Mutant of Dispatch: a call during a pass is dropped.)
DispatchDropping(w) ==
    pass' = [pass EXCEPT ![w] = IF pass[w].pc = "idle" THEN NewPass ELSE pass[w]]

\* dispatch: start draining, or ask the pass under way to run again.
Dispatch(w) ==
    pass' = [pass EXCEPT ![w] = IF pass[w].pc = "idle" THEN NewPass
                                ELSE [pass[w] EXCEPT !.rerun = TRUE]]

Poke(w) ==
    /\ w \in owed
    /\ owed' = owed \ {w}
    /\ Dispatch(w)
    /\ UNCHANGED <<event, job, replay, got, crashes, replays>>

Cron(w) ==
    /\ w \in CronWorkers
    /\ Dispatch(w)
    /\ UNCHANGED <<event, job, owed, replay, got, crashes, replays>>

\* (Mutant of Claim: every target is delivered to again.)
ClaimRedelivering(w) ==
    /\ pass[w].pc = "claiming" /\ pass[w].left > 0
    /\ \E e \in Events :
           /\ First(e, pass[w].age)
           /\ event' = [event EXCEPT ![e].lease = Lease - pass[w].age]
           /\ job' = [job EXCEPT ![w] =
                         [ev |-> e, began |-> pass[w].age, attempts |-> event[e].attempts,
                          done |-> event[e].done, todo |-> Targets]]
    /\ pass' = [pass EXCEPT ![w].pc = "delivering", ![w].left = @ - 1]
    /\ UNCHANGED <<owed, replay, got, crashes, replays>>

\* drain: claimNext returns an event.
Claim(w) ==
    /\ pass[w].pc = "claiming" /\ pass[w].left > 0
    /\ \E e \in Events :
           /\ First(e, pass[w].age)
           /\ event' = [event EXCEPT ![e].lease = Lease - pass[w].age]
           /\ job' = [job EXCEPT ![w] =
                         [ev |-> e, began |-> pass[w].age, attempts |-> event[e].attempts,
                          done |-> event[e].done, todo |-> Targets \ event[e].done]]
    /\ pass' = [pass EXCEPT ![w].pc = "delivering", ![w].left = @ - 1]
    /\ UNCHANGED <<owed, replay, got, crashes, replays>>

\* drain: nothing is due, or the batch is used up.
Quiet(w) ==
    /\ pass[w].pc = "claiming"
    /\ pass[w].left = 0 \/ \A e \in Events : ~Claimable(e, pass[w].age)
    /\ pass' = [pass EXCEPT ![w].pc = "quiet"]
    /\ UNCHANGED <<event, job, owed, replay, got, crashes, replays>>

\* drainUntilQuiet: another pass if one was asked for meanwhile.
EndPass(w) ==
    /\ pass[w].pc = "quiet"
    /\ pass' = [pass EXCEPT ![w] = IF pass[w].rerun THEN NewPass ELSE Idle]
    /\ UNCHANGED <<event, job, owed, replay, got, crashes, replays>>

\* deliver: one target after another; a target that fails is not tried again
\* in this attempt.
Deliver(w, x) ==
    /\ pass[w].pc = "delivering"
    /\ x \in job[w].todo
    /\ \/ /\ job' = [job EXCEPT ![w] = [job[w] EXCEPT !.todo = @ \ {x}, !.done = @ \cup {x}]]
          /\ got' = [got EXCEPT ![<<job[w].ev, x>>] = IF @ < 2 THEN @ + 1 ELSE @]
       \/ /\ x \in MayFail
          /\ job' = [job EXCEPT ![w].todo = @ \ {x}]
          /\ UNCHANGED got
    /\ UNCHANGED <<event, pass, owed, replay, crashes, replays>>

\* (Mutants of Outcome: one attempt too many; delivered whatever the targets
\* answered; the last attempt made again and again.)
OutcomeOneMore(j, age) ==
    LET attempts == j.attempts + 1
    IN IF j.done = Targets THEN Row("delivered", attempts, Past, j.done)
       ELSE IF attempts > MaxAttempts THEN Row("failed", attempts, Past, j.done)
       ELSE Row("pending", attempts, Backoff[attempts] - (age - j.began), j.done)
OutcomeHopeful(j, age) == Row("delivered", j.attempts + 1, Past, j.done)
OutcomeTireless(j, age) ==
    LET attempts == IF j.attempts + 1 < MaxAttempts THEN j.attempts + 1 ELSE j.attempts
    IN IF j.done = Targets THEN Row("delivered", attempts, Past, j.done)
       ELSE Row("pending", attempts, Backoff[attempts] - (age - j.began), j.done)

\* deliver: the outcome is written; the backoff counts from its beginning.
Outcome(j, age) ==
    LET attempts == j.attempts + 1
    IN IF j.done = Targets THEN Row("delivered", attempts, Past, j.done)
       ELSE IF attempts >= MaxAttempts THEN Row("failed", attempts, Past, j.done)
       ELSE Row("pending", attempts, Backoff[attempts] - (age - j.began), j.done)

Finish(w) ==
    /\ pass[w].pc = "delivering"
    /\ job[w].todo = {}
    /\ event' = [event EXCEPT ![job[w].ev] = Outcome(job[w], pass[w].age)]
    /\ pass' = [pass EXCEPT ![w].pc = "claiming"]
    /\ job' = [job EXCEPT ![w] = NoJob]
    /\ UNCHANGED <<owed, replay, got, crashes, replays>>

\* replayEvent reads a failed event...
ReplayFind(w, e) ==
    /\ w \in Replayers /\ replays < MaxReplays
    /\ replay[w] = NoJob
    /\ event[e].status = "failed"
    /\ replay' = [replay EXCEPT ![w] = [ev |-> e, done |-> event[e].done]]
    /\ replays' = replays + 1
    /\ UNCHANGED <<event, pass, job, owed, got, crashes>>

\* (Mutant of ReplayFinish: the targets already delivered are forgotten.)
ReplayFinishForgetting(w) ==
    /\ replay[w] # NoJob
    /\ event' = [event EXCEPT ![replay[w].ev] = Row("pending", 0, 0, {})]
    /\ replay' = [replay EXCEPT ![w] = NoJob]
    /\ owed' = owed \cup {w}
    /\ UNCHANGED <<pass, job, got, crashes, replays>>

\* ...and puts it back, whatever it is by then, and pokes.
ReplayFinish(w) ==
    /\ replay[w] # NoJob
    /\ event' = [event EXCEPT ![replay[w].ev] = Row("pending", 0, 0, replay[w].done)]
    /\ replay' = [replay EXCEPT ![w] = NoJob]
    /\ owed' = owed \cup {w}
    /\ UNCHANGED <<pass, job, got, crashes, replays>>

\* A process dies and comes back with empty memory.
Crash(w) ==
    /\ crashes < MaxCrashes
    /\ crashes' = crashes + 1
    /\ pass' = [pass EXCEPT ![w] = Idle]
    /\ job' = [job EXCEPT ![w] = NoJob]
    /\ replay' = [replay EXCEPT ![w] = NoJob]
    /\ owed' = owed \ {w}
    /\ UNCHANGED <<event, got, replays>>

\* Time passes.
Tick ==
    /\ \A w \in Workers : pass[w].pc # "idle" => pass[w].age < MaxPass
    /\ event' = [e \in Events |-> [event[e] EXCEPT !.due = Later(@), !.lease = Later(@)]]
    /\ pass' = [w \in Workers |-> IF pass[w].pc = "idle" THEN Idle
                                  ELSE [pass[w] EXCEPT !.age = @ + 1]]
    /\ UNCHANGED <<job, owed, replay, got, crashes, replays>>

-----------------------------------------------------------------------------
Init ==
    /\ event = [e \in Events |-> NoRow]
    /\ pass = [w \in Workers |-> Idle]
    /\ job = [w \in Workers |-> NoJob]
    /\ owed = {}
    /\ replay = [w \in Workers |-> NoJob]
    /\ got = [k \in Events \X Targets |-> 0]
    /\ crashes = 0 /\ replays = 0

Work(w) == Claim(w) \/ Quiet(w) \/ EndPass(w) \/ Finish(w) \/ \E x \in Targets : Deliver(w, x)

Next ==
    \/ \E w \in Workers :
           \/ Poke(w) \/ Cron(w) \/ Work(w) \/ ReplayFinish(w) \/ Crash(w)
           \/ \E e \in Events : Enqueue(w, e) \/ ReplayFind(w, e)
    \/ Tick

Spec == Init /\ [][Next]_vars

\* A process that runs makes progress, answers its own pokes, and time passes.
Running == /\ \A w \in Workers : WF_vars(Work(w)) /\ WF_vars(Poke(w)) /\ WF_vars(ReplayFinish(w))
           /\ SF_vars(Tick)

FairSpec == Spec /\ Running /\ \A w \in CronWorkers : SF_vars(pass[w].pc = "idle" /\ Cron(w))

-----------------------------------------------------------------------------
(* Properties. *)

TypeOK ==
    /\ event \in [Events -> Rows]
    /\ pass \in [Workers -> Passes]
    /\ job \in [Workers -> {NoJob} \cup Jobs]
    /\ owed \subseteq Workers
    /\ replay \in [Workers -> {NoJob} \cup Replays]
    /\ got \in [Events \X Targets -> 0 .. 2]
    /\ crashes \in 0 .. MaxCrashes /\ replays \in 0 .. MaxReplays

\* The lease excludes: while passes are shorter than the lease, no two
\* dispatchers ever deliver the same event at the same time, through crashes,
\* expired leases, retries and replays.
ExclusiveDelivery ==
    \A v, w \in Workers, e \in Events : Holds(v, e) /\ Holds(w, e) => v = w

\* An event recorded as delivered has reached every one of its targets, though
\* the record is written from a copy, by an update that checks nothing.
DeliveredReachedAll ==
    \A e \in Events, x \in Targets : event[e].status = "delivered" => got[<<e, x>>] > 0

\* What was delivered stays recorded as delivered: no outcome written late, and
\* no replay written from what was read earlier, takes a target off the record
\* (it would be delivered to again).
DoneIsKept == [][\A e \in Events : event[e].done \subseteq event'[e].done]_vars

\* Leases, passes, copies and replays keep what the outbox promises (Courier):
\* an attempt records targets it reached and never fewer than before, no target
\* on record is handed the event again, and a delivered event is finished.
Promise == INSTANCE Courier WITH
    state  <- [e \in Events |-> event[e].status],
    ledger <- [e \in Events |-> event[e].done]
KeepsPromise == Promise!CourierSpec

\* docs/jobs.md:172-174: the cron worker and a poked replica never deliver the
\* same event twice, as long as none of them dies between a delivery and the
\* update that records it.
NeverTwice == crashes = 0 => \A e \in Events, x \in Targets : got[<<e, x>>] < 2

\* The comment in dispatch: an event committed while a pass is finishing does
\* not wait for the next cron tick.  While no process dies, an event not yet
\* tried is always on somebody's way: about to be poked for, claimed, or ahead
\* of a pass that will find it.
PokeSuffices ==
    crashes = 0 =>
        \A e \in Events : event[e].status = "pending" /\ event[e].attempts = 0 =>
            \E w \in Workers :
                \/ w \in owed
                \/ Holds(w, e)
                \/ pass[w].pc # "idle" /\ pass[w].rerun
                \/ /\ pass[w].pc \in {"claiming", "delivering"}
                   /\ pass[w].left > 0 /\ Claimable(e, pass[w].age)

\* Every committed event is settled in the end: delivered, or failed once its
\* attempts are spent, even if the process that committed or claimed it dies.
EventsSettle == \A e \in Events : event[e].status = "pending" ~> event[e].status \in {"delivered", "failed"}
=============================================================================
