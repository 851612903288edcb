# Verification of smart-city-api

TLA+ models of the parts of the server in `src/` where several processes,
transactions or jobs change the same data, the TLC runs that check them on
small instances, and theorems about them proved with TLAPS for instances of
any size. Paths below are relative to the repository (`src/…` is its source
directory, `docs/…` its documentation).

## 1. The system

A NestJS server with a MongoDB replica set, run as any number of API replicas
and any number of worker processes. Clients book places in the slots of a
city's services; staff manage the catalogue, the bookings and the visitors.
Nothing is shared between processes but the database (and Redis or MongoDB for
the rate limits), so every interaction below is through documents.

### 1.1 Inventory

| Component | State it keeps | Operations | Hard part | What makes it correct |
|---|---|---|---|---|
| Booking lifecycle, `modules/bookings/bookings.service.ts` | booking rows (status, place, `active`), unique index on active rows | create, cancel, confirm, set status, check in, mark no-show, reschedule, withdraw of a deleted account | each is a transaction on a snapshot; only documents written conflict | no overbooking; counters equal to what is booked; ended stays ended |
| Waiting list, `waitlist.repository.ts` | rows waiting or notified, by `created_at` | join, leave, claim the oldest, delete with slot, service, user | joins only read the slot; several claims at once | oldest first; told when, and only when, a place is free |
| Slot capacity, `modules/slots/slots.repository.ts` | limit and counter per slot or per time entry | guarded increment and decrement, reset, push and pull of times | many writers of one document, counter apart from the rows it counts | the counter covers the active bookings |
| Bulk slot administration, `slot-admin.service.ts` | – (works on the three above) | close, move, retire, rehearse | one transaction over many bookings | same invariants after a bulk step |
| Catalogue, `modules/services` | service document, slots, revisions | create, update, slots, delete to the trash, restore, purge, clone, publish | deletion against concurrent bookings, restore against the purge | no active booking of a trashed service |
| Suspensions, `suspensions.service.ts` | one row per client and service | count a missed booking, suspend, lift, correct | counting from rows written by others | a client is suspended once per series of misses |
| Booking policy, `booking-policy.ts` | – (pure) | lead time, horizon, cancellation deadline, sanctions | boundaries in time | agreement with a reference definition |
| Idempotency keys, `common/idempotency` | key row with request hash, status, answer | run, replay | key written before and after the handler, apart from its transaction | one booking per key |
| Transaction runner, `common/database/transaction-runner.ts` | the session, callbacks after commit | run, retry | handler runs again on conflict | callbacks run once, after the commit only |
| Outbox and webhooks, `common/outbox`, `modules/webhooks` | event rows: status, attempts, lease, delivered targets | enqueue, poke, cron pass, claim, deliver, finish, replay | leases, retries, crashes, writes from copies | every target reached, none twice, every event settles |
| Job lock, runner, scheduler, `src/jobs` | one lease document per job | acquire, renew, release, record | unsynchronised workers, late and lost calls | one run at a time, lease always ends |
| Maintenance jobs, `src/jobs/*.job.ts` | – (work on the data above) | slot expiry, stale bookings, trash purge, auto no-show, reminders, reconcile, storage gc, recurrent slots… | decisions from reads made earlier, batches, partial failure | nothing healthy is deleted |
| Runtime settings, `common/settings` | the settings row; a snapshot per process | update with `If-Match`, reset, poll | optimistic write against the poll | the cross rules hold of the row and of every snapshot |
| Sign-in, `modules/auth` | sessions, one-time codes, failure counters, lock, throttle windows | issue and verify codes, refresh with rotation, lock, throttle | parallel guesses and refreshes | budgets hold; a code is used once |
| SMS budget, `modules/sms/sms-budget.service.ts` | counter per hour and per day | charge, refund | charge and refund are separate updates | the limit holds, refusals cost nothing |
| Notifications, `modules/notifications` | feed rows | written from the outbox, read, deleted | repeated deliveries | one row per event and reader |
| Images and storage, `modules/images`, `storage-gc.job.ts` | rows and files | upload, attach, delete, sweep | rows and files are not one transaction | no file in use is swept |
| Cascade registry, `common/cascade`, `cascade-reconcile.job.ts` | – | delete what an owner owns, sweep orphans | partial failure | orphans disappear |
| Catalogue of an organization: categories, services, infosections, news, images, archives, favourites, staff | one row each, naming its organization; the organization's version | create, change, delete, reorder, archive; the tree with its ETag | the version and the rows are separate writes, children are written while the organization dies | a fresh tag means a fresh tree; nothing twice; leftovers go |
| Analytics, debtor report, channel templates | derived or single documents | read, edit | – | – |
| HTTP layer, guards, pagination, i18n, metrics, tracing, configuration, providers, migrations, scripts, load tests | – | – | – | – |

`PROJECT.json` lists the same components with their files and with what is
modelled of each, and under `hazards` the places in the code where something
hard to test can go wrong, with the properties that watch each of them.

### 1.2 How the parts meet

* Every change a handler makes to bookings, slots, waiting list and service is
  made in ONE MongoDB transaction (`TransactionRunner.run`), except leaving the
  waiting list, restoring a service and what the jobs delete.
* The event of a change is inserted into the outbox in the same transaction; a
  callback after the commit pokes the dispatcher of the same process.
* A cron tick fires in every worker; the job lock lets one of them run the job.
* Jobs read outside transactions and then write by what they have read.

## 2. Plan and where it stands

Modules in the order of their importance. All of these exist.

1. `Bookings` – the booking transactions of one service: capacity, waiting
   list, catalogue. Proofs in `BookingsProofs`.
2. `Outbox` – delivery of events, shown to implement the abstract `Courier`.
   Proofs in `OutboxProofs`.
3. `JobLease` – the lock of the jobs. Proofs in `PortalProofs`, with those
   of the jobs that take it.
4. `Maintenance` – `Bookings` composed with the jobs that delete from outdated
   reads. Proofs in `BookingsProofs`.
5. `Suspensions` – the no-show sanctions, over the document transactions of
   `Transactions`. Proofs in `SuspensionsProofs`.
6. `Ranges` and `Visits` – the rules of intervals, times and schedules as pure
   operators; one slot with its bookings, staff, idempotency keys and the three
   jobs that write the same documents. Proofs in `VisitsProofs`.
7. `SignIn` and `Codes` – sessions and the lock; one-time codes and the
   throttle. Proofs in `SignInProofs` and `TextsProofs`.
8. `Settings` and `SmsBudget` – the optimistic write, the polled snapshots and
   the budget that works with them. Proofs in `TextsProofs`.
9. `Documents`, `Catalogue`, `Portal` – what an organization owns, the tree a
   caller caches, and the jobs that clean up. Proofs in `PortalProofs`.
10. `Notices` – what people are told of an event, composed with `Courier`. Proofs in
    `NoticesProofs`.

Every safety property of the runs has a theorem but `PokeSuffices`, which is
false for some constants (section 6). Left to model: the move of a slot to
another date with its waiting list; clones' options; the race for the last
super administrator; the write check that guards the sign-in method against an
exhausted SMS budget.

## 3. The modules

### 3.1 `Bookings`

State: `db`, the committed documents of one service (booking rows, slot limits
and counters, waiting-list rows with their age as a rank, whether the service
is live, trashed or gone), and for every open transaction its snapshot `snap`
and the set `dirty` of documents others have written since it was taken.

A handler is two steps, as it is in MongoDB: `Begin` takes the snapshot, and one
step computes the handler's result from the SNAPSHOT and merges what it wrote
into `db`, enabled only when none of the written documents is dirty. `Abort`
is every other end: a refusal, a write conflict (the driver then runs the
handler again, that is, another `Begin`), a crash. MongoDB raises the conflict
when the second writer WRITES, the model when it commits: the committed
results are the same, since a transaction that met a conflict leaves nothing.
Reads protect nothing, which is where the disagreements of section 5 come from.

The documents written are computed from the fields that differ (`Changed`)
plus those a handler touches without changing a modelled field (`touched`: the
service's revision, counters already at zero).

| Action | Code |
|---|---|
| `Create`, `Cancel`, `SetStatus`, `CheckIn`, `MarkNoShow`, `Reschedule`, `Withdraw` | the methods of `bookings.service.ts` of those names; `Cancel` is `remove` and `setStatus(cancelled)` |
| `JoinWaitlist`, `LeaveWaitlist`, `Notify` | `joinWaitlist`, `leaveWaitlist`, `notifyWaitlist` and `claimNextWaiting` |
| `AddSlot`, `SetLimit`, `RemoveSlot` | `addSlot`, `updateSlot`, `removeSlot` of `services.service.ts` |
| `Close`, `CloseAndRemove` | `runClose` of `slot-admin.service.ts`, without and with `remove` |
| `Delete`, `Restore`, `Purge` | `delete` with `retire`, `restore`, `purge` of `services.service.ts` |
| `SlotExpiry` | the job of that name |

Abstracted: refusals by the policy of the service, by suspensions and by the
limit of active bookings are `Abort`; names, notes, answers to the form and
prices do not appear; the outbox row of a change is in its transaction and not
kept; an id may be used again once its row is deleted; `created_at` is the time
of the insert (so a row may commit later than a younger one), and clocks of
processes agree. A service's deletion reads that the service is live BEFORE its
transaction, so the action does not require it.

Elsewhere: the move of a whole slot and the overlap of `time_range` slots are in
`Visits`. Left out: notes and edits of a booking that move no place.

### 3.2 `Maintenance`

`Bookings` with two jobs that read without a snapshot. `stale_bookings` reads
the slots one by one, then the active bookings one by one, collecting those of
no slot it has seen, and deletes them by id in batches, whatever they are by
then and without touching counters. `trash_purge` lists the trashed services
and purges each in a transaction that does not look whether it is still in the
trash. The purge may use a snapshot older than the listing; this allows no
more, since it writes the service document and conflicts with every change of
it. `added` is a history variable: the places that came into existence while
the job was running.

### 3.3 `Outbox`

One row per event; every process (`Workers`) has a dispatcher with at most one
pass (`dispatch`, `drainUntilQuiet`, `drain`), some also run the cron job. The
lease and the due time are computed by the code from the time the PASS began,
so the model keeps times relative to the present and, per pass, its age.
`Finish` and `ReplayFinish` write by id and check nothing, as the code does.
`got` counts acknowledged deliveries. The targets of an event are fixed
(subscriptions do not change while it is under way). The end of a pass (the
`rerun` test and the `finally` that clears the promise) is one step: no other
code of the process runs between them. The cron may come at any time: the job
lock is not relied upon.

`Courier` is what the outbox promises to whoever commits an event, without
workers, leases, passes or clocks: targets acknowledge one by one, an attempt
is settled by recording targets that were really reached and never fewer than
before, and a delivered event is never touched again. `Outbox` instantiates it
with its own rows (`state`, `ledger`, `got` are read off them), and
`KeepsPromise` is the property that every step of the detailed outbox is a step
of the courier or a stutter, as long as passes are shorter than the lease and at
most one replay is under way at a time. The code enforces neither: a long pass
and two overlapping replays both break the promise (section 5).

### 3.4 `JobLease`

The lease document, and for every process and tick one run: due, working,
recording, releasing, over, skipped, or dead. Renewals are sent by a timer and
not awaited, so they are separate messages that may arrive late or be lost;
releases may be lost. The holder is the process, not the run: a late renewal of
one run is accepted on behalf of a later one. A process that restarts is
another process. `Timely` is the discipline the constants are chosen for: no run
lets its lease lapse, no call takes a whole lease.

### 3.5 `Transactions` and `Suspensions`

`Transactions` is the transaction runner over a function `db` of documents:
`Begin` takes a snapshot, `Update` is a write inside the transaction (of a
handler whose steps matter one by one), `Commit` merges what differs from the
snapshot, plus the documents `touched` without a modelled change, unless one of
them is `dirty`; `Write` is a write outside any transaction. `Bookings` keeps
its own copy of this, as its slots share documents.

`Suspensions` is one service and one person: their accounts, one after the
other; per account the suspension row and a place on the waiting list; the
bookings. What two clients write is disjoint.

| Action | Code |
|---|---|
| `Book`, `BookOnBehalf` | `create`, with and without `assertNotSuspended` |
| `Mark`, `Attend`, `Correct` | `setStatus`, `checkIn`, `markNoShow` with `onStatusChanged`, by what they mean to the count: a miss, no miss, a miss taken back |
| `Cancel`, `CancelLate` | `remove`, without and with `onLateCancel` |
| `CountNoShow`, `Sanction`, `Suspend`, `Release` | `countNoShow`, `noShowSanction`, `suspend`, `release` |
| `SuspendByHand`, `Lift` | `create` and `lift` of `suspensions.service.ts` |
| `JoinWaitlist`, `LeaveWaitlist` | the methods of those names |
| `Register` | a sign-in or `findOrCreateClient` on the phone |
| `Withdraw`, `DeleteAccount` | one transaction of `users.delete`: the bookings one by one, then `anonymizeByUser`, `detachUser` and the account |
| `Lapse`, `Expire` | `until` passes; the TTL index of the rows kept for a phone |

Times are kept as what they are compared for: a row is in force or not, and
each booking was missed before or after `counted_from` (`before`). A mark is
strictly earlier than the `counted_from` its own handler stores. The policy has
a limit, a length and no window (`no_show_window_days` is null). What a
cancellation does to capacity is in `Bookings` and left out here; the waiting
list is that of a place that stays full.

### 3.6 `Ranges` and `Visits`

`Ranges` translates `slot.logic.ts`: which intervals fit a resource, which clash
under the buffer, the sweep that cuts free ranges out of the busy ones and
rounds them to the grid, the times a schedule generates, and the plan that
brings the slots of a date back to their schedule.

`Visits` is one slot of one date, as a resource booked by the interval
(`time_range`) or by time entries (`date_time`): the slot document, the
bookings, the option of the slot with its schedule, the clock, the requests of
two clients with their Idempotency-Key, and one job at a time.

| Action | Code |
|---|---|
| `Claim`, `Submit`, `SubmitShift`, `Handled`, `HandledEarly`, `Refuse`, `Complete`, `GiveKeyBack`, `Crash`, `ExpireKey` | `idempotency.service.ts`: the key written before the handler, completed or deleted after it, each write on its own; `HandledEarly` is a commit whose answer was lost |
| `Book`, `Move`, `Cancel`, `CheckIn` | `create`, `reschedule`, `remove`, `checkIn` of `bookings.service.ts` with `resolveTarget`, `take` and the policy (`AssertPolicy`, `WithinLimit`, `WithinInterval`) |
| `UpdateRange`, `UpdateTimes`, `RemoveSlot`, `UpdateOption`, `RemoveOption`, `AddOption`, `SetRecurrence` | the slot and option methods of `services.service.ts` |
| `ShiftSlot` | `runMove` of `slot-admin.service.ts` by a number of minutes: entries renamed in order, bookings carried along |
| `RecurrentStart`, `RecurrentPlan`, `RecurrentApply` | `recurrent_slots`: read, plan, write without a transaction, one operation after the other |
| `RemindFind`, `RemindEnqueue`, `RemindMark`, `NoShowFind`, `NoShowMark`, `JobCrash` | `booking_reminders` and `auto_no_show` |

A handler whose reads are all documents it also writes is one step (it would
meet a write conflict if one of them changed); the others compute on a snapshot
(`pend`) and `Commit` applies them unless a document they write has changed.
`GET /services/:id/availability` is the operator `Availability`.

### 3.7 `SignIn`

One account, its sessions and the requests being served, each of which reads
first and writes later: `Login`, `CountFailure`, `Lock`, `ClearFailures`
(`login-attempts.service.ts`), `StartSession`, `Refresh`, `Rotate`,
`RevokeFamily` (`token.service.ts`, `sessions.repository.ts`), `Logout`,
`LogoutAll`, `UpdateByAdmin`, `ChangeAccount`, `EndSessions`, and the deletion,
`StartDelete`, `BeginDelete`, `CommitDelete`, `RetryDelete` (`users.service.ts`).
A token is the session it names. A rotation and a deletion are transactions;
nothing else is. A rotation reads the one row it writes and is one step. A
deletion takes a snapshot (`deletions[r].found`: the sessions its update will
end), is overtaken by whoever writes one of those rows or the account
(`Overtaken`), and then runs again. A session made after the snapshot conflicts
with nothing: a sign-in that had read the account before may start, and rotate,
beside the deletion and keep a token that was not spent. The code lets it do no
harm, since the guard and `refresh` look the account up; so the property is not
that a deleted account has no such token, but that a deletion ends every sign-in
it found (`DeletionEndsWhatItFound`).

### 3.8 `Codes`

The codes of one phone and purpose. A request for a code passes the throttle
(`CanSend`, with the record as either storage keeps it: `MongoHit`, `RedisHit`)
and is issued in three writes (`ReadPending`, `ClearPending`, `CreateCode`); a
guess is checked in four (`Find`, `Attempt`, `Compare`, `Consume`). `ForgetPhone`
is the deletion of the account or a change of its phone.

### 3.9 `Settings` and `SmsBudget`

`Settings` has the row, the snapshot of each replica, its poll (`PollStamp`,
`PollRead`, `PollApply`) and the writes under way (`StartWrite`, `CommitWrite`,
`Written`, `WriteNothing`). Two limits and the rule that binds them stand for
all settings. `SmsBudget` adds the messages being sent, each charging the hour
and then the day with the limits its replica has at that moment, giving back
what was refused; a limit of 0 is no limit and charges nothing.

### 3.10 `Documents`, `Catalogue` and `Portal`

`Documents` is how every handler of the catalogue writes: it reads and refuses,
then writes the row and, in a second write, the version of its organization
(`WriteRow`, `Touch`), or both in one transaction (`InTransaction`), and may die
in between (`Crash`). `Catalogue` has the operations on organizations,
categories, services and infosections, reordering, the public tree (`Tree`) and
its entity tag (`Tag`), and an anonymous caller who keeps both. `Portal` adds
news, images with their files, archives, favourites, the accounts of the staff,
and the jobs `news_expiry`, `storage_gc` and `cascade_reconcile`, each of which
may run on two workers at once. Handlers of one kind share their steps: a
`…Begin` action is the read and the checks, `CatalogueWrite`, `PortalCommit` and
the steps of `Documents` are the writes.

A scenario names the documents a behaviour starts from. They are `Consistent`:
rows of organizations that exist, services in categories of their own
organization, nothing twice, nothing that was news. `ScenariosAssumption` says
so of every scenario, and TLC evaluates it.

### 3.11 `Notices`

What is announced (`Announce`, with the addresses read when the event was made)
and what its three targets make of it: rows of the inbox (`InboxFind`,
`InboxInsert`, trimming), an e-mail (`Mail`), a text by Viber or SMS (`Text`). Each
of them may throw; the inbox does so at its lookup, after a part of its rows, or
before a trim is through (`InboxRefuse`). Whoever books may miss the booking, the
staff included, so they may be suspended for it, and may lift that themselves;
only a suspension by hand is limited to accounts of clients (`Clients`).
Events, attempts and retries are `Courier`'s. Beside them: addresses and
templates that change, messages written by staff, read marks, the deletion of
an account or of the organization, handlers and requests that die. `List` is
the paged list of `GET /me/notifications`. `unkept` is a history variable: the
owners whose rows a request wrote and died before it trimmed them, or a handler
whose event was given up after its last attempt (`GivenUp`); nobody comes back
to those until the next trim. `InboxBounded` speaks of them no
sooner, and of nobody once the organization is gone: its rows go with it, a
worker that had looked it up before still writes some, and if that one dies
untrimmed a later delivery finds no organization and trims nothing.

## 4. Runs

Each is small enough to finish in minutes; the bounds are the constants of its
`.cfg`.

| Run | Question | Bounds, and why they are enough |
|---|---|---|
| `bookings_capacity` | do counters, bookings and limits stay together | 2 clients, 2 bookings, 2 times of ONE slot document, 2 concurrent transactions: a place with limit 1 has a winner and a loser, a move has two places, a limit can fall below what is taken, and the service can be trashed under them |
| `bookings_waitlist` | is the queue fair and truthful | 2 clients, either of whom may hold the place and wait for it again, so that two wait while it is taken; withdrawals, and every operation of the administration on the slot and the service |
| `maintenance_jobs` | do outdated reads break the counters | one place removed, closed for good and added again, 2 bookings, batches of 1, the three jobs, restores |
| `outbox_delivery` | are deliveries exclusive, complete and not repeated, is no new event forgotten, does every event end | 2 processes, 1 event, 2 targets of which one may refuse, 2 attempts, 1 crash, 1 replay, lease longer than a pass, fairness `FairSpec` |
| `jobs_timely` | one run at a time; does every lease end | 2 processes, 2 ticks, 1 crash, lost calls, fairness `FairLeaseSpec` |
| `suspensions_sanctions` | does the limit always sanction, and do sanctions end only as they may | one account, 2 bookings, a limit of 2, 2 concurrent transactions: two marks meet, and one transaction can be a mark, a correction, a suspension or a deletion against another |
| `signin_sessions` | do rotation, logout, deletion and the lock hold under parallel requests | 2 requests, 4 sessions, a limit of 2 failures: two refreshes of one token, a third that reuses it, a second sign-in beside them, and a deletion overtaken by a rotation, a sign-in, a logout or another deletion |
| `codes_guesses` | is a code used once and guessed within its limit | 2 requests, 2 codes, 2 attempts, a cooldown of 2 ticks, both storages: the second code is issued while the first is guessed |
| `settings_budget` | do the cross rules hold and is the budget kept | 2 replicas, 2 requests (each a write or a message), limits 1 and 2, two hours of one day: the two counters refuse in turn, and a limit falls below what was spent |
| `visits` | are bookings of one slot apart, kept, offered, reminded and retried as they should | 2 clients, 2 bookings, one transaction of the staff, a day of 4 steps, buffer and duration of 1, one crash; nine scenarios of operations that meet, for either type of slot where both have them |
| `portal` | are tags, uniqueness, files and cascades right | 2 handlers at a time, 2 calls, 1 crash or failed removal, 3 children; twelve scenarios |
| `notices` | are people told in one way, and is the inbox right | a client and a member of staff who may be client too, 2 events at most, 1 message, at most one crash and one refusal of a target (the inbox included), 1 unread row kept; eleven scenarios. `OneChannel` lets a delivery that starts over repeat a message on its channel, as the code does. `PagesTile` is about one list at one instant: the two counts and two finds of the code are separate reads, and a row that arrives between them may shift a page |

One event in `outbox_delivery` and one slot in the runs of `Bookings` are
enough for the safety properties that are theorems (section 6), which hold for
any number of them; `PokeSuffices` speaks of one event and one dispatcher at a
time. The scenarios of `visits`, `portal` and `notices` are sets of operations a
behaviour may choose from: all of them together exceed what TLC can do, and two
operations that share no document gain nothing from being together. Every
action belongs to at least one. What the bounds leave out: a close or a removal of a slot with several
times (for the counters covered by the theorems alone), and a later account of
the same person in `suspensions_sanctions` (the theorems hold for any number of
accounts).

Clients, bookings and transactions are symmetric in the two passing runs of
`Bookings`, and so are the two times of `bookings_capacity`, which belong to one
slot document; requests, replicas, messages, clients and events are in the runs
of `SignIn`, `Codes`, `SmsBudget`, `Visits` and `Notices`. All of these check
safety only; the runs with liveness use no symmetry.

Every property has a mutant in `PROJECT.json`: a plausible bug in one
definition (the operators marked "Mutant of"), under which TLC finds the
property violated.

The type invariants are not among the properties of the runs: most are proved
(section 6), and each can be added to its `.cfg`.

**Fairness.** `Bookings`, `Maintenance`, `Suspensions`, `Visits`, `SignIn`,
`Codes`, `SmsBudget` and `Notices` have none: a transaction may never come back. `Outbox!FairSpec`: a live process goes on with
its own work and its own poke (weak fairness: they are the next microtasks or
the next answer), time passes, and the cron, which fires every minute, finds its
dispatcher idle again and again (strong fairness). `JobLease!FairLeaseSpec`: jobs end,
calls are answered or fail, time passes. `Portal!Fairness`: a handler under way
goes on or its process dies, files grow older than the grace period, and the
three jobs are started again and again, as their cron schedules do (weak
fairness: while there is something for a job to find, nothing but the job
removes the reason to start it). Crashes, failures of targets, ticks and
requests are never fair.

## 5. Where code and documentation disagree

Found while modelling. Each of these configurations states what the
documentation says and ends in a violation; they are kept beside the runs of
section 4 and started by hand, e.g. `tlc -config visits_twins.cfg MCVisits`.

* `bookings_arrived` (`MCBookings`) – closing a slot resets the counter although
  arrived visitors hold places there, which the documentation says stay taken.
* `bookings_trash` (`MCBookings`) – a booking and a deletion that cancels nothing
  both commit (write skew): the trash holds an active booking.
* `bookings_freed_place` (`MCBookings`) – a join and the cancellation that frees
  the place both commit: the place is free and the first in line is never told.
* `outbox_overrun` (`MCOutbox`) – the lease counts from the start of the pass, so
  the tail of a long pass is delivered twice.
* `jobs_tick_once` (`JobLease`) – a short job runs once per worker on one tick.
* `suspensions_correction` (`MCSuspensions`) – a correction only reads the
  suspension row, so it can commit beside the mark that imposes the suspension
  for the very booking it corrects: the suspension the documentation says is
  lifted stays.
* `notices_lift` (`MCNotices`) – "Nobody is told about their own action"
  (`docs/data-model.md:349`). Staff who missed a booking of their own and lift the
  suspension, or correct the booking, are shown a row about it:
  `suspensions.service.ts:392` stamps the event with them as staff, and the rules
  of the inbox tell the client of it whoever that is.
* `budget_unlimited` (`MCSmsBudget`) – a message that found no limit on the hour
  is refused by the day and gives the hour back all the same: with a limit that
  changes between 0 and another value, a counter falls below what was sent. (Its
  `refund` has no guard, so a counter may even become negative.)
* `visits_opening` (`MCVisits`) – `GET /services/:id/slots` hides a free range in
  the very minute it begins, with the later intervals in it that can still be
  booked and that `/availability` shows.
* `visits_twins` (`MCVisits`) – `recurrent_slots` pushes a time it did not see in
  the slot it read, beside the same time added, or arrived at by a move, since:
  two entries of one time, and staff who then change the times strand a booking.
* `visits_orphans` (`MCVisits`) – `recurrent_slots` creates a slot for an option
  whose removal, which saw no slot, commits meanwhile; the slot and a booking of
  it are left without an option.

More is visible in the models, or was seen while writing them, and has no
configuration of its own:

* Jobs and replays: `TrashPurge` purges a service restored after the listing; a
  replay (`ReplayFind`, `ReplayFinish`) requested twice at once writes back an
  outdated list of delivered targets; a booking that is moved after
  `auto_no_show` listed it is marked all the same; `booking_reminders` marks a
  booking whose flag the move of its slot has just cleared; moving a single
  booking keeps `reminder_sent_at`, moving the whole slot clears it.
* Reads that protect nothing: a client may join the waiting list while the
  suspension that clears it commits; a suspension by hand may outlive, without a
  phone, the account that is deleted meanwhile; a booking made, or an inbox row
  written, during the deletion of its account stays; the limit of active
  bookings and the interval of a client are checked against a snapshot, which
  bookings of different slots pass together; two super administrators may demote
  each other (`users.service.ts:566`); `removeOperator` writes back a list of
  organizations read earlier; attempts counted while a code is replaced are not
  carried over (`verification-codes.repository.ts:31`).
* Sessions: `docs/auth.md:137` and `:161` say of `logout-all` that it revokes every
  other session; `auth.service.ts:264` passes no exception, so the caller's ends
  too, as in `SignIn!LogoutAll`.
* Retries: a keyed move by minutes whose commit was not acknowledged gives its
  key back, and the retry moves the slot again; `OncePerKey` holds of every key
  as long as it lasts, not across keys.
* The organization's version: a change that is undone between the read and the
  write is taken for none and leaves the tag as it was (`silent`); a process that
  dies between a row and the version leaves a tag that covers an older tree
  (`lost`). `FreshTag` speaks of the organizations where neither happened.
* A free range that begins before the end of a closure is left out of the
  availability whole, with what lies after the end (`OffersAreExact` asks less
  there).

## 6. Proofs

All for any finite sets, any limits and any interleaving.

* `BookingsProofs`, of `Bookings`: `TypeCorrect`, `CountersCover`,
  `NeverOverbooked`. The counter alone is not inductive: a transaction acts on
  its snapshot, so the invariant `Inv` says in addition that every snapshot
  satisfies it, and `Fresh`: when nobody wrote a slot document since the
  snapshot, the snapshot of it is exact AND no active booking has been added at
  its places, because every handler that adds one writes that document. Each
  handler then owes the same facts (`GoodResult`), proved one lemma per
  operation, and `CommitPreserves` lifts them through the merge.
  * `NoPlaceIsLost` is the other side of the counter: it counts nobody who is
    not there. Its invariant `Ledger` says, of the database and of every
    snapshot, that a counter is at most the bookings of the place that were not
    cancelled (an arrival does not give the place back) and that a place removed
    counts nothing (`Whole`); and that, of a slot document nobody wrote since, the
    holders in the snapshot still hold it (`StillHeld`).
  * `OldestIsFirst`: a claim tells the oldest of those its snapshot shows. The
    invariant `Queue` says why those are the oldest there are: rows nobody wrote
    are as in the database (`SnapWaits`) and in the same order (`SnapOrder`), a
    row that left and joined again is behind those that stayed (`Rejoined`),
    and of two transactions the older has missed what the younger has
    (`Nested`).
  * `NoticesMeanRoom`: a notice goes with a place given back by the same
    handler (`PaidStep`), and every counter is within its limit (`Room`). The
    hypothesis is that limits are not changed: a limit may be lowered below what
    is taken, and then a cancellation announces a place that nobody can book
    (`updateSlot` does not look at the bookings, `notifyWaitlist` not at the
    limit).
* `BookingsProofs`, of `Maintenance`: the guarantees with the jobs running
  (`CountersCoverThroughJobs`, `NeverOverbookedThroughJobs`,
  `OldestIsFirstThroughJobs`), since deleting bookings by id only lowers what a
  counter must cover and deletes no waiting row; and `StaleCollectsOnlyAdded`,
  from the invariant `Seen`: every existing place has been seen, has been added
  meanwhile, or is still ahead of the cursor. `NoPlaceIsLost` has no such
  counterpart: `stale_bookings` deletes without releasing, so a place it was
  wrong about stays counted.
* `OutboxProofs`: `TypeCorrect`, `DeliveryIsReal` (from: every copy, every row
  and every outcome lists only targets acknowledged), and under the hypothesis
  that passes are shorter than the lease and at most one process replays,
  `LeasesExclude` and `DoneIsNeverLost` (from: a dispatcher that holds an event
  has a lease on it that outlives its pass) and `NeverDeliveredTwice`. The last
  needs to know where an acknowledgement is until it is written: `Accounted`
  says that, while nothing has crashed, a target that was reached once is in the
  row or in the copy of the one dispatcher that holds the event (`OnRecord`),
  and that nobody will send to it again.
* `SuspensionsProofs`: `TypesHold` and `LimitSanctionsHolds`. A handler counts
  in its snapshot, so the limit alone is not inductive. `Inv` adds `Marks`: as
  long as nobody wrote the suspension row since the snapshot, no booking of the
  client has been marked since, because every mark writes the row; and
  `OwnWrites`: an unfinished deletion has written only what belongs to its
  account. A commit is `Safe` when, for every account that stays, it marks
  nothing or writes the row having counted; `CommitKeeps` shows that a safe
  commit keeps `Inv`, and one lemma per kind of handler that its commit is safe.
  `SanctionsOutliveAccounts` and `ManualSuspensionsStay` are action properties
  over a second invariant, `Traced`: a punishment imposed since a snapshot wrote
  a booking of the account (`Imposed`), and an unfinished deletion has punished
  only on account of bookings it withdrew (`Withdrawn`). A deletion writes every
  booking of its account, so it meets a conflict with the mark that punished the
  account meanwhile; the rows it knows of it keeps. `Concludes` says of every
  other handler that it spares manual suspensions, or is their lift.
* `SignInProofs`: `TypeCorrect`, `RotationIsExclusive`, `EndedStaysEnded`,
  `DeletionEndsSessions` and `FailuresLock`. Every step does one of four things
  to the sessions (`SessionSteps`): nothing, a sign-in, a rotation of a good
  token, or the end of some; and only the middle two make a token good
  (`GoodTokens`). `Inv` adds that every session belongs to the sign-in some
  stored session started (`Roots`), that requests speak of stored sessions
  (`Asked`), that a deletion under way read sessions that exist (`Reads`), and
  that while it is not overtaken what it read is still so, and of every sign-in
  with a session in it nothing else has a good token (`NothingMissed`): the
  rotation that would make one writes a row it read.
* `TextsProofs`, of `Codes`: `AcceptedOnce`, from: codes are created in order (so a new one
  is new), and an accepted code is never pending again; `SpacedSends`, the
  action property `SendsAreSpaced`, from: until the cooldown is over its window
  runs and has a hit, in either storage; and `GuessesAreLimited`. A guess
  is compared after its attempt was counted, by another write, so `Counts` is
  about two numbers together: the comparisons made with a code and those on
  their way (`Compared`) are no more than the attempts its row has counted, as
  long as the row is there, and never more than the limit.
* `VisitsProofs`: `SlotsKeepTheirDistance` (`Spec => []NeverTooClose`),
  `RetriesStaySafe` (`[]RetriesAreSafe`), `RemindersComeOnce` (`[]ToldOnce`),
  `NobodyIsStranded` (`[]NobodyStranded`), `OffersStayExact`
  (`[]OffersAreExact`) and `PlansSettle` (`[]PlanSettles`).
  * Distance. The rows as they are now are not inductive, because a transaction
    under way has computed its own from older ones. `After(t)` is what the rows
    would be if t committed next, and the invariant says of it what it says of
    the rows: intervals that hold the resource keep the buffer, lie inside the
    range of the slot, and are counted (`Leaves`, `Holds`). A commit makes
    `After(t)` the rows, and owes that every OTHER transaction still leaves good
    rows: `Sound` says that a booking is always written together with its slot,
    so of two transactions that place bookings one meets a conflict. The job
    writes without a transaction, but only a slot in which nothing is counted
    (`StillFree`), and then `Holds` says that nobody is there; `Planned` keeps
    its plan to operations of that kind.
  * Retries. `Keys` relates a request, its key, its transaction and the answer
    that was stored (`Asking`, `Own`, `Replied`): what a client writes under a
    key is one booking, its own, made at most once as long as the key lasts, and
    what was answered is that booking. `Lasts`: a booking that was made is never
    forgotten and does not change hands.
  * Reminders. `Told` bounds what a booking was told by the crashes: an event is
    made only for a booking listed unmarked (`Reminding`, `Tells`), nobody else
    sets the mark (`Marks`), and only a crash comes between an event and its
    mark. The theorem is about behaviours that do not have both `shift` and
    `booking_reminders`: a slot that is moved is announced anew on purpose.
  * Places. `NobodyIsStranded` (`Spec /\ Undisturbed => []NobodyStranded`), from
    `Inv` and `Settled`: the slot stands (`Stands`: it has its option, and each of
    its times one counter, which covers the bookings of the time), every
    transaction under way would leave it standing (`Steady`), and the plan of the
    job pushes a time once, and only while the slot does not have it
    (`Schedule`). Any two transactions that have written something have a
    document in common (`AllMeet`), so that the commit of one drops the others;
    a write of the job does not. The hypothesis `Undisturbed` is what the two
    violating runs ask for: `recurrent_slots` runs neither where the option can
    be removed meanwhile (`visits_orphans`) nor, of a slot with times, where the
    staff change the times (`visits_twins`).
  * Offers. `OffersStayExact` and `PlansSettle`, of every behaviour with
    intervals and of the undisturbed ones with times. Of the free ranges,
    `CursorIs` says how far the sweep has come: past what begins earlier, and no
    further; `GapsAreClear` that a place lies in a gap just when nothing blocked
    reaches into it; `OnGrid` that cutting a gap to the grid loses no place on
    the grid; together `FreeRangesAreExact`. `Grid` is the invariant that every
    range a writer can leave has a positive step. Of the plan, `PulledAway` and
    `PushedOn` say what its operations leave, and `NothingPlanned` when nothing
    is left to plan.
* `TextsProofs`, of `SmsBudget`: `BudgetTypes`; `CrossRulesHold`, from the same rules of
  every copy of the row and of every write under way; and, while no limit is 0,
  `RefusalsFree` and `WithinBudget`. The counter is not compared with what was
  sent but charged first, so the invariant counts, per window, who has paid
  (`Payers`) and who was allowed (`Holders`, never more than the payers):
  `Moves` is what one step of one message may do to those sets, and
  `CountedStep` adds it up. With a limit of 0 the theorem fails, as
  `budget_unlimited` shows.
* `NoticesProofs`: `ToldOneWay` (`[]OneChannel`), `FeedStaysRight`
  (`[]FeedIsRight`), `InboxStaysBounded` (`[]InboxBounded`), `PagesShowAll`
  (`[]PagesTile`), and `DeliversAsCourier`: the worker here takes no step that
  the abstract courier does not, so what it assumes of delivery is what the
  outbox is proved to promise. The events a person is told of are as `Proper` as
  the services make them, and a worker at an event has it to itself (`Held`).
  * Channels (`Told`). What was sent went the way the event itself names, not
    the account as it is now; and a target acknowledged had sent what it had to.
  * Feed (`Feed`). A row is exactly what its event has to say to its audience,
    which leaves nothing for a second delivery to add, after a crash or a refusal
  half-way through. Who acts is not the client it is said to, except in a bulk
  notice and in the lift that `notices_lift` is about.
  * Bounds (`Trimmed`). An owner with too many rows is owed a trim (`Owed`: a
    delivery that will insert again, a trim that has yet to look, or a death or
    an event given up that `unkept` records), or a trim has looked and what it will delete is
    enough (`Found`). The last is why rows inserted between the look and the
    delete do no harm: who inserts them trims after that. The bound a trim finds
    is the moment of a row, and `Stamps` keeps moments of one owner apart.
  * Pages. The rows of a person have ranks of their own, one each
    (`RanksDiffer`, `RanksTaken`), and two queries cut them where one would.
* `PortalProofs`, of `Portal`: `NothingDoneTwice` (`[]NothingTwice`), `JobsSpare`
  (`[]JobsSpareTheLiving`), `TagStaysFresh` (`[]FreshTag`) and `PortalTypes`.
  Handlers read first and write later, so `Basis` says what stays true of what
  they have in hand (`Works`) while others write: a row that was read is as it was
  in kind and owner, or gone; an id to be written is reserved by one handler
  (`Apart`). `Going` is what a step may do to rows, files and organizations, shown
  once for every action; most of the rest follows from it.
  * Twice. News that were archived are gone and stay so (`Archived`); a favourite
    and a slug are written where the unique index finds no other.
  * Jobs. A file that `storage_gc` or a deletion has in hand belongs to nothing
    that is told of (`Unserved`, `Filed`). A cascade names only dead organizations
    (`CascadeOf`); `cascade_reconcile` reads the references before the
    organizations, so one that is missing from the second reading was referred
    to, hence born, and is gone.
  * Tags. `CacheRight`: as long as the version is the one asked for and not behind
    (`Dirty`), tag and tree are those of two moments, in this order, of the
    documents as they are NOW (`Asked`, `Answered`). A step keeps that because one
    that leaves the version, and leaves it not behind, leaves all parts of the
    tree (`FaceGoes`, `SameRows`); so only time is left to change what is shown, and
    then the moment of the last release in the tag moves (`NothingReleased`).
    Deleting a category empties its services without looking at their
    organization: that it is the same needs `Homed`, which gives every category,
    gone ones included, the organization of the services in it or on their way.
* `PortalProofs`, of `JobLease`: `LeaseTypes`, and under `Timely`, `RunsExclude`
  (from: a run under way owns the lease, and renewals still travelling are not
  longer than what is left).
* `OutboxProofs!PromiseIsKept`: the refinement of `Courier`. Each action of the
  outbox maps to one courier action or to a stutter, from the same invariant as
  `DoneIsNeverLost` and under the same hypothesis: passes shorter than the lease,
  and one process replaying. Two overlapping replays break it (section 5).

Assumed of the constants, and evaluated by TLC on every run: what the named
`ASSUME`s say (finiteness where sets are counted, positive limits, lengths and
grid steps, which `minutesSchema` and the settings registry enforce, a largest
value of a setting, names that stand for nothing apart from those that stand for
something, scenarios of `Portal` that start consistent).

Only model-checked:

* what is false for some constants: `PokeSuffices` fails once more events are
  due than one batch takes; the run chooses the constants where it holds;
* what needs an induction over data: of a slot with times that is moved,
  `NobodyStranded`, `OffersAreExact` and `PlanSettles`. `RenameTimes` folds over
  the times of the slot, and what the fold leaves cannot be derived here, so
  `Undisturbed` excludes the move of a slot with times;
* everything under fairness (`EventsSettle`, `LeaseEnds`, `LeftoversGo`), which
  the prover does not do.

## 7. Not modelled

Guards and roles, the HTTP layer, validation, pagination other than the inbox,
localisation, rendering, the providers themselves, metrics, tracing,
configuration, migrations, scripts and load tests have no state that several
actors change. Analytics and the debtor report are derived data nothing decides
by. Of the components that are modelled in part, `PROJECT.json` says under each
what is missing: check-in codes, form answers and exports of bookings; the
waiting list carried by the move of a slot to another date; search, facets and
`nearby` of the catalogue; the HTTP request of a webhook and the administration
of subscriptions; which limit a route gets; the signatures and expiry of access
tokens; transcoding of images.

What is abstracted throughout: clocks of processes agree; ids are drawn from a
finite set; texts are the facts they convey; a refusal that changes nothing is
not a step.
