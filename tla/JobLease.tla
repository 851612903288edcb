---------------------------- MODULE JobLease ----------------------------
(***************************************************************************)
(* The lease that keeps a scheduled job from running twice at once:        *)
(* JobLockService (one document per job: locked_until and holder) and the  *)
(* run of JobRunner around it.  Cron fires a run in EVERY worker process;  *)
(* a run that finds the lease held is skipped, the one that takes it works *)
(* while a timer renews the lease, records its outcome, stops the timer    *)
(* and releases.                                                           *)
(*                                                                         *)
(* The holder written to the document names the PROCESS, not the run, and  *)
(* a renewal is not awaited: it may reach the database after the release.  *)
(* Times are relative to the present, as in Outbox.                        *)
(***************************************************************************)
EXTENDS Integers, FiniteSets

CONSTANTS
    Processes,   \* workers with JOBS_ENABLED
    Ticks,       \* bound: the ticks 1 .. Ticks of the job's cron expression
    Ttl,         \* JOB_LOCK_TTL_SECONDS
    MaxDeaths,   \* bound: processes that die (one that restarts is another one)
    Nobody,      \* holder of a lease never taken
    Failing,     \* renewals and releases may fail (they are only logged)
    Timely       \* no run lets its lease lapse, no call takes a whole lease

ASSUME TtlAssumption == Ttl \in Nat \ {0} /\ Ticks \in Nat /\ MaxDeaths \in Nat
ASSUME NobodyAssumption == Nobody \notin Processes
ASSUME ModesAssumption == {Timely, Failing} \subseteq BOOLEAN

VARIABLES
    lock,      \* the document: locked_until and holder
    pc,        \* where each run is
    renewal,   \* locked_until of the renewal each run has sent, if any
    tick,      \* the last tick that has come
    down       \* processes that have died

leaseVars == <<lock, pc, renewal, tick, down>>

-----------------------------------------------------------------------------
Runs == Processes \X (1 .. Ticks)
Process(r) == r[1]

Lapsed == -1
NoRenewal == -2    \* no renewal under way
Later(x) == IF x >= 0 THEN x - 1 ELSE x

Working == {"working", "recording"}     \* the timer is set
Holding == Working \cup {"releasing"}
Stages == {"waiting", "due", "skipped", "over", "dead"} \cup Holding

\* A tick comes: cron fires in every process that is up.
Fire ==
    /\ tick < Ticks
    /\ tick' = tick + 1
    /\ pc' = [r \in Runs |-> IF r[2] = tick + 1 /\ Process(r) \notin down THEN "due" ELSE pc[r]]
    /\ UNCHANGED <<lock, renewal, down>>

\* (Mutant of Acquire: the lease is taken though it still runs.)
AcquireHeld(r) ==
    /\ pc[r] = "due"
    /\ lock' = [until |-> Ttl, holder |-> Process(r)]
    /\ pc' = [pc EXCEPT ![r] = "working"]
    /\ UNCHANGED <<renewal, tick, down>>

\* acquire: the upsert matches an expired lease and fails on another.
Acquire(r) ==
    /\ pc[r] = "due"
    /\ IF lock.until < 0
       THEN /\ lock' = [until |-> Ttl, holder |-> Process(r)]
            /\ pc' = [pc EXCEPT ![r] = "working"]
       ELSE /\ pc' = [pc EXCEPT ![r] = "skipped"]
            /\ UNCHANGED lock
    /\ UNCHANGED <<renewal, tick, down>>

\* (Mutant of SendRenewal: the timer is never stopped.)
SendRenewalForEver(r) ==
    /\ pc[r] \in Holding \cup {"over"}
    /\ renewal[r] = NoRenewal
    /\ renewal' = [renewal EXCEPT ![r] = Ttl]
    /\ UNCHANGED <<lock, pc, tick, down>>

\* The timer: renew, with the expiry computed when it is sent.
SendRenewal(r) ==
    /\ pc[r] \in Working
    /\ renewal[r] = NoRenewal
    /\ renewal' = [renewal EXCEPT ![r] = Ttl]
    /\ UNCHANGED <<lock, pc, tick, down>>

\* (Mutant of Renew: the expiry is extended by the lease.)
RenewExtending(r) ==
    /\ renewal[r] # NoRenewal
    /\ lock' = IF lock.holder = Process(r) THEN [lock EXCEPT !.until = @ + renewal[r]] ELSE lock
    /\ renewal' = [renewal EXCEPT ![r] = NoRenewal]
    /\ UNCHANGED <<pc, tick, down>>

\* The update arrives; it matches while the document names the process.
Renew(r) ==
    /\ renewal[r] # NoRenewal
    /\ lock' = IF lock.holder = Process(r) THEN [lock EXCEPT !.until = renewal[r]] ELSE lock
    /\ renewal' = [renewal EXCEPT ![r] = NoRenewal]
    /\ UNCHANGED <<pc, tick, down>>

\* The renewal fails; the run goes on.
LoseRenewal(r) ==
    /\ Failing
    /\ renewal[r] # NoRenewal
    /\ renewal' = [renewal EXCEPT ![r] = NoRenewal]
    /\ UNCHANGED <<lock, pc, tick, down>>

\* The work ends, well or badly; the outcome is recorded; the timer is cleared.
EndWork(r) ==
    /\ pc[r] = "working"
    /\ pc' = [pc EXCEPT ![r] = "recording"]
    /\ UNCHANGED <<lock, renewal, tick, down>>

RecordRun(r) ==
    /\ pc[r] = "recording"
    /\ pc' = [pc EXCEPT ![r] = "releasing"]
    /\ UNCHANGED <<lock, renewal, tick, down>>

\* release: locked_until becomes the epoch while the document names the process.
Release(r) ==
    /\ pc[r] = "releasing"
    /\ lock' = IF lock.holder = Process(r) THEN [lock EXCEPT !.until = Lapsed] ELSE lock
    /\ pc' = [pc EXCEPT ![r] = "over"]
    /\ UNCHANGED <<renewal, tick, down>>

\* The release fails.
LoseRelease(r) ==
    /\ Failing
    /\ pc[r] = "releasing"
    /\ pc' = [pc EXCEPT ![r] = "over"]
    /\ UNCHANGED <<lock, renewal, tick, down>>

\* A process dies with its runs; what they have sent may still arrive.
Die(p) ==
    /\ p \notin down /\ Cardinality(down) < MaxDeaths
    /\ down' = down \cup {p}
    /\ pc' = [r \in Runs |-> IF Process(r) = p /\ pc[r] \in Holding \cup {"due"}
                             THEN "dead" ELSE pc[r]]
    /\ UNCHANGED <<lock, renewal, tick>>

Clock ==
    /\ Timely => /\ (\E r \in Runs : pc[r] \in Holding) => lock.until > 0
                 /\ \A r \in Runs : renewal[r] # 0
    /\ lock' = [lock EXCEPT !.until = Later(@)]
    /\ renewal' = [r \in Runs |-> Later(renewal[r])]
    /\ UNCHANGED <<pc, tick, down>>

-----------------------------------------------------------------------------
LeaseInit ==
    /\ lock = [until |-> Lapsed, holder |-> Nobody]
    /\ pc = [r \in Runs |-> "waiting"]
    /\ renewal = [r \in Runs |-> NoRenewal]
    /\ tick = 0
    /\ down = {}

Step(r) ==
    \/ Acquire(r) \/ SendRenewal(r) \/ Renew(r) \/ LoseRenewal(r)
    \/ EndWork(r) \/ RecordRun(r) \/ Release(r) \/ LoseRelease(r)

LeaseNext ==
    \/ Fire
    \/ \E r \in Runs : Step(r)
    \/ \E p \in Processes : Die(p)
    \/ Clock

LeaseSpec == LeaseInit /\ [][LeaseNext]_leaseVars

\* Jobs end, what was sent arrives or fails, and time passes.
FairLeaseSpec ==
    /\ LeaseSpec
    /\ \A r \in Runs : /\ WF_leaseVars(EndWork(r)) /\ WF_leaseVars(RecordRun(r))
                       /\ WF_leaseVars(Release(r) \/ LoseRelease(r))
                       /\ WF_leaseVars(Renew(r) \/ LoseRenewal(r))
    /\ WF_leaseVars(Clock)

-----------------------------------------------------------------------------
(* Properties. *)

LeaseTypeOK ==
    /\ lock \in [until : Lapsed .. Ttl, holder : Processes \cup {Nobody}]
    /\ pc \in [Runs -> Stages]
    /\ renewal \in [Runs -> NoRenewal .. Ttl]
    /\ tick \in 0 .. Ticks
    /\ down \subseteq Processes

\* While runs are timely, no two runs of the job are under way at once, in one
\* process or in two, though renewals of runs long over may still arrive.
OneAtATime == \A q, r \in Runs : pc[q] \in Holding /\ pc[r] \in Holding => q = r

\* No lease lives for ever: whether its run ends, dies or loses its release,
\* the job can be run again.
LeaseEnds == lock.until >= 0 ~> lock.until < 0

\* docs/jobs.md:11-13: several workers may be scheduled at once, a tick runs
\* exactly once.
TickRunsOnce ==
    \A k \in 1 .. Ticks :
        Cardinality({p \in Processes : pc[p, k] \in Holding \cup {"over"}}) <= 1
=============================================================================
