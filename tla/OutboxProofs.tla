-------------------------- MODULE OutboxProofs --------------------------
(***************************************************************************)
(* What is proved of Outbox, for any number of events, targets, processes, *)
(* attempts, crashes and replays.                                          *)
(*                                                                         *)
(* That a delivered event has reached all its targets holds whatever the   *)
(* timing.  That two dispatchers never hold the same event, and that no    *)
(* recorded delivery is forgotten, holds under a discipline the code does  *)
(* not enforce and that is therefore a hypothesis here: passes are shorter *)
(* than the lease, and replays do not overlap.                             *)
(***************************************************************************)
EXTENDS Outbox, TLAPS

Disciplined ==
    /\ MaxPass < Lease
    /\ \A v, w \in Replayers : v = w

\* Types, an event waits only while it has attempts left, and a dispatcher
\* delivers exactly while it has a copy of an event.
Typed ==
    /\ TypeOK
    /\ \A e \in Events : event[e].status = "pending" => event[e].attempts < MaxAttempts
    /\ \A w \in Workers : pass[w].pc = "delivering" <=> job[w] # NoJob

\* Whatever anybody records, or is about to record, as done was received.
Reached ==
    /\ \A e \in Events, x \in Targets : x \in event[e].done => got[<<e, x>>] > 0
    /\ \A w \in Workers, x \in Targets :
           job[w] # NoJob /\ x \in job[w].done => got[<<job[w].ev, x>>] > 0
    /\ \A w \in Workers, x \in Targets :
           replay[w] # NoJob /\ x \in replay[w].done => got[<<replay[w].ev, x>>] > 0
    /\ \A e \in Events : event[e].status = "delivered" => event[e].done = Targets

\* A dispatcher that delivers holds a lease that still runs: it was taken for
\* Lease ticks from the start of the pass, and the pass is younger than that.
\* Its copy knows of everything on record, and it tries none of that again.
Claimed(w) ==
    /\ event[job[w].ev].status = "pending"
    /\ event[job[w].ev].lease = Lease - pass[w].age
    /\ event[job[w].ev].done \subseteq job[w].done
    /\ event[job[w].ev].done \cap job[w].todo = {}

\* An event somebody is about to replay is still the failed event it read.
StillFailed(w) ==
    /\ w \in Replayers
    /\ event[replay[w].ev].status = "failed"
    /\ event[replay[w].ev].done = replay[w].done

Exclusion ==
    /\ ExclusiveDelivery
    /\ \A e \in Events : event[e].status = "none" => event[e].done = {}
    /\ \A w \in Workers : job[w] # NoJob => Claimed(w)
    /\ \A w \in Workers : replay[w] # NoJob => StillFailed(w)
-----------------------------------------------------------------------------
\* Times stay integers and stay above the oldest that matters.
LEMMA LaterFacts ==
    ASSUME NEW x \in Int
    PROVE  Later(x) \in Int /\ (x > Past => Later(x) = x - 1)
BY BoundsAssumption DEF Later, Past

\* A row with sensible fields.
LEMMA RowFacts ==
    ASSUME NEW status \in {"pending", "delivered", "failed"}, NEW attempts \in 0 .. MaxAttempts,
           NEW due \in Int, NEW done \in SUBSET Targets
    PROVE  /\ Row(status, attempts, due, done) \in Rows
           /\ Row(status, attempts, due, done).done = done
           /\ Row(status, attempts, due, done).status = status
           /\ Row(status, attempts, due, done).attempts = attempts
BY BoundsAssumption DEF Row, Rows, Past

\* The row of an event just committed, or put back.
LEMMA FreshRow ==
    ASSUME NEW done \in SUBSET Targets
    PROVE  /\ Row("pending", 0, 0, done) \in Rows
           /\ Row("pending", 0, 0, done).attempts < MaxAttempts
<1>1. 0 \in 0 .. MaxAttempts /\ 0 \in Int /\ 0 < MaxAttempts
  BY BoundsAssumption
<1> QED BY <1>1, RowFacts

\* What finish writes is a row, and done is what the copy says.
LEMMA OutcomeFacts ==
    ASSUME NEW age \in 0 .. MaxPass, NEW j \in Jobs
    PROVE  /\ Outcome(j, age) \in Rows
           /\ Outcome(j, age).done = j.done
           /\ Outcome(j, age).status = "delivered" => j.done = Targets
           /\ Outcome(j, age).status = "pending" => Outcome(j, age).attempts < MaxAttempts
<1>1. j.attempts + 1 \in 1 .. MaxAttempts
  BY BoundsAssumption DEF Jobs
<1>2. Past \in Int /\ Backoff[j.attempts + 1] - (age - j.began) \in Int
  BY <1>1, BoundsAssumption DEF Past, Jobs
<1>3. j.done \in SUBSET Targets
  BY DEF Jobs
<1>4. CASE j.done = Targets
  BY <1>1, <1>2, <1>3, <1>4, RowFacts DEF Outcome
<1>5. CASE j.done # Targets /\ j.attempts + 1 >= MaxAttempts
  BY <1>1, <1>2, <1>3, <1>5, RowFacts DEF Outcome
<1>6. CASE j.done # Targets /\ ~(j.attempts + 1 >= MaxAttempts)
  <2> DEFINE row == Row("pending", j.attempts + 1, Backoff[j.attempts + 1] - (age - j.began), j.done)
  <2>1. Outcome(j, age) = row
    BY <1>6 DEF Outcome
  <2>2. row \in Rows /\ row.done = j.done /\ row.status = "pending" /\ row.attempts = j.attempts + 1
    BY <1>1, <1>2, <1>3, RowFacts
  <2>3. j.attempts + 1 < MaxAttempts
    BY <1>1, <1>6, BoundsAssumption
  <2> HIDE DEF row
  <2> QED BY <2>1, <2>2, <2>3
<1> QED BY <1>4, <1>5, <1>6

\* The constant values are of their kind.
LEMMA ValueFacts ==
    /\ Idle \in Passes /\ NewPass \in Passes
    /\ NoJob \notin Jobs /\ NoJob \notin Replays
    /\ NoRow \in Rows
<1>1. Idle \in Passes /\ NewPass \in Passes
  BY BoundsAssumption DEF Idle, NewPass, Passes
<1>2. NoRow \in Rows
  BY BoundsAssumption DEF NoRow, Rows, Past
<1>3. "none" \in DOMAIN NoJob
  BY DEF NoJob
<1>4. \A j \in Jobs : "none" \notin DOMAIN j
  BY DEF Jobs
<1>5. \A j \in Replays : "none" \notin DOMAIN j
  BY DEF Replays
<1> QED BY <1>1, <1>2, <1>3, <1>4, <1>5

\* The first state is typed.
LEMMA TypedInit == Init => Typed
<1> SUFFICES ASSUME Init PROVE Typed
  OBVIOUS
<1>1. event \in [Events -> Rows] /\ pass \in [Workers -> Passes]
  BY ValueFacts DEF Init
<1>2. got \in [Events \X Targets -> 0 .. 2]
  BY DEF Init
<1>3. crashes \in 0 .. MaxCrashes /\ replays \in 0 .. MaxReplays
  BY BoundsAssumption DEF Init
<1>4. \A e \in Events : event[e].status # "pending"
  BY DEF Init, NoRow
<1>5. \A w \in Workers : pass[w].pc # "delivering" /\ job[w] = NoJob
  BY DEF Init, Idle
<1>6. job \in [Workers -> {NoJob} \cup Jobs] /\ replay \in [Workers -> {NoJob} \cup Replays]
  BY DEF Init
<1>7. owed \subseteq Workers
  BY DEF Init
<1> QED BY <1>1, <1>2, <1>3, <1>4, <1>5, <1>6, <1>7 DEF Typed, TypeOK

\* Asking for a pass changes no pass that delivers, but for its rerun flag.
LEMMA DispatchFacts ==
    ASSUME Typed, NEW w \in Workers, Dispatch(w)
    PROVE  /\ pass' \in [Workers -> Passes]
           /\ \A v \in Workers : /\ pass'[v].pc = "delivering" <=> pass[v].pc = "delivering"
                                 /\ pass[v].pc = "delivering" => pass'[v].age = pass[v].age
<1>1. pass[w] \in Passes
  BY DEF Typed, TypeOK
<1>2. [pass[w] EXCEPT !.rerun = TRUE] \in Passes
  BY <1>1 DEF Passes
<1> QED BY <1>1, <1>2, ValueFacts DEF Dispatch, Typed, TypeOK, NewPass

\* Every step keeps the types.
LEMMA TypedStep == Typed /\ [Next]_vars => Typed'
<1> SUFFICES ASSUME Typed, [Next]_vars PROVE Typed'
  OBVIOUS
<1> USE DEF Typed, TypeOK
<1>1. ASSUME NEW w \in Workers, NEW e \in Events, Enqueue(w, e) PROVE Typed'
  <2>1. Row("pending", 0, 0, {}) \in Rows /\ Row("pending", 0, 0, {}).attempts < MaxAttempts
    BY FreshRow
  <2> QED BY <1>1, <2>1 DEF Enqueue
<1>2. ASSUME NEW w \in Workers, Poke(w) PROVE Typed'
  BY <1>2, DispatchFacts DEF Poke
<1>3. ASSUME NEW w \in Workers, Cron(w) PROVE Typed'
  BY <1>3, DispatchFacts DEF Cron
<1>4. ASSUME NEW w \in Workers, Claim(w) PROVE Typed'
  <2>1. PICK e \in Events :
           /\ event' = [event EXCEPT ![e].lease = Lease - pass[w].age]
           /\ job' = [job EXCEPT ![w] =
                         [ev |-> e, began |-> pass[w].age, attempts |-> event[e].attempts,
                          done |-> event[e].done, todo |-> Targets \ event[e].done]]
           /\ event[e].status = "pending"
    BY <1>4 DEF Claim, First, Claimable
  <2>b. event[e].attempts \in 0 .. MaxAttempts - 1
    BY <2>1, BoundsAssumption DEF Rows
  <2>a. event[e] \in Rows /\ pass[w] \in Passes /\ Lease - pass[w].age \in Int
    BY BoundsAssumption DEF Passes
  <2>2. [event[e] EXCEPT !.lease = Lease - pass[w].age] \in Rows
    BY <2>a DEF Rows
  <2>3. job'[w] \in Jobs
    BY <2>1, <2>a, <2>b DEF Jobs, Rows, Passes
  <2>4. [pass[w] EXCEPT !.pc = "delivering", !.left = @ - 1] \in Passes
    BY <1>4, BoundsAssumption DEF Claim, Passes
  <2>5. event' \in [Events -> Rows] /\ job' \in [Workers -> {NoJob} \cup Jobs]
    BY <2>1, <2>2, <2>3
  <2>6. \A f \in Events : event'[f].status = event[f].status /\ event'[f].attempts = event[f].attempts
    BY <2>1, <2>a DEF Rows
  <2>7. pass' \in [Workers -> Passes]
    BY <1>4, <2>4 DEF Claim
  <2>8. \A v \in Workers : pass'[v].pc = "delivering" <=> job'[v] # NoJob
    BY <1>4, <2>1, <2>3, <2>a, ValueFacts DEF Claim, Passes
  <2> QED BY <1>4, <2>5, <2>6, <2>7, <2>8 DEF Claim
<1>5. ASSUME NEW w \in Workers, Quiet(w) PROVE Typed'
  BY <1>5 DEF Quiet, Passes
<1>6. ASSUME NEW w \in Workers, EndPass(w) PROVE Typed'
  BY <1>6, ValueFacts DEF EndPass, NewPass, Idle
<1>7. ASSUME NEW w \in Workers, NEW x \in Targets, Deliver(w, x) PROVE Typed'
  <2>1. job[w] \in Jobs
    BY <1>7 DEF Deliver
  <2>2. /\ [job[w] EXCEPT !.todo = @ \ {x}, !.done = @ \cup {x}] \in Jobs
        /\ [job[w] EXCEPT !.todo = @ \ {x}] \in Jobs
    BY <2>1 DEF Jobs
  <2>3. got' \in [Events \X Targets -> 0 .. 2]
    <3>1. job[w].ev \in Events /\ got[<<job[w].ev, x>>] \in 0 .. 2
      BY <2>1 DEF Jobs
    <3>2. (IF got[<<job[w].ev, x>>] < 2 THEN got[<<job[w].ev, x>>] + 1
           ELSE got[<<job[w].ev, x>>]) \in 0 .. 2
      BY <3>1
    <3> QED BY <1>7, <3>1, <3>2 DEF Deliver
  <2>4. /\ job' \in [Workers -> {NoJob} \cup Jobs]
        /\ \A v \in Workers : job'[v] # NoJob <=> job[v] # NoJob
    BY <1>7, <2>1, <2>2, ValueFacts DEF Deliver
  <2> QED BY <1>7, <2>3, <2>4 DEF Deliver
<1>8. ASSUME NEW w \in Workers, Finish(w) PROVE Typed'
  <2>1. job[w] \in Jobs /\ pass[w].age \in 0 .. MaxPass
    BY <1>8 DEF Finish, Passes
  <2>2. /\ Outcome(job[w], pass[w].age) \in Rows
        /\ Outcome(job[w], pass[w].age).status = "pending"
           => Outcome(job[w], pass[w].age).attempts < MaxAttempts
    BY <2>1, OutcomeFacts
  <2>3. [pass[w] EXCEPT !.pc = "claiming"] \in Passes
    BY DEF Passes
  <2> QED BY <1>8, <2>1, <2>2, <2>3 DEF Finish, Jobs
<1>9. ASSUME NEW w \in Workers, NEW e \in Events, ReplayFind(w, e) PROVE Typed'
  <2>1. [ev |-> e, done |-> event[e].done] \in Replays
    BY DEF Replays, Rows
  <2>2. replays' \in 0 .. MaxReplays
    BY <1>9, BoundsAssumption DEF ReplayFind
  <2> QED BY <1>9, <2>1, <2>2 DEF ReplayFind
<1>10. ASSUME NEW w \in Workers, ReplayFinish(w) PROVE Typed'
  <2>1. replay[w] \in Replays
    BY <1>10 DEF ReplayFinish
  <2>2. /\ Row("pending", 0, 0, replay[w].done) \in Rows
        /\ Row("pending", 0, 0, replay[w].done).attempts < MaxAttempts
    <3>1. replay[w].done \in SUBSET Targets
      BY <2>1 DEF Replays
    <3> QED BY <3>1, FreshRow
  <2> QED BY <1>10, <2>1, <2>2 DEF ReplayFinish, Replays
<1>11. ASSUME NEW w \in Workers, Crash(w) PROVE Typed'
  BY <1>11, ValueFacts, BoundsAssumption DEF Crash, Idle
<1>12. ASSUME Tick PROVE Typed'
  <2>1. \A e \in Events : [event[e] EXCEPT !.due = Later(@), !.lease = Later(@)] \in Rows
    <3> SUFFICES ASSUME NEW e \in Events
                 PROVE  [event[e] EXCEPT !.due = Later(@), !.lease = Later(@)] \in Rows
      OBVIOUS
    <3>1. event[e] \in Rows
      OBVIOUS
    <3>2. Later(event[e].due) \in Int /\ Later(event[e].lease) \in Int
      BY <3>1, LaterFacts DEF Rows
    <3> QED BY <3>1, <3>2 DEF Rows
  <2>2. \A w \in Workers : pass[w].pc # "idle" => [pass[w] EXCEPT !.age = @ + 1] \in Passes
    <3> SUFFICES ASSUME NEW w \in Workers, pass[w].pc # "idle"
                 PROVE  [pass[w] EXCEPT !.age = @ + 1] \in Passes
      OBVIOUS
    <3>1. pass[w] \in Passes /\ pass[w].age < MaxPass
      BY <1>12 DEF Tick
    <3>2. pass[w].age + 1 \in 0 .. MaxPass
      BY <3>1, BoundsAssumption DEF Passes
    <3> QED BY <3>1, <3>2 DEF Passes
  <2>3. event' \in [Events -> Rows] /\ pass' \in [Workers -> Passes]
    BY <1>12, <2>1, <2>2, ValueFacts DEF Tick
  <2>4. \A e \in Events : /\ event'[e].status = event[e].status
                          /\ event'[e].attempts = event[e].attempts
    BY <1>12 DEF Tick, Rows
  <2>5. \A w \in Workers : pass'[w].pc = pass[w].pc
    BY <1>12 DEF Tick, Idle, Passes
  <2> QED BY <1>12, <2>3, <2>4, <2>5 DEF Tick
<1>13. ASSUME UNCHANGED vars PROVE Typed'
  BY <1>13 DEF vars
<1> QED BY <1>1, <1>2, <1>3, <1>4, <1>5, <1>6, <1>7, <1>8, <1>9, <1>10, <1>11, <1>12, <1>13
        DEF Next, Work
-----------------------------------------------------------------------------
(* Whatever the timing. *)

\* Receipts are only added.
LEMMA ReceiptsGrow ==
    ASSUME Typed, NEW w \in Workers, NEW x \in Targets, Deliver(w, x),
           NEW e \in Events, NEW y \in Targets
    PROVE  got[<<e, y>>] > 0 => got'[<<e, y>>] > 0
<1>1. got[<<e, y>>] \in 0 .. 2 /\ <<e, y>> \in Events \X Targets
  BY DEF Typed, TypeOK
<1>2. \A k \in Events \X Targets : got'[k] = got[k] \/ got'[k] = (IF got[k] < 2 THEN got[k] + 1 ELSE got[k])
  BY DEF Deliver, Typed, TypeOK
<1> QED BY <1>1, <1>2

\* Every step keeps the records truthful.
LEMMA ReachedStep == Typed /\ Reached /\ [Next]_vars => Reached'
<1> SUFFICES ASSUME Typed, Reached, [Next]_vars PROVE Reached'
  OBVIOUS
<1> USE DEF Reached, Typed, TypeOK
<1>1. ASSUME NEW w \in Workers, NEW e \in Events, Enqueue(w, e) PROVE Reached'
  BY <1>1, FreshRow DEF Enqueue, Row
<1>2. ASSUME NEW w \in Workers, Poke(w) PROVE Reached'
  BY <1>2 DEF Poke
<1>3. ASSUME NEW w \in Workers, Cron(w) PROVE Reached'
  BY <1>3 DEF Cron
<1>4. ASSUME NEW w \in Workers, Claim(w) PROVE Reached'
  <2>1. PICK e \in Events :
           /\ event' = [event EXCEPT ![e].lease = Lease - pass[w].age]
           /\ job' = [job EXCEPT ![w] =
                         [ev |-> e, began |-> pass[w].age, attempts |-> event[e].attempts,
                          done |-> event[e].done, todo |-> Targets \ event[e].done]]
    BY <1>4 DEF Claim
  <2>2. \A f \in Events : event'[f].status = event[f].status /\ event'[f].done = event[f].done
    BY <2>1 DEF Rows
  <2>3. job'[w].ev = e /\ job'[w].done = event[e].done /\ \A v \in Workers : v # w => job'[v] = job[v]
    BY <2>1
  <2>4. got' = got /\ replay' = replay
    BY <1>4 DEF Claim
  <2> QED BY <2>2, <2>3, <2>4
<1>5. ASSUME NEW w \in Workers, Quiet(w) PROVE Reached'
  BY <1>5 DEF Quiet
<1>6. ASSUME NEW w \in Workers, EndPass(w) PROVE Reached'
  BY <1>6 DEF EndPass
<1>7. ASSUME NEW w \in Workers, NEW x \in Targets, Deliver(w, x) PROVE Reached'
  <2>1. job[w] \in Jobs /\ job[w] # NoJob
    BY <1>7 DEF Deliver
  <2>2. \A e \in Events, y \in Targets : got[<<e, y>>] > 0 => got'[<<e, y>>] > 0
    BY <1>7, ReceiptsGrow
  <2>3. \A y \in Targets : y \in job'[w].done => got'[<<job'[w].ev, y>>] > 0
    <3> SUFFICES ASSUME NEW y \in Targets, y \in job'[w].done PROVE got'[<<job'[w].ev, y>>] > 0
      OBVIOUS
    <3> DEFINE told    == [job[w] EXCEPT !.todo = @ \ {x}, !.done = @ \cup {x}]
               refused == [job[w] EXCEPT !.todo = @ \ {x}]
    <3>0. told.ev = job[w].ev /\ refused.ev = job[w].ev /\ job[w].ev \in Events
      BY <2>1 DEF Jobs
    <3>a. job'[w] = told \/ job'[w] = refused
      BY <1>7 DEF Deliver
    <3>1. job'[w].ev = job[w].ev /\ job[w].ev \in Events
      <4> HIDE DEF told, refused
      <4> QED BY <3>0, <3>a
    <3>2. CASE y \in job[w].done
      BY <2>1, <2>2, <3>1, <3>2
    <3>3. CASE y \notin job[w].done
      <4>1. y = x /\ got' = [got EXCEPT ![<<job[w].ev, x>>] = IF @ < 2 THEN @ + 1 ELSE @]
        <5>1. CASE /\ job' = [job EXCEPT ![w] = [job[w] EXCEPT !.todo = @ \ {x}, !.done = @ \cup {x}]]
                   /\ got' = [got EXCEPT ![<<job[w].ev, x>>] = IF @ < 2 THEN @ + 1 ELSE @]
          BY <2>1, <3>3, <5>1 DEF Jobs
        <5>2. CASE job' = [job EXCEPT ![w].todo = @ \ {x}]
          BY <2>1, <3>3, <5>2 DEF Jobs
        <5> QED BY <1>7, <5>1, <5>2 DEF Deliver
      <4>2. got[<<job[w].ev, x>>] \in 0 .. 2 /\ <<job[w].ev, x>> \in Events \X Targets
        BY <3>1
      <4> QED BY <3>1, <4>1, <4>2
    <3> QED BY <3>2, <3>3
  <2>4. \A v \in Workers : v # w => job'[v] = job[v]
    BY <1>7 DEF Deliver
  <2>5. event' = event /\ replay' = replay
    BY <1>7 DEF Deliver
  <2>6. \A v \in Workers, y \in Targets :
           job'[v] # NoJob /\ y \in job'[v].done => got'[<<job'[v].ev, y>>] > 0
    BY <2>2, <2>3, <2>4 DEF Jobs
  <2>7. \A v \in Workers, y \in Targets :
           replay'[v] # NoJob /\ y \in replay'[v].done => got'[<<replay'[v].ev, y>>] > 0
    BY <2>2, <2>5 DEF Replays
  <2> QED BY <2>2, <2>5, <2>6, <2>7
<1>8. ASSUME NEW w \in Workers, Finish(w) PROVE Reached'
  <2>1. job[w] \in Jobs /\ job[w] # NoJob /\ pass[w].age \in 0 .. MaxPass
    BY <1>8 DEF Finish, Passes
  <2> DEFINE row == Outcome(job[w], pass[w].age)
  <2>2. row.done = job[w].done /\ (row.status = "delivered" => row.done = Targets)
    BY <2>1, OutcomeFacts
  <2>3. event' = [event EXCEPT ![job[w].ev] = row]
    BY <1>8 DEF Finish
  <2> HIDE DEF row
  <2>4. job' = [job EXCEPT ![w] = NoJob] /\ got' = got /\ replay' = replay
    BY <1>8 DEF Finish
  <2> QED BY <2>1, <2>2, <2>3, <2>4
<1>9. ASSUME NEW w \in Workers, NEW e \in Events, ReplayFind(w, e) PROVE Reached'
  BY <1>9 DEF ReplayFind
<1>10. ASSUME NEW w \in Workers, ReplayFinish(w) PROVE Reached'
  <2>1. replay[w] \in Replays /\ replay[w] # NoJob
    BY <1>10 DEF ReplayFinish
  <2> DEFINE row == Row("pending", 0, 0, replay[w].done)
  <2>2. row.done = replay[w].done /\ row.status = "pending"
    BY DEF Row
  <2>3. event' = [event EXCEPT ![replay[w].ev] = row]
    BY <1>10 DEF ReplayFinish
  <2> HIDE DEF row
  <2>4. job' = job /\ got' = got /\ replay' = [replay EXCEPT ![w] = NoJob]
    BY <1>10 DEF ReplayFinish
  <2> QED BY <2>1, <2>2, <2>3, <2>4
<1>11. ASSUME NEW w \in Workers, Crash(w) PROVE Reached'
  BY <1>11 DEF Crash
<1>12. ASSUME Tick PROVE Reached'
  <2>1. \A e \in Events : event'[e].status = event[e].status /\ event'[e].done = event[e].done
    BY <1>12 DEF Tick, Rows
  <2> QED BY <1>12, <2>1 DEF Tick
<1>13. ASSUME UNCHANGED vars PROVE Reached'
  BY <1>13 DEF vars
<1> QED BY <1>1, <1>2, <1>3, <1>4, <1>5, <1>6, <1>7, <1>8, <1>9, <1>10, <1>11, <1>12, <1>13
        DEF Next, Work

\* Every reachable state is typed.
THEOREM TypeCorrect == Spec => []TypeOK
<1>1. Typed => TypeOK
  BY DEF Typed
<1> QED BY <1>1, TypedInit, TypedStep, PTL DEF Spec

\* An event recorded as delivered has reached all its targets, even when
\* passes outlive the lease, replays overlap and processes die.
THEOREM DeliveryIsReal == Spec => []DeliveredReachedAll
<1>1. Init => Reached
  BY DEF Init, Reached, NoRow
<1>2. Reached => DeliveredReachedAll
  BY DEF Reached, DeliveredReachedAll
<1> QED BY <1>1, <1>2, TypedInit, TypedStep, ReachedStep, PTL DEF Spec
-----------------------------------------------------------------------------
(* Under the discipline. *)

\* An event under a running lease cannot be claimed, however old the pass.
LEMMA LeaseExcludes ==
    ASSUME Disciplined, Typed, Exclusion, NEW v \in Workers, NEW w \in Workers,
           Holds(v, job[v].ev), Claimable(job[v].ev, pass[w].age)
    PROVE  FALSE
<1>1. Claimed(v) /\ pass[v] \in Passes /\ pass[w] \in Passes
  BY DEF Holds, Exclusion, Typed, TypeOK
<1>2. event[job[v].ev].lease = Lease - pass[v].age /\ event[job[v].ev].lease <= -pass[w].age
  BY <1>1 DEF Claimed, Claimable
<1> QED BY <1>1, <1>2, BoundsAssumption DEF Disciplined, Passes

\* The step of Exclusion where a dispatcher only changes its pass.
LEMMA PassOnly ==
    ASSUME Exclusion, event' = event, job' = job, replay' = replay,
           \A v \in Workers : job[v] # NoJob => pass'[v].age = pass[v].age
    PROVE  Exclusion'
BY DEF Exclusion, ExclusiveDelivery, Holds, Claimed, StillFailed

\* Every step keeps the leases exclusive.
LEMMA ExclusionStep ==
    ASSUME Disciplined
    PROVE  Typed /\ Exclusion /\ [Next]_vars => Exclusion'
<1> SUFFICES ASSUME Typed, Exclusion, [Next]_vars PROVE Exclusion'
  OBVIOUS
<1>t. /\ event \in [Events -> Rows] /\ pass \in [Workers -> Passes]
      /\ job \in [Workers -> {NoJob} \cup Jobs] /\ replay \in [Workers -> {NoJob} \cup Replays]
      /\ \A w \in Workers : pass[w].pc = "delivering" <=> job[w] # NoJob
  BY DEF Typed, TypeOK
<1>j. \A w \in Workers : job[w] # NoJob => job[w].ev \in Events
  BY <1>t DEF Jobs
<1>r. \A w \in Workers : replay[w] # NoJob => replay[w].ev \in Events
  BY <1>t DEF Replays
<1>d. ASSUME NEW w \in Workers, Dispatch(w)
      PROVE  \A v \in Workers : job[v] # NoJob => pass'[v].age = pass[v].age
  BY <1>d, <1>t, DispatchFacts
<1>1. ASSUME NEW w \in Workers, NEW e \in Events, Enqueue(w, e) PROVE Exclusion'
  <2>1. \A f \in Events : event[f].status # "none" => event'[f] = event[f]
    BY <1>1, <1>t DEF Enqueue
  <2>2. event'[e].status = "pending"
    BY <1>1, <1>t DEF Enqueue, Row
  <2>3. \A f \in Events : event'[f].status = "none" => event'[f].done = {}
    BY <1>1, <1>t, <2>2 DEF Enqueue, Exclusion
  <2> QED BY <1>1, <1>j, <1>r, <2>1, <2>3
          DEF Enqueue, Exclusion, ExclusiveDelivery, Holds, Claimed, StillFailed
<1>2. ASSUME NEW w \in Workers, Poke(w) PROVE Exclusion'
  BY <1>2, <1>d, PassOnly DEF Poke
<1>3. ASSUME NEW w \in Workers, Cron(w) PROVE Exclusion'
  BY <1>3, <1>d, PassOnly DEF Cron
<1>4. ASSUME NEW w \in Workers, Claim(w) PROVE Exclusion'
  <2>1. PICK e \in Events :
           /\ Claimable(e, pass[w].age)
           /\ event' = [event EXCEPT ![e].lease = Lease - pass[w].age]
           /\ job' = [job EXCEPT ![w] =
                         [ev |-> e, began |-> pass[w].age, attempts |-> event[e].attempts,
                          done |-> event[e].done, todo |-> Targets \ event[e].done]]
    BY <1>4 DEF Claim, First
  <2>2. \A v \in Workers : ~Holds(v, e)
    BY <2>1, LeaseExcludes DEF Holds
  <2>3. job[w] = NoJob
    BY <1>4, <1>t DEF Claim
  <2>4. /\ event'[e].status = "pending" /\ event'[e].lease = Lease - pass[w].age
        /\ event'[e].done = event[e].done
        /\ \A f \in Events : f # e => event'[f] = event[f]
    BY <1>t, <2>1 DEF Claimable, Rows
  <2>5. /\ job'[w].ev = e /\ job'[w].done = event[e].done
        /\ job'[w].todo = Targets \ event[e].done
        /\ \A v \in Workers : v # w => job'[v] = job[v]
    BY <1>t, <2>1
  <2>6. \A v \in Workers : pass'[v].age = pass[v].age
    BY <1>4, <1>t DEF Claim, Passes
  <2>7. \A v \in Workers : replay[v] # NoJob => replay[v].ev # e
    BY <2>1 DEF Exclusion, StillFailed, Claimable
  <2>8. ExclusiveDelivery'
    BY <2>2, <2>5 DEF Exclusion, ExclusiveDelivery, Holds
  <2>9. \A v \in Workers : job'[v] # NoJob => Claimed(v)'
    BY <1>j, <2>2, <2>4, <2>5, <2>6 DEF Exclusion, Claimed, Holds
  <2>10. replay' = replay /\ \A v \in Workers : replay'[v] # NoJob => StillFailed(v)'
    BY <1>4, <1>r, <2>4, <2>7 DEF Claim, Exclusion, StillFailed
  <2>11. \A f \in Events : event'[f].status = "none" => event'[f].done = {}
    BY <2>4 DEF Exclusion
  <2> QED BY <2>8, <2>9, <2>10, <2>11 DEF Exclusion
<1>5. ASSUME NEW w \in Workers, Quiet(w) PROVE Exclusion'
  <2>1. \A v \in Workers : pass'[v].age = pass[v].age
    BY <1>5, <1>t DEF Quiet, Passes
  <2> QED BY <1>5, <2>1, PassOnly DEF Quiet
<1>6. ASSUME NEW w \in Workers, EndPass(w) PROVE Exclusion'
  <2>1. \A v \in Workers : job[v] # NoJob => pass'[v].age = pass[v].age
    BY <1>6, <1>t DEF EndPass
  <2> QED BY <1>6, <2>1, PassOnly DEF EndPass
<1>7. ASSUME NEW w \in Workers, NEW x \in Targets, Deliver(w, x) PROVE Exclusion'
  <2>1. job[w] \in Jobs /\ job[w] # NoJob
    BY <1>7, <1>t DEF Deliver
  <2> DEFINE told    == [job[w] EXCEPT !.todo = @ \ {x}, !.done = @ \cup {x}]
             refused == [job[w] EXCEPT !.todo = @ \ {x}]
  <2>2. /\ told.ev = job[w].ev /\ refused.ev = job[w].ev
        /\ job[w].done \subseteq told.done /\ job[w].done \subseteq refused.done
        /\ told.todo \subseteq job[w].todo /\ refused.todo \subseteq job[w].todo
    BY <2>1 DEF Jobs
  <2>3. job'[w] = told \/ job'[w] = refused
    BY <1>7, <1>t DEF Deliver
  <2>4. /\ job'[w].ev = job[w].ev /\ job[w].done \subseteq job'[w].done
        /\ job'[w].todo \subseteq job[w].todo
    <3> HIDE DEF told, refused
    <3> QED BY <2>2, <2>3
  <2>5. \A v \in Workers : v # w => job'[v] = job[v]
    BY <1>7, <1>t DEF Deliver
  <2>6. event' = event /\ pass' = pass /\ replay' = replay
    BY <1>7 DEF Deliver
  <2> QED BY <2>1, <2>4, <2>5, <2>6 DEF Exclusion, ExclusiveDelivery, Holds, Claimed, StillFailed
<1>8. ASSUME NEW w \in Workers, Finish(w) PROVE Exclusion'
  <2>1. job[w] # NoJob /\ job[w].ev \in Events /\ event[job[w].ev].status = "pending"
    BY <1>8, <1>t, <1>j DEF Finish, Exclusion, Claimed
  <2>2. \A f \in Events : f # job[w].ev => event'[f] = event[f]
    BY <1>8, <1>t DEF Finish
  <2>3. event'[job[w].ev].status # "none"
    BY <1>8, <1>t, <2>1 DEF Finish, Outcome, Row
  <2>4. job' = [job EXCEPT ![w] = NoJob] /\ replay' = replay
    BY <1>8 DEF Finish
  <2>5. \A v \in Workers : pass'[v].age = pass[v].age
    BY <1>8, <1>t DEF Finish, Passes
  <2>6. \A v \in Workers : v # w /\ job[v] # NoJob => job[v].ev # job[w].ev
    BY <1>j, <2>1 DEF Exclusion, ExclusiveDelivery, Holds
  <2>7. ExclusiveDelivery'
    BY <1>t, <2>4 DEF Exclusion, ExclusiveDelivery, Holds
  <2>8. \A v \in Workers : job'[v] # NoJob => Claimed(v)'
    BY <1>t, <1>j, <2>2, <2>4, <2>5, <2>6 DEF Exclusion, Claimed
  <2>9. \A v \in Workers : replay'[v] # NoJob => StillFailed(v)'
    BY <1>r, <2>1, <2>2, <2>4 DEF Exclusion, StillFailed
  <2> QED BY <2>2, <2>3, <2>7, <2>8, <2>9 DEF Exclusion
<1>9. ASSUME NEW w \in Workers, NEW e \in Events, ReplayFind(w, e) PROVE Exclusion'
  <2>1. /\ event' = event /\ pass' = pass /\ job' = job
        /\ replay' = [replay EXCEPT ![w] = [ev |-> e, done |-> event[e].done]]
        /\ w \in Replayers /\ event[e].status = "failed"
    BY <1>9 DEF ReplayFind
  <2>2. \A v \in Workers : replay'[v] # NoJob => StillFailed(v)'
    BY <1>t, <2>1 DEF Exclusion, StillFailed
  <2> QED BY <2>1, <2>2 DEF Exclusion, ExclusiveDelivery, Holds, Claimed
<1>10. ASSUME NEW w \in Workers, ReplayFinish(w) PROVE Exclusion'
  <2>1. /\ replay[w] # NoJob /\ w \in Replayers /\ replay[w].ev \in Events
        /\ event[replay[w].ev].status = "failed"
    BY <1>10, <1>r DEF ReplayFinish, Exclusion, StillFailed
  <2>2. \A f \in Events : f # replay[w].ev => event'[f] = event[f]
    BY <1>10, <1>t DEF ReplayFinish
  <2>3. event'[replay[w].ev].status = "pending"
    BY <1>10, <1>t, <2>1 DEF ReplayFinish, Row
  <2>4. pass' = pass /\ job' = job /\ replay' = [replay EXCEPT ![w] = NoJob]
    BY <1>10 DEF ReplayFinish
  <2>5. \A v \in Workers : replay'[v] = NoJob
    BY <1>t, <2>1, <2>4 DEF Disciplined, Exclusion, StillFailed
  <2>6. \A v \in Workers : job[v] # NoJob => job[v].ev # replay[w].ev
    BY <2>1 DEF Exclusion, Claimed
  <2>7. \A v \in Workers : job'[v] # NoJob => Claimed(v)'
    BY <1>j, <2>2, <2>4, <2>6 DEF Exclusion, Claimed
  <2> QED BY <2>2, <2>3, <2>4, <2>5, <2>7 DEF Exclusion, ExclusiveDelivery, Holds
<1>11. ASSUME NEW w \in Workers, Crash(w) PROVE Exclusion'
  <2>1. /\ job' = [job EXCEPT ![w] = NoJob] /\ replay' = [replay EXCEPT ![w] = NoJob]
        /\ event' = event /\ pass' = [pass EXCEPT ![w] = Idle]
    BY <1>11 DEF Crash
  <2> QED BY <1>t, <2>1 DEF Exclusion, ExclusiveDelivery, Holds, Claimed, StillFailed
<1>12. ASSUME Tick PROVE Exclusion'
  <2>1. \A e \in Events : /\ event'[e].status = event[e].status
                          /\ event'[e].done = event[e].done
                          /\ event'[e].lease = Later(event[e].lease)
    BY <1>12, <1>t DEF Tick, Rows
  <2>2. job' = job /\ replay' = replay
    BY <1>12 DEF Tick
  <2>3. ASSUME NEW w \in Workers, job[w] # NoJob PROVE Claimed(w)'
    <3>1. Claimed(w) /\ job[w].ev \in Events /\ pass[w] \in Passes /\ pass[w].pc = "delivering"
      BY <1>t, <1>j, <2>3 DEF Exclusion
    <3>2. pass'[w].age = pass[w].age + 1 /\ pass[w].age < MaxPass
      BY <1>12, <3>1 DEF Tick, Passes
    <3>3. Later(event[job[w].ev].lease) = event[job[w].ev].lease - 1
      BY <3>1, <3>2, BoundsAssumption DEF Disciplined, Claimed, Passes, Later, Past
    <3>4. /\ event'[job[w].ev].status = "pending"
          /\ event'[job[w].ev].done \subseteq job[w].done
          /\ event'[job[w].ev].done \cap job[w].todo = {}
          /\ event'[job[w].ev].lease = event[job[w].ev].lease - 1
      BY <2>1, <3>1, <3>3 DEF Claimed
    <3>5. event'[job[w].ev].lease = Lease - pass'[w].age
      BY <3>1, <3>2, <3>4, BoundsAssumption DEF Claimed, Passes
    <3> QED BY <2>2, <3>4, <3>5 DEF Claimed
  <2> QED BY <1>r, <2>1, <2>2, <2>3 DEF Exclusion, ExclusiveDelivery, Holds, StillFailed
<1>13. ASSUME UNCHANGED vars PROVE Exclusion'
  BY <1>13 DEF vars, Exclusion, ExclusiveDelivery, Holds, Claimed, StillFailed
<1> QED BY <1>1, <1>2, <1>3, <1>4, <1>5, <1>6, <1>7, <1>8, <1>9, <1>10, <1>11, <1>12, <1>13
        DEF Next, Work

\* Every step keeps what is recorded as done.
LEMMA DoneStep ==
    ASSUME Typed, Exclusion, [Next]_vars
    PROVE  \A e \in Events : event[e].done \subseteq event'[e].done
<1>t. /\ event \in [Events -> Rows] /\ pass \in [Workers -> Passes]
      /\ job \in [Workers -> {NoJob} \cup Jobs] /\ replay \in [Workers -> {NoJob} \cup Replays]
      /\ \A w \in Workers : pass[w].pc = "delivering" <=> job[w] # NoJob
  BY DEF Typed, TypeOK
<1>1. ASSUME NEW w \in Workers, NEW e \in Events, Enqueue(w, e)
      PROVE  \A f \in Events : event[f].done \subseteq event'[f].done
  BY <1>1, <1>t DEF Enqueue, Exclusion
<1>2. ASSUME NEW w \in Workers, Claim(w)
      PROVE  \A f \in Events : event[f].done \subseteq event'[f].done
  BY <1>2, <1>t DEF Claim, Rows
<1>3. ASSUME NEW w \in Workers, Finish(w)
      PROVE  \A f \in Events : event[f].done \subseteq event'[f].done
  <2>1. job[w] \in Jobs /\ job[w] # NoJob /\ pass[w].age \in 0 .. MaxPass
    BY <1>3, <1>t DEF Finish, Passes
  <2> DEFINE row == Outcome(job[w], pass[w].age)
  <2>2. row.done = job[w].done
    BY <2>1, OutcomeFacts
  <2>3. event[job[w].ev].done \subseteq job[w].done
    BY <2>1 DEF Exclusion, Claimed
  <2>4. event' = [event EXCEPT ![job[w].ev] = row]
    BY <1>3 DEF Finish
  <2> HIDE DEF row
  <2> QED BY <1>t, <2>2, <2>3, <2>4
<1>4. ASSUME NEW w \in Workers, ReplayFinish(w)
      PROVE  \A f \in Events : event[f].done \subseteq event'[f].done
  <2>1. event[replay[w].ev].done = replay[w].done
    BY <1>4 DEF ReplayFinish, Exclusion, StillFailed
  <2> QED BY <1>4, <1>t, <2>1 DEF ReplayFinish, Row
<1>5. ASSUME Tick
      PROVE  \A f \in Events : event[f].done \subseteq event'[f].done
  BY <1>5, <1>t DEF Tick, Rows
<1>6. CASE event' = event
  BY <1>6
<1> QED BY <1>1, <1>2, <1>3, <1>4, <1>5, <1>6
        DEF Next, Work, Poke, Cron, Quiet, EndPass, Deliver, ReplayFind, Crash, vars

\* The first state owes nothing.
LEMMA ExclusionInit == Init => Exclusion
BY DEF Init, Exclusion, ExclusiveDelivery, Holds, NoRow

\* No two dispatchers deliver the same event at the same time: passes shorter
\* than the lease suffice, through crashes, retries and replays.
THEOREM LeasesExclude ==
    ASSUME Disciplined
    PROVE  Spec => []ExclusiveDelivery
<1>1. Exclusion => ExclusiveDelivery
  BY DEF Exclusion
<1>2. Typed /\ Exclusion /\ [Next]_vars => Exclusion'
  BY ExclusionStep
<1> QED BY <1>1, <1>2, TypedInit, TypedStep, ExclusionInit, PTL DEF Spec

\* No delivery on record is taken off it.
THEOREM DoneIsNeverLost ==
    ASSUME Disciplined
    PROVE  Spec => DoneIsKept
<1>1. Typed /\ Exclusion /\ [Next]_vars => Exclusion'
  BY ExclusionStep
<1>2. Typed /\ Exclusion /\ [Next]_vars
      => [\A e \in Events : event[e].done \subseteq event'[e].done]_vars
  BY DoneStep
<1> QED BY <1>1, <1>2, TypedInit, TypedStep, ExclusionInit, PTL DEF Spec, DoneIsKept
-----------------------------------------------------------------------------
(* No target receives an event twice. *)

\* While no process has died, what a target received is on record, or is about
\* to be recorded by the one dispatcher that holds the event.
OnRecord(e, x) ==
    \/ x \in event[e].done
    \/ \E w \in Workers : Holds(w, e) /\ x \in job[w].done

Accounted ==
    /\ \A w \in Workers : job[w] # NoJob => job[w].todo \cap job[w].done = {}
    /\ crashes = 0 =>
          \A e \in Events, x \in Targets :
              got[<<e, x>>] < 2 /\ (got[<<e, x>>] # 0 => OnRecord(e, x))

\* A step that delivers nothing and drops no copy.
LEMMA AccountKept ==
    ASSUME Typed, Exclusion, [Next]_vars, Accounted, got' = got, crashes' = crashes,
           \A w \in Workers : job[w] # NoJob => job'[w] = job[w],
           \A w \in Workers : job[w] = NoJob /\ job'[w] # NoJob =>
                                 job'[w].todo \cap job'[w].done = {}
    PROVE  Accounted'
<1>1. \A e \in Events : event[e].done \subseteq event'[e].done
  BY DoneStep
<1>2. \A e \in Events, x \in Targets : OnRecord(e, x) => OnRecord(e, x)'
  BY <1>1 DEF OnRecord, Holds
<1> QED BY <1>2 DEF Accounted

LEMMA AccountStep ==
    ASSUME Typed, Exclusion, Accounted, [Next]_vars
    PROVE  Accounted'
<1>t. /\ event \in [Events -> Rows] /\ pass \in [Workers -> Passes]
      /\ job \in [Workers -> {NoJob} \cup Jobs]
      /\ got \in [Events \X Targets -> 0 .. 2] /\ crashes \in Nat
      /\ \A w \in Workers : pass[w].pc = "delivering" <=> job[w] # NoJob
  BY DEF Typed, TypeOK
<1>d. \A e \in Events : event[e].done \subseteq event'[e].done
  BY DoneStep
<1>1. ASSUME NEW w \in Workers, Claim(w) PROVE Accounted'
  <2>1. PICK e \in Events :
           job' = [job EXCEPT ![w] =
                      [ev |-> e, began |-> pass[w].age, attempts |-> event[e].attempts,
                       done |-> event[e].done, todo |-> Targets \ event[e].done]]
    BY <1>1 DEF Claim
  <2>2. job[w] = NoJob /\ got' = got /\ crashes' = crashes
    BY <1>1, <1>t DEF Claim
  <2>3. job'[w].todo \cap job'[w].done = {}
    BY <1>t, <2>1
  <2>4. \A v \in Workers : v # w => job'[v] = job[v]
    BY <1>t, <2>1
  <2> QED BY <2>2, <2>3, <2>4, AccountKept
<1>2. ASSUME NEW w \in Workers, NEW x \in Targets, Deliver(w, x) PROVE Accounted'
  <2>1. job[w] \in Jobs /\ job[w] # NoJob /\ x \in job[w].todo /\ Claimed(w)
    BY <1>2, <1>t DEF Deliver, Exclusion
  <2>2. PICK e \in Events : e = job[w].ev
    BY <2>1 DEF Jobs
  <2>3. x \notin job[w].done /\ x \notin event[e].done
    BY <2>1, <2>2 DEF Accounted, Claimed
  <2>4. ~OnRecord(e, x)
    BY <2>1, <2>2, <2>3 DEF OnRecord, Exclusion, ExclusiveDelivery, Holds
  <2>5. event' = event /\ crashes' = crashes
    BY <1>2 DEF Deliver
  <2>6. \A v \in Workers : v # w => job'[v] = job[v]
    BY <1>2, <1>t DEF Deliver
  <2>7. CASE /\ job' = [job EXCEPT ![w] = [job[w] EXCEPT !.todo = @ \ {x}, !.done = @ \cup {x}]]
             /\ got' = [got EXCEPT ![<<job[w].ev, x>>] = IF @ < 2 THEN @ + 1 ELSE @]
    <3>1. /\ job'[w].ev = e /\ job'[w].done = job[w].done \cup {x}
          /\ job'[w].todo = job[w].todo \ {x} /\ job'[w] # NoJob
      <4>1. job'[w] = [job[w] EXCEPT !.todo = @ \ {x}, !.done = @ \cup {x}]
        BY <1>t, <2>7
      <4> QED BY <2>1, <2>2, <4>1 DEF Jobs, NoJob
    <3>2. \A f \in Events, y \in Targets : OnRecord(f, y) => OnRecord(f, y)'
      BY <2>2, <2>5, <2>6, <3>1 DEF OnRecord, Holds
    <3>3. OnRecord(e, x)'
      BY <3>1 DEF OnRecord, Holds
    <3>4. crashes = 0 => got[<<e, x>>] = 0 /\ got'[<<e, x>>] = 1
      <4>1. crashes = 0 => got[<<e, x>>] = 0
        BY <2>4 DEF Accounted
      <4> QED BY <1>t, <2>2, <2>7, <4>1
    <3>5. \A f \in Events, y \in Targets : <<f, y>> # <<e, x>> => got'[<<f, y>>] = got[<<f, y>>]
      BY <1>t, <2>2, <2>7
    <3>6. \A v \in Workers : job'[v] # NoJob => job'[v].todo \cap job'[v].done = {}
      BY <2>1, <2>6, <3>1 DEF Accounted
    <3>7. ASSUME crashes = 0, NEW f \in Events, NEW y \in Targets
          PROVE  got'[<<f, y>>] < 2 /\ (got'[<<f, y>>] # 0 => OnRecord(f, y)')
      <4>1. CASE f = e /\ y = x
        BY <3>3, <3>4, <3>7, <4>1
      <4>2. CASE ~(f = e /\ y = x)
        <5>1. got'[<<f, y>>] = got[<<f, y>>]
          BY <3>5, <4>2
        <5> QED BY <3>2, <3>7, <5>1 DEF Accounted
      <4> QED BY <4>1, <4>2
    <3> QED BY <2>5, <3>6, <3>7 DEF Accounted
  <2>8. CASE job' = [job EXCEPT ![w].todo = @ \ {x}] /\ got' = got
    <3>1. /\ job'[w].ev = e /\ job'[w].done = job[w].done
          /\ job'[w].todo = job[w].todo \ {x} /\ job'[w] # NoJob
      <4>1. job'[w] = [job[w] EXCEPT !.todo = @ \ {x}]
        BY <1>t, <2>8
      <4> QED BY <2>1, <2>2, <4>1 DEF Jobs, NoJob
    <3>2. \A f \in Events, y \in Targets : OnRecord(f, y) => OnRecord(f, y)'
      BY <2>2, <2>5, <2>6, <3>1 DEF OnRecord, Holds
    <3>3. \A v \in Workers : job'[v] # NoJob => job'[v].todo \cap job'[v].done = {}
      BY <2>1, <2>6, <3>1 DEF Accounted
    <3> QED BY <2>5, <2>8, <3>2, <3>3 DEF Accounted
  <2> QED BY <1>2, <2>7, <2>8 DEF Deliver
<1>3. ASSUME NEW w \in Workers, Finish(w) PROVE Accounted'
  <2>1. job[w] \in Jobs /\ job[w] # NoJob /\ pass[w].age \in 0 .. MaxPass
    BY <1>3, <1>t DEF Finish, Passes
  <2>0. PICK e \in Events : e = job[w].ev
    BY <2>1 DEF Jobs
  <2> DEFINE row == Outcome(job[w], pass[w].age)
  <2>2. e = job[w].ev /\ row = Outcome(job[w], pass[w].age)
    BY <2>0
  <2> HIDE DEF row
  <2>3. row.done = job[w].done
    BY <2>1, <2>2, OutcomeFacts
  <2>4. /\ event' = [event EXCEPT ![e] = row] /\ got' = got /\ crashes' = crashes
        /\ job' = [job EXCEPT ![w] = NoJob]
    BY <1>3, <2>2 DEF Finish
  <2>5. event'[e].done = job[w].done /\ \A v \in Workers : v # w => job'[v] = job[v]
    BY <1>t, <2>3, <2>4
  <2>6. \A f \in Events, y \in Targets : OnRecord(f, y) => OnRecord(f, y)'
    BY <1>d, <2>2, <2>5 DEF OnRecord, Holds
  <2>7. job'[w] = NoJob
    BY <1>t, <2>4
  <2> QED BY <2>4, <2>5, <2>6, <2>7 DEF Accounted
<1>4. ASSUME NEW w \in Workers, Crash(w) PROVE Accounted'
  <2>1. crashes' # 0 /\ job' = [job EXCEPT ![w] = NoJob]
    BY <1>4, <1>t DEF Crash
  <2> QED BY <1>t, <2>1 DEF Accounted
<1>5. CASE got' = got /\ crashes' = crashes /\ job' = job
  BY <1>5, AccountKept
<1> QED BY <1>1, <1>2, <1>3, <1>4, <1>5
        DEF Next, Work, Enqueue, Poke, Cron, Quiet, EndPass, ReplayFind, ReplayFinish, Tick, vars

\* While no process has died between a delivery and its record, no target
\* receives an event twice: neither retries, nor passes of several processes,
\* nor replays deliver again what was delivered.
THEOREM NeverDeliveredTwice ==
    ASSUME Disciplined
    PROVE  Spec => []NeverTwice
<1>1. Init => Accounted
  BY DEF Init, Accounted
<1>2. Accounted => NeverTwice
  BY DEF Accounted, NeverTwice
<1>3. Typed /\ Exclusion /\ Accounted /\ [Next]_vars => Accounted'
  BY AccountStep
<1>4. Typed /\ Exclusion /\ [Next]_vars => Exclusion'
  BY ExclusionStep
<1> QED BY <1>1, <1>2, <1>3, <1>4, TypedInit, TypedStep, ExclusionInit, PTL DEF Spec
-----------------------------------------------------------------------------
(* The promise. *)

\* Where the step only moves leases, passes, copies or time, the promise sees
\* nothing happen.
LEMMA Unseen ==
    ASSUME \A e \in Events : event'[e].status = event[e].status /\ event'[e].done = event[e].done,
           got' = got
    PROVE  UNCHANGED Promise!courier
<1>1. [e \in Events |-> event'[e].status] = [e \in Events |-> event[e].status]
  OBVIOUS
<1>2. [e \in Events |-> event'[e].done] = [e \in Events |-> event[e].done]
  OBVIOUS
<1> QED BY <1>1, <1>2 DEF Promise!courier

\* Every step is one of the promise, or none.
LEMMA PromiseStep ==
    ASSUME Typed, Reached, Exclusion, [Next]_vars
    PROVE  [Promise!CourierNext]_(Promise!courier)
<1> DEFINE state  == [e \in Events |-> event[e].status]
           ledger == [e \in Events |-> event[e].done]
<1>t. /\ event \in [Events -> Rows] /\ pass \in [Workers -> Passes]
      /\ job \in [Workers -> {NoJob} \cup Jobs] /\ replay \in [Workers -> {NoJob} \cup Replays]
      /\ got \in [Events \X Targets -> 0 .. 2]
      /\ \A w \in Workers : pass[w].pc = "delivering" <=> job[w] # NoJob
  BY DEF Typed, TypeOK
<1>1. ASSUME NEW w \in Workers, NEW e \in Events, Enqueue(w, e) PROVE Promise!CourierNext \/ UNCHANGED Promise!courier
  <2>1. event[e].status = "none" /\ event[e].done = {}
    BY <1>1 DEF Enqueue, Exclusion
  <2>2. event'[e].status = "pending" /\ event'[e].done = {}
    BY <1>1, <1>t DEF Enqueue, Row
  <2>3. \A f \in Events : f # e => event'[f] = event[f]
    BY <1>1, <1>t DEF Enqueue
  <2>4. [f \in Events |-> event'[f].status] = [state EXCEPT ![e] = "pending"]
    BY <2>2, <2>3
  <2>5. [f \in Events |-> event'[f].done] = ledger
    BY <2>1, <2>2, <2>3
  <2>6. Promise!CommitEvent(e)
    BY <1>1, <2>1, <2>4, <2>5 DEF Promise!CommitEvent, Enqueue
  <2> QED BY <2>6 DEF Promise!CourierNext
<1>2. ASSUME NEW w \in Workers, NEW x \in Targets, Deliver(w, x) PROVE Promise!CourierNext \/ UNCHANGED Promise!courier
  <2>1. job[w] \in Jobs /\ Claimed(w) /\ x \in job[w].todo
    BY <1>2, <1>t DEF Deliver, Exclusion
  <2>2. job[w].ev \in Events /\ event[job[w].ev].status = "pending" /\ x \notin event[job[w].ev].done
    BY <2>1 DEF Jobs, Claimed
  <2>3. event' = event
    BY <1>2 DEF Deliver
  <2>4. CASE got' = [got EXCEPT ![<<job[w].ev, x>>] = IF @ < 2 THEN @ + 1 ELSE @]
    <3>1. Promise!Hand(job[w].ev, x)
      BY <2>2, <2>3, <2>4 DEF Promise!Hand
    <3> QED BY <2>2, <3>1 DEF Promise!CourierNext
  <2>5. CASE got' = got
    BY <2>3, <2>5, Unseen
  <2> QED BY <1>2, <2>4, <2>5 DEF Deliver
<1>3. ASSUME NEW w \in Workers, Finish(w) PROVE Promise!CourierNext \/ UNCHANGED Promise!courier
  <2>1. /\ job[w] \in Jobs /\ job[w] # NoJob /\ Claimed(w)
        /\ job[w].ev \in Events /\ job[w].done \in SUBSET Targets /\ pass[w].age \in 0 .. MaxPass
    BY <1>3, <1>t DEF Finish, Exclusion, Jobs, Passes
  <2>2. PICK e \in Events, reached \in SUBSET Targets : e = job[w].ev /\ reached = job[w].done
    BY <2>1
  <2>3. PICK row : row = Outcome(job[w], pass[w].age)
    OBVIOUS
  <2>4. /\ row.done = reached
        /\ row.status \in {"pending", "delivered", "failed"}
        /\ row.status = "delivered" <=> reached = Targets
    BY <2>1, <2>2, <2>3, OutcomeFacts DEF Outcome, Row
  <2>5. event' = [event EXCEPT ![e] = row] /\ got' = got
    BY <1>3, <2>2, <2>3 DEF Finish
  <2>6. event[e].status = "pending" /\ event[e].done \subseteq reached
    BY <2>1, <2>2 DEF Claimed
  <2>7. \A x \in reached : got[<<e, x>>] > 0
    BY <2>1, <2>2 DEF Reached
  <2>8. [f \in Events |-> event'[f].status] = [state EXCEPT ![e] = row.status]
    BY <1>t, <2>5
  <2>9. [f \in Events |-> event'[f].done] = [ledger EXCEPT ![e] = reached]
    BY <1>t, <2>4, <2>5
  <2>10. PICK outcome \in {"pending", "delivered", "failed"} : outcome = row.status
    BY <2>4
  <2>11. Promise!Settle(e, reached, outcome)
    BY <2>4, <2>5, <2>6, <2>7, <2>8, <2>9, <2>10 DEF Promise!Settle
  <2> QED BY <2>11 DEF Promise!CourierNext
<1>4. ASSUME NEW w \in Workers, ReplayFinish(w) PROVE Promise!CourierNext \/ UNCHANGED Promise!courier
  <2>1. PICK e \in Events : e = replay[w].ev
    BY <1>4, <1>t DEF ReplayFinish, Replays
  <2>2. event[e].status = "failed" /\ event[e].done = replay[w].done
    BY <1>4, <2>1 DEF ReplayFinish, Exclusion, StillFailed
  <2>3. event'[e].status = "pending" /\ event'[e].done = event[e].done
    BY <1>4, <1>t, <2>1, <2>2 DEF ReplayFinish, Row
  <2>4. \A f \in Events : f # e => event'[f] = event[f]
    BY <1>4, <1>t, <2>1 DEF ReplayFinish
  <2>5. [f \in Events |-> event'[f].status] = [state EXCEPT ![e] = "pending"]
    BY <2>3, <2>4
  <2>6. [f \in Events |-> event'[f].done] = ledger
    BY <2>3, <2>4
  <2>7. Promise!Reopen(e)
    BY <1>4, <2>2, <2>5, <2>6 DEF Promise!Reopen, ReplayFinish
  <2> QED BY <2>7 DEF Promise!CourierNext
<1>5. ASSUME NEW w \in Workers, Claim(w) PROVE Promise!CourierNext \/ UNCHANGED Promise!courier
  <2>1. \A e \in Events : event'[e].status = event[e].status /\ event'[e].done = event[e].done
    BY <1>5, <1>t DEF Claim, Rows
  <2> QED BY <1>5, <2>1, Unseen DEF Claim
<1>6. ASSUME Tick PROVE Promise!CourierNext \/ UNCHANGED Promise!courier
  <2>1. \A e \in Events : event'[e].status = event[e].status /\ event'[e].done = event[e].done
    BY <1>6, <1>t DEF Tick, Rows
  <2> QED BY <1>6, <2>1, Unseen DEF Tick
<1>7. ASSUME event' = event, got' = got PROVE Promise!CourierNext \/ UNCHANGED Promise!courier
  BY <1>7, Unseen
<1> QED BY <1>1, <1>2, <1>3, <1>4, <1>5, <1>6, <1>7
        DEF Next, Work, Poke, Cron, Quiet, EndPass, ReplayFind, Crash, vars

\* The first state promises nothing.
LEMMA PromiseInit == Init => Promise!CourierInit
BY DEF Init, Promise!CourierInit, NoRow

\* The outbox implements Courier, for any number of events, targets, processes,
\* attempts and crashes, while passes are shorter than the lease and at most one
\* process replays: nothing in the code keeps two replays apart, and two that
\* overlap write back an outdated list and break the promise.
THEOREM PromiseIsKept ==
    ASSUME Disciplined
    PROVE  Spec => KeepsPromise
<1>1. Typed /\ Exclusion /\ [Next]_vars => Exclusion'
  BY ExclusionStep
<1>2. Init => Reached
  BY DEF Init, Reached, NoRow
<1>3. Typed /\ Reached /\ Exclusion /\ [Next]_vars => [Promise!CourierNext]_(Promise!courier)
  BY PromiseStep
<1> QED
  BY <1>1, <1>2, <1>3, TypedInit, TypedStep, ReachedStep, ExclusionInit, PromiseInit, PTL
     DEF Spec, KeepsPromise, Promise!CourierSpec
=============================================================================
