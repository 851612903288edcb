----------------------------- MODULE SmsBudget -----------------------------
(***************************************************************************)
(* The two counters of outgoing SMS, one per hour and one per day, which   *)
(* every sender of every replica charges before it calls the provider: the *)
(* hour first, then the day, giving the hour back when the day refuses.    *)
(* Each update is atomic; nothing else is.  The limits are those of the    *)
(* replica's snapshot of the settings at each charge; a limit of 0 is no    *)
(* limit, and charges nothing.                                             *)
(***************************************************************************)
EXTENDS Settings, FiniteSetsExt

CONSTANTS
    Hours,         \* bounds the hours that pass
    HoursPerDay

ASSUME BudgetAssumption ==
    /\ Hours \in Nat /\ HoursPerDay \in Nat \ {0} /\ IsFiniteSet(Tasks)
    /\ \E m \in Limits : \A x \in Limits : x <= m    \* a setting has a largest value

VARIABLES
    hour,      \* the current hour
    counts,    \* the rows of sms_counters, by their window
    sent       \* messages handed to the provider, by the windows charged for them

budgetVars == <<hour, counts, sent>>
smsVars == <<settingsVars, budgetVars>>

Windows == ({"hour"} \X (0..Hours)) \cup ({"day"} \X (0..(Hours \div HoursPerDay)))

HourOf(t) == <<"hour", tasks[t].hour>>
DayOf(t)  == <<"day", tasks[t].hour \div HoursPerDay>>
LimitOf(t) == snapshots[tasks[t].replica].values

Sending(t) == tasks[t].at \in SendSteps
Step(t, step, paid) ==
    tasks' = [tasks EXCEPT ![t] = IF step = "idle" THEN NoTask
                                  ELSE [@ EXCEPT !.at = step, !.paid = paid]]

\* send, and notify by Viber with the fallback on: the time is taken once.
StartSend(t, r) ==
    /\ tasks[t] = NoTask
    /\ \A w \in Windows : sent[w] <= Max(Limits)    \* bounds the messages
    /\ tasks' = [tasks EXCEPT ![t] = [at |-> "hour", replica |-> r, hour |-> hour, paid |-> {}]]
    /\ UNCHANGED <<row, snapshots, polls, budgetVars>>

Count(w) == IF w \in DOMAIN counts THEN counts[w] ELSE 0
Increment(w) == counts' = [x \in DOMAIN counts \cup {w} |-> Count(x) + (IF x = w THEN 1 ELSE 0)]

\* (Mutant of Charge: the counter is compared before it is incremented.)
ChargeLate(t, from, w, limit, next, refused) ==
    /\ tasks[t].at = from
    /\ IF limit = 0
       THEN UNCHANGED counts /\ Step(t, next, tasks[t].paid)
       ELSE /\ Increment(w)
            /\ Step(t, IF Count(w) <= limit THEN next ELSE refused, tasks[t].paid \cup {w})
    /\ UNCHANGED <<row, snapshots, polls, hour, sent>>

\* charge: one atomic increment, compared with the limit afterwards.
Charge(t, from, w, limit, next, refused) ==
    /\ tasks[t].at = from
    /\ IF limit = 0
       THEN UNCHANGED counts /\ Step(t, next, tasks[t].paid)
       ELSE /\ Increment(w)
            /\ Step(t, IF Count(w) + 1 <= limit THEN next ELSE refused, tasks[t].paid \cup {w})
    /\ UNCHANGED <<row, snapshots, polls, hour, sent>>

ChargeHour(t) ==
    Sending(t) /\ Charge(t, "hour", HourOf(t), LimitOf(t).hourly, "day", "refundHour")
ChargeDay(t) ==
    Sending(t) /\ Charge(t, "day", DayOf(t), LimitOf(t).daily, "provider", "refundDay")

\* refund: a row that does not exist is left so.
Refund(t, from, w, next) ==
    /\ tasks[t].at = from
    /\ counts' = [x \in DOMAIN counts |-> IF x = w THEN counts[x] - 1 ELSE counts[x]]
    /\ Step(t, next, tasks[t].paid \ {w})
    /\ UNCHANGED <<row, snapshots, polls, hour, sent>>

RefundHour(t) == Sending(t) /\ Refund(t, "refundHour", HourOf(t), "idle")

\* (Mutant of RefundDay: the hour is not given back.)
RefundDayOnly(t) == Sending(t) /\ Refund(t, "refundDay", DayOf(t), "idle")

RefundDay(t) == Sending(t) /\ Refund(t, "refundDay", DayOf(t), "giveBack")

\* (Mutant of GiveHourBack: the hour it is, not the hour that was charged.)
GiveHourBackNow(t) == Sending(t) /\ Refund(t, "giveBack", <<"hour", hour>>, "idle")

\* consume, when the day refused.
GiveHourBack(t) == Sending(t) /\ Refund(t, "giveBack", HourOf(t), "idle")

\* The provider is called, and the row of sms says how it went: a message
\* that failed costs as much as one that was sent.
Deliver(t) ==
    /\ tasks[t].at = "provider"
    /\ sent' = [w \in Windows |-> IF w \in tasks[t].paid THEN sent[w] + 1 ELSE sent[w]]
    /\ Step(t, "idle", {})
    /\ UNCHANGED <<row, snapshots, polls, hour, counts>>

NewHour ==
    /\ hour < Hours
    /\ hour' = hour + 1
    /\ UNCHANGED <<settingsVars, counts, sent>>

-----------------------------------------------------------------------------
BudgetInit ==
    /\ SettingsInit
    /\ hour = 0
    /\ counts = <<>>
    /\ sent = [w \in Windows |-> 0]

SettingsStep ==
    /\ \/ \E t \in Tasks, r \in Replicas, values \in Values : StartWrite(t, r, values)
       \/ \E t \in Tasks : WriteNothing(t) \/ CommitWrite(t) \/ Written(t)
       \/ \E r \in Replicas : PollStamp(r) \/ PollRead(r) \/ PollApply(r) \/ Restart(r)
    /\ UNCHANGED budgetVars

BudgetNext ==
    \/ SettingsStep
    \/ \E t \in Tasks, r \in Replicas : StartSend(t, r)
    \/ \E t \in Tasks : \/ ChargeHour(t) \/ RefundHour(t) \/ ChargeDay(t)
                        \/ RefundDay(t) \/ GiveHourBack(t) \/ Deliver(t)
    \/ NewHour

BudgetSpec == BudgetInit /\ [][BudgetNext]_smsVars

-----------------------------------------------------------------------------
BudgetTypeOK ==
    /\ row \in Rows
    /\ snapshots \in [Replicas -> Rows]
    /\ polls \in [Replicas -> Polls]
    /\ tasks \in [Tasks -> {NoTask} \cup WriteTasks \cup SendTasks(0..Hours, Windows)]
    /\ hour \in 0..Hours
    /\ DOMAIN counts \subseteq Windows
    /\ \A w \in DOMAIN counts : counts[w] \in Int    \* a charge of no limit may be given back
    /\ sent \in [Windows -> Nat]

\* While every limit that could be in force is one, no hour and no day sees
\* more messages than the largest, whatever senders charge and give back
\* meanwhile.
BudgetHolds == 0 \notin Limits => \A w \in Windows : sent[w] <= Max(Limits)

\* A refusal costs no budget, and gives none back that was not charged: a
\* counter is the messages that were charged to it, and those whose fate is
\* not settled.
RefusalsAreFree ==
    \A w \in Windows :
        Count(w) = sent[w] + Cardinality({t \in Tasks : Sending(t) /\ w \in tasks[t].paid})
=============================================================================
