------------------------------ MODULE Settings ------------------------------
(***************************************************************************)
(* The runtime settings: one row, written with an optimistic check, and a  *)
(* snapshot of it in each replica, replaced by the replica's own writes    *)
(* and by a poll.  Two settings stand for all: the SMS limits, which a     *)
(* cross rule relates; SmsBudget spends them.                              *)
(*                                                                         *)
(* A stamp (updated_at) only ever grows, by any amount; it is a number.  A *)
(* write that is refused (an unknown key, a tag of If-Match that is not    *)
(* the row's, a cross rule, a write check) is not a step.                  *)
(***************************************************************************)
EXTENDS Integers, FiniteSets

CONSTANTS
    Replicas,
    Tasks,         \* requests being served
    Limits,        \* the values a limit may have
    StampBound     \* bounds the writes

ASSUME SettingsAssumption ==
    Limits \subseteq Nat /\ Limits # {} /\ StampBound \in Nat

VARIABLES
    row,          \* the row of settings
    snapshots,    \* the snapshot of each replica
    polls,        \* the poll of each replica
    tasks         \* what each request has read, and does next

settingsVars == <<row, snapshots, polls, tasks>>

Values == [hourly : Limits, daily : Limits]
Rows == [values : Values, stamp : 0..StampBound]

\* crossRuleViolations: sms.daily_limit is not below sms.hourly_limit, unless
\* one of them is 0, no limit.
RuleHolds(values) ==
    0 \in {values.hourly, values.daily} \/ values.daily >= values.hourly

NoPoll == [at |-> "idle"]
Polls == [at : {"idle", "read"}] \cup [at : {"apply"}, row : Rows]

SendSteps == {"hour", "refundHour", "day", "refundDay", "giveBack", "provider"}
NoTask == [at |-> "idle"]
WriteTasks == [at : {"write", "written"}, replica : Replicas, current : Rows, values : Values]
SendTasks(hours, windows) ==
    [at : SendSteps, replica : Replicas, hour : hours, paid : SUBSET windows]

-----------------------------------------------------------------------------
(* update and reset. *)

\* (Mutant of StartWrite: the cross rules are left to the client.)
StartWriteUnchecked(t, r, values) ==
    /\ tasks[t] = NoTask
    /\ tasks' = [tasks EXCEPT ![t] = [at |-> "write", replica |-> r, current |-> row,
                                      values |-> values]]
    /\ UNCHANGED <<row, snapshots, polls>>

\* write reads the row, merges the changes into it and checks the rules.
\* (Each setting is kept, changed, or reset to its environment value.)
StartWrite(t, r, values) ==
    /\ tasks[t] = NoTask
    /\ values.hourly = row.values.hourly \/ values.daily = row.values.daily
    /\ RuleHolds(values)
    /\ tasks' = [tasks EXCEPT ![t] = [at |-> "write", replica |-> r, current |-> row,
                                      values |-> values]]
    /\ UNCHANGED <<row, snapshots, polls>>

\* Nothing to write: the snapshot becomes the row that was read.
WriteNothing(t) ==
    /\ tasks[t].at = "write"
    /\ tasks[t].values = tasks[t].current.values
    /\ snapshots' = [snapshots EXCEPT ![tasks[t].replica] = tasks[t].current]
    /\ tasks' = [tasks EXCEPT ![t] = NoTask]
    /\ UNCHANGED <<row, polls>>

\* (Mutant of CommitWrite: the update does not name the row it expects.)
CommitWriteBlind(t) ==
    LET task == tasks[t]
        v == task.values
        old == task.current.values
    IN /\ task.at = "write"
       /\ v # old
       /\ row.stamp < StampBound
       /\ row' = [values |-> [hourly |-> IF v.hourly # old.hourly THEN v.hourly
                                         ELSE row.values.hourly,
                              daily |-> IF v.daily # old.daily THEN v.daily
                                        ELSE row.values.daily],
                  stamp |-> row.stamp + 1]
       /\ tasks' = [tasks EXCEPT ![t].at = "written", ![t].current = row']
       /\ UNCHANGED <<snapshots, polls>>

\* SettingsRepository.write: only over the row that was read; `now` is later
\* than its stamp.  Otherwise SETTINGS_CONFLICT.
CommitWrite(t) ==
    LET task == tasks[t]
    IN /\ task.at = "write"
       /\ task.values # task.current.values
       /\ IF row = task.current
          THEN /\ row.stamp < StampBound
               /\ row' = [values |-> task.values, stamp |-> row.stamp + 1]
               /\ tasks' = [tasks EXCEPT ![t].at = "written", ![t].current = row']
          ELSE UNCHANGED row /\ tasks' = [tasks EXCEPT ![t] = NoTask]
       /\ UNCHANGED <<snapshots, polls>>

\* The answer of the database reaches the replica.
Written(t) ==
    /\ tasks[t].at = "written"
    /\ snapshots' = [snapshots EXCEPT ![tasks[t].replica] = tasks[t].current]
    /\ tasks' = [tasks EXCEPT ![t] = NoTask]
    /\ UNCHANGED <<row, polls>>

-----------------------------------------------------------------------------
(* poll, every SETTINGS_REFRESH_MS; it may fail and come back. *)

PollStamp(r) ==
    /\ polls[r] = NoPoll
    /\ row.stamp # snapshots[r].stamp
    /\ polls' = [polls EXCEPT ![r] = [at |-> "read"]]
    /\ UNCHANGED <<row, snapshots, tasks>>

PollRead(r) ==
    /\ polls[r].at = "read"
    /\ polls' = [polls EXCEPT ![r] = [at |-> "apply", row |-> row]]
    /\ UNCHANGED <<row, snapshots, tasks>>

\* A row read before the replica's own write must not undo it.
PollApply(r) ==
    /\ polls[r].at = "apply"
    /\ snapshots' = IF polls[r].row.stamp >= snapshots[r].stamp
                    THEN [snapshots EXCEPT ![r] = polls[r].row] ELSE snapshots
    /\ polls' = [polls EXCEPT ![r] = NoPoll]
    /\ UNCHANGED <<row, tasks>>

\* onModuleInit: a replica is started again.
Restart(r) ==
    /\ snapshots[r] # row
    /\ \A t \in Tasks : tasks[t] # NoTask => tasks[t].replica # r
    /\ snapshots' = [snapshots EXCEPT ![r] = row]
    /\ polls' = [polls EXCEPT ![r] = NoPoll]
    /\ UNCHANGED <<row, tasks>>

-----------------------------------------------------------------------------
SettingsInit ==
    /\ row \in {x \in Rows : x.stamp = 0 /\ RuleHolds(x.values)}
    /\ snapshots = [r \in Replicas |-> row]
    /\ polls = [r \in Replicas |-> NoPoll]
    /\ tasks = [t \in Tasks |-> NoTask]

\* The cross rules hold of the row and of what every replica works with,
\* although each write is checked against a row read earlier, and checks only
\* the rules of the settings it changes.
RulesHold == RuleHolds(row.values) /\ \A r \in Replicas : RuleHolds(snapshots[r].values)
=============================================================================
