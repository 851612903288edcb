---------------------------- MODULE Notices ----------------------------
(***************************************************************************)
(* What people are told: the events that bookings, slots, jobs and         *)
(* suspensions commit, and what their three handlers make of them - rows   *)
(* of the inbox (NotificationDispatcher), an e-mail, a text to a phone -   *)
(* while accounts change their address or are deleted, an organization is  *)
(* deleted, templates are edited, messages are sent and rows are read.     *)
(*                                                                         *)
(* The outbox itself is Courier, the abstraction Outbox is shown to        *)
(* implement: one worker at a time holds an event, a target that fails is  *)
(* tried again in a later attempt, and a worker that dies between a        *)
(* delivery and its record delivers again.                                 *)
(***************************************************************************)
EXTENDS Courier, FiniteSets, Sequences

CONSTANTS
    People, Staff,      \* accounts; those of the organization's staff
    Messages,           \* messages staff send by writing
    Requests,           \* HTTP requests served at a time
    MaxUnread,          \* NOTIFICATIONS.maxUnread
    KeepRead,           \* NOTIFICATIONS.keepRead
    Order,              \* the targets as they registered
    Scenarios,          \* the operations that meet each other, and their bounds
    None, Idle

ASSUME TargetsAssumption ==
    /\ Targets = {"inbox", "mail", "phone"}
    /\ Order \in [1 .. 3 -> Targets] /\ Targets = {Order[i] : i \in 1 .. 3}
ASSUME SizesAssumption == MaxUnread \in Nat \ {0} /\ KeepRead \in Nat \ {0} /\ Staff \subseteq People
ASSUME NamesAssumption ==
    /\ Events \cap (Messages \cup Requests) = {}
    /\ "staff" \notin People /\ None \notin People
    /\ Idle \notin [todo : SUBSET Targets, done : SUBSET Targets]
    /\ Idle \notin [step : {"trim"}, scopes : Seq(People \cup {"staff"}),
                    status : {"unread", "read"}, bound : Nat]

VARIABLES
    offered,    \* the scenario
    account,    \* [live, email, reminders] of each person
    live,       \* whether the organization exists
    viber,      \* viber.enabled and viber.sms_fallback
    template,   \* of the organization, for each channel
    content,    \* what each event says, with the addresses read when it was made
    job,        \* the copy of an event a worker delivers
    writing,       \* where a handler or a request that writes the inbox is
    inbox,      \* the rows
    clock,      \* created_at of the newest row
    sent,       \* e-mails and texts
    unkept,     \* <<scope, status>> whose trim died with its request, or was given up with its event
    changes, crashes, failures

settings == <<offered, viber>>
outside == <<account, live, template, changes>>
vars == <<courier, settings, outside, content, job, writing, inbox, clock, sent, unkept, crashes, failures>>

-----------------------------------------------------------------------------
(* Events and what they say. *)

Does(op) == op \in Scenarios[offered].does
Bounds == Scenarios[offered].bounds
Client(p) == [id |-> p, kind |-> "client"]

\* eventActor: whoever acts on a booking of their own is its client.
Actor(a, user) == [id |-> a, kind |-> IF a = user THEN "client" ELSE "staff"]

\* The empty event.
Blank(type, user) ==
    [type |-> type, user |-> user, actor |-> None, by |-> None, bulk |-> FALSE,
     from |-> "confirmed", to |-> "confirmed", noshow |-> FALSE, announced |-> FALSE,
     email |-> FALSE, phone |-> FALSE, reminders |-> TRUE, subscribe |-> FALSE]

\* staffNotice: staff who cancel or move a client's booking may have it told.
Noticed(c, a, notify) ==
    IF notify /\ a # c.user /\ a \in Staff
    THEN [c EXCEPT !.announced = TRUE, !.email = account[c.user].email] ELSE c

\* `subscribe` is that of the service, whoever books.
Created(p, a, subscribe) ==
    [Blank("created", p) EXCEPT !.actor = Actor(a, p), !.phone = TRUE, !.subscribe = subscribe]
Cancelled(p, a, from, notify) ==
    Noticed([Blank("cancelled", p) EXCEPT !.actor = Actor(a, p), !.phone = TRUE, !.from = from,
                                          !.by = IF a = p THEN "owner" ELSE "admin"], a, notify)
Withdrawn(p) == [Blank("cancelled", p) EXCEPT !.actor = Client(p), !.by = "owner"]
Rescheduled(p, a, notify) ==
    Noticed([Blank("rescheduled", p) EXCEPT !.actor = Actor(a, p), !.phone = TRUE], a, notify)

\* announce: every booking of a slot, or of a parent that is retired; without
\* an actor where a job does it.
Bulk(type, p, a, notify) ==
    [Blank(type, p) EXCEPT !.actor = IF a = None THEN None ELSE Actor(a, p), !.bulk = TRUE,
                           !.by = IF type = "cancelled" THEN "admin" ELSE None, !.announced = notify,
                           !.phone = notify, !.email = notify /\ account[p].email]

\* confirm and setStatus; markNoShow, which has no actor.
StatusChanged(p, a, from, to) ==
    [Blank("status_changed", p) EXCEPT !.actor = IF a = None THEN None ELSE Actor(a, p),
                                       !.phone = TRUE, !.from = from, !.to = to]
Reminder(p, callback) ==
    IF callback THEN [Blank("callback_due", p) EXCEPT !.phone = TRUE]
    ELSE [Blank("reminder", p) EXCEPT !.phone = TRUE, !.email = account[p].email,
                                      !.reminders = account[p].reminders]
SlotAvailable(p) == [Blank("slot_available", p) EXCEPT !.phone = TRUE, !.email = account[p].email]
\* By staff, or, without an actor, for bookings not come to, whoever booked.
Suspended(p, a) ==
    [Blank("suspended", p) EXCEPT !.actor = IF a = None THEN None ELSE [id |-> a, kind |-> "staff"],
                                  !.noshow = (a = None), !.phone = TRUE, !.email = account[p].email]
\* lift, and the correction of a booking not come to: by any of the staff,
\* the one the sanction is about included, and as staff all the same.
Lifted(p, a) == [Blank("lifted", p) EXCEPT !.actor = [id |-> a, kind |-> "staff"]]

\* Those who may be suspended by hand.
Clients == People \ Staff

\* What the operations of the scenario can say, about whom.
Saying(op, contents) == {c \in contents : Does(op)}
Announcements ==
    Saying("book", {Created(p, p, subscribe) : p \in People, subscribe \in BOOLEAN}
                   \cup {Created(p, a, subscribe) : p \in Clients, a \in Staff, subscribe \in BOOLEAN})
    \cup Saying("cancel", {Cancelled(p, a, from, notify) : p \in People, a \in Staff \cup Clients,
                                                           from \in {"pending", "confirmed"}, notify \in BOOLEAN})
    \cup Saying("reschedule", {Rescheduled(p, a, notify) : p \in People, a \in Staff \cup Clients, notify \in BOOLEAN})
    \cup Saying("close", {Bulk("cancelled", p, a, notify) : p \in People, a \in Staff \cup {None}, notify \in BOOLEAN})
    \cup Saying("move", {Bulk("rescheduled", p, a, notify) : p \in People, a \in Staff, notify \in BOOLEAN})
    \cup Saying("confirm", {StatusChanged(p, a, "pending", "confirmed") : p, a \in People})
    \cup Saying("mark", {StatusChanged(p, a, "confirmed", "no_show") : p \in People, a \in Staff \cup {None}})
    \cup Saying("remind", {Reminder(p, callback) : p \in People, callback \in BOOLEAN})
    \cup Saying("free_place", {SlotAvailable(p) : p \in People})
    \cup Saying("suspend", {Suspended(p, None) : p \in People} \cup {Suspended(p, a) : p \in Clients, a \in Staff})
    \cup Saying("lift", {Lifted(p, a) : p \in People, a \in Staff})

\* A client acts on bookings of their own only.
May(c) == c.actor = None \/ c.actor.id = c.user \/ c.actor.id \in Staff

\* The event is committed with what it announces.
Announce(e) ==
    /\ live /\ Cardinality({x \in Events : state[x] # "none"}) < Bounds.events
    /\ \E c \in {x \in Announcements : May(x) /\ account[x.user].live} :
          content' = [content EXCEPT ![e] = c]
    /\ CommitEvent(e)
    /\ UNCHANGED <<settings, outside, job, writing, inbox, clock, sent, unkept, crashes, failures>>

-----------------------------------------------------------------------------
(* notification-rules.ts *)

ActorKind(c) == IF c.actor = None THEN None ELSE c.actor.kind
CancelledBy(c) ==
    IF c.actor # None THEN c.actor.kind ELSE IF c.by = "owner" THEN "client" ELSE "staff"

ToClient(c) ==
    \/ c.type \in {"reminder", "slot_available", "suspended", "lifted"}
    \/ c.type \in {"cancelled", "rescheduled"} /\ c.bulk
    \/ c.type \in {"created", "rescheduled"} /\ ActorKind(c) = "staff"
    \/ c.type = "cancelled" /\ CancelledBy(c) = "staff"
    \/ c.type = "status_changed" /\ ActorKind(c) = "staff" /\ c.from = "pending" /\ c.to = "confirmed"

ToStaff(c) ==
    \/ c.type = "callback_due"
    \/ c.type \in {"created", "rescheduled"} /\ ~c.bulk /\ ActorKind(c) = "client"
    \/ c.type = "cancelled" /\ ~c.bulk /\ CancelledBy(c) = "client"
    \/ c.type = "suspended" /\ c.actor = None /\ c.noshow

\* At most one row for each audience.
NotificationsFor(c) == {x \in {"client", "staff"} : IF x = "client" THEN ToClient(c) ELSE ToStaff(c)}

\* NotificationDispatcher.row
Row(source, audience, subject, at) ==
    [source |-> source, audience |-> audience, status |-> "unread", at |-> at,
     user |-> IF audience = "client" THEN subject ELSE None,
     subject |-> IF audience = "staff" THEN subject ELSE None]

\* The owner of rows: a person, or the staff as a whole.
Scope(r) == IF r.audience = "client" THEN r.user ELSE "staff"
Rows(scope, status) == {r \in inbox : Scope(r) = scope /\ r.status = status}
Newer(r, rows) == Cardinality({s \in rows : s.at > r.at})

-----------------------------------------------------------------------------
(* A worker delivers an event. *)

Claim(e) ==
    /\ state[e] = "pending" /\ job[e] = Idle
    /\ job' = [job EXCEPT ![e] = [todo |-> Targets \ ledger[e], done |-> ledger[e]]]
    /\ UNCHANGED <<courier, settings, outside, content, writing, inbox, clock, sent, unkept, crashes, failures>>

\* The targets are tried one after the other, as they registered.
Trying(e, x) ==
    /\ job[e] # Idle /\ writing[e] = Idle
    /\ \E i \in DOMAIN Order : Order[i] = x /\ x \in job[e].todo /\ \A j \in 1 .. i - 1 : Order[j] \notin job[e].todo

\* The target has acknowledged, or has failed in this attempt.
Acknowledge(e, x) ==
    /\ Hand(e, x)
    /\ job' = [job EXCEPT ![e].todo = @ \ {x}, ![e].done = @ \cup {x}]
    /\ UNCHANGED failures
Refuse(e, x) ==
    /\ failures < Bounds.failures
    /\ failures' = failures + 1
    /\ job' = [job EXCEPT ![e].todo = @ \ {x}]
    /\ UNCHANGED courier

\* The inbox handler finds the organization, if there is anything to tell...
InboxFind(e) ==
    /\ Trying(e, "inbox")
    /\ IF NotificationsFor(content[e]) # {} /\ live
       THEN /\ writing' = [writing EXCEPT ![e] = [step |-> "insert"]]
            /\ UNCHANGED <<courier, job, failures>>
       ELSE Acknowledge(e, "inbox") /\ UNCHANGED writing
    /\ UNCHANGED <<settings, outside, content, inbox, clock, sent, unkept, crashes>>

\* ...inserts its rows, those the unique index does not refuse, and goes on to
\* trim, whether they are new or not.
\* (Mutants: without the index; nothing to trim if nothing is new.)
NewRowsUnindexed(e) == {Row(e, x, content[e].user, clock + 1) : x \in NotificationsFor(content[e])}
NewRows(e) ==
    {Row(e, x, content[e].user, clock + 1) :
        x \in {y \in NotificationsFor(content[e]) : ~\E r \in inbox : r.source = e /\ r.audience = y}}

Trim(scopes, status) == [step |-> "trim", scopes |-> scopes, status |-> status, bound |-> 0]
ScopesOf(e, audiences) ==
    LET own == IF "client" \in audiences THEN <<content[e].user>> ELSE <<>>
    IN IF "staff" \in audiences THEN Append(own, "staff") ELSE own
TrimsAfterNew(e) == ScopesOf(e, {r.audience : r \in NewRows(e)})
TrimsAfter(e) == ScopesOf(e, NotificationsFor(content[e]))

InboxInsert(e) ==
    /\ writing[e].step = "insert"
    /\ inbox' = inbox \cup NewRows(e)
    /\ clock' = IF NewRows(e) = {} THEN clock ELSE clock + 1
    /\ writing' = [writing EXCEPT ![e] = Trim(TrimsAfter(e), "unread")]
    /\ UNCHANGED <<courier, settings, outside, content, job, sent, unkept, crashes, failures>>

InboxDone(e) ==
    /\ writing[e].step = "trim" /\ writing[e].scopes = <<>>
    /\ Acknowledge(e, "inbox")
    /\ writing' = [writing EXCEPT ![e] = Idle]
    /\ UNCHANGED <<settings, outside, content, inbox, clock, sent, unkept, crashes>>

\* Any of its calls may throw: the look-up; the insert, which goes on with the
\* other rows after one that fails; a query of a trim.
InboxRefuse(e) ==
    /\ \/ Trying(e, "inbox") /\ NotificationsFor(content[e]) # {} /\ UNCHANGED <<inbox, clock>>
       \/ /\ writing[e] # Idle /\ writing[e].step = "insert"
          /\ \E rows \in SUBSET NewRows(e) :
                /\ inbox' = inbox \cup rows
                /\ clock' = IF rows = {} THEN clock ELSE clock + 1
       \/ writing[e] # Idle /\ writing[e].step = "trim" /\ UNCHANGED <<inbox, clock>>
    /\ Refuse(e, "inbox")
    /\ writing' = [writing EXCEPT ![e] = Idle]
    /\ UNCHANGED <<settings, outside, content, sent, unkept, crashes>>

\* What the addresses on the event make of it; the mail of a booking or a
\* callback goes to the service's own mailbox, if it has one.
\* (Mutant of MailTo, TextTo: the account is asked again when it is delivered.)
NeedsNotice(c) == c.type \in {"cancelled", "rescheduled"} => c.announced
Tells == {"reminder", "slot_available", "suspended", "cancelled", "rescheduled"}
MailTo(c) ==
    IF c.type \in Tells THEN (IF NeedsNotice(c) /\ c.email THEN {"user"} ELSE {"nobody"})
    ELSE IF c.type = "created" THEN (IF c.subscribe THEN {"service"} ELSE {"nobody"})
    ELSE IF c.type = "callback_due" THEN {"service", "nobody"}
    ELSE {"nobody"}
TextToAgain(c) ==
    IF /\ c.type \in Tells /\ NeedsNotice(c) /\ ~account[c.user].email /\ c.phone
       /\ c.type = "reminder" => c.reminders
    THEN "user" ELSE "nobody"
TextTo(c) ==
    IF /\ c.type \in Tells /\ NeedsNotice(c) /\ ~c.email /\ c.phone
       /\ c.type = "reminder" => c.reminders
    THEN "user" ELSE "nobody"

\* compose: the organization's text, unless it has none, or one that renders to
\* nothing or no longer renders.
Rendered(channel) ==
    CASE template[channel] = "good" -> "custom" [] template[channel] = "empty" -> "blank"
      [] template[channel] = "broken" -> "error" [] OTHER -> "none"
Compose(channel) == IF Rendered(channel) \in {"none", "blank", "error"} THEN "default" ELSE Rendered(channel)

Sent(e, by, to) == sent' = sent \cup {[ev |-> e, by |-> by, to |-> to, text |-> Compose(IF by = "viber_sms" THEN "viber" ELSE by)]}

Mail(e) ==
    /\ Trying(e, "mail")
    /\ \E to \in MailTo(content[e]) :
          \/ to # "nobody" /\ Sent(e, "mail", to) /\ Acknowledge(e, "mail")
          \/ to = "nobody" /\ Acknowledge(e, "mail") /\ UNCHANGED sent
          \/ to # "nobody" /\ Refuse(e, "mail") /\ UNCHANGED sent
    /\ UNCHANGED <<settings, outside, content, writing, inbox, clock, unkept, crashes>>

\* SmsService.notify: Viber if it is on, with a text to fall back on while the
\* budget allows one; else a text, refused when the budget is spent.
Via(allowed) ==
    IF ~viber.enabled THEN (IF allowed THEN "sms" ELSE "blocked")
    ELSE IF viber.fallback /\ allowed THEN "viber_sms" ELSE "viber"

Text(e) ==
    /\ Trying(e, "phone")
    /\ \/ TextTo(content[e]) = "nobody" /\ Acknowledge(e, "phone") /\ UNCHANGED sent
       \/ /\ TextTo(content[e]) # "nobody"
          /\ \/ \E allowed \in BOOLEAN : Via(allowed) # "blocked" /\ Sent(e, Via(allowed), "user") /\ Acknowledge(e, "phone")
             \/ Refuse(e, "phone") /\ UNCHANGED sent
    /\ UNCHANGED <<settings, outside, content, writing, inbox, clock, unkept, crashes>>

\* The attempt is over: delivered, due again, or given up - with its trims, if
\* the inbox is among the targets that failed.
GivenUp(e) == {<<TrimsAfter(e)[i], "unread">> : i \in DOMAIN TrimsAfter(e)}
Finish(e) ==
    /\ job[e] # Idle /\ writing[e] = Idle /\ job[e].todo = {}
    /\ \E outcome \in {"pending", "delivered", "failed"} :
          /\ Settle(e, job[e].done, outcome)
          /\ unkept' = IF outcome = "failed" /\ "inbox" \notin job[e].done THEN unkept \cup GivenUp(e) ELSE unkept
    /\ job' = [job EXCEPT ![e] = Idle]
    /\ UNCHANGED <<settings, outside, content, writing, inbox, clock, sent, crashes, failures>>

-----------------------------------------------------------------------------
(* Trimming: the newest rows of an owner stay, `keep` of each status. *)

Keep(status) == IF status = "unread" THEN MaxUnread ELSE KeepRead
Next1(h) == [writing EXCEPT ![h].scopes = Tail(@), ![h].bound = 0]
Kept(h) == unkept' = unkept \ {<<Head(writing[h].scopes), writing[h].status>>}

\* The newest row that does not stay is looked up, of all that were ever added...
TrimFind(h) ==
    /\ writing[h].step = "trim" /\ writing[h].scopes # <<>> /\ writing[h].bound = 0
    /\ LET rows == Rows(Head(writing[h].scopes), writing[h].status)
           over == {r \in rows : Newer(r, rows) = Keep(writing[h].status)} IN
       writing' = IF over = {} THEN Next1(h)
                  ELSE [writing EXCEPT ![h].bound = (CHOOSE r \in over : TRUE).at]
    /\ Kept(h)
    /\ UNCHANGED <<courier, settings, outside, content, job, inbox, clock, sent, crashes, failures>>

\* ...and it and the older ones are deleted, as far as they still have the status.
TrimDelete(h) ==
    /\ writing[h].step = "trim" /\ writing[h].bound > 0
    /\ inbox' = inbox \ {r \in Rows(Head(writing[h].scopes), writing[h].status) : r.at <= writing[h].bound}
    /\ writing' = Next1(h)
    /\ UNCHANGED <<courier, settings, outside, content, job, clock, sent, unkept, crashes, failures>>

-----------------------------------------------------------------------------
(* Requests: messages by writing, reading. *)

\* OrganizationMessagesService.deliver, once the client has been looked up.
MessageFind(q, m, p) ==
    /\ Does("message") /\ writing[q] = Idle /\ live /\ account[p].live
    /\ changes < Bounds.changes /\ changes' = changes + 1
    /\ writing' = [writing EXCEPT ![q] = [step |-> "create", source |-> m, user |-> p]]
    /\ UNCHANGED <<courier, settings, account, live, template, content, job, inbox, clock, sent, unkept, crashes, failures>>

MessageCreate(q) ==
    /\ writing[q].step = "create"
    /\ inbox' = inbox \cup {Row(writing[q].source, "client", writing[q].user, clock + 1)}
    /\ clock' = clock + 1
    /\ writing' = [writing EXCEPT ![q] = Trim(<<writing[q].user>>, "unread")]
    /\ UNCHANGED <<courier, settings, outside, content, job, sent, unkept, crashes, failures>>

\* visible: one's own rows, and as staff those about others.
\* (Mutant: those about oneself too.)
VisibleAll(p) == {r \in inbox : r.user = p \/ (p \in Staff /\ r.audience = "staff")}
Visible(p) == {r \in inbox : r.user = p \/ (p \in Staff /\ r.audience = "staff" /\ r.subject # p)}

ReadThen(q, rows, scopes) ==
    /\ writing[q] = Idle /\ rows # {}
    /\ changes < Bounds.changes /\ changes' = changes + 1
    /\ inbox' = (inbox \ rows) \cup {[r EXCEPT !.status = "read"] : r \in rows}
    /\ writing' = [writing EXCEPT ![q] = Trim(scopes, "read")]
    /\ UNCHANGED <<courier, settings, account, live, template, content, job, clock, sent, unkept, crashes, failures>>

MarkRead(q, p) ==
    /\ Does("read") /\ account[p].live
    /\ \E r \in Visible(p) : r.status = "unread" /\ ReadThen(q, {r}, <<Scope(r)>>)

\* `before` is the creation of some row, or later than all.
MarkAllRead(q, p) ==
    /\ Does("read") /\ account[p].live
    /\ \E before \in {r.at : r \in Visible(p)} :
          ReadThen(q, {r \in Visible(p) : r.status = "unread" /\ r.at <= before},
                   IF p \in Staff THEN <<p, "staff">> ELSE <<p>>)

Answer(q) ==
    /\ writing[q].step = "trim" /\ writing[q].scopes = <<>>
    /\ writing' = [writing EXCEPT ![q] = Idle]
    /\ UNCHANGED <<courier, settings, outside, content, job, inbox, clock, sent, unkept, crashes, failures>>

-----------------------------------------------------------------------------
(* What changes meanwhile. *)

Changed == changes < Bounds.changes /\ changes' = changes + 1

ChangeAccount(p) ==
    /\ Does("change_account") /\ account[p].live /\ Changed
    /\ \/ account' = [account EXCEPT ![p].email = ~@]
       \/ account' = [account EXCEPT ![p].reminders = ~@]
    /\ UNCHANGED <<courier, settings, live, template, content, job, writing, inbox, clock, sent, unkept, crashes, failures>>

\* save: what is saved compiles, but may render to nothing; reset.
ChangeTemplate(channel) ==
    /\ Does("change_template") /\ live /\ Changed
    /\ \E text \in {"none", "good", "empty"} : template' = [template EXCEPT ![channel] = text]
    /\ UNCHANGED <<courier, settings, account, live, content, job, writing, inbox, clock, sent, unkept, crashes, failures>>

\* In the transaction that deletes them: an event for an active booking, if any.
InItsTransaction(c) ==
    \/ UNCHANGED <<courier, content>>
    \/ \E e \in Events : CommitEvent(e) /\ content' = [content EXCEPT ![e] = c]

\* The hooks of an account's deletion.
DeleteAccount(p) ==
    /\ Does("delete_account") /\ account[p].live /\ Changed
    /\ account' = [account EXCEPT ![p].live = FALSE]
    /\ inbox' = {r \in inbox : r.user # p /\ r.subject # p}
    /\ InItsTransaction(Withdrawn(p))
    /\ UNCHANGED <<settings, live, template, job, writing, clock, sent, unkept, crashes, failures>>

\* The hooks of an organization's deletion.
DeleteOrganization ==
    /\ Does("delete_organization") /\ live /\ Changed
    /\ live' = FALSE
    /\ inbox' = {}
    /\ template' = [x \in DOMAIN template |-> "none"]
    /\ \E p \in People, a \in Staff \cup {None} : InItsTransaction(Bulk("cancelled", p, a, TRUE))
    /\ UNCHANGED <<settings, account, job, writing, clock, sent, unkept, crashes, failures>>

\* An administrator has a failed event delivered again.
Replay(e) == Changed /\ Reopen(e) /\ UNCHANGED <<settings, account, live, template, content, job, writing, inbox, clock, sent, unkept, crashes, failures>>

Busy(h) == writing[h] # Idle \/ (h \in Events /\ job[h] # Idle)
Crash(h) ==
    /\ crashes < Bounds.crashes /\ Busy(h)
    /\ crashes' = crashes + 1
    /\ writing' = [writing EXCEPT ![h] = Idle]
    /\ job' = IF h \in Events THEN [job EXCEPT ![h] = Idle] ELSE job
    /\ unkept' = IF h \in Requests /\ writing[h].step = "trim"
                 THEN unkept \cup {<<writing[h].scopes[i], writing[h].status>> : i \in DOMAIN writing[h].scopes} ELSE unkept
    /\ UNCHANGED <<courier, settings, outside, content, inbox, clock, sent, failures>>

-----------------------------------------------------------------------------
Init ==
    /\ CourierInit
    /\ offered \in DOMAIN Scenarios
    /\ viber \in Scenarios[offered].viber
    /\ template \in [{"mail", "sms", "viber"} -> Scenarios[offered].templates]
    /\ account \in [People -> [live : {TRUE}, email : Scenarios[offered].emails, reminders : {TRUE}]]
    /\ live = TRUE
    /\ content = [e \in Events |-> None]
    /\ job = [e \in Events |-> Idle]
    /\ writing = [h \in Events \cup Requests |-> Idle]
    /\ inbox = {} /\ clock = 0 /\ sent = {} /\ unkept = {}
    /\ changes = 0 /\ crashes = 0 /\ failures = 0

Work(e) ==
    \/ Claim(e) \/ Mail(e) \/ Text(e) \/ Finish(e) \/ InboxFind(e) \/ InboxRefuse(e)
    \/ writing[e] # Idle /\ (InboxInsert(e) \/ InboxDone(e))

Serve(q) ==
    \/ \E p \in People :
          \/ MarkRead(q, p) \/ MarkAllRead(q, p)
          \/ \E m \in Messages : MessageFind(q, m, p)
    \/ writing[q] # Idle /\ (MessageCreate(q) \/ Answer(q))

Next ==
    \/ \E e \in Events : Announce(e) \/ Work(e) \/ Replay(e)
    \/ \E q \in Requests : Serve(q)
    \/ \E h \in Events \cup Requests :
          \/ Crash(h)
          \/ writing[h] # Idle /\ (TrimFind(h) \/ TrimDelete(h))
    \/ \E p \in People : ChangeAccount(p) \/ DeleteAccount(p)
    \/ \E channel \in DOMAIN template : ChangeTemplate(channel)
    \/ DeleteOrganization

Spec == Init /\ [][Next]_vars

-----------------------------------------------------------------------------
(* Properties. *)

\* A person is told of an event in one way, whatever becomes of their address,
\* of the templates and of the providers between the commit and the last
\* attempt: never by mail and by phone both, never with a blank text, and by
\* the time it is recorded as delivered they have been told, if it is an event
\* they are told of and they had not muted it.
ToUser(e) == {s \in sent : s.ev = e /\ s.to = "user"}
OneChannel ==
    \A e \in Events :
        /\ \A s, t \in ToUser(e) : s.by = "mail" <=> t.by = "mail"
        /\ \A s \in ToUser(e) : s.text # "blank"
        /\ LET c == content[e] IN
           state[e] = "delivered" /\ c.type \in Tells /\ NeedsNotice(c) /\ c.reminders /\ (c.email \/ c.phone)
               => ToUser(e) # {}

\* An event has one row for each audience, though it is delivered again after a
\* crash or an attempt that failed half-way; and nobody is shown a row about what
\* they did themselves - but for slots closed or moved as a whole, where
\* everybody booked is told, and for staff who lift a sanction of their own.
FeedIsRight ==
    /\ \A r, s \in inbox : r.source \in Events /\ r.source = s.source /\ r.audience = s.audience => r = s
    /\ \A p \in People : \A r \in Visible(p) : r.source \in Events =>
           LET c == content[r.source] IN c.actor # None /\ ~c.bulk /\ c.type # "lifted" => c.actor.id # p

\* Nobody is told about their own action, of the events of one booking or one
\* account (docs/data-model.md: "Nobody is told about their own action"): not so
\* of staff who did not come to a booking of their own and then lift the sanction
\* or correct the booking themselves, see notices_lift.cfg.
NobodyToldOfOwn ==
    \A p \in People : \A r \in Visible(p) : r.source \in Events =>
        LET c == content[r.source] IN c.actor # None /\ ~c.bulk => c.actor.id # p

\* While the organization exists nobody keeps more rows than allowed, once the
\* handlers and requests that wrote them are through: a worker that died or
\* failed before it trimmed is made good by whoever delivers its event again; a
\* request that died, and a handler whose event was given up, by the next trim of
\* the same rows only.
InFlight(scope, status) ==
    \/ <<scope, status>> \in unkept
    \/ \E h \in {x \in DOMAIN writing : writing[x] # Idle} :
          /\ writing[h].step = "trim" /\ writing[h].status = status
          /\ \E i \in DOMAIN writing[h].scopes : writing[h].scopes[i] = scope
    \/ /\ status = "unread"
       /\ \E e \in Events : /\ state[e] = "pending" /\ "inbox" \notin ledger[e]
                            /\ \E i \in DOMAIN TrimsAfter(e) : TrimsAfter(e)[i] = scope
InboxBounded ==
    live => \A scope \in People \cup {"staff"}, status \in {"unread", "read"} :
        ~InFlight(scope, status) => Cardinality(Rows(scope, status)) <= Keep(status)

\* GET /me/notifications: the unread rows first, then the read ones, newest
\* first, cut into pages out of two queries.
Before(r, s) ==
    \/ r.at > s.at
    \/ r.at = s.at /\ r.audience = "client" /\ s.audience = "staff"
PageOf(rows, skip, limit) ==
    {r \in rows : Cardinality({s \in rows : Before(s, r)}) \in skip .. skip + limit - 1}
Size(rows) == Cardinality(rows)
Most(a, b) == IF a > b THEN a ELSE b
ListUnshifted(unread, read, skip, limit) ==
    LET head == IF skip < Size(unread) THEN PageOf(unread, skip, limit) ELSE {}
    IN head \cup PageOf(read, skip, limit - Size(head))
List(unread, read, skip, limit) ==
    LET head == IF skip < Size(unread) THEN PageOf(unread, skip, limit) ELSE {}
    IN head \cup PageOf(read, Most(0, skip - Size(unread)), limit - Size(head))

\* Page after page shows every row once, in that order, whatever rows there
\* are of each status.
PagesTile ==
    \A p \in People, limit \in 1 .. 3 :
        LET unread == {r \in Visible(p) : r.status = "unread"}
            read == {r \in Visible(p) : r.status = "read"}
            Rank(r) == IF r \in unread THEN Cardinality({s \in unread : Before(s, r)})
                       ELSE Size(unread) + Cardinality({s \in read : Before(s, r)})
        IN \A k \in 0 .. Size(unread) + Size(read) :
              List(unread, read, k * limit, limit)
                  = {r \in Visible(p) : Rank(r) \in k * limit .. k * limit + limit - 1}
=============================================================================
