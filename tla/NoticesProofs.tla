--------------------------- MODULE NoticesProofs ---------------------------
(* What people are told, for any accounts, events, messages, requests and   *)
(* bounds: one channel for each event, a feed of what others did (but for a *)
(* bulk notice, or a sanction of one's own that one lifted),                *)
(* an inbox within its bounds while the organization exists, and pages that *)
(* show every row once.                                                     *)
EXTENDS Notices, FiniteSetTheorems, SequenceTheorems, TLAPS

-----------------------------------------------------------------------------
(* Ranks in a finite set whose elements are in an order.                    *)

IsOrder(before, S) ==
    /\ \A r \in S : <<r, r>> \notin before
    /\ \A r, s, t \in S : <<r, s>> \in before /\ <<s, t>> \in before => <<r, t>> \in before
    /\ \A r, s \in S : r # s => <<r, s>> \in before \/ <<s, r>> \in before

Ranked(before, S) == [r \in S |-> Cardinality({s \in S : <<s, r>> \in before})]

\* Every element has a rank of its own, below the number of elements.
LEMMA RanksDiffer ==
    ASSUME NEW S, IsFiniteSet(S), NEW before, IsOrder(before, S)
    PROVE  Ranked(before, S) \in Injection(S, 0 .. Cardinality(S) - 1)
<1> DEFINE Ahead(r) == {s \in S : <<s, r>> \in before}
           f == Ranked(before, S)
<1>0. Cardinality(S) \in Nat
  BY FS_CardinalityType
<1>1. ASSUME NEW r \in S PROVE IsFiniteSet(Ahead(r)) /\ Cardinality(Ahead(r)) \in Nat
  BY FS_Subset, FS_CardinalityType
<1>2. ASSUME NEW r \in S PROVE Cardinality(Ahead(r)) < Cardinality(S)
  <2>1. Ahead(r) \in SUBSET S /\ r \notin Ahead(r)
    BY DEF IsOrder
  <2>2. Cardinality(Ahead(r)) <= Cardinality(S) /\ Cardinality(Ahead(r)) # Cardinality(S)
    BY <2>1, FS_Subset
  <2> QED BY <2>2, <1>0, <1>1
<1>3. ASSUME NEW r \in S, NEW s \in S, <<r, s>> \in before
      PROVE  Cardinality(Ahead(r)) < Cardinality(Ahead(s))
  <2>1. Ahead(r) \in SUBSET Ahead(s) /\ r \in Ahead(s) /\ r \notin Ahead(r)
    BY <1>3 DEF IsOrder
  <2>2. Cardinality(Ahead(r)) <= Cardinality(Ahead(s)) /\ Cardinality(Ahead(r)) # Cardinality(Ahead(s))
    BY <2>1, <1>1, FS_Subset
  <2> QED BY <2>2, <1>1
<1>4. \A r \in S : f[r] = Cardinality(Ahead(r))
  BY DEF Ranked
<1>5. f \in [S -> 0 .. Cardinality(S) - 1]
  <2>1. ASSUME NEW r \in S PROVE Cardinality(Ahead(r)) \in 0 .. Cardinality(S) - 1
    <3> HIDE DEF Ahead
    <3> QED BY <1>0, <1>1, <1>2
  <2> QED BY <2>1 DEF Ranked
<1>6. \A r, s \in S : f[r] = f[s] => r = s
  <2> SUFFICES ASSUME NEW r \in S, NEW s \in S, r # s PROVE f[r] # f[s]
    OBVIOUS
  <2>1. <<r, s>> \in before \/ <<s, r>> \in before
    BY DEF IsOrder
  <2>2. Cardinality(Ahead(r)) # Cardinality(Ahead(s))
    <3> HIDE DEF Ahead
    <3> QED BY <2>1, <1>1, <1>3
  <2> HIDE DEF f, Ahead
  <2> QED BY <2>2, <1>4
<1> QED BY <1>5, <1>6 DEF Injection, IsInjective

\* Every rank is taken.
LEMMA RanksTaken ==
    ASSUME NEW S, IsFiniteSet(S), NEW before, IsOrder(before, S)
    PROVE  \A k \in 0 .. Cardinality(S) - 1 : \E r \in S : Ranked(before, S)[r] = k
<1> DEFINE n == Cardinality(S)
           f == Ranked(before, S)
<1>0. n \in Nat /\ IsFiniteSet(0 .. n - 1) /\ Cardinality(0 .. n - 1) = n
  <2>1. n \in Nat
    BY FS_CardinalityType
  <2>2. IsFiniteSet(0 .. n - 1) /\ Cardinality(0 .. n - 1) = IF 0 > n - 1 THEN 0 ELSE n - 1 - 0 + 1
    <3> HIDE DEF n
    <3>1. 0 \in Int /\ n - 1 \in Int
      BY <2>1
    <3> QED BY <3>1, FS_Interval
  <2> QED BY <2>1, <2>2
<1>1. f \in Injection(S, 0 .. n - 1)
  BY RanksDiffer
<1>2. f \in Surjection(S, 0 .. n - 1)
  BY <1>0, <1>1, FS_Injection
<1>3. \A k \in 0 .. n - 1 : \E r \in S : f[r] = k
  BY <1>2 DEF Surjection
<1> QED BY <1>3

\* A window of ranks holds as many elements as it is wide.
LEMMA Window ==
    ASSUME NEW S, IsFiniteSet(S), NEW before, IsOrder(before, S),
           NEW W \in SUBSET (0 .. Cardinality(S) - 1)
    PROVE  Cardinality({r \in S : Ranked(before, S)[r] \in W}) = Cardinality(W)
<1> DEFINE n == Cardinality(S)
           f == Ranked(before, S)
           T == {r \in S : f[r] \in W}
           g == [r \in T |-> f[r]]
<1>0. n \in Nat /\ IsFiniteSet(0 .. n - 1) /\ Cardinality(0 .. n - 1) = n
  <2>1. n \in Nat
    BY FS_CardinalityType
  <2>2. IsFiniteSet(0 .. n - 1) /\ Cardinality(0 .. n - 1) = IF 0 > n - 1 THEN 0 ELSE n - 1 - 0 + 1
    <3> HIDE DEF n
    <3>1. 0 \in Int /\ n - 1 \in Int
      BY <2>1
    <3> QED BY <3>1, FS_Interval
  <2> QED BY <2>1, <2>2
<1>1. f \in Injection(S, 0 .. n - 1)
  BY RanksDiffer
<1>3. \A k \in 0 .. n - 1 : \E r \in S : f[r] = k
  BY RanksTaken
<1>4. g \in Injection(T, W)
  BY <1>1 DEF Injection, IsInjective
<1>5. g \in Surjection(T, W)
  <2> SUFFICES ASSUME NEW k \in W PROVE \E r \in T : g[r] = k
    BY <1>4 DEF Surjection, Injection
  <2>1. PICK r \in S : f[r] = k
    BY <1>3
  <2> QED BY <2>1
<1>6. IsFiniteSet(W)
  BY <1>0, FS_Subset
<1>7. Cardinality(T) = Cardinality(W)
  BY <1>4, <1>5, <1>6, FS_Injection
<1> QED BY <1>7

-----------------------------------------------------------------------------
(* What the variables hold.                                                 *)

Owners == People \cup {"staff"}
Statuses == {"unread", "read"}
Jobs == [todo : SUBSET Targets, done : SUBSET Targets]
TrimSteps ==
    {w \in [step : {"trim"}, scopes : Seq(Owners), status : Statuses, bound : Nat] : w.scopes = <<>> => w.bound = 0}
Writings ==
    [step : {"insert"}] \cup [step : {"create"}, source : Messages, user : People] \cup TrimSteps
RowSet ==
    [source : Events \cup Messages, audience : {"client", "staff"}, status : Statuses, at : Nat,
     user : People \cup {None}, subject : People \cup {None}]

Types ==
    /\ state \in [Events -> {"none", "pending", "delivered", "failed"}]
    /\ ledger \in [Events -> SUBSET Targets]
    /\ got \in [Events \X Targets -> 0 .. 2]
    /\ DOMAIN content = Events
    /\ job \in [Events -> {Idle} \cup Jobs]
    /\ writing \in [Events \cup Requests -> {Idle} \cup Writings]
    /\ inbox \in SUBSET RowSet /\ IsFiniteSet(inbox)
    /\ clock \in Nat

\* A row of a client names its owner, one of the staff whom it is about.
Addressed ==
    \A r \in inbox : /\ r.audience = "client" => r.user \in People /\ r.subject = None
                     /\ r.audience = "staff" => r.user = None /\ r.subject \in People

\* Whoever acts is the client of the booking or not, as their kind says, but for
\* a sanction lifted by the one it is about; what comes from a job has no actor.
Proper(c) ==
    /\ c.user \in People
    /\ c.actor # None =>
          /\ c.actor.kind \in {"client", "staff"}
          /\ c.actor.kind = "client" => c.actor.id = c.user
          /\ c.actor.kind = "staff" /\ c.type # "lifted" => c.actor.id # c.user
          /\ c.type \in {"suspended", "lifted"} => c.actor.kind = "staff"
          /\ c.type \notin {"reminder", "slot_available", "callback_due"}
Contents == \A e \in Events : state[e] # "none" => Proper(content[e])

\* A worker has the event to itself, and the inbox in hand is still to be done.
Held(e) ==
    /\ \A x \in ledger[e] : got[<<e, x>>] > 0
    /\ state[e] = "delivered" => ledger[e] = Targets
    /\ job[e] # Idle =>
          /\ state[e] = "pending"
          /\ ledger[e] \subseteq job[e].done /\ job[e].todo \cap job[e].done = {}
          /\ \A x \in job[e].done : got[<<e, x>>] > 0
    /\ writing[e] # Idle =>
          /\ job[e] # Idle /\ "inbox" \in job[e].todo
          /\ writing[e].step \in {"insert", "trim"}
          /\ writing[e].step = "trim" =>
                /\ writing[e].status = "unread"
                /\ \A i \in DOMAIN writing[e].scopes :
                      \E j \in DOMAIN TrimsAfter(e) : TrimsAfter(e)[j] = writing[e].scopes[i]
Delivering == \A e \in Events : Held(e)

\* A row of an event is what the event has to say to that audience, once.
Feed ==
    /\ \A r, s \in inbox : r.source \in Events /\ r.source = s.source /\ r.audience = s.audience => r = s
    /\ \A r \in inbox : r.source \in Events =>
          LET c == content[r.source] IN
          /\ state[r.source] # "none" /\ r.audience \in NotificationsFor(c)
          /\ r.user = (IF r.audience = "client" THEN c.user ELSE None)
          /\ r.subject = (IF r.audience = "staff" THEN c.user ELSE None)

\* What was sent went the way the event says, and a handler that was through
\* with it had sent it.
Told ==
    /\ \A s \in sent : s.to = "user" =>
          /\ s.ev \in Events /\ state[s.ev] # "none" /\ s.text # "blank"
          /\ s.by = "mail" => MailTo(content[s.ev]) = {"user"}
          /\ s.by # "mail" => TextTo(content[s.ev]) = "user"
    /\ \A e \in Events :
          /\ state[e] = "none" => got[<<e, "mail">>] = 0 /\ got[<<e, "phone">>] = 0
          /\ got[<<e, "mail">>] > 0 /\ MailTo(content[e]) = {"user"} => ToUser(e) # {}
          /\ got[<<e, "phone">>] > 0 /\ TextTo(content[e]) = "user" => ToUser(e) # {}

\* No two rows of an owner are of the same moment.
Stamps ==
    /\ \A r \in inbox : r.at \in 1 .. clock
    /\ \A r, s \in inbox : Scope(r) = Scope(s) /\ r.at = s.at => r = s

\* An owner with too many rows is about to be trimmed: by whoever will insert
\* rows again, by a trim that has yet to look, or by one that has found what to
\* delete, unless the one that should have has died or been given up.
Undelivered(e) ==
    /\ state[e] = "pending" /\ "inbox" \notin ledger[e]
    /\ job[e] # Idle => "inbox" \notin job[e].done
    /\ writing[e] # Idle => writing[e].step = "insert"
ToTrim(h, scope, status) ==
    /\ writing[h] # Idle /\ writing[h].step = "trim" /\ writing[h].status = status
    /\ \E i \in DOMAIN writing[h].scopes : writing[h].scopes[i] = scope /\ (i = 1 => writing[h].bound = 0)
Owed(scope, status) ==
    \/ <<scope, status>> \in unkept
    \/ \E h \in Events \cup Requests : ToTrim(h, scope, status)
    \/ status = "unread" /\ \E e \in Events : Undelivered(e) /\ \E i \in DOMAIN TrimsAfter(e) : TrimsAfter(e)[i] = scope
Found(h, scope, status) ==
    /\ writing[h] # Idle /\ writing[h].step = "trim" /\ writing[h].status = status
    /\ writing[h].scopes # <<>> /\ Head(writing[h].scopes) = scope /\ writing[h].bound > 0
    /\ Cardinality({r \in Rows(scope, status) : r.at > writing[h].bound}) <= Keep(status)
InBounds(scope, status) ==
    \/ Cardinality(Rows(scope, status)) <= Keep(status)
    \/ Owed(scope, status)
    \/ \E h \in Events \cup Requests : Found(h, scope, status)
Trimmed == live => \A scope \in Owners, status \in Statuses : InBounds(scope, status)

Inv == Types /\ Addressed /\ Contents /\ Delivering /\ Feed /\ Told /\ Stamps /\ Trimmed

\* The steps, one by one.
LEMMA Steps ==
    ASSUME Next
    PROVE  \/ \E e \in Events :
                 \/ Announce(e) \/ Replay(e) \/ Claim(e) \/ Mail(e) \/ Text(e) \/ Finish(e) \/ InboxFind(e)
                 \/ InboxRefuse(e)
                 \/ writing[e] # Idle /\ InboxInsert(e)
                 \/ writing[e] # Idle /\ InboxDone(e)
           \/ \E q \in Requests :
                 \/ \E p \in People, m \in Messages : MessageFind(q, m, p)
                 \/ \E p \in People : MarkRead(q, p) \/ MarkAllRead(q, p)
                 \/ writing[q] # Idle /\ MessageCreate(q)
                 \/ writing[q] # Idle /\ Answer(q)
           \/ \E h \in Events \cup Requests :
                 \/ Crash(h)
                 \/ writing[h] # Idle /\ TrimFind(h)
                 \/ writing[h] # Idle /\ TrimDelete(h)
           \/ \E p \in People : ChangeAccount(p) \/ DeleteAccount(p)
           \/ \E channel \in DOMAIN template : ChangeTemplate(channel)
           \/ DeleteOrganization
BY Zenon DEF Next, Work, Serve

LEMMA ProperAnnouncement ==
    ASSUME NEW c \in Announcements
    PROVE  Proper(c)
<1>1. \A p, a \in People, b \in BOOLEAN : Proper(Created(p, a, b))
  BY DEF Proper, Created, Actor, Blank
<1>2. \A p, a \in People, from \in {"pending", "confirmed"}, n \in BOOLEAN : Proper(Cancelled(p, a, from, n))
  BY DEF Proper, Cancelled, Noticed, Actor, Blank
<1>3. \A p, a \in People, n \in BOOLEAN : Proper(Rescheduled(p, a, n))
  BY DEF Proper, Rescheduled, Noticed, Actor, Blank
<1>4. \A p \in People, a \in Staff \cup {None}, n \in BOOLEAN, type \in {"cancelled", "rescheduled"} :
          Proper(Bulk(type, p, a, n))
  BY DEF Proper, Bulk, Actor, Blank
<1>5. \A p \in People, a \in People \cup {None}, from, to \in {"pending", "confirmed", "no_show"} :
          Proper(StatusChanged(p, a, from, to))
  BY DEF Proper, StatusChanged, Actor, Blank
<1>6. \A p \in People : Proper(SlotAvailable(p)) /\ \A b \in BOOLEAN : Proper(Reminder(p, b))
  BY DEF Proper, Reminder, SlotAvailable, Blank
<1>7. /\ \A p \in People : Proper(Suspended(p, None)) /\ \A a \in Staff : Proper(Lifted(p, a))
      /\ \A p \in Clients, a \in Staff : Proper(Suspended(p, a))
  BY SizesAssumption DEF Proper, Suspended, Lifted, Blank, Clients
<1>8. Clients \subseteq People /\ Staff \subseteq People
  BY SizesAssumption DEF Clients
<1> DEFINE
    S1 == {Created(p, p, subscribe) : p \in People, subscribe \in BOOLEAN}
    S2 == {Created(p, a, subscribe) : p \in Clients, a \in Staff, subscribe \in BOOLEAN}
    S3 == {Cancelled(p, a, from, notify) : p \in People, a \in Staff \cup Clients,
                                          from \in {"pending", "confirmed"}, notify \in BOOLEAN}
    S4 == {Rescheduled(p, a, notify) : p \in People, a \in Staff \cup Clients, notify \in BOOLEAN}
    S5 == {Bulk("cancelled", p, a, notify) : p \in People, a \in Staff \cup {None}, notify \in BOOLEAN}
    S6 == {Bulk("rescheduled", p, a, notify) : p \in People, a \in Staff, notify \in BOOLEAN}
    S7 == {StatusChanged(p, a, "pending", "confirmed") : p, a \in People}
    S8 == {StatusChanged(p, a, "confirmed", "no_show") : p \in People, a \in Staff \cup {None}}
    S9 == {Reminder(p, callback) : p \in People, callback \in BOOLEAN}
    S10 == {SlotAvailable(p) : p \in People}
    S11 == {Suspended(p, None) : p \in People}
    S12 == {Suspended(p, a) : p \in Clients, a \in Staff}
    S13 == {Lifted(p, a) : p \in People, a \in Staff}
<1>9. c \in S1 => Proper(c)
  BY <1>1, <1>8
<1>10. c \in S2 => Proper(c)
  BY <1>1, <1>8
<1>11. c \in S3 => Proper(c)
  BY <1>2, <1>8
<1>12. c \in S4 => Proper(c)
  BY <1>3, <1>8
<1>13. c \in S5 => Proper(c)
  BY <1>4
<1>14. c \in S6 => Proper(c)
  BY <1>4
<1>15. c \in S7 => Proper(c)
  BY <1>5
<1>16. c \in S8 => Proper(c)
  BY <1>5, <1>8
<1>17. c \in S9 => Proper(c)
  BY <1>6
<1>18. c \in S10 => Proper(c)
  BY <1>6
<1>19. c \in S11 => Proper(c)
  BY <1>7
<1>20. c \in S12 => Proper(c)
  BY <1>7
<1>22. c \in S13 => Proper(c)
  BY <1>7
<1> HIDE DEF S1, S2, S3, S4, S5, S6, S7, S8, S9, S10, S11, S12, S13, Clients
<1>21. \/ c \in S1 \/ c \in S2 \/ c \in S3 \/ c \in S4 \/ c \in S5 \/ c \in S6
       \/ c \in S7 \/ c \in S8 \/ c \in S9 \/ c \in S10 \/ c \in S11 \/ c \in S12 \/ c \in S13
  BY DEF Announcements, Saying, S1, S2, S3, S4, S5, S6, S7, S8, S9, S10, S11, S12, S13
<1> QED
  BY <1>9, <1>10, <1>11, <1>12, <1>13, <1>14, <1>15, <1>16, <1>17, <1>18, <1>19, <1>20, <1>21, <1>22

LEMMA ProperDeletion ==
    ASSUME NEW p \in People
    PROVE  /\ Proper(Withdrawn(p))
           /\ \A a \in Staff \cup {None} : Proper(Bulk("cancelled", p, a, TRUE))
BY SizesAssumption DEF Proper, Withdrawn, Bulk, Actor, Blank, Client

-----------------------------------------------------------------------------
(* Types.                                                                   *)

Basis == Types /\ Addressed /\ Contents /\ Delivering

LEMMA Appended ==
    ASSUME NEW S, NEW s \in Seq(S), NEW y \in S
    PROVE  /\ Append(s, y) \in Seq(S) /\ Len(Append(s, y)) = Len(s) + 1
           /\ \A i \in 1 .. Len(s) : Append(s, y)[i] = s[i]
           /\ Append(s, y)[Len(s) + 1] = y
BY AppendProperties

\* The owners of the rows that an event has for some audiences.
LEMMA ScopesAre ==
    ASSUME NEW e, NEW audiences, content[e].user \in People
    PROVE  /\ ScopesOf(e, audiences) \in Seq(Owners)
           /\ \A scope : (\E i \in DOMAIN ScopesOf(e, audiences) : ScopesOf(e, audiences)[i] = scope)
                 <=> \/ "client" \in audiences /\ scope = content[e].user
                     \/ "staff" \in audiences /\ scope = "staff"
<1> DEFINE u == content[e].user
<1>1. CASE "client" \in audiences /\ "staff" \in audiences
  <2> DEFINE own == << u >>
             last == "staff"
             both == Append(own, last)
  <2>1. ScopesOf(e, audiences) = both
    BY <1>1 DEF ScopesOf
  <2>2. own \in Seq(Owners) /\ Len(own) = 1 /\ own[1] = u /\ last \in Owners
    BY DEF Owners
  <2> HIDE DEF own, last
  <2>3. /\ both \in Seq(Owners) /\ Len(both) = 2 /\ both[2] = last /\ both[1] = u
    <3>1. /\ both \in Seq(Owners) /\ Len(both) = Len(own) + 1
          /\ \A i \in 1 .. Len(own) : both[i] = own[i]
          /\ both[Len(own) + 1] = last
      BY <2>2, Appended, Zenon
    <3> HIDE DEF both
    <3>2. 1 \in 1 .. Len(own) /\ Len(own) + 1 = 2
      BY <2>2
    <3> QED BY <3>1, <3>2, <2>2
  <2> HIDE DEF both
  <2>4. DOMAIN both = {1, 2}
    BY <2>3
  <2> QED BY <1>1, <2>1, <2>3, <2>4 DEF last
<1>2. CASE "client" \in audiences /\ "staff" \notin audiences
  <2>1. ScopesOf(e, audiences) = << u >>
    BY <1>2 DEF ScopesOf
  <2> QED BY <1>2, <2>1 DEF Owners
<1>3. CASE "client" \notin audiences /\ "staff" \in audiences
  <2>1. ScopesOf(e, audiences) = << "staff" >>
    BY <1>3 DEF ScopesOf
  <2> QED BY <1>3, <2>1 DEF Owners
<1>4. CASE "client" \notin audiences /\ "staff" \notin audiences
  <2>1. ScopesOf(e, audiences) = << >>
    BY <1>4 DEF ScopesOf
  <2> QED BY <1>4, <2>1 DEF Owners
<1> QED BY <1>1, <1>2, <1>3, <1>4

\* What a handler or a request has in hand when it is not idle.
LEMMA InHand ==
    ASSUME Basis, NEW h \in Events \cup Requests, writing[h] # Idle
    PROVE  /\ writing[h] \in Writings
           /\ writing[h].step = "trim" => writing[h] \in TrimSteps
           /\ writing[h].step = "create" => writing[h].source \in Messages /\ writing[h].user \in People
           /\ h \in Events => /\ job[h] \in Jobs /\ state[h] = "pending" /\ Proper(content[h])
                              /\ "inbox" \in job[h].todo
BY Zenon DEF Basis, Types, Contents, Delivering, Held, Writings, TrimSteps, Jobs

\* New rows, and those of a message.
LEMMA NewRowsAre ==
    ASSUME Basis, NEW e \in Events, Proper(content[e])
    PROVE  /\ NewRows(e) \in SUBSET RowSet /\ IsFiniteSet(NewRows(e))
           /\ \A r \in NewRows(e) :
                 /\ r.source = e /\ r.at = clock + 1 /\ r.status = "unread"
                 /\ r.audience \in NotificationsFor(content[e]) /\ r.audience \in {"client", "staff"}
                 /\ r.user = (IF r.audience = "client" THEN content[e].user ELSE None)
                 /\ r.subject = (IF r.audience = "staff" THEN content[e].user ELSE None)
                 /\ ~\E s \in inbox : s.source = e /\ s.audience = r.audience
           /\ \A r, s \in NewRows(e) : r.audience = s.audience => r = s
<1> DEFINE A == {y \in NotificationsFor(content[e]) : ~\E r \in inbox : r.source = e /\ r.audience = y}
           F(x) == Row(e, x, content[e].user, clock + 1)
<1>1. A \subseteq {"client", "staff"} /\ IsFiniteSet(A)
  <2>1. A \in SUBSET {"client", "staff"}
    BY DEF NotificationsFor
  <2>2. IsFiniteSet({"client"} \cup {"staff"})
    BY FS_Singleton, FS_Union
  <2>3. {"client"} \cup {"staff"} = {"client", "staff"}
    OBVIOUS
  <2> QED BY <2>1, <2>2, <2>3, FS_Subset
<1>2. NewRows(e) = {F(x) : x \in A}
  BY DEF NewRows
<1>3. IsFiniteSet(NewRows(e))
  <2> DEFINE g == [x \in A |-> F(x)]
  <2>1. g \in Surjection(A, NewRows(e))
    BY <1>2 DEF Surjection
  <2> QED BY <2>1, <1>1, FS_Surjection
<1>4. clock + 1 \in Nat /\ content[e].user \in People
  BY DEF Basis, Types, Proper
<1> DEFINE c1 == clock + 1
<1> HIDE DEF c1
<1>5. \A x \in {"client", "staff"} : Row(e, x, content[e].user, c1) \in RowSet
  BY <1>4 DEF Row, RowSet, Statuses, c1
<1>6. \A x \in A : F(x) \in RowSet
  BY <1>1, <1>5 DEF c1
<1> QED BY <1>2, <1>3, <1>6, <1>1 DEF Row

\* Rows of an event are added, all that are new or some of them.
Adds(e, rows) ==
    /\ Proper(content[e]) /\ state[e] = "pending"
    /\ inbox' = inbox \cup rows /\ clock' = IF rows = {} THEN clock ELSE clock + 1

\* The inbox handler fails: some rows may be in, and nothing else has changed.
LEMMA RefusalIs ==
    ASSUME Basis, NEW e \in Events, InboxRefuse(e)
    PROVE  /\ \E rows \in SUBSET NewRows(e) : Adds(e, rows)
           /\ job[e] \in Jobs /\ "inbox" \in job[e].todo /\ Refuse(e, "inbox")
           /\ UNCHANGED <<courier, content, sent, unkept, live>>
           /\ job' = [job EXCEPT ![e].todo = @ \ {"inbox"}]
           /\ writing' = [writing EXCEPT ![e] = Idle]
<1>1. /\ UNCHANGED <<courier, content, sent, unkept, live>>
      /\ job' = [job EXCEPT ![e].todo = @ \ {"inbox"}]
      /\ writing' = [writing EXCEPT ![e] = Idle] /\ Refuse(e, "inbox")
  BY Zenon DEF InboxRefuse, Refuse, outside
<1>2. job[e] # Idle /\ "inbox" \in job[e].todo
  <2>1. Trying(e, "inbox") \/ writing[e] # Idle
    BY Zenon DEF InboxRefuse
  <2> QED BY <2>1 DEF Trying, Basis, Delivering, Held
<1>3. job[e] \in Jobs /\ state[e] = "pending" /\ Proper(content[e])
  BY <1>2, Zenon DEF Basis, Types, Contents, Delivering, Held
<1>4. \E rows \in SUBSET NewRows(e) : inbox' = inbox \cup rows /\ clock' = IF rows = {} THEN clock ELSE clock + 1
  <2>1. CASE UNCHANGED <<inbox, clock>>
    <3>1. {} \in SUBSET NewRows(e) /\ inbox' = inbox \cup {} /\ clock' = IF {} = {} THEN clock ELSE clock + 1
      BY <2>1
    <3> QED BY <3>1
  <2>2. CASE \E rows \in SUBSET NewRows(e) : inbox' = inbox \cup rows /\ clock' = IF rows = {} THEN clock ELSE clock + 1
    BY <2>2
  <2> QED BY <2>1, <2>2, Zenon DEF InboxRefuse
<1> QED BY <1>1, <1>2, <1>3, <1>4, Zenon DEF Adds

LEMMA MessageRow ==
    ASSUME Basis, NEW q \in Requests, writing[q] # Idle, writing[q].step = "create"
    PROVE  /\ Row(writing[q].source, "client", writing[q].user, clock + 1) \in RowSet
           /\ clock + 1 \in Nat /\ writing[q].source \in Messages /\ writing[q].user \in People
<1>1. writing[q].source \in Messages /\ writing[q].user \in People
  BY InHand
<1>2. clock + 1 \in Nat
  BY DEF Basis, Types
<1> QED BY <1>1, <1>2 DEF Row, RowSet, Statuses

\* Reading marks rows and keeps the rest of them.
LEMMA ReadRows ==
    ASSUME Basis, NEW rows \in SUBSET inbox
    PROVE  /\ {[r EXCEPT !.status = "read"] : r \in rows} \in SUBSET RowSet
           /\ IsFiniteSet((inbox \ rows) \cup {[r EXCEPT !.status = "read"] : r \in rows})
           /\ \A r \in RowSet : LET s == [r EXCEPT !.status = "read"] IN
                 /\ s.source = r.source /\ s.audience = r.audience /\ s.at = r.at
                 /\ s.user = r.user /\ s.subject = r.subject /\ s.status = "read" /\ Scope(s) = Scope(r)
<1> DEFINE marked == {[r EXCEPT !.status = "read"] : r \in rows}
           g == [r \in rows |-> [r EXCEPT !.status = "read"]]
<1>1. rows \in SUBSET RowSet /\ IsFiniteSet(rows) /\ IsFiniteSet(inbox \ rows)
  BY FS_Subset DEF Basis, Types
<1>2. marked \in SUBSET RowSet
  BY <1>1 DEF RowSet, Statuses
<1>3. g \in Surjection(rows, marked)
  BY DEF Surjection
<1>4. IsFiniteSet(marked)
  BY <1>1, <1>3, FS_Surjection
<1>5. IsFiniteSet((inbox \ rows) \cup marked)
  BY <1>1, <1>4, FS_Union
<1>6. ASSUME NEW r \in RowSet
      PROVE  LET s == [r EXCEPT !.status = "read"] IN
                /\ s.source = r.source /\ s.audience = r.audience /\ s.at = r.at
                /\ s.user = r.user /\ s.subject = r.subject /\ s.status = "read" /\ Scope(s) = Scope(r)
  BY DEF RowSet, Scope
<1> QED BY <1>2, <1>5, <1>6

\* The inbox gets the rows of an event or of a message, some are marked, or some go.
LEMMA InboxSteps ==
    ASSUME Basis, [Next]_vars
    PROVE  \/ inbox' \in SUBSET inbox /\ clock' = clock
           \/ \E e \in Events : \E rows \in SUBSET NewRows(e) : Adds(e, rows)
           \/ \E q \in Requests : writing[q] # Idle /\ MessageCreate(q)
           \/ \E q \in Requests, rows \in SUBSET inbox : \E scopes : ReadThen(q, rows, scopes)
<1> DEFINE Less == inbox' \in SUBSET inbox /\ clock' = clock
           Some == \E e \in Events : \E rows \in SUBSET NewRows(e) : Adds(e, rows)
           Reads == \E q \in Requests, rows \in SUBSET inbox : \E scopes : ReadThen(q, rows, scopes)
<1>1. ASSUME NEW q \in Requests, NEW p \in People, MarkRead(q, p) PROVE Reads
  BY <1>1 DEF MarkRead, Visible
<1>2. ASSUME NEW q \in Requests, NEW p \in People, MarkAllRead(q, p) PROVE Reads
  <2> PICK before : ReadThen(q, {r \in Visible(p) : r.status = "unread" /\ r.at <= before},
                             IF p \in Staff THEN << p, "staff" >> ELSE << p >>)
    BY <1>2 DEF MarkAllRead
  <2>1. {r \in Visible(p) : r.status = "unread" /\ r.at <= before} \in SUBSET inbox
    BY DEF Visible
  <2> QED BY <2>1
<1> HIDE DEF Reads
<1>3. UNCHANGED vars => Less
  BY DEF vars
<1>4. ASSUME NEW e \in Events
      PROVE  Announce(e) \/ Replay(e) \/ Claim(e) \/ Mail(e) \/ Text(e) \/ Finish(e) \/ InboxFind(e) \/ InboxDone(e)
             => inbox' = inbox /\ clock' = clock
  BY Zenon DEF Announce, Replay, Claim, Mail, Text, Finish, InboxFind, InboxDone
<1>5. ASSUME NEW q \in Requests
      PROVE  Answer(q) \/ (\E p \in People, m \in Messages : MessageFind(q, m, p)) => inbox' = inbox /\ clock' = clock
  BY Zenon DEF Answer, MessageFind
<1>6. ASSUME NEW h \in Events \cup Requests
      PROVE  /\ Crash(h) \/ TrimFind(h) => inbox' = inbox /\ clock' = clock
             /\ TrimDelete(h) => Less
  BY DEF Crash, TrimFind, TrimDelete
<1>7. ASSUME NEW p \in People PROVE ChangeAccount(p) \/ DeleteAccount(p) => Less
  BY DEF ChangeAccount, DeleteAccount
<1>8. ASSUME NEW channel PROVE ChangeTemplate(channel) => inbox' = inbox /\ clock' = clock
  BY Zenon DEF ChangeTemplate
<1>9. DeleteOrganization => Less
  BY DEF DeleteOrganization
<1>10. inbox' = inbox /\ clock' = clock => Less
  OBVIOUS
<1>12. ASSUME NEW e \in Events, writing[e] # Idle, InboxInsert(e) PROVE Some
  <2>1. Adds(e, NewRows(e))
    BY <1>12, InHand, Zenon DEF InboxInsert, Adds
  <2> QED BY <2>1
<1>13. ASSUME NEW e \in Events, InboxRefuse(e) PROVE Some
  BY <1>13, RefusalIs
<1> HIDE DEF Less, Some
<1>11. CASE Next
  BY <1>11, Steps, <1>1, <1>2, <1>4, <1>5, <1>6, <1>7, <1>8, <1>9, <1>10, <1>12, <1>13, Zenon DEF Less, Reads, Some
<1> QED BY <1>3, <1>11 DEF Less, Some

\* The inbox and the clock keep their types, and their rows their owners.
LEMMA InboxTypes ==
    ASSUME Basis, [Next]_vars
    PROVE  inbox' \in SUBSET RowSet /\ IsFiniteSet(inbox') /\ clock' \in Nat /\ Addressed'
<1>0. inbox \in SUBSET RowSet /\ IsFiniteSet(inbox) /\ clock \in Nat /\ Addressed
  BY DEF Basis, Types
<1>1. ASSUME inbox' \in SUBSET inbox, clock' = clock
      PROVE  inbox' \in SUBSET RowSet /\ IsFiniteSet(inbox') /\ clock' \in Nat /\ Addressed'
  BY <1>0, <1>1, FS_Subset DEF Addressed
<1>2. ASSUME NEW e \in Events, NEW rows \in SUBSET NewRows(e), Adds(e, rows)
      PROVE  inbox' \in SUBSET RowSet /\ IsFiniteSet(inbox') /\ clock' \in Nat /\ Addressed'
  <2>1. inbox' = inbox \cup rows /\ clock' = IF rows = {} THEN clock ELSE clock + 1
    BY <1>2 DEF Adds
  <2>2. Proper(content[e]) /\ content[e].user \in People
    BY <1>2 DEF Proper, Adds
  <2>3. /\ rows \in SUBSET RowSet /\ IsFiniteSet(rows)
        /\ \A r \in rows : r.user = (IF r.audience = "client" THEN content[e].user ELSE None)
                           /\ r.subject = (IF r.audience = "staff" THEN content[e].user ELSE None)
    BY <2>2, NewRowsAre, FS_Subset
  <2>4. Addressed'
    BY <2>1, <2>2, <2>3, <1>0 DEF Addressed
  <2>5. IsFiniteSet(inbox')
    BY <2>1, <2>3, <1>0, FS_Union
  <2>6. clock' \in Nat
    BY <2>1, <1>0
  <2> QED BY <2>1, <2>3, <2>4, <2>5, <2>6, <1>0
<1>3. ASSUME NEW q \in Requests, writing[q] # Idle, MessageCreate(q)
      PROVE  inbox' \in SUBSET RowSet /\ IsFiniteSet(inbox') /\ clock' \in Nat /\ Addressed'
  <2> DEFINE new == Row(writing[q].source, "client", writing[q].user, clock + 1)
  <2>1. writing[q].step = "create" /\ clock' = clock + 1 /\ inbox' = inbox \cup {new}
    BY <1>3 DEF MessageCreate
  <2>2. new \in RowSet /\ writing[q].user \in People
    BY <1>3, <2>1, MessageRow
  <2>3. Addressed'
    BY <2>1, <2>2, <1>0 DEF Addressed, Row
  <2> HIDE DEF new
  <2> QED BY <2>1, <2>2, <2>3, <1>0, FS_AddElement
<1>4. ASSUME NEW q \in Requests, NEW rows \in SUBSET inbox, NEW scopes, ReadThen(q, rows, scopes)
      PROVE  inbox' \in SUBSET RowSet /\ IsFiniteSet(inbox') /\ clock' \in Nat /\ Addressed'
  <2>1. /\ inbox' = (inbox \ rows) \cup {[r EXCEPT !.status = "read"] : r \in rows}
        /\ clock' = clock
    BY <1>4 DEF ReadThen
  <2>2. ASSUME NEW r \in inbox'
        PROVE  /\ r.audience = "client" => r.user \in People /\ r.subject = None
               /\ r.audience = "staff" => r.user = None /\ r.subject \in People
    <3>1. CASE r \in inbox
      BY <3>1, <1>0 DEF Addressed
    <3>2. CASE r \notin inbox
      <4>1. PICK s \in rows : r = [s EXCEPT !.status = "read"]
        BY <2>1, <3>2
      <4>2. s \in inbox /\ s \in RowSet
        BY <1>0
      <4>3. r.audience = s.audience /\ r.user = s.user /\ r.subject = s.subject
        BY <4>1, <4>2 DEF RowSet
      <4> QED BY <4>2, <4>3, <1>0 DEF Addressed
    <3> QED BY <3>1, <3>2
  <2>3. Addressed'
    BY <2>2 DEF Addressed
  <2> QED BY <2>1, <2>3, <1>0, ReadRows
<1> QED BY InboxSteps, <1>1, <1>2, <1>3, <1>4

\* What becomes of the copies of events...
LEMMA JobTypes ==
    ASSUME Basis, [Next]_vars
    PROVE  job' \in [Events -> {Idle} \cup Jobs]
<1>0. job \in [Events -> {Idle} \cup Jobs] /\ ledger \in [Events -> SUBSET Targets]
  BY DEF Basis, Types
<1> DEFINE Typed == job' \in [Events -> {Idle} \cup Jobs]
<1>1. ASSUME NEW e \in Events, Claim(e) PROVE Typed
  BY <1>1, <1>0 DEF Claim, Jobs
<1>2. ASSUME NEW e \in Events, NEW x \in Targets, job[e] # Idle, Acknowledge(e, x) PROVE Typed
  BY <1>2, <1>0 DEF Acknowledge, Jobs
<1>3. ASSUME NEW e \in Events, NEW x \in Targets, job[e] # Idle, Refuse(e, x) PROVE Typed
  BY <1>3, <1>0 DEF Refuse, Jobs
<1>4. ASSUME NEW e \in Events, Finish(e) PROVE Typed
  BY <1>4, <1>0 DEF Finish
<1>5. ASSUME NEW h \in Events \cup Requests, Crash(h) PROVE Typed
  BY <1>5, <1>0 DEF Crash
<1>6. job' = job => Typed
  BY <1>0
<1> HIDE DEF Typed
<1>7. "mail" \in Targets /\ "phone" \in Targets /\ "inbox" \in Targets
  BY TargetsAssumption
<1>8. ASSUME NEW e \in Events, Mail(e) PROVE Typed
  BY <1>8, <1>2, <1>3, <1>7 DEF Mail, Trying
<1>9. ASSUME NEW e \in Events, Text(e) PROVE Typed
  BY <1>9, <1>2, <1>3, <1>7 DEF Text, Trying
<1>10. ASSUME NEW e \in Events, InboxFind(e) PROVE Typed
  BY <1>10, <1>2, <1>6, <1>7 DEF InboxFind, Trying
<1>11. ASSUME NEW e \in Events, writing[e] # Idle, InboxDone(e) PROVE Typed
  <2>1. job[e] # Idle
    BY <1>11 DEF Basis, Delivering, Held
  <2> QED BY <1>11, <2>1, <1>2, <1>7 DEF InboxDone
<1>12. ASSUME NEW e \in Events PROVE Announce(e) \/ Replay(e) \/ InboxInsert(e) => Typed
  BY <1>6, Zenon DEF Announce, Replay, InboxInsert
<1>13. ASSUME NEW q \in Requests, NEW p \in People PROVE MarkRead(q, p) \/ MarkAllRead(q, p) => Typed
  BY <1>6, Zenon DEF MarkRead, MarkAllRead, ReadThen
<1>14. ASSUME NEW q \in Requests
       PROVE  MessageCreate(q) \/ Answer(q) \/ (\E p \in People, m \in Messages : MessageFind(q, m, p)) => Typed
  BY <1>6, Zenon DEF MessageCreate, Answer, MessageFind
<1>15. ASSUME NEW h \in Events \cup Requests PROVE TrimFind(h) \/ TrimDelete(h) => Typed
  BY <1>6, Zenon DEF TrimFind, TrimDelete
<1>16. ASSUME NEW p \in People PROVE ChangeAccount(p) \/ DeleteAccount(p) => Typed
  BY <1>6, Zenon DEF ChangeAccount, DeleteAccount
<1>17. ASSUME NEW channel PROVE ChangeTemplate(channel) => Typed
  BY <1>6, Zenon DEF ChangeTemplate
<1>18. DeleteOrganization \/ UNCHANGED vars => Typed
  BY <1>6, Zenon DEF DeleteOrganization, vars
<1>20. ASSUME NEW e \in Events, InboxRefuse(e) PROVE Typed
  <2>1. job[e] # Idle /\ Refuse(e, "inbox")
    BY <1>20, RefusalIs, NamesAssumption DEF Jobs
  <2> QED BY <2>1, <1>3, <1>7
<1>19. CASE Next
  BY <1>19, Steps, <1>1, <1>4, <1>5, <1>8, <1>9, <1>10, <1>11, <1>12, <1>13, <1>14, <1>15, <1>16, <1>17, <1>18, <1>20,
     Zenon DEF Typed
<1> QED BY <1>18, <1>19 DEF Typed

\* ...and of what is in hand.
LEMMA NextScope ==
    ASSUME Basis, NEW h \in Events \cup Requests, writing[h] # Idle, writing[h].step = "trim", writing[h].scopes # <<>>
    PROVE  /\ Next1(h) \in [Events \cup Requests -> {Idle} \cup Writings]
           /\ Next1(h)[h] \in TrimSteps /\ Next1(h)[h].scopes = Tail(writing[h].scopes)
           /\ Next1(h)[h].status = writing[h].status /\ Next1(h)[h].bound = 0
           /\ \A k \in Events \cup Requests : k # h => Next1(h)[k] = writing[k]
           /\ Head(writing[h].scopes) \in Owners
<1>1. writing[h] \in TrimSteps /\ writing \in [Events \cup Requests -> {Idle} \cup Writings]
  BY InHand DEF Basis, Types
<1>2. Tail(writing[h].scopes) \in Seq(Owners) /\ Head(writing[h].scopes) \in Owners
  BY <1>1 DEF TrimSteps
<1> DEFINE w == writing[h]
           t == Tail(w.scopes)
           v == [w EXCEPT !.scopes = t, !.bound = 0]
<1>3. Next1(h) = [writing EXCEPT ![h] = v]
  BY <1>1, Zenon DEF Next1
<1>4. v \in TrimSteps /\ v.scopes = t /\ v.status = w.status /\ v.bound = 0
  <2>1. w \in TrimSteps /\ t \in Seq(Owners)
    BY <1>1, <1>2
  <2> HIDE DEF w, t
  <2> QED BY <2>1 DEF TrimSteps
<1> HIDE DEF v
<1> QED BY <1>1, <1>2, <1>3, <1>4 DEF Writings

\* A trim that starts, and one that has found what to delete.
LEMMA TrimStarts ==
    ASSUME NEW scopes \in Seq(Owners), NEW status \in Statuses
    PROVE  /\ Trim(scopes, status) \in TrimSteps /\ Trim(scopes, status) \in Writings
           /\ Trim(scopes, status).step = "trim" /\ Trim(scopes, status).scopes = scopes
           /\ Trim(scopes, status).status = status /\ Trim(scopes, status).bound = 0
BY DEF Trim, TrimSteps, Writings

Over(h) ==
    LET rows == Rows(Head(writing[h].scopes), writing[h].status)
    IN {r \in rows : Newer(r, rows) = Keep(writing[h].status)}

LEMMA TrimFinds ==
    ASSUME Basis, NEW h \in Events \cup Requests, writing[h] # Idle, TrimFind(h)
    PROVE  /\ writing[h].step = "trim" /\ writing[h] \in TrimSteps /\ writing[h].scopes # <<>> /\ writing[h].bound = 0
           /\ Over(h) = {} => writing' = Next1(h)
           /\ Over(h) # {} =>
                 /\ \E r \in Over(h) : r \in inbox /\ writing'[h].bound = r.at
                 /\ writing' \in [Events \cup Requests -> {Idle} \cup Writings]
                 /\ writing'[h] \in TrimSteps /\ writing'[h].scopes = writing[h].scopes
                 /\ writing'[h].status = writing[h].status
                 /\ \A k \in Events \cup Requests : k # h => writing'[k] = writing[k]
<1>1. /\ writing[h].step = "trim" /\ writing[h].scopes # <<>> /\ writing[h].bound = 0
      /\ writing' = IF Over(h) = {} THEN Next1(h)
                    ELSE [writing EXCEPT ![h].bound = (CHOOSE r \in Over(h) : TRUE).at]
  BY Zenon DEF TrimFind, Over
<1>2. writing[h] \in TrimSteps /\ writing \in [Events \cup Requests -> {Idle} \cup Writings]
  BY <1>1, InHand DEF Basis, Types
<1>3. ASSUME Over(h) # {}
      PROVE  /\ \E r \in Over(h) : r \in inbox /\ writing'[h].bound = r.at
             /\ writing' \in [Events \cup Requests -> {Idle} \cup Writings]
             /\ writing'[h] \in TrimSteps /\ writing'[h].scopes = writing[h].scopes
             /\ writing'[h].status = writing[h].status
             /\ \A k \in Events \cup Requests : k # h => writing'[k] = writing[k]
  <2> DEFINE o == CHOOSE r \in Over(h) : TRUE
             w == writing[h]
             at == o.at
             v == [w EXCEPT !.bound = at]
  <2>1. o \in Over(h) /\ o \in inbox
    BY <1>3 DEF Over, Rows
  <2>2. at \in Nat
    BY <2>1 DEF Basis, Types, RowSet
  <2>3. writing' = [writing EXCEPT ![h] = v]
    BY <1>1, <1>2, <1>3, Zenon
  <2>4. v \in TrimSteps /\ v.scopes = w.scopes /\ v.status = w.status /\ v.bound = at
    <3>1. w \in TrimSteps /\ w.scopes # <<>>
      BY <1>1, <1>2
    <3> HIDE DEF w, at
    <3> QED BY <2>2, <3>1 DEF TrimSteps
  <2> HIDE DEF v, o
  <2>5. writing'[h] = v
    BY <1>2, <2>3
  <2> QED BY <1>2, <2>1, <2>3, <2>4, <2>5 DEF Writings
<1> QED BY <1>1, <1>2, <1>3

LEMMA TrimDeletes ==
    ASSUME Basis, NEW h \in Events \cup Requests, writing[h] # Idle, TrimDelete(h)
    PROVE  /\ writing[h].step = "trim" /\ writing[h] \in TrimSteps /\ writing[h].scopes # <<>>
           /\ writing[h].bound \in Nat \ {0} /\ writing' = Next1(h)
<1>1. writing[h].step = "trim" /\ writing[h].bound > 0 /\ writing' = Next1(h)
  BY DEF TrimDelete
<1>2. writing[h] \in TrimSteps
  BY <1>1, InHand
<1> QED BY <1>1, <1>2 DEF TrimSteps

\* Rows that are marked are of owners.
LEMMA ReadScopes ==
    ASSUME Basis, NEW q \in Requests, NEW p \in People, MarkRead(q, p) \/ MarkAllRead(q, p)
    PROVE  \E rows \in SUBSET inbox, scopes \in Seq(Owners) :
              /\ ReadThen(q, rows, scopes)
              /\ \A r \in rows : \E i \in DOMAIN scopes : scopes[i] = Scope(r)
<1>1. ASSUME NEW r \in Visible(p)
      PROVE  /\ r \in inbox
             /\ \/ Scope(r) = p
                \/ Scope(r) = "staff" /\ p \in Staff
  <2>1. r \in inbox /\ r \in RowSet /\ None \notin People
    BY NamesAssumption DEF Visible, Basis, Types
  <2>2. r.audience = "client" \/ r.audience = "staff"
    BY <2>1 DEF RowSet
  <2> QED BY <2>1, <2>2 DEF Visible, Scope, Basis, Addressed
<1>2. CASE MarkRead(q, p)
  <2>1. PICK r \in Visible(p) : ReadThen(q, {r}, << Scope(r) >>)
    BY <1>2 DEF MarkRead
  <2> DEFINE o == Scope(r)
  <2>2. o \in Owners
    BY <1>1 DEF Owners
  <2> HIDE DEF o
  <2>3. << o >> \in Seq(Owners) /\ 1 \in DOMAIN << o >> /\ << o >>[1] = o
    BY <2>2
  <2> DEFINE scopes == << o >>
  <2>4. scopes \in Seq(Owners) /\ 1 \in DOMAIN scopes /\ scopes[1] = Scope(r) /\ ReadThen(q, {r}, scopes)
    BY <2>1, <2>3 DEF o
  <2> HIDE DEF scopes
  <2>5. {r} \in SUBSET inbox /\ \A s \in {r} : \E i \in DOMAIN scopes : scopes[i] = Scope(s)
    BY <2>4, <1>1
  <2> QED BY <2>4, <2>5
<1>3. CASE MarkAllRead(q, p)
  <2> DEFINE scopes == IF p \in Staff THEN << p, "staff" >> ELSE << p >>
  <2>1. PICK before : ReadThen(q, {r \in Visible(p) : r.status = "unread" /\ r.at <= before}, scopes)
    BY <1>3 DEF MarkAllRead
  <2> DEFINE rows == {r \in Visible(p) : r.status = "unread" /\ r.at <= before}
  <2>2. CASE p \in Staff
    <3>1. scopes = << p, "staff" >>
      BY <2>2
    <3>2. << p, "staff" >> \in Seq(Owners) /\ DOMAIN << p, "staff" >> = {1, 2}
          /\ << p, "staff" >>[1] = p /\ << p, "staff" >>[2] = "staff"
      BY DEF Owners
    <3>3. scopes \in Seq(Owners) /\ 1 \in DOMAIN scopes /\ 2 \in DOMAIN scopes /\ scopes[1] = p /\ scopes[2] = "staff"
      BY <3>1, <3>2
    <3> HIDE DEF scopes
    <3>4. \A r \in rows : \E i \in DOMAIN scopes : scopes[i] = Scope(r)
      BY <3>3, <1>1
    <3> QED BY <2>1, <3>3, <3>4, <1>1
  <2>3. CASE p \notin Staff
    <3>1. scopes = << p >>
      BY <2>3
    <3>2. << p >> \in Seq(Owners) /\ 1 \in DOMAIN << p >> /\ << p >>[1] = p
      BY DEF Owners
    <3>3. scopes \in Seq(Owners) /\ 1 \in DOMAIN scopes /\ scopes[1] = p
      BY <3>1, <3>2
    <3> HIDE DEF scopes
    <3>4. \A r \in rows : \E i \in DOMAIN scopes : scopes[i] = Scope(r)
      BY <2>3, <3>3, <1>1
    <3> QED BY <2>1, <3>3, <3>4, <1>1
  <2> QED BY <2>2, <2>3
<1> QED BY <1>2, <1>3

LEMMA WritingTypes ==
    ASSUME Basis, [Next]_vars
    PROVE  writing' \in [Events \cup Requests -> {Idle} \cup Writings]
<1>0. writing \in [Events \cup Requests -> {Idle} \cup Writings]
  BY DEF Basis, Types
<1> DEFINE Typed == writing' \in [Events \cup Requests -> {Idle} \cup Writings]
<1>1. ASSUME NEW e \in Events, InboxFind(e) PROVE Typed
  BY <1>1, <1>0 DEF InboxFind, Writings
<1>2. ASSUME NEW e \in Events, writing[e] # Idle, InboxInsert(e) PROVE Typed
  <2>1. TrimsAfter(e) \in Seq(Owners)
    BY <1>2, InHand, ScopesAre DEF TrimsAfter, Proper
  <2>2. writing' = [writing EXCEPT ![e] = Trim(TrimsAfter(e), "unread")]
    BY <1>2 DEF InboxInsert
  <2>3. Trim(TrimsAfter(e), "unread") \in Writings
    BY <2>1, TrimStarts DEF Statuses
  <2> QED BY <2>2, <2>3, <1>0
<1>3. ASSUME NEW e \in Events, InboxDone(e) PROVE Typed
  BY <1>3, <1>0 DEF InboxDone
<1>4. ASSUME NEW h \in Events \cup Requests, writing[h] # Idle, TrimFind(h) PROVE Typed
  BY <1>4, TrimFinds, NextScope
<1>5. ASSUME NEW h \in Events \cup Requests, writing[h] # Idle, TrimDelete(h) PROVE Typed
  BY <1>5, TrimDeletes, NextScope
<1>6. ASSUME NEW h \in Events \cup Requests, Crash(h) PROVE Typed
  BY <1>6, <1>0 DEF Crash
<1>7. ASSUME NEW q \in Requests, NEW m \in Messages, NEW p \in People, MessageFind(q, m, p) PROVE Typed
  BY <1>7, <1>0 DEF MessageFind, Writings
<1>8. ASSUME NEW q \in Requests, writing[q] # Idle, MessageCreate(q) PROVE Typed
  <2> DEFINE u == writing[q].user
  <2>1. writing' = [writing EXCEPT ![q] = Trim(<< u >>, "unread")] /\ writing[q].step = "create"
    BY <1>8 DEF MessageCreate
  <2>2. u \in Owners
    BY <1>8, <2>1, InHand DEF Owners
  <2> HIDE DEF u
  <2>3. << u >> \in Seq(Owners)
    BY <2>2
  <2>4. Trim(<< u >>, "unread") \in Writings
    BY <2>3, TrimStarts DEF Statuses
  <2> QED BY <2>1, <2>4, <1>0
<1>9. ASSUME NEW q \in Requests, NEW p \in People, MarkRead(q, p) \/ MarkAllRead(q, p) PROVE Typed
  <2>1. PICK rows \in SUBSET inbox, scopes \in Seq(Owners) : ReadThen(q, rows, scopes)
    BY <1>9, ReadScopes
  <2>2. Trim(scopes, "read") \in Writings
    BY TrimStarts DEF Statuses
  <2> QED BY <2>1, <2>2, <1>0 DEF ReadThen
<1>10. ASSUME NEW q \in Requests, Answer(q) PROVE Typed
  BY <1>10, <1>0 DEF Answer
<1>11. writing' = writing => Typed
  BY <1>0
<1> HIDE DEF Typed
<1>12. ASSUME NEW e \in Events PROVE Announce(e) \/ Replay(e) \/ Claim(e) \/ Mail(e) \/ Text(e) \/ Finish(e) => Typed
  BY <1>11, Zenon DEF Announce, Replay, Claim, Mail, Text, Finish
<1>13. ASSUME NEW p \in People PROVE ChangeAccount(p) \/ DeleteAccount(p) => Typed
  BY <1>11, Zenon DEF ChangeAccount, DeleteAccount
<1>14. ASSUME NEW channel PROVE ChangeTemplate(channel) => Typed
  BY <1>11, Zenon DEF ChangeTemplate
<1>15. DeleteOrganization \/ UNCHANGED vars => Typed
  BY <1>11, Zenon DEF DeleteOrganization, vars
<1>17. ASSUME NEW e \in Events, InboxRefuse(e) PROVE writing' \in [Events \cup Requests -> {Idle} \cup Writings]
  BY <1>17, <1>0, RefusalIs
<1>16. CASE Next
  BY <1>16, Steps, <1>1, <1>2, <1>3, <1>4, <1>5, <1>6, <1>7, <1>8, <1>9, <1>10, <1>12, <1>13, <1>14, <1>15, <1>17,
     Zenon DEF Typed
<1> QED BY <1>15, <1>16 DEF Typed

-----------------------------------------------------------------------------
(* What the outbox sees of a step: the courier's.                           *)

LEMMA CourierSteps ==
    ASSUME Basis, [Next]_vars
    PROVE  \/ UNCHANGED <<courier, content>>
           \/ \E e \in Events : \E c : Proper(c) /\ CommitEvent(e) /\ content' = [content EXCEPT ![e] = c]
           \/ content' = content /\ \E e \in Events : Reopen(e)
           \/ content' = content /\ \E e \in Events, x \in Targets : Hand(e, x)
           \/ content' = content /\ \E e \in Events, outcome \in {"pending", "delivered", "failed"} :
                 job[e] \in Jobs /\ Settle(e, job[e].done, outcome)
<1> DEFINE Same == UNCHANGED <<courier, content>>
           Commits == \E e \in Events : \E c : Proper(c) /\ CommitEvent(e) /\ content' = [content EXCEPT ![e] = c]
           Reopens == content' = content /\ \E e \in Events : Reopen(e)
           Hands == content' = content /\ \E e \in Events, x \in Targets : Hand(e, x)
           Settles == content' = content /\ \E e \in Events, outcome \in {"pending", "delivered", "failed"} :
                          job[e] \in Jobs /\ Settle(e, job[e].done, outcome)
           Goal == Same \/ Commits \/ Reopens \/ Hands \/ Settles
<1>1. ASSUME NEW e \in Events, Announce(e) PROVE Commits
  BY <1>1, ProperAnnouncement DEF Announce
<1>2. ASSUME NEW c, Proper(c), InItsTransaction(c) PROVE Same \/ Commits
  BY <1>2 DEF InItsTransaction
<1>3. ASSUME NEW p \in People, DeleteAccount(p) PROVE Same \/ Commits
  BY <1>3, <1>2, ProperDeletion DEF DeleteAccount
<1>4. ASSUME DeleteOrganization PROVE Same \/ Commits
  <2>1. PICK p \in People, a \in Staff \cup {None} : InItsTransaction(Bulk("cancelled", p, a, TRUE))
    BY <1>4 DEF DeleteOrganization
  <2> QED BY <2>1, <1>2, ProperDeletion
<1>5. ASSUME NEW e \in Events, Replay(e) PROVE Reopens
  BY <1>5 DEF Replay
<1>6. "mail" \in Targets /\ "phone" \in Targets /\ "inbox" \in Targets
  BY TargetsAssumption
<1>7. ASSUME NEW e \in Events, Mail(e) PROVE Same \/ Hands
  BY <1>6, <1>7 DEF Mail, Acknowledge, Refuse
<1>8. ASSUME NEW e \in Events, Text(e) PROVE Same \/ Hands
  BY <1>6, <1>8 DEF Text, Acknowledge, Refuse
<1>9. ASSUME NEW e \in Events, InboxFind(e) \/ InboxDone(e) PROVE Same \/ Hands
  BY <1>6, <1>9 DEF InboxFind, InboxDone, Acknowledge
<1>10. ASSUME NEW e \in Events, Finish(e) PROVE Settles
  <2>1. job[e] \in Jobs
    BY <1>10 DEF Finish, Basis, Types
  <2> QED BY <1>10, <2>1 DEF Finish
<1>11. ASSUME NEW e \in Events PROVE Claim(e) \/ InboxInsert(e) => Same
  BY Zenon DEF Claim, InboxInsert
<1>12. ASSUME NEW q \in Requests, NEW p \in People PROVE MarkRead(q, p) \/ MarkAllRead(q, p) => Same
  BY Zenon DEF MarkRead, MarkAllRead, ReadThen
<1>13. ASSUME NEW q \in Requests
       PROVE  MessageCreate(q) \/ Answer(q) \/ (\E p \in People, m \in Messages : MessageFind(q, m, p)) => Same
  BY Zenon DEF MessageCreate, Answer, MessageFind
<1>14. ASSUME NEW h \in Events \cup Requests PROVE Crash(h) \/ TrimFind(h) \/ TrimDelete(h) => Same
  BY Zenon DEF Crash, TrimFind, TrimDelete
<1>15. ASSUME NEW p \in People PROVE ChangeAccount(p) => Same
  BY Zenon DEF ChangeAccount
<1>16. ASSUME NEW channel PROVE ChangeTemplate(channel) => Same
  BY Zenon DEF ChangeTemplate
<1>17. UNCHANGED vars => Same
  BY Zenon DEF vars, courier
<1> HIDE DEF Same, Commits, Reopens, Hands, Settles
<1>20. ASSUME NEW e \in Events, InboxRefuse(e) PROVE Same
  BY <1>20, RefusalIs DEF Same
<1>18. Next => Goal
  BY Steps, <1>1, <1>3, <1>4, <1>5, <1>7, <1>8, <1>9, <1>10, <1>11, <1>12, <1>13, <1>14, <1>15, <1>16, <1>20, Zenon
<1>19. Goal
  BY <1>17, <1>18
<1> QED BY <1>19 DEF Same, Commits, Reopens, Hands, Settles

LEMMA CourierTypes ==
    ASSUME Basis, [Next]_vars
    PROVE  /\ state' \in [Events -> {"none", "pending", "delivered", "failed"}]
           /\ ledger' \in [Events -> SUBSET Targets]
           /\ got' \in [Events \X Targets -> 0 .. 2]
           /\ DOMAIN content' = Events
           /\ Contents'
           /\ \A e \in Events : state[e] # "none" => state'[e] # "none" /\ content'[e] = content[e]
           /\ \A e \in Events, x \in Targets : got[<<e, x>>] > 0 => got'[<<e, x>>] > 0
<1>0. /\ state \in [Events -> {"none", "pending", "delivered", "failed"}]
      /\ ledger \in [Events -> SUBSET Targets]
      /\ got \in [Events \X Targets -> 0 .. 2]
      /\ DOMAIN content = Events
      /\ \A e \in Events : state[e] # "none" => Proper(content[e])
  BY DEF Basis, Types, Contents
<1>1. CASE UNCHANGED <<courier, content>>
  BY <1>0, <1>1 DEF courier, Contents
<1>2. ASSUME NEW e \in Events, NEW c, Proper(c), CommitEvent(e), content' = [content EXCEPT ![e] = c]
      PROVE  /\ state' \in [Events -> {"none", "pending", "delivered", "failed"}] /\ ledger' = ledger /\ got' = got
             /\ DOMAIN content' = Events
             /\ \A d \in Events : state'[d] # "none" => Proper(content'[d])
             /\ \A d \in Events : state[d] # "none" => state'[d] # "none" /\ content'[d] = content[d]
  BY <1>0, <1>2 DEF CommitEvent
<1>3. ASSUME NEW e \in Events, content' = content, Reopen(e)
      PROVE  /\ state' \in [Events -> {"none", "pending", "delivered", "failed"}] /\ ledger' = ledger /\ got' = got
             /\ \A d \in Events : state[d] # "none" <=> state'[d] # "none"
  BY <1>0, <1>3 DEF Reopen
<1>4. ASSUME NEW e \in Events, NEW x \in Targets, content' = content, Hand(e, x)
      PROVE  /\ state' = state /\ ledger' = ledger /\ got' \in [Events \X Targets -> 0 .. 2]
             /\ \A d \in Events, y \in Targets : got[<<d, y>>] > 0 => got'[<<d, y>>] > 0
  <2> DEFINE k == <<e, x>>
             n == IF got[k] < 2 THEN got[k] + 1 ELSE got[k]
  <2>1. k \in Events \X Targets /\ got[k] \in 0 .. 2
    BY <1>0
  <2>2. got' = [got EXCEPT ![k] = n] /\ state' = state /\ ledger' = ledger
    BY <1>4 DEF Hand
  <2>3. n \in 0 .. 2 /\ n > 0
    <3> HIDE DEF k
    <3> QED BY <2>1
  <2> HIDE DEF n, k
  <2>4. got' \in [Events \X Targets -> 0 .. 2]
    BY <1>0, <2>1, <2>2, <2>3
  <2>5. ASSUME NEW d \in Events, NEW y \in Targets, got[<<d, y>>] > 0 PROVE got'[<<d, y>>] > 0
    <3> DEFINE l == <<d, y>>
    <3>1. l \in Events \X Targets
      OBVIOUS
    <3> HIDE DEF l
    <3>2. got'[l] = IF l = k THEN n ELSE got[l]
      BY <1>0, <2>1, <2>2, <3>1
    <3> QED BY <2>3, <2>5, <3>2 DEF l
  <2> QED BY <2>2, <2>4, <2>5
<1>5. ASSUME NEW e \in Events, NEW outcome \in {"pending", "delivered", "failed"}, content' = content,
             job[e] \in Jobs, Settle(e, job[e].done, outcome)
      PROVE  /\ state' \in [Events -> {"none", "pending", "delivered", "failed"}] /\ got' = got
             /\ ledger' \in [Events -> SUBSET Targets]
             /\ \A d \in Events : state[d] # "none" <=> state'[d] # "none"
  BY <1>0, <1>5 DEF Settle, Jobs
<1>6. CASE \E e \in Events : \E c : Proper(c) /\ CommitEvent(e) /\ content' = [content EXCEPT ![e] = c]
  BY <1>0, <1>2, <1>6 DEF Contents
<1>7. CASE content' = content /\ \E e \in Events : Reopen(e)
  BY <1>0, <1>3, <1>7 DEF Contents
<1>8. CASE content' = content /\ \E e \in Events, x \in Targets : Hand(e, x)
  BY <1>0, <1>4, <1>8 DEF Contents
<1>9. CASE content' = content /\ \E e \in Events, outcome \in {"pending", "delivered", "failed"} :
                 job[e] \in Jobs /\ Settle(e, job[e].done, outcome)
  BY <1>0, <1>5, <1>9 DEF Contents
<1> QED BY CourierSteps, <1>1, <1>6, <1>7, <1>8, <1>9

-----------------------------------------------------------------------------
(* An event is in the hands of one worker.                                  *)

LEMMA HeldStays ==
    ASSUME Basis, [Next]_vars, NEW d \in Events,
           state'[d] = state[d], ledger'[d] = ledger[d], job'[d] = job[d], writing'[d] = writing[d]
    PROVE  Held(d)'
<1>1. Held(d)
  BY DEF Basis, Delivering
<1>2. /\ ledger[d] \subseteq Targets
      /\ job[d] # Idle => job[d].done \subseteq Targets
      /\ \A x \in Targets : got[<<d, x>>] > 0 => got'[<<d, x>>] > 0
  BY CourierTypes DEF Basis, Types, Jobs
<1>3. writing[d] # Idle => TrimsAfter(d)' = TrimsAfter(d)
  <2> HAVE writing[d] # Idle
  <2>1. content'[d] = content[d]
    BY <1>1, CourierTypes DEF Held
  <2> QED BY <2>1 DEF TrimsAfter, ScopesOf, NotificationsFor, ToClient, ToStaff, ActorKind, CancelledBy
<1>4. /\ \A x \in ledger'[d] : got'[<<d, x>>] > 0
      /\ state'[d] = "delivered" => ledger'[d] = Targets
  BY <1>1, <1>2 DEF Held
<1>5. job'[d] # Idle =>
         /\ state'[d] = "pending"
         /\ ledger'[d] \subseteq job'[d].done /\ job'[d].todo \cap job'[d].done = {}
         /\ \A x \in job'[d].done : got'[<<d, x>>] > 0
  BY <1>1, <1>2 DEF Held
<1>6. writing'[d] # Idle =>
         /\ job'[d] # Idle /\ "inbox" \in job'[d].todo
         /\ writing'[d].step \in {"insert", "trim"}
         /\ writing'[d].step = "trim" =>
               /\ writing'[d].status = "unread"
               /\ \A i \in DOMAIN writing'[d].scopes :
                     \E j \in DOMAIN TrimsAfter(d)' : TrimsAfter(d)'[j] = writing'[d].scopes[i]
  BY <1>1, <1>3 DEF Held
<1> QED BY <1>4, <1>5, <1>6 DEF Held

\* A target acknowledges, or fails.
LEMMA HeldAfterTry ==
    ASSUME Basis, [Next]_vars, NEW e \in Events, NEW x \in Targets, job[e] # Idle, x \in job[e].todo,
           Acknowledge(e, x) \/ Refuse(e, x), writing'[e] = Idle,
           \A d \in Events : d # e => writing'[d] = writing[d]
    PROVE  Delivering'
<1>0. /\ Held(e) /\ job[e] \in Jobs /\ job \in [Events -> {Idle} \cup Jobs] /\ ledger[e] \subseteq Targets
  BY DEF Basis, Types, Delivering
<1>1. state' = state /\ ledger' = ledger
  BY DEF Acknowledge, Refuse, Hand, courier
<1>2. \A y \in Targets : got[<<e, y>>] > 0 => got'[<<e, y>>] > 0
  BY CourierTypes
<1>3. ASSUME NEW d \in Events, d # e PROVE Held(d)'
  <2>1. job'[d] = job[d]
    BY <1>0, <1>3 DEF Acknowledge, Refuse
  <2> QED BY <1>1, <1>3, <2>1, HeldStays
<1>4. CASE Acknowledge(e, x)
  <2>1. job'[e] = [job[e] EXCEPT !.todo = @ \ {x}, !.done = @ \cup {x}]
    BY <1>0, <1>4 DEF Acknowledge
  <2>2. job'[e].todo = job[e].todo \ {x} /\ job'[e].done = job[e].done \cup {x}
    BY <1>0, <2>1 DEF Jobs
  <2>3. got'[<<e, x>>] > 0
    <3> DEFINE k == <<e, x>>
    <3>1. k \in Events \X Targets /\ got[k] \in 0 .. 2 /\ got \in [Events \X Targets -> 0 .. 2]
      BY DEF Basis, Types
    <3>2. got' = [got EXCEPT ![k] = IF got[k] < 2 THEN got[k] + 1 ELSE got[k]]
      BY <1>4 DEF Acknowledge, Hand
    <3> HIDE DEF k
    <3>3. got'[k] > 0
      BY <3>1, <3>2
    <3> QED BY <3>3 DEF k
  <2>4. x \notin ledger[e]
    BY <1>4 DEF Acknowledge, Hand
  <2>5. job[e].done \subseteq Targets
    BY <1>0 DEF Jobs
  <2>6. Held(e)'
    BY <1>0, <1>1, <1>2, <1>4, <2>2, <2>3, <2>4, <2>5 DEF Held
  <2> QED BY <1>3, <2>6 DEF Delivering
<1>5. CASE Refuse(e, x)
  <2>1. job'[e] = [job[e] EXCEPT !.todo = @ \ {x}]
    BY <1>0, <1>5 DEF Refuse
  <2>2. job'[e].todo = job[e].todo \ {x} /\ job'[e].done = job[e].done
    BY <1>0, <2>1 DEF Jobs
  <2>5. job[e].done \subseteq Targets
    BY <1>0 DEF Jobs
  <2>6. Held(e)'
    BY <1>0, <1>1, <1>2, <1>5, <2>2, <2>5 DEF Held
  <2> QED BY <1>3, <2>6 DEF Delivering
<1> QED BY <1>4, <1>5

LEMMA DeliveringStep ==
    ASSUME Basis, [Next]_vars
    PROVE  Delivering'
<1>0. /\ job \in [Events -> {Idle} \cup Jobs] /\ state \in [Events -> {"none", "pending", "delivered", "failed"}]
      /\ ledger \in [Events -> SUBSET Targets] /\ got \in [Events \X Targets -> 0 .. 2]
      /\ writing \in [Events \cup Requests -> {Idle} \cup Writings]
      /\ \A e \in Events : Held(e)
  BY DEF Basis, Types, Delivering
<1>1. Events \cap Requests = {} /\ "inbox" \in Targets /\ "mail" \in Targets /\ "phone" \in Targets
  BY NamesAssumption, TargetsAssumption
<1>2. ASSUME UNCHANGED <<state, ledger, job>>, \A d \in Events : writing'[d] = writing[d] PROVE Delivering'
  BY <1>2, HeldStays DEF Delivering
<1>3. ASSUME NEW e \in Events, CommitEvent(e) \/ Reopen(e), UNCHANGED <<job, writing>> PROVE Delivering'
  <2>1. ledger' = ledger /\ got' = got /\ state'[e] = "pending" /\ state[e] # "pending" /\ \A d \in Events : d # e => state'[d] = state[d]
    BY <1>0, <1>3 DEF CommitEvent, Reopen
  <2>2. job[e] = Idle /\ writing[e] = Idle /\ \A x \in ledger[e] : got[<<e, x>>] > 0
    BY <1>0, <2>1 DEF Held
  <2>3. Held(e)'
    BY <1>3, <2>1, <2>2 DEF Held
  <2>4. \A d \in Events : d # e => Held(d)'
    BY <1>3, <2>1, HeldStays
  <2> QED BY <2>3, <2>4 DEF Delivering
<1>4. ASSUME NEW c, InItsTransaction(c), UNCHANGED <<job, writing>> PROVE Delivering'
  <2>1. CASE UNCHANGED <<courier, content>>
    BY <1>2, <1>4, <2>1 DEF courier
  <2>2. CASE \E e \in Events : CommitEvent(e)
    BY <1>3, <1>4, <2>2
  <2> QED BY <1>4, <2>1, <2>2 DEF InItsTransaction
<1>5. ASSUME NEW e \in Events, Announce(e) \/ Replay(e) PROVE Delivering'
  BY <1>3, <1>5 DEF Announce, Replay
<1>6. ASSUME NEW e \in Events, Claim(e) PROVE Delivering'
  <2>1. /\ state' = state /\ ledger' = ledger /\ got' = got /\ writing' = writing /\ state[e] = "pending" /\ job[e] = Idle
        /\ job'[e] = [todo |-> Targets \ ledger[e], done |-> ledger[e]] /\ \A d \in Events : d # e => job'[d] = job[d]
    BY <1>0, <1>6 DEF Claim, courier
  <2>2. job'[e].todo = Targets \ ledger[e] /\ job'[e].done = ledger[e]
    BY <2>1
  <2>3. writing[e] = Idle /\ \A x \in ledger[e] : got[<<e, x>>] > 0
    BY <1>0, <2>1 DEF Held
  <2>4. Held(e)'
    BY <1>1, <2>1, <2>2, <2>3 DEF Held
  <2> QED BY <2>1, <2>4, HeldStays DEF Delivering
<1>7. ASSUME NEW e \in Events, Mail(e) PROVE Delivering'
  <2>1. job[e] # Idle /\ writing[e] = Idle /\ "mail" \in job[e].todo /\ writing' = writing
        /\ (Acknowledge(e, "mail") \/ Refuse(e, "mail"))
    BY <1>7, Zenon DEF Mail, Trying
  <2> QED BY <2>1, <1>1, HeldAfterTry
<1>8. ASSUME NEW e \in Events, Text(e) PROVE Delivering'
  <2>1. job[e] # Idle /\ writing[e] = Idle /\ "phone" \in job[e].todo /\ writing' = writing
        /\ (Acknowledge(e, "phone") \/ Refuse(e, "phone"))
    BY <1>8, Zenon DEF Text, Trying
  <2> QED BY <2>1, <1>1, HeldAfterTry
<1>9. ASSUME NEW e \in Events, InboxFind(e) PROVE Delivering'
  <2>1. job[e] # Idle /\ writing[e] = Idle /\ "inbox" \in job[e].todo
    BY <1>9 DEF InboxFind, Trying
  <2>2. CASE Acknowledge(e, "inbox") /\ writing' = writing
    BY <2>1, <2>2, <1>1, HeldAfterTry
  <2>3. CASE writing' = [writing EXCEPT ![e] = [step |-> "insert"]] /\ UNCHANGED <<courier, job, failures>>
    <3>1. state' = state /\ ledger' = ledger /\ got' = got /\ job' = job /\ writing'[e] = [step |-> "insert"]
          /\ \A d \in Events : d # e => writing'[d] = writing[d]
      BY <1>0, <2>3 DEF courier
    <3>2. Held(e)'
      BY <1>0, <2>1, <3>1 DEF Held
    <3> QED BY <3>1, <3>2, HeldStays DEF Delivering
  <2> QED BY <1>9, <2>2, <2>3 DEF InboxFind
<1>10. ASSUME NEW e \in Events, writing[e] # Idle, InboxDone(e) PROVE Delivering'
  <2>1. job[e] # Idle /\ "inbox" \in job[e].todo
    BY <1>0, <1>10 DEF Held
  <2>2. Acknowledge(e, "inbox") /\ writing'[e] = Idle /\ \A d \in Events : d # e => writing'[d] = writing[d]
    BY <1>0, <1>10 DEF InboxDone
  <2> QED BY <2>1, <2>2, <1>1, HeldAfterTry
<1>11. ASSUME NEW e \in Events, Finish(e) PROVE Delivering'
  <2>1. PICK outcome \in {"pending", "delivered", "failed"} : Settle(e, job[e].done, outcome)
    BY <1>11 DEF Finish
  <2>2. /\ job[e] # Idle /\ writing[e] = Idle /\ job[e].todo = {} /\ job'[e] = Idle /\ writing' = writing /\ got' = got
        /\ state'[e] = outcome /\ ledger'[e] = job[e].done
        /\ \A x \in job[e].done : got[<<e, x>>] > 0
        /\ outcome = "delivered" => job[e].done = Targets
        /\ \A d \in Events : d # e => state'[d] = state[d] /\ ledger'[d] = ledger[d] /\ job'[d] = job[d]
    BY <1>0, <1>11, <2>1 DEF Finish, Settle
  <2>3. Held(e)'
    BY <2>2 DEF Held
  <2> QED BY <2>2, <2>3, HeldStays DEF Delivering
<1>12. ASSUME NEW e \in Events, writing[e] # Idle, InboxInsert(e) PROVE Delivering'
  <2>1. TrimsAfter(e) \in Seq(Owners)
    BY <1>12, InHand, ScopesAre DEF TrimsAfter, Proper
  <2>2. /\ state' = state /\ ledger' = ledger /\ got' = got /\ job' = job /\ content' = content
        /\ writing'[e] = Trim(TrimsAfter(e), "unread") /\ \A d \in Events : d # e => writing'[d] = writing[d]
    BY <1>0, <1>12 DEF InboxInsert, courier
  <2>3. writing'[e].step = "trim" /\ writing'[e].status = "unread" /\ writing'[e].scopes = TrimsAfter(e)
    BY <2>1, <2>2, TrimStarts DEF Statuses
  <2>4. TrimsAfter(e)' = TrimsAfter(e)
    BY <2>2 DEF TrimsAfter, ScopesOf, NotificationsFor, ToClient, ToStaff, ActorKind, CancelledBy
  <2>5. Held(e)'
    BY <1>0, <1>12, <2>2, <2>3, <2>4 DEF Held
  <2> QED BY <2>2, <2>5, HeldStays DEF Delivering
<1>13. ASSUME NEW e \in Events, writing[e] # Idle, writing[e].step = "trim", UNCHANGED <<courier, job, content>>,
              \A d \in Events : d # e => writing'[d] = writing[d],
              writing'[e] \in TrimSteps, writing'[e].status = writing[e].status,
              writing[e].scopes \in Seq(Owners),
              writing'[e].scopes = writing[e].scopes \/ (writing[e].scopes # <<>> /\ writing'[e].scopes = Tail(writing[e].scopes))
       PROVE  Delivering'
  <2>1. state' = state /\ ledger' = ledger /\ got' = got /\ job' = job /\ content' = content
    BY <1>13 DEF courier
  <2>2. TrimsAfter(e)' = TrimsAfter(e)
    BY <2>1 DEF TrimsAfter, ScopesOf, NotificationsFor, ToClient, ToStaff, ActorKind, CancelledBy
  <2>3. \A i \in DOMAIN writing'[e].scopes : \E j \in DOMAIN writing[e].scopes : writing'[e].scopes[i] = writing[e].scopes[j]
    <3>1. CASE writing'[e].scopes = writing[e].scopes
      BY <3>1
    <3>2. CASE writing[e].scopes # <<>> /\ writing'[e].scopes = Tail(writing[e].scopes)
      <4> DEFINE s == writing[e].scopes
      <4>1. s \in Seq(Owners) /\ s # <<>> /\ writing'[e].scopes = Tail(s)
        BY <1>13, <3>2
      <4> HIDE DEF s
      <4>2. \A i \in DOMAIN Tail(s) : i + 1 \in DOMAIN s /\ Tail(s)[i] = s[i + 1]
        BY <4>1
      <4> QED BY <4>1, <4>2 DEF s
    <3> QED BY <1>13, <3>1, <3>2
  <2>4. writing'[e].step = "trim"
    BY <1>13 DEF TrimSteps
  <2>5. Held(e)'
    BY <1>0, <1>13, <2>1, <2>2, <2>3, <2>4 DEF Held
  <2> QED BY <1>13, <2>1, <2>5, HeldStays DEF Delivering
<1>14. ASSUME NEW h \in Events \cup Requests, writing[h] # Idle, TrimFind(h) PROVE Delivering'
  <2>1. UNCHANGED <<courier, job, content>>
    BY <1>14 DEF TrimFind
  <2>2. CASE h \in Events
    <3>1. writing[h].step = "trim" /\ writing[h].scopes \in Seq(Owners)
      BY <1>14, TrimFinds DEF TrimSteps
    <3> QED BY <1>13, <1>14, <2>1, <2>2, <3>1, TrimFinds, NextScope
  <2>3. CASE h \notin Events
    BY <1>2, <1>14, <2>1, <2>3, TrimFinds, NextScope DEF courier
  <2> QED BY <2>2, <2>3
<1>15. ASSUME NEW h \in Events \cup Requests, writing[h] # Idle, TrimDelete(h) PROVE Delivering'
  <2>1. UNCHANGED <<courier, job, content>>
    BY <1>15 DEF TrimDelete
  <2>2. CASE h \in Events
    <3>1. writing[h].step = "trim" /\ writing[h].scopes \in Seq(Owners)
      BY <1>15, TrimDeletes DEF TrimSteps
    <3> QED BY <1>13, <1>15, <2>1, <2>2, <3>1, TrimDeletes, NextScope
  <2>3. CASE h \notin Events
    BY <1>2, <1>15, <2>1, <2>3, TrimDeletes, NextScope DEF courier
  <2> QED BY <2>2, <2>3
<1>16. ASSUME NEW h \in Events \cup Requests, Crash(h) PROVE Delivering'
  <2>1. /\ state' = state /\ ledger' = ledger /\ got' = got /\ writing' = [writing EXCEPT ![h] = Idle]
        /\ job' = IF h \in Events THEN [job EXCEPT ![h] = Idle] ELSE job
    BY <1>16 DEF Crash, courier
  <2>2. CASE h \in Events
    <3>1. Held(h)'
      BY <1>0, <2>1, <2>2 DEF Held
    <3>2. \A d \in Events : d # h => Held(d)'
      BY <1>0, <2>1, <2>2, HeldStays
    <3> QED BY <3>1, <3>2 DEF Delivering
  <2>3. CASE h \notin Events
    BY <1>0, <1>2, <2>1, <2>3
  <2> QED BY <2>2, <2>3
<1>17. ASSUME NEW p \in People, DeleteAccount(p) PROVE Delivering'
  BY <1>4, <1>17 DEF DeleteAccount
<1>18. ASSUME DeleteOrganization PROVE Delivering'
  BY <1>4, <1>18 DEF DeleteOrganization
<1>19. ASSUME NEW q \in Requests, NEW p \in People, MarkRead(q, p) \/ MarkAllRead(q, p) PROVE Delivering'
  BY <1>0, <1>1, <1>2, <1>19 DEF MarkRead, MarkAllRead, ReadThen, courier
<1>20. ASSUME NEW q \in Requests, MessageCreate(q) \/ Answer(q) PROVE Delivering'
  BY <1>0, <1>1, <1>2, <1>20 DEF MessageCreate, Answer, courier
<1>21. ASSUME NEW q \in Requests, NEW m \in Messages, NEW p \in People, MessageFind(q, m, p) PROVE Delivering'
  BY <1>0, <1>1, <1>2, <1>21 DEF MessageFind, courier
<1>22. ASSUME NEW p \in People, ChangeAccount(p) PROVE Delivering'
  BY <1>2, <1>22 DEF ChangeAccount, courier
<1>23. ASSUME NEW channel, ChangeTemplate(channel) PROVE Delivering'
  BY <1>2, <1>23 DEF ChangeTemplate, courier
<1>24. ASSUME UNCHANGED vars PROVE Delivering'
  BY <1>2, <1>24 DEF vars, courier
<1>26. ASSUME NEW e \in Events, InboxRefuse(e) PROVE Delivering'
  <2>1. job[e] # Idle /\ "inbox" \in job[e].todo /\ Refuse(e, "inbox") /\ writing' = [writing EXCEPT ![e] = Idle]
    BY <1>26, RefusalIs, NamesAssumption DEF Jobs
  <2>2. writing'[e] = Idle /\ \A d \in Events : d # e => writing'[d] = writing[d]
    BY <1>0, <2>1
  <2> QED BY <2>1, <2>2, <1>1, HeldAfterTry
<1>25. CASE Next
  BY <1>25, Steps, <1>5, <1>6, <1>7, <1>8, <1>9, <1>10, <1>11, <1>12, <1>14, <1>15, <1>16, <1>17, <1>18,
     <1>19, <1>20, <1>21, <1>22, <1>23, <1>26, Zenon
<1> QED BY <1>24, <1>25

LEMMA BasisStep ==
    ASSUME Basis, [Next]_vars
    PROVE  Basis'
<1>1. Types'
  BY InboxTypes, JobTypes, WritingTypes, CourierTypes, Zenon DEF Types
<1> QED BY <1>1, InboxTypes, CourierTypes, DeliveringStep, Zenon DEF Basis

-----------------------------------------------------------------------------
(* The feed.                                                                *)

LEMMA FeedStep ==
    ASSUME Basis, Feed, [Next]_vars
    PROVE  Feed'
<1> DEFINE Says(r) == LET c == content[r.source] IN
                      /\ state[r.source] # "none" /\ r.audience \in NotificationsFor(c)
                      /\ r.user = (IF r.audience = "client" THEN c.user ELSE None)
                      /\ r.subject = (IF r.audience = "staff" THEN c.user ELSE None)
           SaysNext(r) == LET c == content'[r.source] IN
                          /\ state'[r.source] # "none" /\ r.audience \in NotificationsFor(c)
                          /\ r.user = (IF r.audience = "client" THEN c.user ELSE None)
                          /\ r.subject = (IF r.audience = "staff" THEN c.user ELSE None)
           Once(rows) == \A r, s \in rows : r.source \in Events /\ r.source = s.source /\ r.audience = s.audience => r = s
<1>0. /\ inbox \in SUBSET RowSet /\ Once(inbox) /\ \A r \in inbox : r.source \in Events => Says(r)
      /\ Events \cap Messages = {}
  BY NamesAssumption DEF Basis, Types, Feed
<1>1. ASSUME Once(inbox'), \A r \in inbox' : r.source \in Events => Says(r) PROVE Feed'
  <2>1. ASSUME NEW r \in inbox', r.source \in Events PROVE SaysNext(r)
    <3>1. state'[r.source] # "none" /\ content'[r.source] = content[r.source]
      BY <1>1, <2>1, CourierTypes
    <3> QED BY <1>1, <2>1, <3>1
  <2> QED BY <1>1, <2>1 DEF Feed, NotificationsFor, ToClient, ToStaff, ActorKind, CancelledBy
<1>2. CASE inbox' \in SUBSET inbox
  BY <1>0, <1>1, <1>2
<1>3. ASSUME NEW e \in Events, NEW rows \in SUBSET NewRows(e), Adds(e, rows) PROVE Feed'
  <2>1. Proper(content[e]) /\ state[e] = "pending" /\ inbox' = inbox \cup rows
    BY <1>3 DEF Adds
  <2>2. \A r \in rows : r.source = e /\ Says(r) /\ ~\E s \in inbox : s.source = e /\ s.audience = r.audience
    BY <2>1, NewRowsAre
  <2>3. \A r, s \in rows : r.audience = s.audience => r = s
    BY <2>1, NewRowsAre
  <2> HIDE DEF Says
  <2>4. Once(inbox')
    BY <1>0, <2>1, <2>2, <2>3
  <2>5. \A r \in inbox' : r.source \in Events => Says(r)
    BY <1>0, <2>1, <2>2
  <2> QED BY <1>1, <2>4, <2>5
<1>4. ASSUME NEW q \in Requests, writing[q] # Idle, MessageCreate(q) PROVE Feed'
  <2> DEFINE new == Row(writing[q].source, "client", writing[q].user, clock + 1)
  <2>1. inbox' = inbox \cup {new} /\ writing[q].step = "create"
    BY <1>4 DEF MessageCreate
  <2>2. new.source \in Messages
    BY <1>4, <2>1, MessageRow DEF Row
  <2> HIDE DEF new, Says
  <2>3. Once(inbox') /\ \A r \in inbox' : r.source \in Events => Says(r)
    BY <1>0, <2>1, <2>2
  <2> QED BY <1>1, <2>3
<1>5. ASSUME NEW q \in Requests, NEW rows \in SUBSET inbox, NEW scopes, ReadThen(q, rows, scopes) PROVE Feed'
  <2>1. inbox' = (inbox \ rows) \cup {[r EXCEPT !.status = "read"] : r \in rows}
    BY <1>5 DEF ReadThen
  <2>2. ASSUME NEW r \in inbox'
        PROVE  \E o \in inbox : /\ r.source = o.source /\ r.audience = o.audience /\ r.user = o.user /\ r.subject = o.subject
                                /\ (r = o /\ o \notin rows) \/ (r = [o EXCEPT !.status = "read"] /\ o \in rows)
    <3>1. CASE r \in inbox \ rows
      BY <3>1
    <3>2. CASE r \in {[o EXCEPT !.status = "read"] : o \in rows}
      <4>1. PICK o \in rows : r = [o EXCEPT !.status = "read"]
        BY <3>2
      <4>2. o \in inbox /\ o \in RowSet
        BY <1>0
      <4>3. r.source = o.source /\ r.audience = o.audience /\ r.user = o.user /\ r.subject = o.subject
        BY <4>1, <4>2 DEF RowSet
      <4> QED BY <4>1, <4>2, <4>3
    <3> QED BY <2>1, <3>1, <3>2
  <2>3. Once(inbox')
    <3> SUFFICES ASSUME NEW r \in inbox', NEW s \in inbox', r.source \in Events, r.source = s.source, r.audience = s.audience
                 PROVE  r = s
      OBVIOUS
    <3>1. PICK o \in inbox : /\ r.source = o.source /\ r.audience = o.audience
                             /\ (r = o /\ o \notin rows) \/ (r = [o EXCEPT !.status = "read"] /\ o \in rows)
      BY <2>2
    <3>2. PICK t \in inbox : /\ s.source = t.source /\ s.audience = t.audience
                             /\ (s = t /\ t \notin rows) \/ (s = [t EXCEPT !.status = "read"] /\ t \in rows)
      BY <2>2
    <3>3. o = t
      BY <1>0, <3>1, <3>2
    <3> QED BY <3>1, <3>2, <3>3
  <2>4. \A r \in inbox' : r.source \in Events => Says(r)
    BY <1>0, <2>2
  <2> QED BY <1>1, <2>3, <2>4
<1> QED BY InboxSteps, <1>2, <1>3, <1>4, <1>5

\* Nobody is shown what they did themselves, but for a sanction they lifted.
LEMMA FeedRight ==
    ASSUME Basis, Feed
    PROVE  FeedIsRight
<1>1. \A r, s \in inbox : r.source \in Events /\ r.source = s.source /\ r.audience = s.audience => r = s
  BY DEF Feed
<1>2. ASSUME NEW p \in People, NEW r \in Visible(p), r.source \in Events,
             content[r.source].actor # None, ~content[r.source].bulk, content[r.source].type # "lifted"
      PROVE  content[r.source].actor.id # p
  <2> DEFINE c == content[r.source]
  <2>1. r \in inbox /\ r \in RowSet /\ None \notin People
    BY NamesAssumption DEF Visible, Basis, Types
  <2>2. /\ r.audience \in NotificationsFor(c) /\ Proper(c)
        /\ r.user = (IF r.audience = "client" THEN c.user ELSE None)
        /\ r.subject = (IF r.audience = "staff" THEN c.user ELSE None)
    BY <1>2, <2>1 DEF Feed, Basis, Contents
  <2>3. \/ r.audience = "client" /\ c.user = p /\ ToClient(c)
        \/ r.audience = "staff" /\ c.user # p /\ ToStaff(c)
    BY <2>1, <2>2 DEF Visible, RowSet, NotificationsFor
  <2> HIDE DEF c
  <2>4. /\ c.actor # None /\ ~c.bulk /\ c.actor.kind \in {"client", "staff"}
        /\ c.actor.kind = "client" => c.actor.id = c.user
        /\ c.actor.kind = "staff" => c.actor.id # c.user /\ c.type # "lifted"
        /\ c.type \in {"suspended", "lifted"} => c.actor.kind = "staff"
        /\ c.type \notin {"reminder", "slot_available", "callback_due"}
    BY <1>2, <2>2 DEF c, Proper
  <2>5. ToClient(c) => c.actor.kind = "staff"
    BY <2>4 DEF ToClient, ActorKind, CancelledBy
  <2>6. ToStaff(c) => c.actor.kind = "client"
    BY <2>4 DEF ToStaff, ActorKind, CancelledBy
  <2>7. c.actor.id # p
    BY <2>3, <2>4, <2>5, <2>6
  <2> QED BY <2>7 DEF c
<1> QED BY <1>1, <1>2 DEF FeedIsRight

-----------------------------------------------------------------------------
(* One channel.                                                             *)

\* Nothing is sent, and no mail or text acknowledged, but by their handlers.
LEMMA SentSteps ==
    ASSUME Basis, [Next]_vars
    PROVE  \/ \E e \in Events : Mail(e) \/ Text(e)
           \/ /\ sent' = sent
              /\ \A e \in Events : got'[<<e, "mail">>] = got[<<e, "mail">>] /\ got'[<<e, "phone">>] = got[<<e, "phone">>]
<1> DEFINE Same == /\ sent' = sent
                   /\ \A e \in Events : got'[<<e, "mail">>] = got[<<e, "mail">>] /\ got'[<<e, "phone">>] = got[<<e, "phone">>]
<1>1. sent' = sent /\ got' = got => Same
  OBVIOUS
<1>2. ASSUME NEW e \in Events, Acknowledge(e, "inbox"), sent' = sent PROVE Same
  <2>1. got' = [got EXCEPT ![<<e, "inbox">>] = IF @ < 2 THEN @ + 1 ELSE @]
    BY <1>2 DEF Acknowledge, Hand
  <2>2. got \in [Events \X Targets -> 0 .. 2]
    BY DEF Basis, Types
  <2>3. \A d \in Events, x \in {"mail", "phone"} : got'[<<d, x>>] = got[<<d, x>>]
    BY <2>1, <2>2, TargetsAssumption
  <2> QED BY <1>2, <2>3
<1> HIDE DEF Same
<1>3. ASSUME NEW e \in Events, InboxFind(e) PROVE Same
  BY <1>1, <1>2, <1>3 DEF InboxFind, courier
<1>4. ASSUME NEW e \in Events, InboxDone(e) PROVE Same
  BY <1>2, <1>4 DEF InboxDone
<1>5. ASSUME NEW e \in Events PROVE Announce(e) \/ Replay(e) \/ Claim(e) \/ Finish(e) \/ InboxInsert(e) => Same
  BY <1>1 DEF Announce, Replay, Claim, Finish, InboxInsert, CommitEvent, Reopen, Settle, courier
<1>6. ASSUME NEW q \in Requests, NEW p \in People PROVE MarkRead(q, p) \/ MarkAllRead(q, p) => Same
  BY <1>1 DEF MarkRead, MarkAllRead, ReadThen, courier
<1>7. ASSUME NEW q \in Requests
      PROVE  MessageCreate(q) \/ Answer(q) \/ (\E p \in People, m \in Messages : MessageFind(q, m, p)) => Same
  BY <1>1 DEF MessageCreate, Answer, MessageFind, courier
<1>8. ASSUME NEW h \in Events \cup Requests PROVE Crash(h) \/ TrimFind(h) \/ TrimDelete(h) => Same
  <2>1. Crash(h) => Same
    BY <1>1 DEF Crash, courier
  <2>2. TrimFind(h) => Same
    BY <1>1 DEF TrimFind, courier
  <2>3. TrimDelete(h) => Same
    BY <1>1 DEF TrimDelete, courier
  <2> QED BY <2>1, <2>2, <2>3
<1>9. ASSUME NEW p \in People PROVE ChangeAccount(p) \/ DeleteAccount(p) => Same
  BY <1>1 DEF ChangeAccount, DeleteAccount, InItsTransaction, CommitEvent, courier
<1>10. ASSUME NEW channel PROVE ChangeTemplate(channel) => Same
  BY <1>1 DEF ChangeTemplate, courier
<1>11. DeleteOrganization => Same
  BY <1>1 DEF DeleteOrganization, InItsTransaction, CommitEvent, courier
<1>12. UNCHANGED vars => Same
  BY <1>1 DEF vars, courier
<1>14. ASSUME NEW e \in Events, InboxRefuse(e) PROVE Same
  BY <1>1, <1>14, RefusalIs DEF courier
<1>13. CASE Next
  BY <1>13, Steps, <1>3, <1>4, <1>5, <1>6, <1>7, <1>8, <1>9, <1>10, <1>11, <1>14, Zenon DEF Same
<1> QED BY <1>12, <1>13 DEF Same

LEMMA ToldStep ==
    ASSUME Basis, Told, [Next]_vars
    PROVE  Told'
<1> DEFINE Way(s) == /\ s.ev \in Events /\ state[s.ev] # "none" /\ s.text # "blank"
                     /\ s.by = "mail" => MailTo(content[s.ev]) = {"user"}
                     /\ s.by # "mail" => TextTo(content[s.ev]) = "user"
           Done(e) == /\ state[e] = "none" => got[<<e, "mail">>] = 0 /\ got[<<e, "phone">>] = 0
                      /\ got[<<e, "mail">>] > 0 /\ MailTo(content[e]) = {"user"} => ToUser(e) # {}
                      /\ got[<<e, "phone">>] > 0 /\ TextTo(content[e]) = "user" => ToUser(e) # {}
<1>0. /\ \A s \in sent : s.to = "user" => Way(s)
      /\ \A e \in Events : Done(e)
      /\ got \in [Events \X Targets -> 0 .. 2] /\ "mail" \in Targets /\ "phone" \in Targets
  BY TargetsAssumption DEF Told, Basis, Types
<1>1. \A e \in Events : state[e] # "none" => state'[e] # "none" /\ content'[e] = content[e]
  BY CourierTypes
<1>2. \A s : Way(s) => Way(s)'
  BY <1>1 DEF MailTo, TextTo, NeedsNotice
<1>3. ASSUME sent \subseteq sent', NEW e \in Events, state[e] # "none",
             got'[<<e, "mail">>] = got[<<e, "mail">>] \/ ToUser(e)' # {} \/ MailTo(content[e]) # {"user"},
             got'[<<e, "phone">>] = got[<<e, "phone">>] \/ ToUser(e)' # {} \/ TextTo(content[e]) # "user"
      PROVE  Done(e)'
  <2>1. ToUser(e) # {} => ToUser(e)' # {}
    BY <1>3 DEF ToUser
  <2>2. state'[e] # "none" /\ MailTo(content[e])' = MailTo(content[e]) /\ TextTo(content[e])' = TextTo(content[e])
    BY <1>1, <1>3 DEF MailTo, TextTo, NeedsNotice
  <2> HIDE DEF ToUser
  <2> QED BY <1>0, <1>3, <2>1, <2>2
<1>4. ASSUME sent \subseteq sent', NEW e \in Events, state[e] = "none",
             got'[<<e, "mail">>] = got[<<e, "mail">>], got'[<<e, "phone">>] = got[<<e, "phone">>]
      PROVE  Done(e)'
  BY <1>0, <1>4
<1> HIDE DEF Way, Done
<1>5. CASE /\ sent' = sent
           /\ \A e \in Events : got'[<<e, "mail">>] = got[<<e, "mail">>] /\ got'[<<e, "phone">>] = got[<<e, "phone">>]
  <2>1. \A e \in Events : Done(e)'
    BY <1>3, <1>4, <1>5
  <2>2. \A s \in sent' : s.to = "user" => Way(s)'
    BY <1>0, <1>2, <1>5
  <2> QED BY <2>1, <2>2 DEF Told, Done, Way
<1>6. ASSUME NEW e \in Events, NEW x \in {"mail", "phone"}, state[e] = "pending", Acknowledge(e, x) \/ Refuse(e, x),
             \/ sent' = sent
             \/ \E s : sent' = sent \cup {s} /\ s.ev = e /\ (s.to = "user" => Way(s)),
             x = "mail" /\ got' # got /\ MailTo(content[e]) = {"user"} => ToUser(e)' # {},
             x = "phone" /\ got' # got /\ TextTo(content[e]) = "user" => ToUser(e)' # {}
      PROVE  Told'
  <2>1. \A d \in Events, y \in {"mail", "phone"} : <<d, y>> # <<e, x>> => got'[<<d, y>>] = got[<<d, y>>]
    BY <1>0, <1>6 DEF Acknowledge, Refuse, Hand, courier
  <2>2. sent \subseteq sent' /\ \A s \in sent' : s.to = "user" => Way(s)'
    BY <1>0, <1>2, <1>6
  <2>3. ASSUME NEW d \in Events, d # e PROVE Done(d)'
    <3>1. got'[<<d, "mail">>] = got[<<d, "mail">>] /\ got'[<<d, "phone">>] = got[<<d, "phone">>]
      BY <2>1, <2>3
    <3> QED BY <1>3, <1>4, <2>2, <3>1
  <2>4. Done(e)'
    <3>1. x = "mail" => got'[<<e, "phone">>] = got[<<e, "phone">>]
      BY <2>1
    <3>2. x = "phone" => got'[<<e, "mail">>] = got[<<e, "mail">>]
      BY <2>1
    <3> QED BY <1>3, <1>6, <2>2, <3>1, <3>2
  <2> QED BY <2>2, <2>3, <2>4 DEF Told, Done, Way
<1>7. ASSUME NEW e \in Events, Mail(e) PROVE Told'
  <2>0. state[e] = "pending"
    BY <1>7 DEF Mail, Trying, Basis, Delivering, Held
  <2>1. PICK to \in MailTo(content[e]) :
            \/ to # "nobody" /\ Sent(e, "mail", to) /\ Acknowledge(e, "mail")
            \/ to = "nobody" /\ Acknowledge(e, "mail") /\ UNCHANGED sent
            \/ to # "nobody" /\ Refuse(e, "mail") /\ UNCHANGED sent
    BY <1>7 DEF Mail
  <2>2. MailTo(content[e]) \in {{"user"}, {"nobody"}, {"service"}, {"service", "nobody"}}
    BY DEF MailTo
  <2>3. CASE to # "nobody" /\ Sent(e, "mail", to) /\ Acknowledge(e, "mail")
    <3> DEFINE s == [ev |-> e, by |-> "mail", to |-> to, text |-> Compose("mail")]
    <3>1. sent' = sent \cup {s}
      BY <2>3 DEF Sent
    <3>2. s.ev = e /\ s.to = to /\ s.by = "mail" /\ s.text # "blank"
      BY DEF Compose, Rendered
    <3>3. to = "user" => MailTo(content[e]) = {"user"}
      BY <2>1, <2>2
    <3>4. s.to = "user" => Way(s)
      BY <2>0, <3>2, <3>3 DEF Way
    <3>5. MailTo(content[e]) = {"user"} => ToUser(e)' # {}
      BY <2>1, <3>1, <3>2 DEF ToUser
    <3> HIDE DEF s
    <3> QED BY <1>6, <2>0, <2>3, <3>1, <3>2, <3>4, <3>5
  <2>4. CASE to = "nobody" /\ Acknowledge(e, "mail") /\ UNCHANGED sent
    <3>1. MailTo(content[e]) # {"user"}
      BY <2>1, <2>4
    <3> QED BY <1>6, <2>0, <2>4, <3>1
  <2>5. CASE to # "nobody" /\ Refuse(e, "mail") /\ UNCHANGED sent
    <3>1. got' = got
      BY <2>5 DEF Refuse, courier
    <3> QED BY <1>6, <2>0, <2>5, <3>1
  <2> QED BY <2>1, <2>3, <2>4, <2>5
<1>8. ASSUME NEW e \in Events, Text(e) PROVE Told'
  <2>0. state[e] = "pending"
    BY <1>8 DEF Text, Trying, Basis, Delivering, Held
  <2>1. \/ TextTo(content[e]) = "nobody" /\ Acknowledge(e, "phone") /\ UNCHANGED sent
        \/ /\ TextTo(content[e]) # "nobody"
           /\ \/ \E allowed \in BOOLEAN : Via(allowed) # "blocked" /\ Sent(e, Via(allowed), "user") /\ Acknowledge(e, "phone")
              \/ Refuse(e, "phone") /\ UNCHANGED sent
    BY <1>8 DEF Text
  <2>2. TextTo(content[e]) \in {"user", "nobody"}
    BY DEF TextTo
  <2>3. CASE TextTo(content[e]) = "nobody" /\ Acknowledge(e, "phone") /\ UNCHANGED sent
    BY <1>6, <2>0, <2>3
  <2>4. CASE Refuse(e, "phone") /\ UNCHANGED sent
    <3>1. got' = got
      BY <2>4 DEF Refuse, courier
    <3> QED BY <1>6, <2>0, <2>4, <3>1
  <2>5. ASSUME NEW allowed \in BOOLEAN, TextTo(content[e]) # "nobody", Sent(e, Via(allowed), "user"), Acknowledge(e, "phone")
        PROVE  Told'
    <3> DEFINE s == [ev |-> e, by |-> Via(allowed), to |-> "user",
                     text |-> Compose(IF Via(allowed) = "viber_sms" THEN "viber" ELSE Via(allowed))]
    <3>1. sent' = sent \cup {s}
      BY <2>5 DEF Sent
    <3>2. s.ev = e /\ s.to = "user" /\ s.by # "mail" /\ s.text # "blank"
      BY DEF Compose, Rendered, Via
    <3>3. Way(s)
      BY <2>0, <2>2, <2>5, <3>2 DEF Way
    <3>4. ToUser(e)' # {}
      BY <3>1, <3>2 DEF ToUser
    <3> HIDE DEF s
    <3> QED BY <1>6, <2>0, <2>5, <3>1, <3>2, <3>3, <3>4
  <2> QED BY <2>1, <2>3, <2>4, <2>5
<1> QED BY SentSteps, <1>5, <1>7, <1>8

LEMMA ToldOnce ==
    ASSUME Basis, Told
    PROVE  OneChannel
<1> SUFFICES ASSUME NEW e \in Events
             PROVE  /\ \A s, t \in ToUser(e) : s.by = "mail" <=> t.by = "mail"
                    /\ \A s \in ToUser(e) : s.text # "blank"
                    /\ LET c == content[e] IN
                       state[e] = "delivered" /\ c.type \in Tells /\ NeedsNotice(c) /\ c.reminders /\ (c.email \/ c.phone)
                           => ToUser(e) # {}
  BY DEF OneChannel
<1> DEFINE c == content[e]
<1>1. \A s \in ToUser(e) : /\ s.text # "blank"
                           /\ s.by = "mail" => MailTo(c) = {"user"}
                           /\ s.by # "mail" => TextTo(c) = "user"
  BY DEF Told, ToUser
<1>2. ~(MailTo(c) = {"user"} /\ TextTo(c) = "user")
  <2> HIDE DEF c
  <2>1. TextTo(c) = "user" => c.type \in Tells /\ ~(NeedsNotice(c) /\ c.email)
    BY DEF TextTo
  <2>2. c.type \in Tells /\ ~(NeedsNotice(c) /\ c.email) => MailTo(c) = {"nobody"}
    BY DEF MailTo
  <2> QED BY <2>1, <2>2
<1>3. ASSUME state[e] = "delivered", c.type \in Tells, NeedsNotice(c), c.reminders, c.email \/ c.phone
      PROVE  ToUser(e) # {}
  <2>1. got[<<e, "mail">>] > 0 /\ got[<<e, "phone">>] > 0
    <3>1. ledger[e] = Targets /\ \A x \in ledger[e] : got[<<e, x>>] > 0
      BY <1>3 DEF Basis, Delivering, Held
    <3>2. "mail" \in ledger[e] /\ "phone" \in ledger[e]
      BY <3>1, TargetsAssumption
    <3> QED BY <3>1, <3>2
  <2>2. MailTo(c) = {"user"} \/ TextTo(c) = "user"
    <3> HIDE DEF c
    <3>1. c.email => MailTo(c) = {"user"}
      BY <1>3 DEF MailTo
    <3>2. ~c.email => TextTo(c) = "user"
      BY <1>3 DEF TextTo
    <3> QED BY <3>1, <3>2
  <2> QED BY <2>1, <2>2 DEF Told
<1> QED BY <1>1, <1>2, <1>3

-----------------------------------------------------------------------------
(* Moments.                                                                 *)

LEMMA StampsStep ==
    ASSUME Basis, Stamps, [Next]_vars
    PROVE  Stamps'
<1> DEFINE Apart(rows) == \A r, s \in rows : Scope(r) = Scope(s) /\ r.at = s.at => r = s
<1>0. /\ inbox \in SUBSET RowSet /\ clock \in Nat /\ \A r \in inbox : r.at \in 1 .. clock
      /\ Apart(inbox)
  BY DEF Basis, Types, Stamps
<1>1. CASE inbox' \in SUBSET inbox /\ clock' = clock
  <2>1. Apart(inbox') /\ \A r \in inbox' : r.at \in 1 .. clock'
    BY <1>0, <1>1
  <2> QED BY <2>1 DEF Stamps, Scope
<1>2. ASSUME NEW e \in Events, NEW rows \in SUBSET NewRows(e), Adds(e, rows) PROVE Stamps'
  <2>1. Proper(content[e]) /\ inbox' = inbox \cup rows /\ clock' = IF rows = {} THEN clock ELSE clock + 1
    BY <1>2 DEF Adds
  <2>2. \A r \in rows : /\ r.at = clock + 1 /\ r.audience \in {"client", "staff"}
                        /\ r.user = (IF r.audience = "client" THEN content[e].user ELSE None)
    BY <2>1, NewRowsAre
  <2>3. \A r, s \in rows : r.audience = s.audience => r = s
    BY <2>1, NewRowsAre
  <2>4. content[e].user # "staff"
    BY <2>1, NamesAssumption DEF Proper
  <2>5. Apart(rows)
    BY <2>2, <2>3, <2>4 DEF Scope
  <2>6. \A r \in inbox, s \in rows : r.at # s.at
    BY <1>0, <2>2
  <2> HIDE DEF NewRows, Scope
  <2>7. Apart(inbox')
    BY <1>0, <2>1, <2>5, <2>6
  <2>8. \A r \in inbox' : r.at \in 1 .. clock'
    BY <1>0, <2>1, <2>2
  <2> QED BY <2>7, <2>8 DEF Stamps, Scope
<1>3. ASSUME NEW q \in Requests, writing[q] # Idle, MessageCreate(q) PROVE Stamps'
  <2> DEFINE new == Row(writing[q].source, "client", writing[q].user, clock + 1)
  <2>1. inbox' = inbox \cup {new} /\ clock' = clock + 1
    BY <1>3 DEF MessageCreate
  <2>2. new.at = clock + 1
    BY DEF Row
  <2> HIDE DEF new, Scope
  <2>3. Apart(inbox') /\ \A r \in inbox' : r.at \in 1 .. clock'
    BY <1>0, <2>1, <2>2
  <2> QED BY <2>3 DEF Stamps, Scope
<1>4. ASSUME NEW q \in Requests, NEW rows \in SUBSET inbox, NEW scopes, ReadThen(q, rows, scopes) PROVE Stamps'
  <2>1. inbox' = (inbox \ rows) \cup {[r EXCEPT !.status = "read"] : r \in rows} /\ clock' = clock
    BY <1>4 DEF ReadThen
  <2>2. ASSUME NEW r \in inbox'
        PROVE  \E o \in inbox : /\ Scope(r) = Scope(o) /\ r.at = o.at
                                /\ (r = o /\ o \notin rows) \/ (r = [o EXCEPT !.status = "read"] /\ o \in rows)
    <3>1. CASE r \in inbox \ rows
      BY <3>1
    <3>2. CASE r \in {[o EXCEPT !.status = "read"] : o \in rows}
      <4>1. PICK o \in rows : r = [o EXCEPT !.status = "read"]
        BY <3>2
      <4>2. o \in inbox /\ o \in RowSet
        BY <1>0
      <4>3. Scope(r) = Scope(o) /\ r.at = o.at
        BY <4>1, <4>2 DEF RowSet, Scope
      <4> QED BY <4>1, <4>2, <4>3
    <3> QED BY <2>1, <3>1, <3>2
  <2> HIDE DEF Scope
  <2>3. Apart(inbox')
    <3> SUFFICES ASSUME NEW r \in inbox', NEW s \in inbox', Scope(r) = Scope(s), r.at = s.at
                 PROVE  r = s
      OBVIOUS
    <3>1. PICK o \in inbox : /\ Scope(r) = Scope(o) /\ r.at = o.at
                             /\ (r = o /\ o \notin rows) \/ (r = [o EXCEPT !.status = "read"] /\ o \in rows)
      BY <2>2
    <3>2. PICK t \in inbox : /\ Scope(s) = Scope(t) /\ s.at = t.at
                             /\ (s = t /\ t \notin rows) \/ (s = [t EXCEPT !.status = "read"] /\ t \in rows)
      BY <2>2
    <3>3. o = t
      BY <1>0, <3>1, <3>2
    <3> QED BY <3>1, <3>2, <3>3
  <2>4. \A r \in inbox' : r.at \in 1 .. clock'
    BY <1>0, <2>1, <2>2
  <2> QED BY <2>3, <2>4 DEF Stamps, Scope
<1> QED BY InboxSteps, <1>1, <1>2, <1>3, <1>4

-----------------------------------------------------------------------------
(* Trimming.                                                                *)

\* The lookup finds nothing only if there is nothing to delete.
LEMMA WithinKeep ==
    ASSUME Basis, Stamps, NEW scope, NEW status,
           {r \in Rows(scope, status) : Newer(r, Rows(scope, status)) = Keep(status)} = {}
    PROVE  Cardinality(Rows(scope, status)) <= Keep(status)
<1> DEFINE rows == Rows(scope, status)
           before == {k \in rows \X rows : k[1].at > k[2].at}
           n == Cardinality(rows)
           m == Keep(status)
<1>1. rows \in SUBSET inbox /\ IsFiniteSet(rows) /\ n \in Nat /\ m \in Nat
  BY SizesAssumption, FS_Subset, FS_CardinalityType DEF Rows, Basis, Types, Keep
<1>2. /\ \A r \in rows : r.at \in Nat
      /\ \A r, s \in rows : r.at = s.at => r = s
  <2>1. \A r \in rows : r \in inbox /\ Scope(r) = scope
    BY DEF Rows
  <2>2. \A r \in inbox : r.at \in Nat
    BY DEF Basis, Types, RowSet
  <2>3. \A r, s \in inbox : Scope(r) = Scope(s) /\ r.at = s.at => r = s
    BY Zenon DEF Stamps
  <2> HIDE DEF rows
  <2> QED BY <2>1, <2>2, <2>3, Zenon
<1> HIDE DEF rows
<1>3. \A r, s \in rows : <<r, s>> \in before <=> r.at > s.at
  OBVIOUS
<1> HIDE DEF before
<1>4. IsOrder(before, rows)
  BY <1>2, <1>3 DEF IsOrder
<1>5. ASSUME n > m PROVE FALSE
  <2>1. m \in 0 .. n - 1
    BY <1>1, <1>5
  <2>2. PICK r \in rows : Ranked(before, rows)[r] = m
    <3>1. \A k \in 0 .. n - 1 : \E r \in rows : Ranked(before, rows)[r] = k
      BY <1>1, <1>4, RanksTaken
    <3> HIDE DEF n, m
    <3> QED BY <2>1, <3>1
  <2>3. {s \in rows : <<s, r>> \in before} = {s \in rows : s.at > r.at}
    BY <1>3
  <2>4. Newer(r, rows) = m
    BY <2>2, <2>3 DEF Newer, Ranked
  <2> QED BY <2>4 DEF rows
<1> HIDE DEF n, m
<1>6. n <= m
  BY <1>1, <1>5
<1> QED BY <1>6 DEF n, m, rows

\* Fewer rows are within the bounds too.
LEMMA FewerRows ==
    ASSUME Basis, NEW A, NEW B \in SUBSET A, A \in SUBSET inbox
    PROVE  IsFiniteSet(A) /\ Cardinality(A) \in Nat /\ Cardinality(B) \in Nat /\ Cardinality(B) <= Cardinality(A)
BY FS_Subset, FS_CardinalityType DEF Basis, Types

Wants(e, scope) == \E i \in DOMAIN TrimsAfter(e) : TrimsAfter(e)[i] = scope

LEMMA StaysUndelivered ==
    ASSUME Basis, [Next]_vars, NEW e \in Events, NEW scope, Undelivered(e), Wants(e, scope),
           state'[e] = state[e], ledger'[e] = ledger[e],
           job'[e] = job[e] \/ job'[e] = Idle \/ "inbox" \notin job'[e].done,
           writing'[e] = writing[e] \/ writing'[e] = Idle \/ writing'[e].step = "insert"
    PROVE  Undelivered(e)' /\ Wants(e, scope)'
<1>1. content'[e] = content[e]
  BY CourierTypes DEF Undelivered
<1>2. TrimsAfter(e)' = TrimsAfter(e)
  BY <1>1 DEF TrimsAfter, ScopesOf, NotificationsFor, ToClient, ToStaff, ActorKind, CancelledBy
<1>3. Wants(e, scope)'
  BY <1>2 DEF Wants
<1>4. Undelivered(e)'
  BY DEF Undelivered
<1> QED BY <1>3, <1>4

\* Where no trim that has anything left to do moves, and no row is added.
LEMMA StaysInBounds ==
    ASSUME Basis, NEW scope, NEW status, InBounds(scope, status),
           Rows(scope, status)' \in SUBSET Rows(scope, status),
           unkept \subseteq unkept',
           \A h \in Events \cup Requests :
               writing[h] # Idle /\ writing[h].step = "trim" /\ writing[h].scopes # <<>> => writing'[h] = writing[h],
           \A e \in Events : status = "unread" /\ Undelivered(e) /\ Wants(e, scope)
               => Owed(scope, status)' \/ (Undelivered(e)' /\ Wants(e, scope)')
    PROVE  InBounds(scope, status)'
<1> DEFINE rows == Rows(scope, status)
           left(h) == {r \in rows : r.at > writing[h].bound}
<1>1. CASE Cardinality(rows) <= Keep(status)
  <2>1. rows \in SUBSET inbox
    BY DEF Rows
  <2>2. Cardinality(rows') \in Nat /\ Cardinality(rows) \in Nat /\ Cardinality(rows') <= Cardinality(rows)
    BY <2>1, FewerRows
  <2>3. Keep(status) \in Nat /\ Keep(status)' = Keep(status)
    BY SizesAssumption DEF Keep
  <2>4. Cardinality(rows') <= Keep(status)'
    <3> HIDE DEF rows
    <3> QED BY <1>1, <2>2, <2>3
  <2> QED BY <2>4 DEF InBounds
<1>2. CASE <<scope, status>> \in unkept
  BY <1>2 DEF InBounds, Owed
<1>3. ASSUME NEW h \in Events \cup Requests, ToTrim(h, scope, status) PROVE InBounds(scope, status)'
  <2>1. writing[h].scopes # <<>>
    BY <1>3 DEF ToTrim
  <2>2. ToTrim(h, scope, status)'
    BY <1>3, <2>1 DEF ToTrim
  <2> QED BY <2>2 DEF InBounds, Owed
<1>4. ASSUME NEW e \in Events, status = "unread", Undelivered(e), Wants(e, scope) PROVE InBounds(scope, status)'
  BY <1>4, Zenon DEF InBounds, Owed, Wants
<1>5. ASSUME NEW h \in Events \cup Requests, Found(h, scope, status) PROVE InBounds(scope, status)'
  <2>1. writing'[h] = writing[h]
    BY <1>5 DEF Found
  <2>2. left(h)' \in SUBSET left(h) /\ left(h) \in SUBSET inbox
    BY <2>1 DEF Rows
  <2>3. Cardinality(left(h)') \in Nat /\ Cardinality(left(h)) \in Nat /\ Cardinality(left(h)') <= Cardinality(left(h))
    BY <2>2, FewerRows
  <2>4. Keep(status) \in Nat /\ Keep(status)' = Keep(status) /\ Cardinality(left(h)) <= Keep(status)
    BY <1>5, SizesAssumption DEF Keep, Found
  <2>5. Cardinality(left(h)') <= Keep(status)'
    <3> HIDE DEF left
    <3> QED BY <2>3, <2>4
  <2>6. Found(h, scope, status)'
    BY <1>5, <2>1, <2>5 DEF Found
  <2> QED BY <2>6 DEF InBounds
<1> QED BY <1>1, <1>2, <1>3, <1>4, <1>5 DEF InBounds, Owed, Wants

\* A step that leaves the rows and the trims alone.
LEMMA QuietStep ==
    ASSUME Basis, [Next]_vars, NEW scope, NEW status, InBounds(scope, status), inbox' \in SUBSET inbox, unkept' = unkept,
           \A h \in Events \cup Requests :
               writing[h] # Idle /\ writing[h].step = "trim" /\ writing[h].scopes # <<>> => writing'[h] = writing[h],
           \A e \in Events : Undelivered(e) /\ Wants(e, scope) =>
               /\ state'[e] = state[e] /\ ledger'[e] = ledger[e]
               /\ job'[e] = job[e] \/ job'[e] = Idle \/ "inbox" \notin job'[e].done
               /\ writing'[e] = writing[e] \/ writing'[e] = Idle \/ writing'[e].step = "insert"
    PROVE  InBounds(scope, status)'
<1>1. Rows(scope, status)' \in SUBSET Rows(scope, status)
  BY DEF Rows, Scope
<1>2. \A e \in Events : Undelivered(e) /\ Wants(e, scope) => Undelivered(e)' /\ Wants(e, scope)'
  BY StaysUndelivered
<1> QED BY <1>1, <1>2, StaysInBounds

LEMMA WorkerQuiet ==
    ASSUME Basis, [Next]_vars, NEW scope, NEW status, InBounds(scope, status), live, NEW d \in Events,
           \/ Announce(d) \/ Replay(d) \/ Claim(d) \/ Mail(d) \/ Text(d) \/ InboxFind(d)
           \/ writing[d] # Idle /\ InboxDone(d)
    PROVE  InBounds(scope, status)'
<1>0. /\ state \in [Events -> {"none", "pending", "delivered", "failed"}] /\ ledger \in [Events -> SUBSET Targets]
      /\ job \in [Events -> {Idle} \cup Jobs] /\ writing \in [Events \cup Requests -> {Idle} \cup Writings]
      /\ "inbox" \in Targets
  BY TargetsAssumption DEF Basis, Types
<1>1. inbox' \in SUBSET inbox /\ unkept' = unkept
  BY Zenon DEF Announce, Replay, Claim, Mail, Text, InboxFind, InboxDone
<1>2. ASSUME NEW e \in Events, Undelivered(e)
      PROVE  state[e] = "pending" /\ "inbox" \notin ledger[e] /\ (job[e] # Idle => "inbox" \notin job[e].done)
             /\ (writing[e] # Idle => writing[e].step = "insert")
  BY <1>2 DEF Undelivered
<1>3. CASE writing' = writing /\ (CommitEvent(d) \/ Reopen(d)) /\ job' = job
  <2>1. state[d] # "pending" /\ ledger' = ledger /\ \A e \in Events : e # d => state'[e] = state[e]
    BY <1>0, <1>3 DEF CommitEvent, Reopen
  <2>2. \A e \in Events : Undelivered(e) => state'[e] = state[e]
    BY <1>2, <2>1
  <2> HIDE DEF Undelivered
  <2> QED BY <1>1, <1>3, <2>1, <2>2, QuietStep
<1>4. CASE Announce(d) \/ Replay(d)
  BY <1>3, <1>4 DEF Announce, Replay
<1>5. CASE Claim(d)
  <2>1. /\ state' = state /\ ledger' = ledger /\ writing' = writing
        /\ job'[d].done = ledger[d] /\ \A e \in Events : e # d => job'[e] = job[e]
    BY <1>0, <1>5 DEF Claim, courier
  <2>2. \A e \in Events : Undelivered(e) => job'[e] = job[e] \/ "inbox" \notin job'[e].done
    BY <1>0, <1>2, <2>1
  <2> HIDE DEF Undelivered
  <2> QED BY <1>1, <2>1, <2>2, QuietStep
<1>6. ASSUME NEW x \in {"mail", "phone"}, Acknowledge(d, x) \/ Refuse(d, x), job[d] # Idle, writing' = writing
      PROVE  InBounds(scope, status)'
  <2>1. /\ state' = state /\ ledger' = ledger /\ \A e \in Events : e # d => job'[e] = job[e]
        /\ "inbox" \notin job[d].done => "inbox" \notin job'[d].done
    BY <1>0, <1>6 DEF Acknowledge, Refuse, Hand, courier, Jobs
  <2>2. \A e \in Events : Undelivered(e) => job'[e] = job[e] \/ "inbox" \notin job'[e].done
    BY <1>2, <1>6, <2>1
  <2> HIDE DEF Undelivered
  <2> QED BY <1>1, <1>6, <2>1, <2>2, QuietStep
<1>7. CASE Mail(d)
  <2>1. job[d] # Idle /\ writing' = writing /\ (Acknowledge(d, "mail") \/ Refuse(d, "mail"))
    BY <1>7, Zenon DEF Mail, Trying
  <2> QED BY <1>6, <2>1
<1>8. CASE Text(d)
  <2>1. job[d] # Idle /\ writing' = writing /\ (Acknowledge(d, "phone") \/ Refuse(d, "phone"))
    BY <1>8, Zenon DEF Text, Trying
  <2> QED BY <1>6, <2>1
<1>10. CASE InboxFind(d)
  <2>1. CASE writing' = [writing EXCEPT ![d] = [step |-> "insert"]] /\ UNCHANGED <<courier, job, failures>> /\ writing[d] = Idle
    <3>1. /\ state' = state /\ ledger' = ledger /\ job' = job /\ writing'[d].step = "insert"
          /\ \A k \in Events \cup Requests : k # d => writing'[k] = writing[k]
      BY <1>0, <2>1 DEF courier
    <3> HIDE DEF Undelivered
    <3> QED BY <1>1, <2>1, <3>1, QuietStep
  <2>2. CASE NotificationsFor(content[d]) = {} /\ Acknowledge(d, "inbox") /\ writing' = writing
    <3>1. /\ state' = state /\ ledger' = ledger /\ \A e \in Events : e # d => job'[e] = job[e]
      BY <1>0, <2>2 DEF Acknowledge, Hand
    <3>2. ~Wants(d, scope)
      BY <2>2 DEF Wants, TrimsAfter, ScopesOf
    <3> HIDE DEF Undelivered, Wants
    <3>3. \A e \in Events : Undelivered(e) /\ Wants(e, scope) => e # d
      BY <3>2
    <3> QED BY <1>1, <2>2, <3>1, <3>3, QuietStep
  <2> QED BY <1>10, <2>1, <2>2 DEF InboxFind, Trying
<1>11. CASE writing[d] # Idle /\ InboxDone(d)
  <2>1. /\ writing[d].step = "trim" /\ writing[d].scopes = <<>> /\ Acknowledge(d, "inbox")
        /\ \A k \in Events \cup Requests : k # d => writing'[k] = writing[k]
    BY <1>0, <1>11 DEF InboxDone
  <2>2. /\ state' = state /\ ledger' = ledger /\ \A e \in Events : e # d => job'[e] = job[e]
    BY <1>0, <2>1 DEF Acknowledge, Hand
  <2>3. \A e \in Events : Undelivered(e) => e # d
    BY <1>2, <1>11, <2>1
  <2> HIDE DEF Undelivered
  <2> QED BY <1>1, <2>1, <2>2, <2>3, QuietStep
<1> QED BY <1>4, <1>5, <1>7, <1>8, <1>10, <1>11

\* What others do to the accounts and the templates, and a request that starts or ends.
LEMMA OthersQuiet ==
    ASSUME Basis, [Next]_vars, NEW scope, NEW status, InBounds(scope, status), live',
           \/ UNCHANGED vars \/ DeleteOrganization
           \/ \E p \in People : ChangeAccount(p) \/ DeleteAccount(p)
           \/ \E channel \in DOMAIN template : ChangeTemplate(channel)
           \/ \E q \in Requests : \/ writing[q] # Idle /\ Answer(q)
                                  \/ \E p \in People, m \in Messages : MessageFind(q, m, p)
    PROVE  InBounds(scope, status)'
<1>0. /\ state \in [Events -> {"none", "pending", "delivered", "failed"}]
      /\ writing \in [Events \cup Requests -> {Idle} \cup Writings] /\ Events \cap Requests = {}
  BY NamesAssumption DEF Basis, Types
<1>1. ASSUME inbox' \in SUBSET inbox, unkept' = unkept, job' = job,
             UNCHANGED courier \/ \E c : InItsTransaction(c),
             \A e \in Events : writing'[e] = writing[e],
             \A h \in Events \cup Requests :
                 writing[h] # Idle /\ writing[h].step = "trim" /\ writing[h].scopes # <<>> => writing'[h] = writing[h]
      PROVE  InBounds(scope, status)'
  <2>1. \A e \in Events : state[e] = "pending" => state'[e] = state[e] /\ ledger'[e] = ledger[e]
    BY <1>0, <1>1 DEF InItsTransaction, CommitEvent, courier
  <2>2. \A e \in Events : Undelivered(e) => state'[e] = state[e] /\ ledger'[e] = ledger[e]
    BY <2>1 DEF Undelivered
  <2> HIDE DEF Undelivered, Wants, InBounds
  <2> QED BY <1>1, <2>2, QuietStep
<1>2. CASE UNCHANGED vars
  BY <1>1, <1>2 DEF vars
<1>3. ~DeleteOrganization
  BY DEF DeleteOrganization
<1>4. ASSUME NEW p \in People, ChangeAccount(p) PROVE InBounds(scope, status)'
  BY <1>1, <1>4 DEF ChangeAccount
<1>5. ASSUME NEW p \in People, DeleteAccount(p) PROVE InBounds(scope, status)'
  <2>1. inbox' \in SUBSET inbox /\ unkept' = unkept /\ job' = job /\ writing' = writing /\ InItsTransaction(Withdrawn(p))
    BY <1>5 DEF DeleteAccount
  <2> QED BY <1>1, <2>1
<1>6. ASSUME NEW channel, ChangeTemplate(channel) PROVE InBounds(scope, status)'
  BY <1>1, <1>6 DEF ChangeTemplate
<1>7. ASSUME NEW q \in Requests, writing[q] # Idle, Answer(q) PROVE InBounds(scope, status)'
  <2>1. /\ inbox' = inbox /\ unkept' = unkept /\ job' = job /\ UNCHANGED courier /\ writing[q].scopes = <<>>
        /\ \A h \in Events \cup Requests : h # q => writing'[h] = writing[h]
    BY <1>0, <1>7 DEF Answer
  <2> QED BY <1>0, <1>1, <2>1
<1>8. ASSUME NEW q \in Requests, NEW p \in People, NEW m \in Messages, MessageFind(q, m, p) PROVE InBounds(scope, status)'
  <2>1. /\ inbox' = inbox /\ unkept' = unkept /\ job' = job /\ UNCHANGED courier /\ writing[q] = Idle
        /\ \A h \in Events \cup Requests : h # q => writing'[h] = writing[h]
    BY <1>0, <1>8 DEF MessageFind
  <2> QED BY <1>0, <1>1, <2>1
<1> QED BY <1>2, <1>3, <1>4, <1>5, <1>6, <1>7, <1>8

\* Rows are added: whoever adds them will trim.
LEMMA AddersTrim ==
    ASSUME Basis, [Next]_vars, NEW scope, NEW status, InBounds(scope, status),
           NEW h \in Events \cup Requests, NEW scopes \in Seq(Owners), NEW s \in Statuses,
           writing' = [writing EXCEPT ![h] = Trim(scopes, s)],
           UNCHANGED <<state, ledger, job, unkept>>,
           writing[h] # Idle => writing[h].step # "trim",
           \A r \in inbox' : r \in inbox \/ (r.status = s /\ \E i \in DOMAIN scopes : scopes[i] = Scope(r)),
           h \in Events => s = "unread" /\ scopes = TrimsAfter(h)
    PROVE  InBounds(scope, status)'
<1>0. writing \in [Events \cup Requests -> {Idle} \cup Writings] /\ Idle \notin TrimSteps
  BY NamesAssumption DEF Basis, Types, TrimSteps, Owners, Statuses
<1>1. /\ writing'[h] = Trim(scopes, s) /\ writing'[h] # Idle /\ writing'[h].step = "trim"
      /\ writing'[h].scopes = scopes /\ writing'[h].status = s /\ writing'[h].bound = 0
      /\ \A k \in Events \cup Requests : k # h => writing'[k] = writing[k]
  BY <1>0, TrimStarts
<1>2. ASSUME status = s, \E i \in DOMAIN scopes : scopes[i] = scope PROVE Owed(scope, status)'
  <2>1. ToTrim(h, scope, status)'
    BY <1>1, <1>2 DEF ToTrim
  <2> QED BY <2>1 DEF Owed
<1>3. CASE ~(status = s /\ \E i \in DOMAIN scopes : scopes[i] = scope)
  <2>1. Rows(scope, status)' \in SUBSET Rows(scope, status)
    BY <1>3 DEF Rows, Scope
  <2>2. ASSUME NEW e \in Events, status = "unread", Undelivered(e), Wants(e, scope)
        PROVE  Undelivered(e)' /\ Wants(e, scope)'
    <3>1. e # h
      BY <1>3, <2>2 DEF Wants
    <3> QED BY <1>1, <2>2, <3>1, StaysUndelivered
  <2>3. unkept \subseteq unkept' /\ \A k \in Events \cup Requests :
            writing[k] # Idle /\ writing[k].step = "trim" /\ writing[k].scopes # <<>> => writing'[k] = writing[k]
    BY <1>1
  <2> HIDE DEF Undelivered, Wants, InBounds
  <2> QED BY <2>1, <2>2, <2>3, StaysInBounds
<1> QED BY <1>2, <1>3 DEF InBounds

LEMMA RequestsTrim ==
    ASSUME Basis, [Next]_vars, NEW scope, NEW status, InBounds(scope, status),
           \/ \E e \in Events : writing[e] # Idle /\ InboxInsert(e)
           \/ \E q \in Requests : writing[q] # Idle /\ MessageCreate(q)
           \/ \E q \in Requests, p \in People : MarkRead(q, p) \/ MarkAllRead(q, p)
    PROVE  InBounds(scope, status)'
<1>0. inbox \in SUBSET RowSet /\ Events \cap Requests = {}
  BY NamesAssumption DEF Basis, Types
<1>1. ASSUME NEW e \in Events, writing[e] # Idle, InboxInsert(e) PROVE InBounds(scope, status)'
  <2>1. /\ writing[e].step = "insert" /\ inbox' = inbox \cup NewRows(e) /\ UNCHANGED <<state, ledger, job, unkept>>
        /\ writing' = [writing EXCEPT ![e] = Trim(TrimsAfter(e), "unread")]
    BY <1>1 DEF InboxInsert, courier
  <2>2. Proper(content[e]) /\ content[e].user \in People
    BY <1>1, InHand DEF Proper
  <2>3. /\ TrimsAfter(e) \in Seq(Owners)
        /\ \A o : (\E i \in DOMAIN TrimsAfter(e) : TrimsAfter(e)[i] = o)
                  <=> \/ "client" \in NotificationsFor(content[e]) /\ o = content[e].user
                      \/ "staff" \in NotificationsFor(content[e]) /\ o = "staff"
    BY <2>2, ScopesAre DEF TrimsAfter
  <2>4. \A r \in NewRows(e) : /\ r.status = "unread" /\ r.audience \in NotificationsFor(content[e])
                              /\ r.audience \in {"client", "staff"}
                              /\ r.user = (IF r.audience = "client" THEN content[e].user ELSE None)
    BY <2>2, NewRowsAre
  <2>5. \A r \in NewRows(e) : r.status = "unread" /\ \E i \in DOMAIN TrimsAfter(e) : TrimsAfter(e)[i] = Scope(r)
    BY <2>3, <2>4 DEF Scope
  <2>6. \A r \in inbox' : r \in inbox \/ (r.status = "unread" /\ \E i \in DOMAIN TrimsAfter(e) : TrimsAfter(e)[i] = Scope(r))
    BY <2>1, <2>5
  <2> HIDE DEF InBounds
  <2> QED BY <1>0, <1>1, <2>1, <2>3, <2>6, AddersTrim DEF Statuses
<1>2. ASSUME NEW q \in Requests, writing[q] # Idle, MessageCreate(q) PROVE InBounds(scope, status)'
  <2> DEFINE u == writing[q].user
             new == Row(writing[q].source, "client", u, clock + 1)
             scopes == << u >>
  <2>1. /\ writing[q].step = "create" /\ inbox' = inbox \cup {new} /\ UNCHANGED <<state, ledger, job, unkept>>
        /\ writing' = [writing EXCEPT ![q] = Trim(scopes, "unread")]
    BY <1>2 DEF MessageCreate, courier
  <2>2. u \in Owners
    BY <1>2, <2>1, InHand DEF Owners
  <2>3. new.status = "unread" /\ Scope(new) = u
    BY DEF Row, Scope
  <2> HIDE DEF u, new
  <2>4. scopes \in Seq(Owners) /\ 1 \in DOMAIN scopes /\ scopes[1] = u
    BY <2>2
  <2> HIDE DEF scopes
  <2>5. \A r \in inbox' : r \in inbox \/ (r.status = "unread" /\ \E i \in DOMAIN scopes : scopes[i] = Scope(r))
    BY <2>1, <2>3, <2>4
  <2> HIDE DEF InBounds
  <2> QED BY <1>0, <1>2, <2>1, <2>4, <2>5, AddersTrim DEF Statuses
<1>3. ASSUME NEW q \in Requests, NEW p \in People, MarkRead(q, p) \/ MarkAllRead(q, p) PROVE InBounds(scope, status)'
  <2>1. PICK rows \in SUBSET inbox, scopes \in Seq(Owners) :
              /\ ReadThen(q, rows, scopes)
              /\ \A r \in rows : \E i \in DOMAIN scopes : scopes[i] = Scope(r)
    BY <1>3, ReadScopes
  <2>2. /\ writing[q] = Idle /\ inbox' = (inbox \ rows) \cup {[r EXCEPT !.status = "read"] : r \in rows}
        /\ writing' = [writing EXCEPT ![q] = Trim(scopes, "read")] /\ UNCHANGED <<state, ledger, job, unkept>>
    BY <2>1 DEF ReadThen, courier
  <2>3. ASSUME NEW r \in inbox', r \notin inbox
        PROVE  r.status = "read" /\ \E i \in DOMAIN scopes : scopes[i] = Scope(r)
    <3>1. PICK o \in rows : r = [o EXCEPT !.status = "read"]
      BY <2>2, <2>3
    <3>2. o \in inbox /\ o \in RowSet
      BY <1>0
    <3>3. r.status = "read" /\ Scope(r) = Scope(o)
      BY <3>1, <3>2 DEF RowSet, Scope
    <3> QED BY <2>1, <3>3
  <2> HIDE DEF InBounds
  <2> QED BY <1>0, <2>2, <2>3, AddersTrim DEF Statuses
<1> QED BY <1>1, <1>2, <1>3

\* A trim that is not over keeps what it has to do; of its first owner, it has
\* found what to delete, or there was nothing.
LEMMA FinderTrims ==
    ASSUME Basis, Stamps, [Next]_vars, NEW scope, NEW status, InBounds(scope, status),
           NEW h \in Events \cup Requests, writing[h] # Idle, TrimFind(h)
    PROVE  InBounds(scope, status)'
<1> DEFINE w == writing[h]
           first == Head(w.scopes)
<1>0. /\ w.step = "trim" /\ w \in TrimSteps /\ w.scopes # <<>> /\ w.scopes \in Seq(Owners) /\ w.bound = 0
      /\ writing \in [Events \cup Requests -> {Idle} \cup Writings] /\ Idle \notin TrimSteps
      /\ first = w.scopes[1]
  BY TrimFinds, NamesAssumption DEF Basis, Types, TrimSteps, Owners, Statuses
<1>1. /\ UNCHANGED <<state, ledger, job, inbox>> /\ unkept' = unkept \ {<<first, w.status>>}
  BY DEF TrimFind, Kept, courier
<1>2. Rows(scope, status)' = Rows(scope, status) /\ Keep(status)' = Keep(status)
  BY <1>1 DEF Rows, Scope, Keep
<1>3. /\ writing'[h] \in TrimSteps /\ writing'[h].step = "trim" /\ writing'[h].status = w.status /\ writing'[h] # Idle
      /\ \A k \in Events \cup Requests : k # h => writing'[k] = writing[k]
      /\ Over(h) = {} => writing'[h].scopes = Tail(w.scopes) /\ writing'[h].bound = 0
      /\ Over(h) # {} => writing'[h].scopes = w.scopes
  <2>1. CASE Over(h) = {}
    BY <1>0, <2>1, TrimFinds, NextScope DEF TrimSteps
  <2>2. CASE Over(h) # {}
    BY <1>0, <2>2, TrimFinds DEF TrimSteps
  <2> QED BY <2>1, <2>2
<1>4. CASE scope = first /\ status = w.status
  <2>1. CASE Over(h) = {}
    <3>1. Cardinality(Rows(scope, status)) <= Keep(status)
      BY <1>4, <2>1, WithinKeep DEF Over
    <3> QED BY <1>2, <3>1 DEF InBounds
  <2>2. CASE Over(h) # {}
    <3>1. PICK r \in Over(h) : r \in inbox /\ writing'[h].bound = r.at
      BY <2>2, TrimFinds
    <3>2. r.at > 0
      BY <3>1 DEF Stamps, Basis, Types
    <3>3. Cardinality({s \in Rows(scope, status) : s.at > r.at}) = Keep(status)
      BY <1>4, <3>1 DEF Over, Newer
    <3>4. Keep(status) \in Nat
      BY SizesAssumption DEF Keep
    <3>5. Cardinality({s \in Rows(scope, status) : s.at > r.at}) <= Keep(status)
      BY <3>3, <3>4
    <3>6. Head(writing'[h].scopes) = scope /\ writing'[h].scopes # <<>>
      BY <1>0, <1>3, <1>4, <2>2
    <3>7. Cardinality({s \in Rows(scope, status)' : s.at > writing'[h].bound}) <= Keep(status)'
      BY <1>2, <3>1, <3>5
    <3>8. Found(h, scope, status)'
      BY <1>3, <1>4, <3>1, <3>2, <3>6, <3>7 DEF Found
    <3> QED BY <3>8 DEF InBounds
  <2> QED BY <2>1, <2>2
<1>5. CASE ~(scope = first /\ status = w.status)
  <2>1. CASE Cardinality(Rows(scope, status)) <= Keep(status)
    BY <1>2, <2>1 DEF InBounds
  <2>2. CASE <<scope, status>> \in unkept
    BY <1>1, <1>5, <2>2 DEF InBounds, Owed
  <2>3. ASSUME NEW k \in Events \cup Requests, ToTrim(k, scope, status) PROVE InBounds(scope, status)'
    <3>1. CASE k # h
      <4>1. ToTrim(k, scope, status)'
        BY <1>3, <2>3, <3>1 DEF ToTrim
      <4> QED BY <4>1 DEF InBounds, Owed
    <3>2. CASE k = h
      <4>1. status = w.status
        BY <2>3, <3>2 DEF ToTrim
      <4>2. PICK i \in DOMAIN w.scopes : w.scopes[i] = scope
        BY <2>3, <3>2 DEF ToTrim
      <4>3. i # 1
        BY <1>0, <1>5, <4>1, <4>2
      <4>4. CASE Over(h) # {}
        <5>1. ToTrim(h, scope, status)'
          BY <1>3, <4>1, <4>2, <4>3, <4>4 DEF ToTrim
        <5> QED BY <5>1 DEF InBounds, Owed
      <4>5. CASE Over(h) = {}
        <5> DEFINE s == w.scopes
        <5>1. s \in Seq(Owners) /\ s # <<>> /\ i \in DOMAIN s /\ i # 1
          BY <1>0, <4>2, <4>3
        <5> HIDE DEF s
        <5>2. i - 1 \in DOMAIN Tail(s) /\ Tail(s)[i - 1] = s[i]
          BY <5>1
        <5>3. ToTrim(h, scope, status)'
          BY <1>3, <4>1, <4>2, <4>5, <5>2 DEF ToTrim, s
        <5> QED BY <5>3 DEF InBounds, Owed
      <4> QED BY <4>4, <4>5
    <3> QED BY <3>1, <3>2
  <2>4. ASSUME NEW e \in Events, status = "unread", Undelivered(e), Wants(e, scope) PROVE InBounds(scope, status)'
    <3>1. e # h
      BY <1>0, <2>4 DEF Undelivered
    <3>2. Undelivered(e)' /\ Wants(e, scope)'
      BY <1>1, <1>3, <2>4, <3>1, StaysUndelivered
    <3> QED BY <2>4, <3>2, Zenon DEF InBounds, Owed, Wants
  <2>5. ASSUME NEW k \in Events \cup Requests, Found(k, scope, status) PROVE InBounds(scope, status)'
    <3>1. k # h
      BY <1>0, <2>5 DEF Found
    <3>2. writing'[k] = writing[k]
      BY <1>3, <3>1
    <3>3. Found(k, scope, status)'
      BY <1>2, <2>5, <3>2 DEF Found
    <3> QED BY <3>3 DEF InBounds
  <2> QED BY <2>1, <2>2, <2>3, <2>4, <2>5 DEF InBounds, Owed, Wants
<1> QED BY <1>4, <1>5

LEMMA DeleterTrims ==
    ASSUME Basis, [Next]_vars, NEW scope, NEW status, InBounds(scope, status),
           NEW h \in Events \cup Requests, writing[h] # Idle, TrimDelete(h)
    PROVE  InBounds(scope, status)'
<1> DEFINE w == writing[h]
           first == Head(w.scopes)
           rows == Rows(scope, status)
<1>0. /\ w.step = "trim" /\ w \in TrimSteps /\ w.scopes # <<>> /\ w.scopes \in Seq(Owners) /\ w.bound \in Nat \ {0}
      /\ Idle \notin TrimSteps /\ first = w.scopes[1]
  BY TrimDeletes, NamesAssumption DEF TrimSteps, Owners, Statuses
<1>1. /\ UNCHANGED <<state, ledger, job, unkept>>
      /\ inbox' = inbox \ {r \in Rows(first, w.status) : r.at <= w.bound}
  BY DEF TrimDelete, courier
<1>2. /\ rows' \in SUBSET rows /\ rows \in SUBSET inbox /\ Keep(status)' = Keep(status) /\ Keep(status) \in Nat
      /\ \A r \in rows : r.at \in Nat
  BY <1>1, SizesAssumption DEF Rows, Scope, Keep, Basis, Types, RowSet
<1>3. /\ writing'[h] \in TrimSteps /\ writing'[h].step = "trim" /\ writing'[h].status = w.status /\ writing'[h] # Idle
      /\ \A k \in Events \cup Requests : k # h => writing'[k] = writing[k]
      /\ writing'[h].scopes = Tail(w.scopes) /\ writing'[h].bound = 0
  BY <1>0, TrimDeletes, NextScope DEF TrimSteps
<1>4. ASSUME NEW A \in SUBSET inbox, rows' \in SUBSET A, Cardinality(A) <= Keep(status) PROVE InBounds(scope, status)'
  <2>1. Cardinality(rows') \in Nat /\ Cardinality(A) \in Nat /\ Cardinality(rows') <= Cardinality(A)
    BY <1>4, FewerRows
  <2>2. Cardinality(rows') <= Keep(status)'
    <3> HIDE DEF rows
    <3> QED BY <1>2, <1>4, <2>1
  <2> QED BY <2>2 DEF InBounds
<1>5. CASE Cardinality(rows) <= Keep(status)
  BY <1>2, <1>4, <1>5
<1>6. CASE <<scope, status>> \in unkept
  BY <1>1, <1>6 DEF InBounds, Owed
<1>7. ASSUME NEW k \in Events \cup Requests, ToTrim(k, scope, status) PROVE InBounds(scope, status)'
  <2>1. CASE k # h
    <3>1. ToTrim(k, scope, status)'
      BY <1>3, <1>7, <2>1 DEF ToTrim
    <3> QED BY <3>1 DEF InBounds, Owed
  <2>2. CASE k = h
    <3>1. PICK i \in DOMAIN w.scopes : w.scopes[i] = scope /\ (i = 1 => w.bound = 0)
      BY <1>7, <2>2 DEF ToTrim
    <3> DEFINE s == w.scopes
    <3>2. s \in Seq(Owners) /\ s # <<>> /\ i \in DOMAIN s /\ i # 1
      BY <1>0, <3>1
    <3> HIDE DEF s
    <3>3. i - 1 \in DOMAIN Tail(s) /\ Tail(s)[i - 1] = s[i]
      BY <3>2
    <3>4. ToTrim(h, scope, status)'
      BY <1>3, <1>7, <2>2, <3>1, <3>3 DEF ToTrim, s
    <3> QED BY <3>4 DEF InBounds, Owed
  <2> QED BY <2>1, <2>2
<1>8. ASSUME NEW e \in Events, status = "unread", Undelivered(e), Wants(e, scope) PROVE InBounds(scope, status)'
  <2>1. e # h
    BY <1>0, <1>8 DEF Undelivered
  <2>2. Undelivered(e)' /\ Wants(e, scope)'
    BY <1>1, <1>3, <1>8, <2>1, StaysUndelivered
  <2> QED BY <1>8, <2>2, Zenon DEF InBounds, Owed, Wants
<1>9. ASSUME NEW k \in Events \cup Requests, Found(k, scope, status) PROVE InBounds(scope, status)'
  <2> DEFINE left == {r \in rows : r.at > writing[k].bound}
  <2>1. left \in SUBSET inbox /\ Cardinality(left) <= Keep(status)
    BY <1>2, <1>9 DEF Found
  <2>2. CASE k = h
    <3>1. scope = first /\ status = w.status
      BY <1>9, <2>2 DEF Found
    <3>2. \A r \in rows' : r \in rows /\ ~(r.at <= w.bound)
      BY <1>1, <1>2, <3>1 DEF Rows
    <3>3. \A r \in rows' : r.at > w.bound
      <4> HIDE DEF rows
      <4> QED BY <1>0, <1>2, <3>2
    <3>4. rows' \in SUBSET left
      BY <1>2, <2>2, <3>3
    <3> QED BY <1>4, <2>1, <3>4
  <2>3. CASE k # h
    <3>1. writing'[k] = writing[k]
      BY <1>3, <2>3
    <3>2. left' \in SUBSET left
      BY <1>2, <3>1
    <3>3. Cardinality(left') \in Nat /\ Cardinality(left) \in Nat /\ Cardinality(left') <= Cardinality(left)
      BY <2>1, <3>2, FewerRows
    <3>4. Cardinality(left') <= Keep(status)'
      <4> HIDE DEF left
      <4> QED BY <1>2, <2>1, <3>3
    <3>5. Found(k, scope, status)'
      BY <1>9, <3>1, <3>4 DEF Found
    <3> QED BY <3>5 DEF InBounds
  <2> QED BY <2>2, <2>3
<1> QED BY <1>5, <1>6, <1>7, <1>8, <1>9 DEF InBounds, Owed, Wants

\* A worker that dies leaves the event to be delivered again, a request nothing.
LEMMA CrashTrims ==
    ASSUME Basis, [Next]_vars, NEW scope, NEW status, InBounds(scope, status), NEW h \in Events \cup Requests, Crash(h)
    PROVE  InBounds(scope, status)'
<1>0. /\ writing \in [Events \cup Requests -> {Idle} \cup Writings] /\ job \in [Events -> {Idle} \cup Jobs]
      /\ Events \cap Requests = {}
  BY NamesAssumption DEF Basis, Types
<1>1. /\ UNCHANGED <<state, ledger, got, content, inbox>> /\ writing'[h] = Idle
      /\ \A k \in Events \cup Requests : k # h => writing'[k] = writing[k]
      /\ \A e \in Events : job'[e] = (IF e = h THEN Idle ELSE job[e])
      /\ unkept \subseteq unkept'
      /\ h \in Requests /\ writing[h].step = "trim" =>
            \A i \in DOMAIN writing[h].scopes : <<writing[h].scopes[i], writing[h].status>> \in unkept'
  BY <1>0 DEF Crash, courier
<1>2. ASSUME writing[h] # Idle, writing[h].step = "trim", writing[h].status = status,
             NEW i \in DOMAIN writing[h].scopes, writing[h].scopes[i] = scope
      PROVE  Owed(scope, status)'
  <2>1. CASE h \in Requests
    BY <1>1, <1>2, <2>1 DEF Owed
  <2>2. CASE h \in Events
    <3>1. /\ state[h] = "pending" /\ "inbox" \notin ledger[h] /\ status = "unread"
          /\ \E j \in DOMAIN TrimsAfter(h) : TrimsAfter(h)[j] = scope
      BY <1>2, <2>2 DEF Basis, Delivering, Held
    <3>2. TrimsAfter(h)' = TrimsAfter(h)
      BY <1>1 DEF TrimsAfter, ScopesOf, NotificationsFor, ToClient, ToStaff, ActorKind, CancelledBy
    <3>3. Undelivered(h)'
      BY <1>1, <2>2, <3>1 DEF Undelivered
    <3> QED BY <2>2, <3>1, <3>2, <3>3 DEF Owed
  <2> QED BY <2>1, <2>2
<1>3. ASSUME NEW e \in Events, status = "unread", Undelivered(e), Wants(e, scope)
      PROVE  Undelivered(e)' /\ Wants(e, scope)'
  BY <1>1, <1>3, StaysUndelivered
<1>4. CASE writing[h] # Idle /\ writing[h].step = "trim" /\ writing[h].status = status
           /\ \E i \in DOMAIN writing[h].scopes : writing[h].scopes[i] = scope
  BY <1>2, <1>4 DEF InBounds
<1>5. CASE ~(writing[h] # Idle /\ writing[h].step = "trim" /\ writing[h].status = status
             /\ \E i \in DOMAIN writing[h].scopes : writing[h].scopes[i] = scope)
  <2>1. Rows(scope, status)' = Rows(scope, status) /\ Keep(status)' = Keep(status)
    BY <1>1 DEF Rows, Scope, Keep
  <2>2. CASE Cardinality(Rows(scope, status)) <= Keep(status)
    BY <2>1, <2>2 DEF InBounds
  <2>3. CASE <<scope, status>> \in unkept
    BY <1>1, <2>3 DEF InBounds, Owed
  <2>4. ASSUME NEW k \in Events \cup Requests, ToTrim(k, scope, status) PROVE InBounds(scope, status)'
    <3>1. k # h
      BY <1>5, <2>4 DEF ToTrim
    <3>2. ToTrim(k, scope, status)'
      BY <1>1, <2>4, <3>1 DEF ToTrim
    <3> QED BY <3>2 DEF InBounds, Owed
  <2>5. ASSUME NEW e \in Events, status = "unread", Undelivered(e), Wants(e, scope) PROVE InBounds(scope, status)'
    BY <1>3, <2>5, Zenon DEF InBounds, Owed, Wants
  <2>6. ASSUME NEW k \in Events \cup Requests, Found(k, scope, status) PROVE InBounds(scope, status)'
    <3>1. k # h
      <4>1. writing[k] \in TrimSteps
        BY <2>6, InHand DEF Found
      <4>2. 1 \in DOMAIN writing[k].scopes /\ writing[k].scopes[1] = scope
        BY <2>6, <4>1 DEF Found, TrimSteps
      <4> QED BY <1>5, <2>6, <4>2 DEF Found
    <3>2. writing'[k] = writing[k]
      BY <1>1, <3>1
    <3>3. Found(k, scope, status)'
      BY <2>1, <2>6, <3>2 DEF Found
    <3> QED BY <3>3 DEF InBounds
  <2> QED BY <2>2, <2>3, <2>4, <2>5, <2>6 DEF InBounds, Owed, Wants
<1> QED BY <1>4, <1>5

\* An attempt that ends without the inbox is due again, or leaves its trims undone.
LEMMA FinishTrims ==
    ASSUME Basis, [Next]_vars, NEW scope, NEW status, InBounds(scope, status), NEW d \in Events, Finish(d)
    PROVE  InBounds(scope, status)'
<1>0. /\ state \in [Events -> {"none", "pending", "delivered", "failed"}] /\ ledger \in [Events -> SUBSET Targets]
      /\ job \in [Events -> {Idle} \cup Jobs] /\ "inbox" \in Targets
  BY TargetsAssumption DEF Basis, Types
<1>1. PICK outcome \in {"pending", "delivered", "failed"} :
          /\ Settle(d, job[d].done, outcome)
          /\ unkept' = IF outcome = "failed" /\ "inbox" \notin job[d].done THEN unkept \cup GivenUp(d) ELSE unkept
  BY DEF Finish
<1>2. /\ job[d] # Idle /\ writing[d] = Idle /\ UNCHANGED <<writing, inbox, content>> /\ job'[d] = Idle
      /\ state'[d] = outcome /\ ledger'[d] = job[d].done /\ (outcome = "delivered" => job[d].done = Targets)
      /\ \A e \in Events : e # d => state'[e] = state[e] /\ ledger'[e] = ledger[e] /\ job'[e] = job[e]
  BY <1>0, <1>1 DEF Finish, Settle
<1>3. Rows(scope, status)' \in SUBSET Rows(scope, status) /\ unkept \subseteq unkept'
  BY <1>1, <1>2 DEF Rows, Scope
<1>4. ASSUME NEW e \in Events, status = "unread", Undelivered(e), Wants(e, scope)
      PROVE  Owed(scope, status)' \/ (Undelivered(e)' /\ Wants(e, scope)')
  <2>1. CASE e # d
    BY <1>2, <1>4, <2>1, StaysUndelivered
  <2>2. CASE e = d
    <3>1. "inbox" \notin job[d].done /\ outcome # "delivered"
      BY <1>0, <1>2, <1>4, <2>2 DEF Undelivered
    <3>2. CASE outcome = "failed"
      <4>1. <<scope, "unread">> \in unkept'
        BY <1>1, <1>4, <2>2, <3>1, <3>2 DEF GivenUp, Wants
      <4> QED BY <1>4, <4>1 DEF Owed
    <3>3. CASE outcome = "pending"
      <4>1. Undelivered(e)'
        BY <1>2, <2>2, <3>1, <3>3 DEF Undelivered
      <4>2. Wants(e, scope)'
        BY <1>2, <1>4
           DEF Wants, TrimsAfter, ScopesOf, NotificationsFor, ToClient, ToStaff, ActorKind, CancelledBy
      <4> QED BY <4>1, <4>2
    <3> QED BY <3>1, <3>2, <3>3
  <2> QED BY <2>1, <2>2
<1> HIDE DEF Undelivered, Wants, InBounds, Owed
<1> QED BY <1>2, <1>3, <1>4, StaysInBounds

\* An inbox that fails may have added rows; its event is still to be delivered.
LEMMA RefusalTrims ==
    ASSUME Basis, [Next]_vars, NEW scope, NEW status, InBounds(scope, status), NEW d \in Events, InboxRefuse(d)
    PROVE  InBounds(scope, status)'
<1>0. /\ writing \in [Events \cup Requests -> {Idle} \cup Writings] /\ job \in [Events -> {Idle} \cup Jobs]
      /\ Held(d) /\ job[d] # Idle
  BY RefusalIs, NamesAssumption DEF Basis, Types, Delivering, Jobs
<1>1. PICK rows \in SUBSET NewRows(d) : Adds(d, rows)
  BY RefusalIs
<1>2. /\ UNCHANGED <<state, ledger, content, unkept>> /\ writing'[d] = Idle
      /\ \A k \in Events \cup Requests : k # d => writing'[k] = writing[k]
      /\ \A e \in Events : e # d => job'[e] = job[e]
      /\ "inbox" \in job[d].todo /\ job'[d].done = job[d].done
  BY <1>0, RefusalIs DEF courier, Jobs
<1>3. Undelivered(d)' /\ TrimsAfter(d)' = TrimsAfter(d)
  <2>1. state[d] = "pending" /\ "inbox" \notin ledger[d] /\ "inbox" \notin job[d].done
    BY <1>0, <1>2 DEF Held
  <2>2. Undelivered(d)'
    BY <1>2, <2>1 DEF Undelivered
  <2> QED BY <1>2, <2>2 DEF TrimsAfter, ScopesOf, NotificationsFor, ToClient, ToStaff, ActorKind, CancelledBy
<1>4. \A r \in rows : r.status = "unread" /\ Wants(d, Scope(r))
  <2>1. content[d].user \in People
    BY <1>1 DEF Adds, Proper
  <2>2. \A o : Wants(d, o)
                 <=> \/ "client" \in NotificationsFor(content[d]) /\ o = content[d].user
                     \/ "staff" \in NotificationsFor(content[d]) /\ o = "staff"
    BY <2>1, ScopesAre DEF TrimsAfter, Wants
  <2>3. \A r \in rows : /\ r.status = "unread" /\ r.audience \in NotificationsFor(content[d])
                        /\ r.audience \in {"client", "staff"}
                        /\ r.user = (IF r.audience = "client" THEN content[d].user ELSE None)
    BY <1>1, NewRowsAre DEF Adds
  <2> QED BY <2>2, <2>3 DEF Scope
<1>5. CASE status = "unread" /\ Wants(d, scope)
  BY <1>3, <1>5 DEF InBounds, Owed, Wants
<1>6. CASE ~(status = "unread" /\ Wants(d, scope))
  <2>1. Rows(scope, status)' = Rows(scope, status) /\ Keep(status)' = Keep(status)
    <3>1. \A r \in rows : ~(Scope(r) = scope /\ r.status = status)
      BY <1>4, <1>6
    <3>2. inbox' = inbox \cup rows
      BY <1>1 DEF Adds
    <3> QED BY <3>1, <3>2 DEF Rows, Scope, Keep
  <2>2. CASE Cardinality(Rows(scope, status)) <= Keep(status)
    BY <2>1, <2>2 DEF InBounds
  <2>3. CASE <<scope, status>> \in unkept
    BY <1>2, <2>3 DEF InBounds, Owed
  <2>4. ASSUME NEW k \in Events \cup Requests, ToTrim(k, scope, status) PROVE InBounds(scope, status)'
    <3>1. k # d
      BY <1>0, <1>6, <2>4 DEF ToTrim, Held, Wants
    <3>2. ToTrim(k, scope, status)'
      BY <1>2, <2>4, <3>1 DEF ToTrim
    <3> QED BY <3>2 DEF InBounds, Owed
  <2>5. ASSUME NEW e \in Events, status = "unread", Undelivered(e), Wants(e, scope) PROVE InBounds(scope, status)'
    <3>1. e # d
      BY <1>6, <2>5
    <3>2. Undelivered(e)' /\ Wants(e, scope)'
      BY <1>2, <2>5, <3>1, StaysUndelivered
    <3> QED BY <2>5, <3>2, Zenon DEF InBounds, Owed, Wants
  <2>6. ASSUME NEW k \in Events \cup Requests, Found(k, scope, status) PROVE InBounds(scope, status)'
    <3>1. k # d
      <4>1. writing[k] \in TrimSteps
        BY <2>6, InHand DEF Found
      <4>2. 1 \in DOMAIN writing[k].scopes /\ writing[k].scopes[1] = scope
        BY <2>6, <4>1 DEF Found, TrimSteps
      <4> QED BY <1>0, <1>6, <2>6, <4>2 DEF Found, Held, Wants
    <3>2. writing'[k] = writing[k]
      BY <1>2, <3>1
    <3>3. Found(k, scope, status)'
      BY <2>1, <2>6, <3>2 DEF Found
    <3> QED BY <3>3 DEF InBounds
  <2> QED BY <2>2, <2>3, <2>4, <2>5, <2>6 DEF InBounds, Owed, Wants
<1> QED BY <1>5, <1>6

\* An organization that is gone stays gone.
LEMMA StillThere ==
    ASSUME [Next]_vars, live'
    PROVE  live
<1> DEFINE Same == live' = live
<1>1. ASSUME NEW e \in Events PROVE Announce(e) \/ Replay(e) \/ Claim(e) \/ Finish(e) => Same
  BY Zenon DEF Announce, Replay, Claim, Finish, outside
<1>2. ASSUME NEW e \in Events
      PROVE  Mail(e) \/ Text(e) \/ InboxFind(e) \/ InboxInsert(e) \/ InboxDone(e) \/ InboxRefuse(e) => Same
  BY Zenon DEF Mail, Text, InboxFind, InboxInsert, InboxDone, InboxRefuse, outside
<1>3. ASSUME NEW q \in Requests, NEW p \in People
      PROVE  MarkRead(q, p) \/ MarkAllRead(q, p) \/ (\E m \in Messages : MessageFind(q, m, p)) => Same
  BY Zenon DEF MarkRead, MarkAllRead, ReadThen, MessageFind
<1>4. ASSUME NEW q \in Requests PROVE MessageCreate(q) \/ Answer(q) => Same
  BY Zenon DEF MessageCreate, Answer, outside
<1>5. ASSUME NEW h \in Events \cup Requests PROVE Crash(h) \/ TrimFind(h) \/ TrimDelete(h) => Same
  BY Zenon DEF Crash, TrimFind, TrimDelete, outside
<1>6. ASSUME NEW p \in People PROVE ChangeAccount(p) \/ DeleteAccount(p) => Same
  BY Zenon DEF ChangeAccount, DeleteAccount
<1>7. ASSUME NEW channel PROVE ChangeTemplate(channel) => Same
  BY Zenon DEF ChangeTemplate
<1>8. UNCHANGED vars => Same
  BY Zenon DEF vars, outside
<1>9. ~DeleteOrganization
  BY DEF DeleteOrganization
<1> HIDE DEF Same
<1>10. Same
  BY Steps, <1>1, <1>2, <1>3, <1>4, <1>5, <1>6, <1>7, <1>8, <1>9, Zenon
<1> QED BY <1>10 DEF Same

LEMMA TrimmedStep ==
    ASSUME Basis, Stamps, Trimmed, [Next]_vars
    PROVE  Trimmed'
<1> SUFFICES ASSUME live', NEW scope \in Owners, NEW status \in Statuses
             PROVE  InBounds(scope, status)'
  BY DEF Trimmed, Owners, Statuses
<1>1. live /\ InBounds(scope, status)
  BY StillThere DEF Trimmed
<1>2. ASSUME NEW e \in Events,
             \/ Announce(e) \/ Replay(e) \/ Claim(e) \/ Mail(e) \/ Text(e) \/ InboxFind(e)
             \/ writing[e] # Idle /\ InboxDone(e)
      PROVE  InBounds(scope, status)'
  BY <1>1, <1>2, WorkerQuiet
<1>3. ASSUME NEW e \in Events, writing[e] # Idle, InboxInsert(e) PROVE InBounds(scope, status)'
  BY <1>1, <1>3, RequestsTrim
<1>4. ASSUME NEW q \in Requests,
             \/ writing[q] # Idle /\ MessageCreate(q)
             \/ \E p \in People : MarkRead(q, p) \/ MarkAllRead(q, p)
      PROVE  InBounds(scope, status)'
  BY <1>1, <1>4, RequestsTrim
<1>5. ASSUME NEW q \in Requests,
             \/ writing[q] # Idle /\ Answer(q)
             \/ \E p \in People, m \in Messages : MessageFind(q, m, p)
      PROVE  InBounds(scope, status)'
  BY <1>1, <1>5, OthersQuiet
<1>6. ASSUME NEW h \in Events \cup Requests,
             Crash(h) \/ (writing[h] # Idle /\ TrimFind(h)) \/ (writing[h] # Idle /\ TrimDelete(h))
      PROVE  InBounds(scope, status)'
  BY <1>1, <1>6, CrashTrims, FinderTrims, DeleterTrims
<1>7. ASSUME NEW p \in People, ChangeAccount(p) \/ DeleteAccount(p) PROVE InBounds(scope, status)'
  BY <1>1, <1>7, OthersQuiet
<1>8. ASSUME NEW channel \in DOMAIN template, ChangeTemplate(channel) PROVE InBounds(scope, status)'
  BY <1>1, <1>8, OthersQuiet
<1>9. CASE DeleteOrganization \/ UNCHANGED vars
  BY <1>1, <1>9, OthersQuiet
<1>11. ASSUME NEW e \in Events, Finish(e) \/ InboxRefuse(e) PROVE InBounds(scope, status)'
  BY <1>1, <1>11, FinishTrims, RefusalTrims
<1> HIDE DEF InBounds
<1>10. CASE Next
  BY <1>10, Steps, <1>2, <1>3, <1>4, <1>5, <1>6, <1>7, <1>8, <1>9, <1>11, Zenon
<1> QED BY <1>9, <1>10

\* Nobody who is owed a trim is left out of InFlight.
LEMMA InboxHolds ==
    ASSUME Basis, Trimmed
    PROVE  InboxBounded
<1> SUFFICES ASSUME live, NEW scope \in Owners, NEW status \in Statuses, ~InFlight(scope, status)
             PROVE  Cardinality(Rows(scope, status)) <= Keep(status)
  BY DEF InboxBounded, Owners, Statuses
<1>0. writing \in [Events \cup Requests -> {Idle} \cup Writings] /\ DOMAIN writing = Events \cup Requests
  BY DEF Basis, Types
<1>1. InBounds(scope, status)
  BY DEF Trimmed
<1>2. ASSUME NEW h \in Events \cup Requests PROVE ~ToTrim(h, scope, status)
  BY <1>0 DEF InFlight, ToTrim
<1>3. ASSUME NEW h \in Events \cup Requests PROVE ~Found(h, scope, status)
  <2> SUFFICES ASSUME Found(h, scope, status) PROVE FALSE
    OBVIOUS
  <2>1. writing[h] \in TrimSteps
    BY InHand DEF Found
  <2>2. 1 \in DOMAIN writing[h].scopes /\ writing[h].scopes[1] = scope
    BY <2>1 DEF Found, TrimSteps
  <2> QED BY <1>0, <2>2 DEF InFlight, Found
<1>4. ASSUME status = "unread", NEW e \in Events, Undelivered(e), Wants(e, scope) PROVE FALSE
  BY <1>4 DEF InFlight, Undelivered, Wants
<1> QED BY <1>1, <1>2, <1>3, <1>4 DEF InBounds, Owed, InFlight, Wants

-----------------------------------------------------------------------------
(* Pages.                                                                   *)

\* What a person sees is in a strict order: no two rows are of the same moment,
\* but for one of their own and one of the staff's, and their own comes first.
LEMMA VisibleOrder ==
    ASSUME Basis, Stamps, NEW p \in People, NEW rows \in SUBSET Visible(p)
    PROVE  /\ IsFiniteSet(rows) /\ Cardinality(rows) \in Nat
           /\ \E before : /\ IsOrder(before, rows)
                          /\ \A r \in rows : Ranked(before, rows)[r] = Cardinality({s \in rows : Before(s, r)})
<1> DEFINE before == {k \in rows \X rows : Before(k[1], k[2])}
<1>1. rows \in SUBSET inbox /\ IsFiniteSet(rows) /\ Cardinality(rows) \in Nat
  BY FS_Subset, FS_CardinalityType DEF Visible, Basis, Types
<1>2. \A r \in rows : r.at \in Nat /\ r.audience \in {"client", "staff"}
  BY <1>1 DEF Basis, Types, RowSet
<1>3. ASSUME NEW r \in rows, NEW s \in rows, r.at = s.at, r.audience = s.audience PROVE r = s
  <2>1. r \in inbox /\ s \in inbox /\ r \in Visible(p) /\ s \in Visible(p)
    BY <1>1
  <2>2. Scope(r) = Scope(s)
    BY <1>3, <2>1, NamesAssumption DEF Scope, Visible, Addressed, Basis
  <2> QED BY <1>3, <2>1, <2>2 DEF Stamps
<1>4. \A r, s \in rows : <<r, s>> \in before <=> Before(r, s)
  OBVIOUS
<1> HIDE DEF before
<1>5. IsOrder(before, rows)
  BY <1>2, <1>3, <1>4 DEF IsOrder, Before
<1>6. \A r \in rows : Ranked(before, rows)[r] = Cardinality({s \in rows : Before(s, r)})
  <2> SUFFICES ASSUME NEW r \in rows PROVE Ranked(before, rows)[r] = Cardinality({s \in rows : Before(s, r)})
    OBVIOUS
  <2>1. {s \in rows : <<s, r>> \in before} = {s \in rows : Before(s, r)}
    BY <1>4
  <2> QED BY <2>1 DEF Ranked
<1> QED BY <1>1, <1>5, <1>6

\* A page is full unless the rows end on it, and every rank is below their number.
LEMMA PageSize ==
    ASSUME Basis, Stamps, NEW p \in People, NEW rows \in SUBSET Visible(p),
           NEW skip \in Nat, NEW limit \in Nat, skip < Size(rows)
    PROVE  Size(PageOf(rows, skip, limit)) = IF skip + limit <= Size(rows) THEN limit ELSE Size(rows) - skip
<1> DEFINE n == Cardinality(rows)
           last == IF skip + limit <= n THEN skip + limit - 1 ELSE n - 1
           W == skip .. last
<1>1. IsFiniteSet(rows) /\ n \in Nat
  BY VisibleOrder
<1>2. PICK before : /\ IsOrder(before, rows)
                    /\ \A r \in rows : Ranked(before, rows)[r] = Cardinality({s \in rows : Before(s, r)})
  BY VisibleOrder
<1>3. Ranked(before, rows) \in [rows -> 0 .. n - 1]
  BY <1>1, <1>2, RanksDiffer DEF Injection
<1>4. skip < n
  BY DEF Size
<1>5. PageOf(rows, skip, limit) = {r \in rows : Ranked(before, rows)[r] \in W}
  <2>1. ASSUME NEW r \in rows
        PROVE  Cardinality({s \in rows : Before(s, r)}) \in skip .. skip + limit - 1 <=> Ranked(before, rows)[r] \in W
    <3> DEFINE k == Ranked(before, rows)[r]
    <3>1. k \in 0 .. n - 1 /\ k = Cardinality({s \in rows : Before(s, r)})
      BY <1>2, <1>3
    <3> HIDE DEF k, n
    <3>2. k \in skip .. skip + limit - 1 <=> k \in W
      BY <1>1, <3>1
    <3> QED BY <3>1, <3>2 DEF k
  <2> QED BY <2>1 DEF PageOf
<1>6. last \in Int /\ W \in SUBSET (0 .. n - 1)
  <2> HIDE DEF n
  <2> QED BY <1>1, <1>4
<1>7. Cardinality({r \in rows : Ranked(before, rows)[r] \in W}) = Cardinality(W)
  <2> HIDE DEF W
  <2> QED BY <1>1, <1>2, <1>6, Window
<1>8. Cardinality(W) = IF skip > last THEN 0 ELSE last - skip + 1
  <2> HIDE DEF last
  <2> QED BY <1>6, FS_Interval
<1>9. Cardinality(W) = IF skip + limit <= n THEN limit ELSE n - skip
  <2> HIDE DEF n, W
  <2> QED BY <1>1, <1>4, <1>8
<1> QED BY <1>5, <1>7, <1>9 DEF Size

LEMMA RankBelow ==
    ASSUME Basis, Stamps, NEW p \in People, NEW rows \in SUBSET Visible(p), NEW r \in rows
    PROVE  Cardinality({s \in rows : Before(s, r)}) \in 0 .. Size(rows) - 1
<1>1. IsFiniteSet(rows)
  BY VisibleOrder
<1>2. PICK before : /\ IsOrder(before, rows)
                    /\ \A o \in rows : Ranked(before, rows)[o] = Cardinality({s \in rows : Before(s, o)})
  BY VisibleOrder
<1>3. Ranked(before, rows) \in [rows -> 0 .. Cardinality(rows) - 1]
  BY <1>1, <1>2, RanksDiffer DEF Injection
<1> QED BY <1>2, <1>3 DEF Size

\* The second query goes on where the first one ends.
LEMMA PagesFit ==
    ASSUME Basis, Stamps
    PROVE  PagesTile
<1> SUFFICES ASSUME NEW p \in People, NEW limit \in 1 .. 3
             PROVE  LET unread == {r \in Visible(p) : r.status = "unread"}
                        read == {r \in Visible(p) : r.status = "read"}
                        Rank(r) == IF r \in unread THEN Cardinality({s \in unread : Before(s, r)})
                                   ELSE Size(unread) + Cardinality({s \in read : Before(s, r)})
                    IN \A k \in 0 .. Size(unread) + Size(read) :
                          List(unread, read, k * limit, limit)
                              = {r \in Visible(p) : Rank(r) \in k * limit .. k * limit + limit - 1}
  BY DEF PagesTile
<1> DEFINE unread == {r \in Visible(p) : r.status = "unread"}
           read == {r \in Visible(p) : r.status = "read"}
           Rank(r) == IF r \in unread THEN Cardinality({s \in unread : Before(s, r)})
                      ELSE Size(unread) + Cardinality({s \in read : Before(s, r)})
           n == Size(unread)
           m == Size(read)
<1>1. /\ unread \in SUBSET Visible(p) /\ read \in SUBSET Visible(p) /\ unread \cap read = {}
      /\ \A r \in Visible(p) : r \in unread \/ r \in read
  <2>1. \A r \in Visible(p) : r.status \in {"unread", "read"}
    BY DEF Visible, Basis, Types, RowSet, Statuses
  <2> QED BY <2>1
<1> HIDE DEF unread, read
<1>2. n \in Nat /\ m \in Nat
  BY <1>1, VisibleOrder DEF Size
<1>3. ASSUME NEW r \in unread PROVE Cardinality({s \in unread : Before(s, r)}) \in 0 .. n - 1
  BY <1>1, RankBelow
<1>4. ASSUME NEW r \in read PROVE Cardinality({s \in read : Before(s, r)}) \in 0 .. m - 1
  BY <1>1, RankBelow
<1>5. ASSUME NEW k \in 0 .. n + m
      PROVE  List(unread, read, k * limit, limit) = {r \in Visible(p) : Rank(r) \in k * limit .. k * limit + limit - 1}
  <2> DEFINE skip == k * limit
             head == IF skip < n THEN PageOf(unread, skip, limit) ELSE {}
             after == Most(0, skip - n)
             rest == limit - Size(head)
  <2>1. skip \in Nat /\ limit \in Nat /\ limit > 0
    <3>1. k \in Nat /\ limit \in {1, 2, 3}
      <4> HIDE DEF n, m
      <4> QED BY <1>2
    <3> QED BY <3>1
  <2> HIDE DEF skip
  <2>2. Size(head) = IF skip < n THEN (IF skip + limit <= n THEN limit ELSE n - skip) ELSE 0
    <3>1. CASE skip < n
      <4>1. Size(PageOf(unread, skip, limit)) = IF skip + limit <= n THEN limit ELSE n - skip
        BY <1>1, <2>1, <3>1, PageSize
      <4> QED BY <3>1, <4>1
    <3>2. CASE ~(skip < n)
      BY <3>2, FS_EmptySet DEF Size
    <3> QED BY <3>1, <3>2
  <2>3. List(unread, read, skip, limit) = head \cup PageOf(read, after, rest)
    BY DEF List
  <2>4. after = IF skip > n THEN skip - n ELSE 0
    <3> HIDE DEF n
    <3> QED BY <1>2, <2>1 DEF Most
  <2>5. ASSUME NEW r \in unread PROVE r \in List(unread, read, skip, limit) <=> Rank(r) \in skip .. skip + limit - 1
    <3> DEFINE rank == Cardinality({s \in unread : Before(s, r)})
    <3>1. rank \in 0 .. n - 1 /\ Rank(r) = rank
      BY <1>3
    <3>2. r \notin PageOf(read, after, rest)
      BY <1>1 DEF PageOf
    <3>3. r \in head <=> skip < n /\ rank \in skip .. skip + limit - 1
      BY DEF PageOf
    <3> HIDE DEF rank, Rank, n, head, after, rest
    <3> QED BY <1>2, <2>1, <2>3, <3>1, <3>2, <3>3
  <2>6. ASSUME NEW r \in read PROVE r \in List(unread, read, skip, limit) <=> Rank(r) \in skip .. skip + limit - 1
    <3> DEFINE rank == Cardinality({s \in read : Before(s, r)})
    <3>1. rank \in 0 .. m - 1 /\ Rank(r) = n + rank
      BY <1>1, <1>4
    <3>2. r \notin head
      BY <1>1 DEF PageOf
    <3>3. r \in PageOf(read, after, rest) <=> rank \in after .. after + rest - 1
      BY DEF PageOf
    <3>4. Size(head) \in Int
      <4> HIDE DEF n, head
      <4> QED BY <1>2, <2>1, <2>2
    <3> DEFINE size == Size(head)
    <3>5. rest = limit - size
      OBVIOUS
    <3> HIDE DEF rank, Rank, n, m, head, after, rest, size
    <3>6. size = IF skip < n THEN (IF skip + limit <= n THEN limit ELSE n - skip) ELSE 0
      BY <2>2 DEF size
    <3>7. rank \in after .. after + rest - 1 <=> n + rank \in skip .. skip + limit - 1
      <4>1. CASE skip < n /\ skip + limit <= n
        BY <1>2, <2>1, <2>4, <3>1, <3>5, <3>6, <4>1
      <4>2. CASE skip < n /\ ~(skip + limit <= n)
        BY <1>2, <2>1, <2>4, <3>1, <3>5, <3>6, <4>2
      <4>3. CASE ~(skip < n)
        BY <1>2, <2>1, <2>4, <3>1, <3>5, <3>6, <4>3
      <4> QED BY <4>1, <4>2, <4>3
    <3> QED BY <2>3, <3>1, <3>2, <3>3, <3>7
  <2>7. List(unread, read, skip, limit) \subseteq Visible(p)
    BY <1>1, <2>3 DEF PageOf
  <2> HIDE DEF Rank, n, m, head, after, rest
  <2>8. List(unread, read, skip, limit) = {r \in Visible(p) : Rank(r) \in skip .. skip + limit - 1}
    BY <1>1, <2>5, <2>6, <2>7
  <2> QED BY <2>8 DEF skip
<1> QED BY <1>5 DEF unread, read

-----------------------------------------------------------------------------
(* The invariant.                                                           *)

LEMMA InvInit ==
    ASSUME Init
    PROVE  Inv
<1>1. Types
  <2>1. IsFiniteSet({})
    BY FS_EmptySet
  <2> QED BY <2>1 DEF Init, CourierInit, Types
<1>2. Addressed /\ Feed /\ Stamps
  BY DEF Init, Addressed, Feed, Stamps
<1>3. Contents /\ Delivering
  BY DEF Init, CourierInit, Contents, Delivering, Held
<1>4. Told
  <2>1. \A e \in Events : got[<<e, "mail">>] = 0 /\ got[<<e, "phone">>] = 0
    BY TargetsAssumption DEF Init, CourierInit
  <2>2. sent = {}
    BY DEF Init
  <2> QED BY <2>1, <2>2 DEF Told
<1>5. Trimmed
  <2>1. ASSUME NEW scope \in Owners, NEW status \in Statuses PROVE Cardinality(Rows(scope, status)) <= Keep(status)
    <3>1. Rows(scope, status) = {}
      BY DEF Init, Rows
    <3>2. Cardinality(Rows(scope, status)) = 0
      BY <3>1, FS_EmptySet
    <3>3. Keep(status) \in Nat
      BY SizesAssumption DEF Keep
    <3> QED BY <3>2, <3>3
  <2> QED BY <2>1 DEF Trimmed, InBounds
<1> QED BY <1>1, <1>2, <1>3, <1>4, <1>5 DEF Inv

LEMMA InvStep ==
    ASSUME Inv, [Next]_vars
    PROVE  Inv'
<1>1. Basis /\ Feed /\ Told /\ Stamps /\ Trimmed
  BY Zenon DEF Inv, Basis
<1>2. Basis'
  BY <1>1, BasisStep, Zenon
<1>3. Feed' /\ Told' /\ Stamps'
  BY <1>1, FeedStep, ToldStep, StampsStep, Zenon
<1>4. Trimmed'
  BY <1>1, TrimmedStep, Zenon
<1> QED BY <1>2, <1>3, <1>4, Zenon DEF Inv, Basis

LEMMA InvAlways == Spec => []Inv
<1>1. Init => Inv
  BY InvInit
<1>2. Inv /\ [Next]_vars => Inv'
  BY InvStep
<1> QED BY <1>1, <1>2, PTL DEF Spec

LEMMA InvImplies ==
    ASSUME Inv
    PROVE  OneChannel /\ FeedIsRight /\ InboxBounded /\ PagesTile
<1>1. Basis /\ Feed /\ Told /\ Stamps /\ Trimmed
  BY Zenon DEF Inv, Basis
<1> QED BY <1>1, ToldOnce, FeedRight, InboxHolds, PagesFit, Zenon

-----------------------------------------------------------------------------
(* The theorems.                                                            *)

\* MailHandler and SmsNotificationHandler: of an event a person is told by mail
\* or by phone and never by both, whatever they change between the commit and
\* the last attempt, and have been told by the time it counts as delivered.
THEOREM ToldOneWay == Spec => []OneChannel
<1>1. Inv => OneChannel
  BY InvImplies
<1> QED BY <1>1, InvAlways, PTL

\* NotificationDispatcher and notification-rules.ts: one row of an event for
\* each audience, and none for whoever did it, but for staff who lift a sanction
\* of their own.
THEOREM FeedStaysRight == Spec => []FeedIsRight
<1>1. Inv => FeedIsRight
  BY InvImplies
<1> QED BY <1>1, InvAlways, PTL

\* NotificationsRepository.trim: once whoever wrote rows is through, no owner has
\* more than the limit, in whatever order rows are added, read, trimmed and
\* removed, and wherever workers die or fail.
THEOREM InboxStaysBounded == Spec => []InboxBounded
<1>1. Inv => InboxBounded
  BY InvImplies
<1> QED BY <1>1, InvAlways, PTL

\* NotificationsRepository.list: the pages cut out of two queries show every row
\* once, in their order.
THEOREM PagesShowAll == Spec => []PagesTile
<1>1. Inv => PagesTile
  BY InvImplies
<1> QED BY <1>1, InvAlways, PTL

\* The worker here delivers as the outbox promises: what Outbox is proved to
\* implement is all that is used of it.
THEOREM DeliversAsCourier == Spec => CourierSpec
<1>1. Init => CourierInit
  BY DEF Init
<1>2. Inv /\ [Next]_vars => [CourierNext]_courier
  <2> SUFFICES ASSUME Inv, [Next]_vars PROVE [CourierNext]_courier
    OBVIOUS
  <2>1. Basis
    BY Zenon DEF Inv, Basis
  <2>2. ASSUME NEW e \in Events, NEW outcome \in {"pending", "delivered", "failed"},
               job[e] \in Jobs, Settle(e, job[e].done, outcome)
        PROVE  CourierNext
    <3>1. job[e].done \in SUBSET Targets
      BY <2>2 DEF Jobs
    <3> QED BY <2>2, <3>1, Zenon DEF CourierNext
  <2>3. \/ UNCHANGED courier
        \/ \E e \in Events : CommitEvent(e) \/ Reopen(e)
        \/ \E e \in Events, x \in Targets : Hand(e, x)
        \/ \E e \in Events, outcome \in {"pending", "delivered", "failed"} :
              job[e] \in Jobs /\ Settle(e, job[e].done, outcome)
    BY <2>1, CourierSteps, Zenon
  <2>4. (\E e \in Events : CommitEvent(e) \/ Reopen(e)) \/ (\E e \in Events, x \in Targets : Hand(e, x)) => CourierNext
    BY Zenon DEF CourierNext
  <2> QED BY <2>2, <2>3, <2>4, Zenon
<1> QED BY <1>1, <1>2, InvAlways, PTL DEF Spec, CourierSpec

=============================================================================
