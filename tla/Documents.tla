----------------------------- MODULE Documents -----------------------------
(***************************************************************************)
(* The documents an organization owns and the way its handlers write them. *)
(*                                                                         *)
(* Every child (category, service, news item, infosection, image, archive, *)
(* favourite, user) is a row of its own collection that names its          *)
(* organization.  A handler first reads what it needs and refuses; then it *)
(* writes, either plainly - the row in one write, the version of the       *)
(* organization in the next - or both in one transaction.  Between the     *)
(* reads and the write anything may happen, and the process may die        *)
(* before any of its writes.                                               *)
(*                                                                         *)
(* A transaction that writes an organization's child also bumps the        *)
(* version in it, so two of them on one organization never overlap: each   *)
(* is one step here.                                                       *)
(***************************************************************************)
EXTENDS Integers, FiniteSets

CONSTANTS
    Orgs, Items,    \* ids of organizations and of children; an id is used once
    Actors,         \* handlers under way at a time
    Values,         \* what the fields nobody branches on may hold
    Slugs,
    None, Unused, Gone,
    Scenarios,      \* bound: what a behaviour may do - operations, organizations, new
                    \* children, number of calls - and the documents it starts from
    MaxCrashes      \* bound: processes that die and removals of files that fail

ASSUME DocumentsAssumption == MaxCrashes \in Nat

VARIABLES
    org,       \* the organizations
    row,       \* their children
    pend,      \* what each handler under way still has to do
    files,     \* the stored file of each image
    now,       \* the clock
    lost,      \* organizations whose version missed a bump because a process died
    silent,    \* ... because a change was taken for none
    ops,       \* handlers started so far
    crashes,   \* processes that died so far
    offered    \* the scenario of this behaviour

Does(name) == name \in Scenarios[offered].does
MaxOps == Scenarios[offered].calls
documents == <<org, row>>
counters == <<lost, silent, ops, crashes>>

-----------------------------------------------------------------------------
(* Rows. *)

Live == {o \in Orgs : org[o].state = "live"}
Exists(i) == row[i] \notin {Unused, Gone}
Rows(kind) == {i \in Items : Exists(i) /\ row[i].kind = kind}
Of(kind, o) == {i \in Rows(kind) : row[i].org = o}

\* The organizations a row names: organization_id, or organization_ids of a user.
Owners(r) ==
    IF r \in {Unused, Gone} THEN {} ELSE IF r.kind = "user" THEN r.orgs ELSE {r.org}

Category(o, n) == [kind |-> "category", org |-> o, position |-> n, enabled |-> TRUE, value |-> None]
Service(o, c, n, slug, status) ==
    [kind |-> "service", org |-> o, category |-> c, position |-> n, slug |-> slug,
     status |-> status, deleted |-> FALSE, value |-> None]
InfoSection(o, n) == [kind |-> "infosection", org |-> o, position |-> n, enabled |-> TRUE, value |-> None]
News(o, n, slug, publish, expires) ==
    [kind |-> "news", org |-> o, position |-> n, slug |-> slug, enabled |-> TRUE,
     publish |-> publish, expires |-> expires, value |-> None]
Image(o, told) == [kind |-> "image", org |-> o, told |-> told]
Archive(o, type, i) == [kind |-> "archive", org |-> o, type |-> type, of |-> i]
Favorite(o, u, i) == [kind |-> "favorite", org |-> o, user |-> u, target |-> i]
User(os) == [kind |-> "user", orgs |-> os]

\* findByIdAndUpdate with $set.
Set(r, change) == [f \in DOMAIN r |-> IF f \in DOMAIN change THEN change[f] ELSE r[f]]

\* (Mutant of NextPosition: before the first of the siblings.)
PositionInFront(siblings) ==
    IF siblings = {} THEN 0
    ELSE (CHOOSE n \in {row[i].position : i \in siblings} :
              \A i \in siblings : n <= row[i].position) - 1

\* nextPosition: one after the last of the siblings.
NextPosition(siblings) ==
    IF siblings = {} THEN 0
    ELSE 1 + CHOOSE n \in {row[i].position : i \in siblings} :
                 \A i \in siblings : row[i].position <= n

\* slugTaken: in the organization, the trash included.
SlugTaken(kind, o, slug, self) == \E i \in Of(kind, o) \ {self} : row[i].slug = slug

\* (Mutant of IndexAllows: no unique index.)
NoIndex(kind, o, slug, self) == TRUE

\* unique_slug_per_organization.
IndexAllows(kind, o, slug, self) == ~SlugTaken(kind, o, slug, self)
Unique(i, r) == "slug" \in DOMAIN r => IndexAllows(r.kind, r.org, r.slug, i)

-----------------------------------------------------------------------------
(* Handlers. *)

Idle == [step |-> "idle"]
Busy(a) == pend[a].step # "idle"

\* `a` may start the operation `name`, whose reads are the conjuncts after it...
Free(a) == ~Busy(a) /\ ops < MaxOps
Starts(a, name) == Free(a) /\ Does(name)

\* ... and is left with `work` to do.
Begin(a, work) ==
    /\ ops' = ops + 1
    /\ pend' = [pend EXCEPT ![a] = work]

\* What is left to do after the reads.
Insert(i, r) == [step |-> "insert", item |-> i, made |-> r, org |-> r.org]
Change(i, change, o) == [step |-> "set", item |-> i, change |-> change, org |-> o]
Remove(i, o) == [step |-> "delete", item |-> i, org |-> o]
Bump(o) == [step |-> "touch", org |-> o]

Bumped(orgs, o) == [q \in Orgs |-> IF q = o /\ orgs[q].state = "live"
                                  THEN [orgs[q] EXCEPT !.version = @ + 1] ELSE orgs[q]]

Read == UNCHANGED <<org, row, files, now, lost, silent, crashes, offered>>
Fresh(i) ==
    /\ i \in Scenarios[offered].items /\ row[i] = Unused /\ files[i] = "none"
    /\ \A a \in Actors : "item" \in DOMAIN pend[a] => pend[a].item # i

\* The plain writes: the row first...
WriteRow(a) ==
    LET p == pend[a] IN
    /\ \/ /\ p.step = "insert"
          /\ IF Unique(p.item, p.made)
             THEN /\ row' = [row EXCEPT ![p.item] = p.made]
                  /\ pend' = [pend EXCEPT ![a] = IF p.org = None THEN Idle ELSE Bump(p.org)]
             ELSE row' = row /\ pend' = [pend EXCEPT ![a] = Idle]
       \/ /\ p.step = "set"
          /\ IF Exists(p.item) /\ Unique(p.item, Set(row[p.item], p.change))
             THEN /\ row' = [row EXCEPT ![p.item] = Set(@, p.change)]
                  /\ pend' = [pend EXCEPT ![a] = IF p.org = None THEN Idle ELSE Bump(p.org)]
             ELSE row' = row /\ pend' = [pend EXCEPT ![a] = Idle]
       \/ /\ p.step = "delete"
          /\ row' = [row EXCEPT ![p.item] = Gone]
          /\ pend' = [pend EXCEPT ![a] = IF p.org = None THEN Idle ELSE Bump(p.org)]
    /\ UNCHANGED <<org, files, now, counters, offered>>

\* ... then the version.
Touch(a) ==
    /\ pend[a].step = "touch"
    /\ org' = Bumped(org, pend[a].org)
    /\ pend' = [pend EXCEPT ![a] = Idle]
    /\ UNCHANGED <<row, files, now, counters, offered>>

\* A transaction: rows and version together; `after` is what follows the commit.
InTransaction(a, rows, o, after) ==
    /\ row' = rows
    /\ org' = Bumped(org, o)
    /\ pend' = [pend EXCEPT ![a] = after]
    /\ UNCHANGED <<files, now, counters, offered>>

\* afterCommit: the files of deleted images.  A removal that fails is logged.
UnlinkThen(fs, next) == IF fs = {} THEN next ELSE [step |-> "unlink", files |-> fs, next |-> next]
Unlink(fs) == UnlinkThen(fs, Idle)
RemoveFiles(a) ==
    /\ pend[a].step = "unlink"
    /\ \E failed \in SUBSET pend[a].files :
          /\ crashes + Cardinality(failed) <= MaxCrashes
          /\ crashes' = crashes + Cardinality(failed)
          /\ files' = [i \in Items |-> IF i \in pend[a].files \ failed THEN "none" ELSE files[i]]
    /\ pend' = [pend EXCEPT ![a] = @.next]
    /\ UNCHANGED <<documents, now, lost, silent, ops, offered>>

\* The process dies: what it had not written is never written.
Crash(a) ==
    /\ Busy(a) /\ crashes < MaxCrashes
    /\ crashes' = crashes + 1
    /\ lost' = IF pend[a].step \in {"touch", "record"} THEN lost \cup {pend[a].org} ELSE lost
    /\ pend' = [pend EXCEPT ![a] = Idle]
    /\ UNCHANGED <<documents, files, now, silent, ops, offered>>

-----------------------------------------------------------------------------
(* Removing a parent.  The hooks its children registered, on the rows of   *)
(* the transaction.                                                        *)

\* (Mutant of OrganizationHooks: accounts keep the membership.)
HooksWithoutUsers(rows, o) ==
    [i \in Items |->
        IF rows[i] \in {Unused, Gone} THEN rows[i]
        ELSE IF rows[i].kind = "user" THEN rows[i]
        ELSE IF rows[i].org = o THEN Gone
        ELSE rows[i]]

\* detachOrganization: an account loses the membership.
Detached(r, o) == [r EXCEPT !.orgs = @ \ {o}]

\* organization: services.delete, categories.delete, images.delete,
\* archives.delete, news.delete, infosections.delete, favorites.delete and
\* users.detach_organization.
OrganizationHooks(rows, o) ==
    [i \in Items |->
        IF rows[i] \in {Unused, Gone} THEN rows[i]
        ELSE IF rows[i].kind = "user" THEN Detached(rows[i], o)
        ELSE IF rows[i].org = o THEN Gone
        ELSE rows[i]]

\* images.delete leaves the files to afterCommit.
FilesOf(o) == Of("image", o)

\* service: favorites.delete and archives.delete (the slots, the bookings,
\* the revisions and the suspensions are in other modules).
ServiceHooks(rows, s) ==
    [i \in Items |->
        IF rows[i] \in {Unused, Gone} THEN rows[i]
        ELSE IF rows[i].kind = "favorite" /\ rows[i].target = s THEN Gone
        ELSE IF rows[i].kind = "archive" /\ rows[i].type = "service" /\ rows[i].of = s THEN Gone
        ELSE rows[i]]

\* category: services.detach refuses while a live service is in it, else
\* takes the trashed ones out.
InCategory(c) == {i \in Rows("service") : row[i].category = c}
CategoryIsEmpty(c) == \A i \in InCategory(c) : row[i].deleted
CategoryHooks(rows, c) ==
    [i \in Items |-> IF i \in InCategory(c) THEN [rows[i] EXCEPT !.category = None] ELSE rows[i]]

\* user: favorites.delete (bookings.withdraw is in Bookings).
UserHooks(rows, u) ==
    [i \in Items |->
        IF rows[i] \in {Unused, Gone} THEN rows[i]
        ELSE IF rows[i].kind = "favorite" /\ rows[i].user = u THEN Gone
        ELSE rows[i]]

\* reorderSiblings: a permutation of exactly the siblings - of a kind, or the
\* live services of a list (reorderDirect, reorderInCategory).
Siblings(kind, o, c) ==
    IF kind = "service" THEN {i \in Of("service", o) : row[i].category = c /\ ~row[i].deleted}
    ELSE Of(kind, o)
Orders(siblings) ==
    {f \in [siblings -> 0 .. Cardinality(siblings) - 1] :
        \A i, j \in siblings : f[i] = f[j] => i = j}
Reorder(kind, o, c, f) == [step |-> "reorder", kind |-> kind, org |-> o, category |-> c, order |-> f]
Reordered(f) ==
    [i \in Items |-> IF i \in DOMAIN f THEN [row[i] EXCEPT !.position = f[i]] ELSE row[i]]
=============================================================================
