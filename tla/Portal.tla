------------------------------- MODULE Portal -------------------------------
(***************************************************************************)
(* The rest of what an organization owns - news, images, archives,         *)
(* favourites, the accounts of its staff - and the three jobs that clean   *)
(* up: news_expiry, storage_gc and cascade_reconcile.  A job may run on    *)
(* several workers at once (JobLease), so each is a handler like another.  *)
(***************************************************************************)
EXTENDS Catalogue, Sequences

CONSTANTS
    People,           \* who keeps favourites
    Moments,          \* when news may be published and expire
    MaxNow,           \* bound: the clock
    FavoritesMax,     \* FAVORITES_MAX_PER_USER
    ReconcileLimit    \* CASCADE_RECONCILE_LIMIT

ASSUME PortalAssumption == MaxNow \in Nat /\ FavoritesMax \in Nat /\ ReconcileLimit \in Nat

\* The documents, as their schemas have them.
Docs ==
    [kind : {"category", "infosection"}, org : Orgs, position : Nat, enabled : BOOLEAN, value : Values \cup {None}]
    \cup [kind : {"service"}, org : Orgs, category : Items \cup {None}, position : Nat, slug : Slugs,
          status : {"draft", "published"}, deleted : BOOLEAN, value : Values \cup {None}]
    \cup [kind : {"news"}, org : Orgs, position : Nat, slug : Slugs, enabled : BOOLEAN,
          publish : Moments \cup {None}, expires : Moments \cup {None}, value : Values \cup {None}]
    \cup [kind : {"image"}, org : Orgs, told : BOOLEAN]
    \cup [kind : {"archive"}, org : Orgs, type : {"news", "service"}, of : Items \cup {None}]
    \cup [kind : {"favorite"}, org : Orgs, user : People, target : Orgs \cup Items]
    \cup [kind : {"user"}, orgs : SUBSET Orgs]

\* What a behaviour starts from: the rows of organizations that exist, services
\* in categories of theirs, nothing twice, and nothing that was news.
Alike(r, s) ==
    \/ r.kind = s.kind /\ r.kind \in {"service", "news"} /\ r.org = s.org /\ r.slug = s.slug
    \/ r.kind = "favorite" /\ s.kind = "favorite" /\ r.user = s.user /\ r.target = s.target
Consistent(rows, live) ==
    /\ rows \in [Items -> Docs \cup {Unused}]
    /\ \A i \in Items : rows[i] # Unused =>
          /\ Owners(rows[i]) \subseteq live
          /\ rows[i].kind = "archive" => rows[i].type # "news"
          /\ rows[i].kind = "service" /\ rows[i].category # None =>
                LET c == rows[rows[i].category] IN c # Unused /\ c.kind = "category" /\ c.org = rows[i].org
          /\ \A j \in Items : rows[j] # Unused /\ Alike(rows[i], rows[j]) => i = j

ASSUME IdsAssumption ==
    /\ IsFiniteSet(Items) /\ None \notin Orgs \cup Items
    /\ Unused # Gone /\ Unused \notin Docs /\ Gone \notin Docs
ASSUME MomentsAssumption == Moments \subseteq Nat /\ None \notin Moments
ASSUME ScenariosAssumption ==
    \A k \in DOMAIN Scenarios :
        /\ Scenarios[k].live \subseteq Orgs /\ Scenarios[k].items \subseteq Items /\ Scenarios[k].calls \in Nat
        /\ Consistent(Scenarios[k].rows, Scenarios[k].live)

vars == <<org, row, pend, files, now, lost, silent, ops, crashes, offered, cache>>

\* A document no other document is written with: no version to bump.
Plain(i, r) == [step |-> "insert", item |-> i, made |-> r, org |-> None]

-----------------------------------------------------------------------------
(* News. *)

CreateNews(a, i, o) ==
    /\ Starts(a, "create_news")
    /\ o \in Live /\ Fresh(i)
    /\ \E slug \in Slugs, publish, expires \in Moments \cup {None} :
          /\ ~SlugTaken("news", o, slug, i)
          /\ Begin(a, Insert(i, News(o, NextPosition(Of("news", o)), slug, publish, expires)))
    /\ Read

UpdateNews(a, n) ==
    /\ Starts(a, "update_news")
    /\ n \in Rows("news")
    /\ \E change \in [slug : {x \in Slugs : ~SlugTaken("news", row[n].org, x, n)}]
                     \cup [publish : Moments \cup {None}] \cup [expires : Moments \cup {None}]
                     \cup [enabled : BOOLEAN] :
          Begin(a, Change(n, change, row[n].org))
    /\ Read

DeleteNews(a, n) ==
    /\ Starts(a, "delete_news")
    /\ n \in Rows("news")
    /\ Begin(a, Remove(n, row[n].org))
    /\ Read

ReorderNews(a, o) ==
    /\ Starts(a, "reorder")
    /\ \E f \in Orders(Siblings("news", o, None)) : Begin(a, Reorder("news", o, None, f))
    /\ Read

Tick ==
    /\ Does("wait")
    /\ now < MaxNow
    /\ now' = now + 1
    /\ UNCHANGED <<documents, pend, files, counters, offered, cache>>

Expired == {n \in Rows("news") : row[n].expires # None /\ row[n].expires <= now}

\* (Mutant of ListExpired: hidden items are left out.)
ListExpiredShown(a) ==
    LET shown == {n \in Expired : row[n].enabled} IN
    /\ Does("news_expiry")
    /\ ~Busy(a) /\ shown # {}
    /\ pend' = [pend EXCEPT ![a] = [step |-> "expire", news |-> [n \in shown |-> row[n].org]]]
    /\ UNCHANGED <<documents, files, now, counters, offered, cache>>

\* news_expiry: the expired items are listed...
ListExpired(a) ==
    /\ Does("news_expiry")
    /\ ~Busy(a) /\ Expired # {}
    /\ pend' = [pend EXCEPT ![a] = [step |-> "expire", news |-> [n \in Expired |-> row[n].org]]]
    /\ UNCHANGED <<documents, files, now, counters, offered, cache>>

Rest(a, n) ==
    LET left == DOMAIN pend[a].news \ {n} IN
    IF left = {} THEN Idle ELSE [pend[a] EXCEPT !.news = [m \in left |-> @[m]]]

\* deleteExpired, and createSnapshot with a copy of the item.
DeletedExpired(rows, n) == [rows EXCEPT ![n] = Gone]
Snapshot(rows, k, o, n) == [rows EXCEPT ![k] = Archive(o, "news", n)]

\* (Mutant of ArchiveExpired: an item somebody else deleted is archived too.)
ArchiveAnyway(a) ==
    /\ pend[a].step = "expire"
    /\ \E n \in DOMAIN pend[a].news, k \in Items :
          /\ Fresh(k)
          /\ InTransaction(a, Snapshot(DeletedExpired(row, n), k, pend[a].news[n], n),
                           pend[a].news[n], Rest(a, n))

\* ... and each is deleted and archived in a transaction, unless it is gone.
ArchiveExpired(a) ==
    /\ pend[a].step = "expire"
    /\ \E n \in DOMAIN pend[a].news :
          IF Exists(n)
          THEN \E k \in Items :
                  /\ Fresh(k)
                  /\ InTransaction(a, Snapshot(DeletedExpired(row, n), k, pend[a].news[n], n),
                                   pend[a].news[n], Rest(a, n))
          ELSE InTransaction(a, row, None, Rest(a, n))

-----------------------------------------------------------------------------
(* Images. *)

\* upload: the file is stored, under a name never used again, before its row.
UploadImage(a, i, o) ==
    /\ Starts(a, "upload")
    /\ o \in Live /\ Fresh(i)
    /\ Begin(a, [step |-> "upload", item |-> i, org |-> o])
    /\ files' = [files EXCEPT ![i] = "new"]
    /\ row' = [row EXCEPT ![i] = Gone]
    /\ UNCHANGED <<org, now, lost, silent, crashes, offered>>

\* The row and the version in a transaction.  If it fails, or its commit is
\* reported as failed, the file is removed.
CommitUpload(a) ==
    LET p == pend[a] IN
    /\ p.step = "upload"
    /\ \/ InTransaction(a, [row EXCEPT ![p.item] = Image(p.org, TRUE)], p.org, Idle)
       \/ /\ crashes < MaxCrashes
          /\ crashes' = crashes + 1
          /\ \/ row' = row /\ org' = org
             \/ row' = [row EXCEPT ![p.item] = Image(p.org, FALSE)] /\ org' = Bumped(org, p.org)
          /\ pend' = [pend EXCEPT ![a] = Unlink({p.item})]
          /\ UNCHANGED <<files, now, lost, silent, ops, offered>>

DeleteImage(a, i) ==
    /\ Starts(a, "delete_image")
    /\ i \in Rows("image")
    /\ Begin(a, [step |-> "delete_image", item |-> i, org |-> row[i].org])
    /\ Read

\* The row first, its file after the commit.
CommitDeleteImage(a) ==
    LET p == pend[a] IN
    /\ p.step = "delete_image"
    /\ InTransaction(a, [row EXCEPT ![p.item] = Gone], p.org, Unlink({p.item}))

\* A file gets older than STORAGE_GC_MIN_AGE_SECONDS; an upload takes less.
Age(i) ==
    /\ files[i] = "new"
    /\ \A a \in Actors : ~(pend[a].step = "upload" /\ pend[a].item = i)
    /\ files' = [files EXCEPT ![i] = "old"]
    /\ UNCHANGED <<documents, pend, now, counters, offered, cache>>

\* (Mutant of Swept: a file of any age.)
SweptAnyAge == {i \in Items : files[i] # "none"}

\* (Mutant of Swept: the last batch, not full, is never swept.)
SweptFullBatches ==
    LET old == {i \in Items : files[i] = "old"} IN IF Cardinality(old) < 2 THEN {} ELSE old

\* storage_gc: lists the old files...
Swept == {i \in Items : files[i] = "old"}
ListFiles(a) ==
    /\ Does("storage_gc")
    /\ ~Busy(a) /\ Swept # {}
    /\ pend' = [pend EXCEPT ![a] = [step |-> "sweep", files |-> Swept]]
    /\ UNCHANGED <<documents, files, now, counters, offered, cache>>

\* ... looks their rows up, and removes those that have none.
SweepFiles(a) ==
    /\ pend[a].step = "sweep"
    /\ pend' = [pend EXCEPT ![a] = Unlink(pend[a].files \ Rows("image"))]
    /\ UNCHANGED <<documents, files, now, counters, offered>>

-----------------------------------------------------------------------------
(* Archives made by hand, favourites, accounts of the staff. *)

CreateArchive(a, i, o) ==
    /\ Starts(a, "create_archive")
    /\ o \in Live /\ Fresh(i)
    /\ \E s \in {None} \cup Of("service", o) : Begin(a, Plain(i, Archive(o, "service", s)))
    /\ Read

DeleteArchive(a, i) ==
    /\ Starts(a, "delete_archive")
    /\ i \in Rows("archive")
    /\ Begin(a, Remove(i, None))
    /\ Read

Favorites(u) == {i \in Rows("favorite") : row[i].user = u}
Keeps(u, t) == \E i \in Favorites(u) : row[i].target = t

\* ownerOf, isVisible: an organization, or a service that is published and
\* not in the trash.
IsVisible(t, o) == IF t = o THEN o \in Live ELSE ~row[t].deleted /\ row[t].status = "published"
AddFavorite(a, i, o) ==
    /\ Starts(a, "add_favorite")
    /\ Fresh(i)
    /\ \E u \in People, t \in {o} \cup Of("service", o) :
          /\ IsVisible(t, o)
          /\ Keeps(u, t) \/ Cardinality(Favorites(u)) < FavoritesMax
          /\ Begin(a, [step |-> "favorite", item |-> i, made |-> Favorite(o, u, t)])
    /\ Read

\* (Mutant of CommitFavorite: an insert, not an upsert.)
InsertFavorite(a) ==
    LET p == pend[a] IN
    /\ p.step = "favorite"
    /\ InTransaction(a, [row EXCEPT ![p.item] = p.made], None, Idle)

\* An upsert on (user_id, type, target_id).
CommitFavorite(a) ==
    LET p == pend[a] IN
    /\ p.step = "favorite"
    /\ InTransaction(a, IF Keeps(p.made.user, p.made.target) THEN row
                        ELSE [row EXCEPT ![p.item] = p.made],
                     None, Idle)

RemoveFavorite(i) ==
    /\ i \in Rows("favorite") /\ Does("remove_favorite")
    /\ ops < MaxOps /\ ops' = ops + 1
    /\ row' = [row EXCEPT ![i] = Gone]
    /\ UNCHANGED <<org, pend, files, now, lost, silent, crashes, offered, cache>>

\* create: assertAllExist, then the account.
CreateUser(a, i) ==
    /\ Starts(a, "create_user")
    /\ Fresh(i)
    /\ \E os \in SUBSET Live : Begin(a, Plain(i, User(os)))
    /\ Read

\* setOrganizationIds
Joins(u, os) == Change(u, [orgs |-> os], None)

SetOrganizations(a, u) ==
    /\ Starts(a, "set_organizations")
    /\ u \in Rows("user")
    /\ \E os \in SUBSET Live : Begin(a, Joins(u, os))
    /\ Read

\* removeOperator: the remaining organizations are those that were read; with
\* none left the account is deleted.
RemoveOperator(a, u, o) ==
    /\ Starts(a, "remove_operator")
    /\ u \in Rows("user") /\ o \in row[u].orgs
    /\ Begin(a, IF row[u].orgs = {o} THEN [step |-> "delete_user", item |-> u]
             ELSE Joins(u, row[u].orgs \ {o}))
    /\ Read

DeleteUser(a, u) ==
    /\ Starts(a, "delete_user")
    /\ u \in Rows("user")
    /\ Begin(a, [step |-> "delete_user", item |-> u])
    /\ Read

CommitDeleteUser(a) ==
    LET p == pend[a] IN
    /\ p.step = "delete_user"
    /\ InTransaction(a, [UserHooks(row, p.item) EXCEPT ![p.item] = Gone], None, Idle)

-----------------------------------------------------------------------------
(* cascade_reconcile. *)

References(o) == {i \in Items : o \in Owners(row[i])}
Referenced == {o \in Orgs : References(o) # {}}

\* (Mutant of Readings: which organizations exist is asked first.)
ReadingsSwapped == <<"existing", "referenced">>

\* The references of every collection first, then which of them exist.
Readings == <<"referenced", "existing">>

StartReconcile(a) ==
    /\ Does("cascade_reconcile")
    /\ ~Busy(a)
    /\ pend' = [pend EXCEPT ![a] =
          [step |-> "reconcile", left |-> Readings, referenced |-> {}, existing |-> {}]]
    /\ UNCHANGED <<documents, files, now, counters, offered, cache>>

ReadReferences(a) ==
    /\ pend[a].step = "reconcile" /\ pend[a].left # <<>>
    /\ pend' = [pend EXCEPT ![a].left = Tail(@),
                            ![a].referenced = IF Head(pend[a].left) = "referenced" THEN Referenced ELSE @,
                            ![a].existing = IF Head(pend[a].left) = "existing" THEN Live ELSE @]
    /\ UNCHANGED <<documents, files, now, counters, offered>>

\* Too many look dangling: nothing is touched.
StartCascade(a) ==
    LET p == pend[a]
        dangling == p.referenced \ p.existing
    IN
    /\ p.step = "reconcile" /\ p.left = <<>>
    /\ pend' = [pend EXCEPT ![a] =
          IF dangling = {} \/ Cardinality(dangling) > ReconcileLimit THEN Idle
          ELSE [step |-> "cascade", orgs |-> dangling]]
    /\ UNCHANGED <<documents, files, now, counters, offered>>

\* One transaction for each, with the hooks of an organization's deletion.
Reconcile(a) ==
    LET p == pend[a] IN
    /\ p.step = "cascade"
    /\ \E o \in p.orgs :
          InTransaction(a, OrganizationHooks(row, o), None,
              UnlinkThen(FilesOf(o), IF p.orgs = {o} THEN Idle ELSE [p EXCEPT !.orgs = @ \ {o}]))

-----------------------------------------------------------------------------
(* The portal. *)

PortalBegin(a) ==
    \/ \E o \in Scenarios[offered].orgs :
          \/ ReorderNews(a, o)
          \/ \E i \in Scenarios[offered].items :
                \/ CreateNews(a, i, o) \/ UploadImage(a, i, o) \/ CreateArchive(a, i, o) \/ AddFavorite(a, i, o)
                \/ RemoveOperator(a, i, o)
    \/ \E i \in Items :
          \/ UpdateNews(a, i) \/ DeleteNews(a, i) \/ DeleteImage(a, i) \/ DeleteArchive(a, i)
          \/ CreateUser(a, i) \/ SetOrganizations(a, i) \/ DeleteUser(a, i)

PortalCommit(a) ==
    \/ ArchiveExpired(a) \/ CommitUpload(a) \/ CommitDeleteImage(a) \/ SweepFiles(a)
    \/ CommitFavorite(a) \/ CommitDeleteUser(a)
    \/ ReadReferences(a) \/ StartCascade(a) \/ Reconcile(a)

Commit(a) == (CatalogueWrite(a) \/ PortalCommit(a)) /\ UNCHANGED cache

Init ==
    /\ offered \in DOMAIN Scenarios
    /\ org = [o \in Orgs |-> [state |-> IF o \in Scenarios[offered].live THEN "live" ELSE "none",
                              version |-> 0, value |-> None]]
    /\ row = Scenarios[offered].rows
    /\ pend = [a \in Actors |-> Idle]
    /\ files = [i \in Items |-> IF i \in Rows("image") THEN "new" ELSE "none"]
    /\ now = 0 /\ lost = {} /\ silent = {} /\ ops = 0 /\ crashes = 0
    /\ cache = Quiet

Next ==
    \/ CatalogueStep
    \/ Tick
    \/ \E i \in Items : Age(i) \/ RemoveFavorite(i)
    \/ \E a \in Actors :
          \/ Free(a) /\ PortalBegin(a) /\ UNCHANGED cache
          \/ Commit(a)
          \/ Crash(a) /\ UNCHANGED cache
          \/ ListExpired(a) \/ ListFiles(a) \/ StartReconcile(a)

Fairness ==
    /\ \A a \in Actors : WF_vars(Commit(a))
    /\ WF_vars(\E i \in Items : Age(i))
    /\ WF_vars(\E a \in Actors : ListExpired(a))
    /\ WF_vars(\E a \in Actors : ListFiles(a))
    /\ WF_vars(\E a \in Actors : StartReconcile(a))

Spec == Init /\ [][Next]_vars /\ Fairness

-----------------------------------------------------------------------------
(* Properties. *)

\* The documents are what their schemas say, and every id is used once.
TypeOK ==
    /\ org \in [Orgs -> [state : {"none", "live", "gone"}, version : Nat, value : Values \cup {None}]]
    /\ row \in [Items -> {Unused, Gone} \cup Docs]
    /\ files \in [Items -> {"none", "new", "old"}]
    /\ now \in 0 .. MaxNow /\ ops \in 0 .. MaxOps /\ crashes \in 0 .. MaxCrashes
    /\ lost \in SUBSET Orgs /\ silent \in SUBSET Orgs
    /\ offered \in DOMAIN Scenarios

\* A caller told its copy is up to date has the tree as it is, once every
\* handler that wrote a part of it has written its version too - unless the
\* process of one died first, or one took its change for none.
Settled(o) ==
    /\ \A a \in Actors : ~(pend[a].step \in {"touch", "record"} /\ pend[a].org = o)
    /\ o \notin lost
TagCoversTree ==
    LET o == cache.copy.org IN
    o \in Live /\ cache.copy.tag = Tag(o) /\ Settled(o) => cache.copy.tree = Tree(o)
FreshTag == cache.copy.org \notin silent => TagCoversTree

\* Two handlers at once never do the same thing twice: a slug names at most one
\* service, and one news item, of an organization, though both found it free;
\* two taps on the heart keep one favourite; and however many workers expire
\* the news, and whoever deletes it meanwhile, an item is archived at most once
\* and never beside itself.
SlugFindsOne ==
    \A o \in Orgs, kind \in {"service", "news"} :
        \A i, j \in Of(kind, o) : row[i].slug = row[j].slug => i = j
FavoritesOnce ==
    \A i, j \in Rows("favorite") :
        row[i].user = row[j].user /\ row[i].target = row[j].target => i = j
ArchivedOnce ==
    \A k \in Rows("archive") : row[k].type = "news" =>
        /\ ~Exists(row[k].of)
        /\ \A l \in Rows("archive") :
              row[l].type = "news" /\ row[l].of = row[k].of => l = k
NothingTwice == SlugFindsOne /\ FavoritesOnce /\ ArchivedOnce

\* The jobs that clean up take nothing that is in use: an image whose upload was
\* answered with success has its file, whatever uploads, deletions and sweeps
\* are under way, and cascade_reconcile never removes the rows of an
\* organization that exists, one created while it was looking included.
ToldImagesServe == \A i \in Rows("image") : row[i].told => files[i] # "none"
OnlyTheDead == \A a \in Actors : pend[a].step = "cascade" => pend[a].orgs \cap Live = {}
JobsSpareTheLiving == ToldImagesServe /\ OnlyTheDead

\* What is left over goes in the end: the rows written under an organization
\* while it was deleted (unless so many organizations look dangling that the
\* job refuses), the files nobody is uploading and no row names, and the news
\* that has expired (unless it is postponed).
Dangling == Referenced \ Live
Leftovers == {i \in Items : files[i] # "none" /\ i \notin Rows("image")}
LeftoversGo ==
    /\ (Does("cascade_reconcile") /\ Dangling # {})
           ~> (Dangling = {} \/ Cardinality(Dangling) > ReconcileLimit)
    /\ (Does("storage_gc") /\ Leftovers # {}) ~> (Leftovers = {})
    /\ (Does("news_expiry") /\ Expired # {}) ~> (Expired = {})
=============================================================================
