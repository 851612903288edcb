----------------------------- MODULE Catalogue -----------------------------
(***************************************************************************)
(* What the public tree of an organization is made of: the organization,   *)
(* its categories, services and infosections, the operations of the staff  *)
(* on them, and an anonymous caller who keeps the tree and its ETag.       *)
(***************************************************************************)
EXTENDS Documents

VARIABLES
    cache      \* the anonymous caller: a request under way, and what it keeps

-----------------------------------------------------------------------------
(* Organizations. *)

CreateOrganization(o) ==
    /\ o \in Scenarios[offered].orgs /\ org[o].state = "none"
    /\ Does("create_organization")
    /\ ops < MaxOps /\ ops' = ops + 1
    /\ org' = [org EXCEPT ![o].state = "live"]
    /\ UNCHANGED <<row, pend, files, now, lost, silent, crashes, offered, cache>>

\* update: the fields and the version in one write.
UpdateOrganization(o) ==
    /\ o \in Live /\ Does("update_organization")
    /\ ops < MaxOps /\ ops' = ops + 1
    /\ \E v \in Values : org' = [org EXCEPT ![o].value = v, ![o].version = @ + 1]
    /\ UNCHANGED <<row, pend, files, now, lost, silent, crashes, offered, cache>>

DeleteOrganization(a, o) ==
    /\ Starts(a, "delete_organization")
    /\ o \in Live
    /\ Begin(a, Unlink(FilesOf(o)))
    /\ row' = OrganizationHooks(row, o)
    /\ org' = [org EXCEPT ![o].state = "gone"]
    /\ UNCHANGED <<files, now, lost, silent, crashes, offered>>

-----------------------------------------------------------------------------
(* Categories. *)

CreateCategory(a, i, o) ==
    /\ Starts(a, "create_category")
    /\ o \in Live /\ Fresh(i)
    /\ Begin(a, Insert(i, Category(o, NextPosition(Of("category", o)))))
    /\ Read

UpdateCategory(a, c) ==
    /\ Starts(a, "update_category")
    /\ c \in Rows("category")
    /\ \E change \in [enabled : BOOLEAN] \cup [value : Values] :
          Begin(a, Change(c, change, row[c].org))
    /\ Read

DeleteCategory(a, c) ==
    /\ Starts(a, "delete_category")
    /\ c \in Rows("category")
    /\ Begin(a, [step |-> "delete_category", item |-> c, org |-> row[c].org])
    /\ Read

CommitDeleteCategory(a) ==
    LET p == pend[a] IN
    /\ p.step = "delete_category"
    /\ IF CategoryIsEmpty(p.item)
       THEN InTransaction(a, [CategoryHooks(row, p.item) EXCEPT ![p.item] = Gone], p.org, Idle)
       ELSE InTransaction(a, row, None, Idle)

ReorderCategories(a, o) ==
    /\ Starts(a, "reorder")
    /\ \E f \in Orders(Siblings("category", o, None)) :
          Begin(a, Reorder("category", o, None, f))
    /\ Read

-----------------------------------------------------------------------------
(* Services. *)

\* nextPosition does not look at the trash... but sees its positions.
Position(o, c) == NextPosition({i \in Of("service", o) : row[i].category = c})

MayHold(c, o) == c = None \/ c \in Of("category", o)

\* create: everything is read before the transaction that inserts the service.
CreateService(a, i, o) ==
    /\ Starts(a, "create_service")
    /\ o \in Live /\ Fresh(i)
    /\ \E c \in Items \cup {None}, slug \in Slugs, status \in {"draft", "published"} :
          /\ MayHold(c, o)
          /\ ~SlugTaken("service", o, slug, i)
          /\ Begin(a, [step |-> "create_service", item |-> i, org |-> o,
                    made |-> Service(o, c, Position(o, c), slug, status)])
    /\ Read

\* clone: a draft beside its source, with a slug of its own.
CloneService(a, i, s) ==
    /\ Starts(a, "clone_service")
    /\ s \in Rows("service") /\ ~row[s].deleted /\ Fresh(i)
    /\ \E slug \in Slugs :
          /\ ~SlugTaken("service", row[s].org, slug, i)
          /\ Begin(a, [step |-> "create_service", item |-> i, org |-> row[s].org,
                    made |-> Service(row[s].org, row[s].category,
                                     Position(row[s].org, row[s].category), slug, "draft")])
    /\ Read

CommitCreateService(a) ==
    LET p == pend[a] IN
    /\ p.step = "create_service"
    /\ IF Unique(p.item, p.made)
       THEN InTransaction(a, [row EXCEPT ![p.item] = p.made], p.org, Idle)
       ELSE InTransaction(a, row, None, Idle)

\* update: a category that is another one comes with a position in it, a
\* status only if it is another one; `read` is the document as it was read.
Changes(s) ==
    LET r == row[s] IN
    {[category |-> c, position |-> Position(r.org, c)] :
        c \in {c \in Items \cup {None} : MayHold(c, r.org) /\ c # r.category}}
    \cup {[slug |-> slug] : slug \in {x \in Slugs : ~SlugTaken("service", r.org, x, s)}}
    \cup {[status |-> status] : status \in {"draft", "published"} \ {r.status}}
    \cup [value : Values]

UpdateService(a, s) ==
    /\ Starts(a, "update_service")
    /\ s \in Rows("service") /\ ~row[s].deleted
    /\ \E change \in Changes(s) :
          Begin(a, [step |-> "set_service", item |-> s, change |-> change, org |-> row[s].org, read |-> row[s]])
    /\ Read

\* restore: back at the end of its list.
RestoreService(a, s) ==
    /\ Starts(a, "restore_service")
    /\ s \in Rows("service") /\ row[s].deleted
    /\ Begin(a, [step |-> "set_service", item |-> s, org |-> row[s].org, read |-> row[s],
              change |-> [deleted |-> FALSE, position |-> Position(row[s].org, row[s].category)]])
    /\ Read

WriteService(a) ==
    LET p == pend[a] IN
    /\ p.step = "set_service"
    /\ IF Exists(p.item) /\ Unique(p.item, Set(row[p.item], p.change))
       THEN /\ row' = [row EXCEPT ![p.item] = Set(@, p.change)]
            /\ pend' = [pend EXCEPT ![a] = [step |-> "record", org |-> p.org, same |-> row'[p.item] = p.read]]
            /\ silent' = IF row'[p.item] = p.read /\ row' # row THEN silent \cup {p.org} ELSE silent
       ELSE UNCHANGED <<row, silent>> /\ pend' = [pend EXCEPT ![a] = Idle]
    /\ UNCHANGED <<org, files, now, lost, ops, crashes, offered>>

\* (Mutant of Record: the version is not bumped.)
RecordOnly(a) ==
    /\ pend[a].step = "record"
    /\ pend' = [pend EXCEPT ![a] = Idle]
    /\ UNCHANGED <<documents, files, now, counters, offered>>

\* record: no revision and no bump when what was written equals what was read.
Record(a) ==
    LET p == pend[a] IN
    /\ p.step = "record"
    /\ org' = IF p.same THEN org ELSE Bumped(org, p.org)
    /\ pend' = [pend EXCEPT ![a] = Idle]
    /\ UNCHANGED <<row, files, now, counters, offered>>

\* delete: to the trash, in a transaction (the bookings it refuses or
\* cancels are in Bookings).
TrashService(a, s) ==
    /\ Starts(a, "trash_service")
    /\ s \in Rows("service") /\ ~row[s].deleted
    /\ Begin(a, [step |-> "trash_service", item |-> s, org |-> row[s].org])
    /\ Read

CommitTrashService(a) ==
    LET p == pend[a] IN
    /\ p.step = "trash_service"
    /\ IF Exists(p.item)
       THEN InTransaction(a, [row EXCEPT ![p.item].deleted = TRUE], p.org, Idle)
       ELSE InTransaction(a, row, None, Idle)

\* purge reads the service in its own transaction.
PurgeService(a, s) ==
    /\ Starts(a, "purge_service")
    /\ s \in Rows("service")
    /\ Begin(a, Idle)
    /\ row' = [ServiceHooks(row, s) EXCEPT ![s] = Gone]
    /\ org' = Bumped(org, row[s].org)
    /\ UNCHANGED <<files, now, lost, silent, crashes, offered>>

\* reorderInCategory looks the category up as an anonymous viewer would.
ReorderServices(a, o, c) ==
    /\ Starts(a, "reorder")
    /\ \/ c = None
       \/ c \in Of("category", o) /\ row[c].enabled
    /\ \E f \in Orders(Siblings("service", o, c)) : Begin(a, Reorder("service", o, c, f))
    /\ Read

CommitReorder(a) ==
    LET p == pend[a] IN
    /\ p.step = "reorder"   \* refused if the siblings have changed
    /\ IF DOMAIN p.order = Siblings(p.kind, p.org, p.category)
       THEN InTransaction(a, Reordered(p.order), p.org, Idle)
       ELSE InTransaction(a, row, None, Idle)

-----------------------------------------------------------------------------
(* Infosections. *)

CreateInfoSection(a, i, o) ==
    /\ Starts(a, "create_infosection")
    /\ o \in Live /\ Fresh(i)
    /\ Begin(a, Insert(i, InfoSection(o, NextPosition(Of("infosection", o)))))
    /\ Read

UpdateInfoSection(a, i) ==
    /\ Starts(a, "update_infosection")
    /\ i \in Rows("infosection")
    /\ \E change \in [enabled : BOOLEAN] \cup [value : Values] :
          Begin(a, Change(i, change, row[i].org))
    /\ Read

DeleteInfoSection(a, i) ==
    /\ Starts(a, "delete_infosection")
    /\ i \in Rows("infosection")
    /\ Begin(a, Remove(i, row[i].org))
    /\ Read

ReorderInfoSections(a, o) ==
    /\ Starts(a, "reorder")
    /\ \E f \in Orders(Siblings("infosection", o, None)) :
          Begin(a, Reorder("infosection", o, None, f))
    /\ Read

-----------------------------------------------------------------------------
(* The tree, for a caller who is not signed in. *)

IsShown(i, o) ==
    LET r == row[i] IN
    CASE r.kind \in {"category", "infosection"} -> r.enabled
      [] r.kind = "service" ->
            /\ ~r.deleted /\ r.status = "published"
            /\ \/ r.category = None
               \/ r.category \in Of("category", o) /\ row[r.category].enabled
      [] r.kind = "news" -> r.enabled /\ (r.publish = None \/ r.publish <= now)
      [] r.kind = "image" -> TRUE
      [] OTHER -> FALSE

Card(r) == IF r.kind = "image" THEN [kind |-> "image"] ELSE r
Children(o) == {i \in Items : Exists(i) /\ row[i].kind # "user" /\ row[i].org = o}
Tree(o) == [value |-> org[o].value,
            children |-> [i \in {i \in Children(o) : IsShown(i, o)} |-> Card(row[i])]]

\* treeTag: the version, and the last moment a news item was released.
Released(o) ==
    LET moments == {row[i].publish : i \in {i \in Of("news", o) : row[i].publish # None}}
        past == {m \in moments : m <= now}
    IN IF past = {} THEN None ELSE CHOOSE m \in past : \A n \in past : n <= m
Tag(o) == <<org[o].version, Released(o)>>

NoCopy == [org |-> None, tag |-> None, tree |-> None]
Quiet == [asking |-> None, tag |-> None, copy |-> NoCopy]

\* The tag is read, and answered with 304 if the caller has it...
AskTree(o) ==
    /\ Does("read_tree")
    /\ cache.asking = None /\ o \in Live
    /\ ~(cache.copy.org = o /\ cache.copy.tag = Tag(o))
    /\ cache' = [cache EXCEPT !.asking = o, !.tag = Tag(o)]
    /\ UNCHANGED <<documents, pend, files, now, counters, offered>>

\* ... and the tree after it.
GetTree ==
    LET o == cache.asking IN
    /\ o # None
    /\ cache' = IF o \in Live
                THEN [asking |-> None, tag |-> None,
                      copy |-> [org |-> o, tag |-> cache.tag, tree |-> Tree(o)]]
                ELSE [cache EXCEPT !.asking = None, !.tag = None]
    /\ UNCHANGED <<documents, pend, files, now, counters, offered>>

-----------------------------------------------------------------------------
(* Steps. *)

CatalogueBegin(a) ==
    \/ \E o \in Scenarios[offered].orgs :
          \/ DeleteOrganization(a, o)
          \/ ReorderCategories(a, o) \/ ReorderInfoSections(a, o)
          \/ \E c \in Items \cup {None} : ReorderServices(a, o, c)
          \/ \E i \in Scenarios[offered].items : CreateCategory(a, i, o) \/ CreateService(a, i, o) \/ CreateInfoSection(a, i, o)
    \/ \E i \in Items :
          \/ UpdateCategory(a, i) \/ DeleteCategory(a, i)
          \/ UpdateService(a, i) \/ RestoreService(a, i) \/ TrashService(a, i) \/ PurgeService(a, i)
          \/ UpdateInfoSection(a, i) \/ DeleteInfoSection(a, i)
          \/ \E s \in Items : CloneService(a, i, s)

CatalogueWrite(a) ==
    \/ WriteRow(a) \/ Touch(a) \/ RemoveFiles(a)
    \/ CommitDeleteCategory(a) \/ CommitCreateService(a) \/ CommitTrashService(a) \/ CommitReorder(a)
    \/ WriteService(a) \/ Record(a)

CatalogueStep ==
    \/ \E o \in Orgs : CreateOrganization(o) \/ UpdateOrganization(o) \/ AskTree(o)
    \/ GetTree
    \/ \E a \in Actors : Free(a) /\ CatalogueBegin(a) /\ UNCHANGED cache
=============================================================================
