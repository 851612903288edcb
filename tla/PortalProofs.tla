---------------------------- MODULE PortalProofs ----------------------------
(* What an organization owns, for any organizations, ids, handlers and      *)
(* scenarios: nothing is done twice, the jobs that clean up spare what is   *)
(* in use, and a caller whose copy of the tree is up to date by its tag has *)
(* the tree.                                                                *)
EXTENDS Portal, JobLease, FiniteSetTheorems, TLAPS

-----------------------------------------------------------------------------
(* Ranks in a finite set whose elements are in an order.                    *)

IsOrder(before, S) ==
    /\ \A r \in S : <<r, r>> \notin before
    /\ \A r, s, t \in S : <<r, s>> \in before /\ <<s, t>> \in before => <<r, t>> \in before
    /\ \A r, s \in S : r # s => <<r, s>> \in before \/ <<s, r>> \in before

Ranked(before, S) == [r \in S |-> Cardinality({s \in S : <<s, r>> \in before})]

\* Every element has a rank of its own, below the number of elements.
LEMMA RanksDiffer ==
    ASSUME NEW S, IsFiniteSet(S), NEW before, IsOrder(before, S)
    PROVE  Ranked(before, S) \in Injection(S, 0 .. Cardinality(S) - 1)
<1> DEFINE Ahead(r) == {s \in S : <<s, r>> \in before}
           f == Ranked(before, S)
<1>0. Cardinality(S) \in Nat
  BY FS_CardinalityType
<1>1. ASSUME NEW r \in S PROVE IsFiniteSet(Ahead(r)) /\ Cardinality(Ahead(r)) \in Nat
  BY FS_Subset, FS_CardinalityType
<1>2. ASSUME NEW r \in S PROVE Cardinality(Ahead(r)) < Cardinality(S)
  <2>1. Ahead(r) \in SUBSET S /\ r \notin Ahead(r)
    BY DEF IsOrder
  <2>2. Cardinality(Ahead(r)) <= Cardinality(S) /\ Cardinality(Ahead(r)) # Cardinality(S)
    BY <2>1, FS_Subset
  <2> QED BY <2>2, <1>0, <1>1
<1>3. ASSUME NEW r \in S, NEW s \in S, <<r, s>> \in before
      PROVE  Cardinality(Ahead(r)) < Cardinality(Ahead(s))
  <2>1. Ahead(r) \in SUBSET Ahead(s) /\ r \in Ahead(s) /\ r \notin Ahead(r)
    BY <1>3 DEF IsOrder
  <2>2. Cardinality(Ahead(r)) <= Cardinality(Ahead(s)) /\ Cardinality(Ahead(r)) # Cardinality(Ahead(s))
    BY <2>1, <1>1, FS_Subset
  <2> QED BY <2>2, <1>1
<1>4. \A r \in S : f[r] = Cardinality(Ahead(r))
  BY DEF Ranked
<1>5. f \in [S -> 0 .. Cardinality(S) - 1]
  <2>1. ASSUME NEW r \in S PROVE Cardinality(Ahead(r)) \in 0 .. Cardinality(S) - 1
    <3> HIDE DEF Ahead
    <3> QED BY <1>0, <1>1, <1>2
  <2> QED BY <2>1 DEF Ranked
<1>6. \A r, s \in S : f[r] = f[s] => r = s
  <2> SUFFICES ASSUME NEW r \in S, NEW s \in S, r # s PROVE f[r] # f[s]
    OBVIOUS
  <2>1. <<r, s>> \in before \/ <<s, r>> \in before
    BY DEF IsOrder
  <2>2. Cardinality(Ahead(r)) # Cardinality(Ahead(s))
    <3> HIDE DEF Ahead
    <3> QED BY <2>1, <1>1, <1>3
  <2> HIDE DEF f, Ahead
  <2> QED BY <2>2, <1>4
<1> QED BY <1>5, <1>6 DEF Injection, IsInjective

\* Every rank is taken.
LEMMA RanksTaken ==
    ASSUME NEW S, IsFiniteSet(S), NEW before, IsOrder(before, S)
    PROVE  \A k \in 0 .. Cardinality(S) - 1 : \E r \in S : Ranked(before, S)[r] = k
<1> DEFINE n == Cardinality(S)
           f == Ranked(before, S)
<1>0. n \in Nat /\ IsFiniteSet(0 .. n - 1) /\ Cardinality(0 .. n - 1) = n
  <2>1. n \in Nat
    BY FS_CardinalityType
  <2>2. IsFiniteSet(0 .. n - 1) /\ Cardinality(0 .. n - 1) = IF 0 > n - 1 THEN 0 ELSE n - 1 - 0 + 1
    <3> HIDE DEF n
    <3>1. 0 \in Int /\ n - 1 \in Int
      BY <2>1
    <3> QED BY <3>1, FS_Interval
  <2> QED BY <2>1, <2>2
<1>1. f \in Injection(S, 0 .. n - 1)
  BY RanksDiffer
<1>2. f \in Surjection(S, 0 .. n - 1)
  BY <1>0, <1>1, FS_Injection
<1>3. \A k \in 0 .. n - 1 : \E r \in S : f[r] = k
  BY <1>2 DEF Surjection
<1> QED BY <1>3

LEMMA ImageFinite ==
    ASSUME NEW A, IsFiniteSet(A), NEW f
    PROVE  IsFiniteSet({f[x] : x \in A})
<1> DEFINE T == {f[x] : x \in A}
           g == [x \in A |-> f[x]]
<1>1. g \in Surjection(A, T)
  BY DEF Surjection
<1> HIDE DEF g, T
<1>2. IsFiniteSet(T)
  BY <1>1, FS_Surjection
<1> QED BY <1>2 DEF T

\* A finite set of numbers has a greatest one.
LEMMA Greatest ==
    ASSUME NEW S \in SUBSET Int, IsFiniteSet(S), S # {}
    PROVE  \E m \in S : \A n \in S : n <= m
<1> DEFINE before == {k \in S \X S : k[1] > k[2]}
           size == Cardinality(S)
<1>1. \A r, s \in S : <<r, s>> \in before <=> r > s
  OBVIOUS
<1> HIDE DEF before
<1>2. IsOrder(before, S)
  BY <1>1 DEF IsOrder
<1>3. size \in Nat /\ size # 0
  BY FS_CardinalityType, FS_EmptySet
<1>4. 0 \in 0 .. size - 1
  <2> HIDE DEF size
  <2> QED BY <1>3
<1>5. PICK m \in S : Ranked(before, S)[m] = 0
  BY <1>2, <1>4, RanksTaken
<1>6. Cardinality({s \in S : <<s, m>> \in before}) = 0
  BY <1>5 DEF Ranked
<1>7. {s \in S : <<s, m>> \in before} = {}
  BY <1>6, FS_Subset, FS_EmptySet
<1>8. \A n \in S : ~(n > m)
  BY <1>1, <1>7
<1>9. \A n \in S : n <= m
  BY <1>8
<1> QED BY <1>9

-----------------------------------------------------------------------------
(* What the variables hold.                                                 *)

Born == {o \in Orgs : org[o].state # "none"}
Dead == {o \in Orgs : org[o].state = "gone"}

Types ==
    /\ org \in [Orgs -> [state : {"none", "live", "gone"}, version : Nat, value : Values \cup {None}]]
    /\ row \in [Items -> {Unused, Gone} \cup Docs]
    /\ DOMAIN pend = Actors
    /\ files \in [Items -> {"none", "new", "old"}]
    /\ now \in Nat /\ lost \in SUBSET Orgs /\ silent \in SUBSET Orgs
    /\ offered \in DOMAIN Scenarios

\* No row names an organization that has never been.
Owned == \A i \in Items : Owners(row[i]) \subseteq Born

\* An id that has been used, and whose upload, if it was of an image, is over.
Uploading(i) == \E a \in Actors : pend[a].step = "upload" /\ pend[a].item = i
Taken(i) == row[i] # Unused /\ ~Uploading(i)

\* What a handler has in hand: a row to be made under an id nobody else has...
Making == {"insert", "create_service", "favorite"}
MakingRight(p) ==
    /\ "item" \in DOMAIN p /\ p.item \in Items /\ row[p.item] = Unused
    /\ p.made \in Docs /\ Owners(p.made) \subseteq Born
    /\ \/ p.step = "insert" /\ p.made.kind \in {"category", "infosection", "news"} /\ p.org = p.made.org
       \/ p.step = "insert" /\ p.made.kind = "archive" /\ p.made.type = "service" /\ p.org = None
       \/ p.step = "insert" /\ p.made.kind = "user" /\ p.org = None
       \/ p.step = "create_service" /\ p.made.kind = "service" /\ p.org = p.made.org
       \/ p.step = "favorite" /\ p.made.kind = "favorite"

\* ...a row that has been read, and may be gone...
Writing ==
    {"set", "delete", "delete_category", "set_service", "trash_service", "delete_image", "delete_user"}
Fits(c) ==
    /\ DOMAIN c \subseteq {"position", "enabled", "value", "category", "slug", "status", "deleted",
                           "publish", "expires", "orgs"}
    /\ "position" \in DOMAIN c => c.position \in Nat
    /\ "enabled" \in DOMAIN c => c.enabled \in BOOLEAN
    /\ "value" \in DOMAIN c => c.value \in Values
    /\ "category" \in DOMAIN c => c.category \in Items \cup {None}
    /\ "slug" \in DOMAIN c => c.slug \in Slugs
    /\ "status" \in DOMAIN c => c.status \in {"draft", "published"}
    /\ "deleted" \in DOMAIN c => c.deleted \in BOOLEAN
    /\ "publish" \in DOMAIN c => c.publish \in Moments \cup {None}
    /\ "expires" \in DOMAIN c => c.expires \in Moments \cup {None}
    /\ "orgs" \in DOMAIN c => c.orgs \in SUBSET Born
Names(p, r) ==
    \/ p.step = "set" /\ r.kind \in {"category", "infosection", "news"} /\ p.org = r.org
    \/ p.step = "set" /\ r.kind = "user" /\ p.org = None
    \/ p.step = "delete" /\ r.kind \in {"infosection", "news"} /\ p.org = r.org
    \/ p.step = "delete" /\ r.kind = "archive" /\ p.org = None
    \/ p.step = "delete_category" /\ r.kind = "category" /\ p.org = r.org
    \/ p.step \in {"set_service", "trash_service"} /\ r.kind = "service" /\ p.org = r.org
    \/ p.step = "delete_image" /\ r.kind = "image" /\ p.org = r.org
    \/ p.step = "delete_user" /\ r.kind = "user"
WritingRight(p) ==
    /\ p.item \in Items /\ Taken(p.item)
    /\ Exists(p.item) => Names(p, row[p.item])
    /\ p.step \in {"set", "delete"} => p.org \in Orgs \cup {None}
    /\ p.step \in {"delete_category", "set_service", "trash_service", "delete_image"} => p.org \in Orgs
    /\ p.step \in {"set", "set_service"} => Fits(p.change)

\* ...or something else.
Unserved(i) == i \in Items /\ Taken(i) /\ ~(Exists(i) /\ row[i].kind = "image" /\ row[i].told)
CascadeOf(p) == p \in [step : {"cascade"}, orgs : SUBSET Dead]
ReorderRight(p) ==
    /\ p.kind \in {"category", "infosection", "news", "service"}
    /\ DOMAIN p.order \subseteq Items /\ \A i \in DOMAIN p.order : p.order[i] \in Nat
ExpireRight(p) ==
    /\ DOMAIN p = {"step", "news"} /\ DOMAIN p.news \subseteq Items
    /\ \A n \in DOMAIN p.news :
          /\ Taken(n) /\ p.news[n] \in Born
          /\ Exists(n) => row[n].kind = "news" /\ row[n].org = p.news[n]
ReconcileRight(p) ==
    /\ p \in [step : {"reconcile"}, left : {Readings, Tail(Readings), <<>>}, referenced : SUBSET Born, existing : SUBSET Orgs]
    /\ p.left = <<>> => p.referenced \ p.existing \subseteq Dead
Right(p) ==
    \/ p.step = "idle"
    \/ p.step \in Making /\ MakingRight(p)
    \/ p.step \in Writing /\ WritingRight(p)
    \/ p.step \in {"touch", "record"} /\ p.org \in Orgs
    \/ p.step = "reorder" /\ ReorderRight(p)
    \/ p.step = "expire" /\ ExpireRight(p)
    \/ p.step = "upload" /\ "item" \in DOMAIN p /\ p.item \in Items /\ p.org \in Born
                         /\ row[p.item] = Gone /\ files[p.item] # "none"
    \/ p.step = "unlink" /\ (\A i \in p.files : Unserved(i)) /\ (p.next = Idle \/ CascadeOf(p.next))
    \/ p.step = "sweep" /\ \A i \in p.files : i \in Items /\ Taken(i)
    \/ p.step = "reconcile" /\ ReconcileRight(p)
    \/ p.step = "cascade" /\ CascadeOf(p)
Works == \A a \in Actors : Right(pend[a])

Reserves(p) == p.step \in Making \cup {"upload"}
Apart ==
    \A a, b \in Actors : a # b /\ Reserves(pend[a]) /\ Reserves(pend[b]) => pend[a].item # pend[b].item

\* A file has an id in use, an old one is not being uploaded, and an image whose
\* upload was answered has its file.
Filed ==
    \A i \in Items :
        /\ files[i] # "none" => row[i] # Unused
        /\ files[i] = "old" => ~Uploading(i)
        /\ Exists(i) /\ row[i].kind = "image" /\ row[i].told => files[i] # "none"

Basis == Types /\ Owned /\ Works /\ Apart /\ Filed

\* What was archived as news is gone for good.
Archived ==
    \A k \in Rows("archive") : row[k].type = "news" =>
        /\ row[k].of \in Items /\ row[row[k].of] = Gone /\ ~Uploading(row[k].of)
        /\ \A l \in Rows("archive") : row[l].type = "news" /\ row[l].of = row[k].of => l = k

\* Every category, gone ones included, has an organization, which is that of the
\* services that are in it or about to be.
Held(home, c, o) == c \in Items /\ row[c] # Unused /\ home[c] = o
HomeRight(home, p) ==
    /\ p.step = "delete_category" => Held(home, p.item, p.org)
    /\ p.step = "create_service" /\ p.made.category # None =>
          Held(home, p.made.category, p.org)
    /\ p.step = "set_service" /\ "category" \in DOMAIN p.change /\ p.change.category # None =>
          Held(home, p.change.category, p.org)
Homes(home) ==
    /\ home \in [Items -> Orgs \cup {None}]
    /\ \A i \in Rows("category") : row[i].org = home[i]
    /\ \A i \in Rows("service") : row[i].category # None =>
          Held(home, row[i].category, row[i].org)
    /\ \A a \in Actors : HomeRight(home, pend[a])
Homed == \E home \in [Items -> Orgs \cup {None}] : Homes(home)

\* A version that is behind what is written, for ever or until a handler under
\* way writes it.
DirtyBy(p, o) ==
    \/ p.step = "touch" /\ p.org = o
    \/ p.step = "record" /\ p.org = o /\ ~p.same
Dirty(o) == o \in lost \/ o \in silent \/ \E a \in Actors : DirtyBy(pend[a], o)

\* What IsShown, Tree and Released are at a moment.
ShownAt(i, o, m) ==
    LET r == row[i] IN
    CASE r.kind \in {"category", "infosection"} -> r.enabled
      [] r.kind = "service" ->
            /\ ~r.deleted /\ r.status = "published"
            /\ \/ r.category = None
               \/ r.category \in Of("category", o) /\ row[r.category].enabled
      [] r.kind = "news" -> r.enabled /\ (r.publish = None \/ r.publish <= m)
      [] r.kind = "image" -> TRUE
      [] OTHER -> FALSE
TreeAt(o, m) ==
    [value |-> org[o].value,
     children |-> [i \in {i \in Children(o) : ShownAt(i, o, m)} |-> Card(row[i])]]
PastAt(o, m) == {x \in {row[i].publish : i \in {i \in Of("news", o) : row[i].publish # None}} : x <= m}
ReleasedAt(o, m) == IF PastAt(o, m) = {} THEN None ELSE CHOOSE x \in PastAt(o, m) : \A y \in PastAt(o, m) : y <= x

\* A tag that was asked for is older than the documents, or it is as they were at
\* some moment; and so is the tree that was answered after it.
Asked(o, tag) ==
    /\ o \in Born /\ tag[1] \in Nat
    /\ o \in Live =>
          /\ tag[1] <= org[o].version
          /\ tag[1] = org[o].version /\ ~Dirty(o) => \E k \in 0 .. now : tag[2] = ReleasedAt(o, k)
Answered(o, tag, tree) ==
    /\ o \in Born /\ tag[1] \in Nat
    /\ o \in Live =>
          /\ tag[1] <= org[o].version
          /\ tag[1] = org[o].version /\ ~Dirty(o) =>
                \E m \in 0 .. now : \E k \in 0 .. m : tag[2] = ReleasedAt(o, k) /\ tree = TreeAt(o, m)
CacheRight ==
    /\ DOMAIN cache = {"asking", "tag", "copy"}
    /\ cache.asking # None => Asked(cache.asking, cache.tag)
    /\ cache.copy.org # None => Answered(cache.copy.org, cache.copy.tag, cache.copy.tree)

-----------------------------------------------------------------------------
(* Documents.                                                               *)

Kinds == {"category", "infosection", "service", "news", "image", "archive", "favorite", "user"}

LEMMA DocsAre ==
    ASSUME NEW r \in Docs
    PROVE  /\ r # Unused /\ r # Gone /\ r.kind \in Kinds
           /\ r.kind # "user" => r.org \in Orgs /\ Owners(r) = {r.org}
           /\ r.kind = "user" => r.orgs \in SUBSET Orgs /\ Owners(r) = r.orgs
           /\ r.kind \in {"category", "infosection", "service", "news"} => r.position \in Nat
           /\ "slug" \in DOMAIN r <=> r.kind \in {"service", "news"}
<1>1. r # Unused /\ r # Gone
  BY IdsAssumption
<1>2. /\ r.kind \in Kinds
      /\ r.kind # "user" => r.org \in Orgs
      /\ r.kind = "user" => r.orgs \in SUBSET Orgs
      /\ r.kind \in {"category", "infosection", "service", "news"} => r.position \in Nat
      /\ "slug" \in DOMAIN r <=> r.kind \in {"service", "news"}
  BY DEF Docs, Kinds
<1> QED BY <1>1, <1>2 DEF Owners

\* What is made is a document, of the organization it is made for.
LEMMA MadeAre ==
    ASSUME NEW o \in Orgs
    PROVE  /\ \A n \in Nat : Category(o, n) \in Docs /\ Category(o, n).kind = "category" /\ Category(o, n).org = o
           /\ \A n \in Nat : InfoSection(o, n) \in Docs /\ InfoSection(o, n).kind = "infosection" /\ InfoSection(o, n).org = o
           /\ \A c \in Items \cup {None}, n \in Nat, slug \in Slugs, status \in {"draft", "published"} :
                 /\ Service(o, c, n, slug, status) \in Docs
                 /\ Service(o, c, n, slug, status).kind = "service" /\ Service(o, c, n, slug, status).org = o
                 /\ Service(o, c, n, slug, status).category = c
           /\ \A n \in Nat, slug \in Slugs, publish, expires \in Moments \cup {None} :
                 /\ News(o, n, slug, publish, expires) \in Docs
                 /\ News(o, n, slug, publish, expires).kind = "news" /\ News(o, n, slug, publish, expires).org = o
           /\ \A told \in BOOLEAN : Image(o, told) \in Docs /\ Image(o, told).kind = "image" /\ Image(o, told).org = o
                                    /\ Image(o, told).told = told
           /\ \A type \in {"news", "service"}, i \in Items \cup {None} :
                 /\ Archive(o, type, i) \in Docs /\ Archive(o, type, i).kind = "archive" /\ Archive(o, type, i).org = o
                 /\ Archive(o, type, i).type = type /\ Archive(o, type, i).of = i
           /\ \A u \in People, t \in Orgs \cup Items :
                 /\ Favorite(o, u, t) \in Docs /\ Favorite(o, u, t).kind = "favorite" /\ Favorite(o, u, t).org = o
                 /\ Favorite(o, u, t).user = u /\ Favorite(o, u, t).target = t
<1>1. \A n \in Nat : Category(o, n) \in Docs /\ Category(o, n).kind = "category" /\ Category(o, n).org = o
  BY DEF Docs, Category
<1>2. \A n \in Nat : InfoSection(o, n) \in Docs /\ InfoSection(o, n).kind = "infosection" /\ InfoSection(o, n).org = o
  BY DEF Docs, InfoSection
<1>3. \A c \in Items \cup {None}, n \in Nat, slug \in Slugs, status \in {"draft", "published"} :
         /\ Service(o, c, n, slug, status) \in Docs
         /\ Service(o, c, n, slug, status).kind = "service" /\ Service(o, c, n, slug, status).org = o
         /\ Service(o, c, n, slug, status).category = c
  BY DEF Docs, Service
<1>4. \A n \in Nat, slug \in Slugs, publish, expires \in Moments \cup {None} :
         /\ News(o, n, slug, publish, expires) \in Docs
         /\ News(o, n, slug, publish, expires).kind = "news" /\ News(o, n, slug, publish, expires).org = o
  BY DEF Docs, News
<1>5. \A told \in BOOLEAN : Image(o, told) \in Docs /\ Image(o, told).kind = "image" /\ Image(o, told).org = o
                            /\ Image(o, told).told = told
  BY DEF Docs, Image
<1>6. \A type \in {"news", "service"}, i \in Items \cup {None} :
         /\ Archive(o, type, i) \in Docs /\ Archive(o, type, i).kind = "archive" /\ Archive(o, type, i).org = o
         /\ Archive(o, type, i).type = type /\ Archive(o, type, i).of = i
  BY DEF Docs, Archive
<1>7. \A u \in People, t \in Orgs \cup Items :
         /\ Favorite(o, u, t) \in Docs /\ Favorite(o, u, t).kind = "favorite" /\ Favorite(o, u, t).org = o
         /\ Favorite(o, u, t).user = u /\ Favorite(o, u, t).target = t
  BY DEF Docs, Favorite
<1> QED BY <1>1, <1>2, <1>3, <1>4, <1>5, <1>6, <1>7, Zenon

LEMMA UsersAre ==
    ASSUME NEW os \in SUBSET Orgs
    PROVE  User(os) \in Docs /\ User(os).kind = "user" /\ User(os).orgs = os
BY DEF Docs, User

\* A change keeps a document what it is, and whose.
LEMMA SetIs ==
    ASSUME NEW r \in Docs, NEW c, Fits(c)
    PROVE  /\ Set(r, c) \in Docs /\ Set(r, c).kind = r.kind
           /\ r.kind # "user" => Set(r, c).org = r.org
           /\ r.kind = "user" => Set(r, c).orgs = IF "orgs" \in DOMAIN c THEN c.orgs ELSE r.orgs
           /\ r.kind = "service" => Set(r, c).category = IF "category" \in DOMAIN c THEN c.category ELSE r.category
<1>0. Born \subseteq Orgs
  BY DEF Born
<1> DEFINE s == Set(r, c)
<1>1. CASE r \in [kind : {"category", "infosection"}, org : Orgs, position : Nat, enabled : BOOLEAN, value : Values \cup {None}]
  <2>1. s \in [kind : {"category", "infosection"}, org : Orgs, position : Nat, enabled : BOOLEAN, value : Values \cup {None}]
    BY <1>1 DEF Fits, Set
  <2>2. s.kind = r.kind /\ s.org = r.org /\ r.kind # "user" /\ r.kind # "service"
    BY <1>1 DEF Fits, Set
  <2> QED BY <2>1, <2>2 DEF Docs
<1>2. CASE r \in [kind : {"service"}, org : Orgs, category : Items \cup {None}, position : Nat, slug : Slugs,
                  status : {"draft", "published"}, deleted : BOOLEAN, value : Values \cup {None}]
  <2>1. s \in [kind : {"service"}, org : Orgs, category : Items \cup {None}, position : Nat, slug : Slugs,
               status : {"draft", "published"}, deleted : BOOLEAN, value : Values \cup {None}]
    BY <1>2 DEF Fits, Set
  <2>2. s.kind = r.kind /\ s.org = r.org /\ r.kind # "user"
        /\ s.category = IF "category" \in DOMAIN c THEN c.category ELSE r.category
    BY <1>2 DEF Fits, Set
  <2> QED BY <2>1, <2>2 DEF Docs
<1>3. CASE r \in [kind : {"news"}, org : Orgs, position : Nat, slug : Slugs, enabled : BOOLEAN,
                  publish : Moments \cup {None}, expires : Moments \cup {None}, value : Values \cup {None}]
  <2>1. s \in [kind : {"news"}, org : Orgs, position : Nat, slug : Slugs, enabled : BOOLEAN,
               publish : Moments \cup {None}, expires : Moments \cup {None}, value : Values \cup {None}]
    BY <1>3 DEF Fits, Set
  <2>2. s.kind = r.kind /\ s.org = r.org /\ r.kind # "user" /\ r.kind # "service"
    BY <1>3 DEF Fits, Set
  <2> QED BY <2>1, <2>2 DEF Docs
<1>4. CASE r \in [kind : {"image"}, org : Orgs, told : BOOLEAN]
  <2>1. s \in [kind : {"image"}, org : Orgs, told : BOOLEAN] /\ s.kind = r.kind /\ s.org = r.org
    BY <1>4 DEF Fits, Set
  <2> QED BY <1>4, <2>1 DEF Docs
<1>5. CASE r \in [kind : {"archive"}, org : Orgs, type : {"news", "service"}, of : Items \cup {None}]
  <2>1. s \in [kind : {"archive"}, org : Orgs, type : {"news", "service"}, of : Items \cup {None}]
        /\ s.kind = r.kind /\ s.org = r.org
    BY <1>5 DEF Fits, Set
  <2> QED BY <1>5, <2>1 DEF Docs
<1>6. CASE r \in [kind : {"favorite"}, org : Orgs, user : People, target : Orgs \cup Items]
  <2>1. s \in [kind : {"favorite"}, org : Orgs, user : People, target : Orgs \cup Items]
        /\ s.kind = r.kind /\ s.org = r.org
    BY <1>6 DEF Fits, Set
  <2> QED BY <1>6, <2>1 DEF Docs
<1>7. CASE r \in [kind : {"user"}, orgs : SUBSET Orgs]
  <2>1. s \in [kind : {"user"}, orgs : SUBSET Orgs]
        /\ s.kind = r.kind /\ s.orgs = IF "orgs" \in DOMAIN c THEN c.orgs ELSE r.orgs
    BY <1>0, <1>7 DEF Fits, Set
  <2> QED BY <1>7, <2>1 DEF Docs
<1> QED BY <1>1, <1>2, <1>3, <1>4, <1>5, <1>6, <1>7 DEF Docs

\* The position after the last of the siblings is a position.
LEMMA PositionIs ==
    ASSUME Types, NEW siblings \in SUBSET Items,
           \A i \in siblings : Exists(i) /\ row[i].kind \in {"category", "infosection", "service", "news"}
    PROVE  NextPosition(siblings) \in Nat
<1> DEFINE S == {row[i].position : i \in siblings}
<1>1. \A i \in siblings : row[i].position \in Nat
  BY DocsAre DEF Types, Exists
<1>2. IsFiniteSet(S) /\ S \in SUBSET Nat
  <2>1. IsFiniteSet(siblings)
    BY IdsAssumption, FS_Subset
  <2>2. IsFiniteSet(S)
    <3> DEFINE f == [i \in siblings |-> row[i].position]
    <3>1. IsFiniteSet({f[i] : i \in siblings})
      <4> HIDE DEF f
      <4> QED BY <2>1, ImageFinite
    <3> QED BY <3>1
  <2> QED BY <1>1, <2>2
<1>3. CASE siblings = {}
  BY <1>3 DEF NextPosition
<1>4. CASE siblings # {}
  <2>1. S # {}
    BY <1>4
  <2>2. \E m \in S : \A n \in S : n <= m
    <3> HIDE DEF S
    <3> QED BY <1>2, <2>1, Greatest
  <2>3. \E m \in S : \A i \in siblings : row[i].position <= m
    BY <2>2
  <2>4. (CHOOSE n \in S : \A i \in siblings : row[i].position <= n) \in Nat
    <3> HIDE DEF S
    <3> QED BY <1>2, <2>3
  <2> QED BY <1>4, <2>4 DEF NextPosition
<1> QED BY <1>3, <1>4

-----------------------------------------------------------------------------
(* How rows, files and what is in hand go on.                               *)

\* A row keeps its kind and its organization, and what is never written again.
SameRow(r, s) ==
    /\ s \in Docs /\ s.kind = r.kind
    /\ r.kind # "user" => s.org = r.org
    /\ r.kind \in {"image", "archive", "favorite"} => s = r
Calm(i) ==
    \/ row'[i] = row[i]
    \/ Exists(i) /\ row'[i] = Gone
    \/ /\ Exists(i) /\ SameRow(row[i], row'[i]) /\ Owners(row'[i]) \subseteq Born'
       /\ "slug" \in DOMAIN row[i] => row'[i].slug = row[i].slug
       /\ row[i].kind = "service" => row'[i].category \in {row[i].category, None}
Unclaimed(i) == \A b \in Actors : Reserves(pend[b]) /\ pend[b].item = i => pend'[b] # pend[b]

\* A service stays in its category, or goes to one of its organization.
Placed(i) ==
    row'[i].kind = "service" /\ row'[i].category # None =>
        \/ Exists(i) /\ row[i].kind = "service" /\ row[i].category = row'[i].category
        \/ \A home : Homes(home) => Held(home, row'[i].category, row'[i].org)
Makes(i) ==
    \/ Exists(i) /\ SameRow(row[i], row'[i]) /\ Owners(row'[i]) \subseteq Born' /\ Unique(i, row'[i]) /\ Placed(i)
    \/ row[i] = Unused /\ row'[i] = Gone /\ Unclaimed(i)
    \/ /\ row[i] = Unused /\ row'[i] \in Docs /\ row'[i].kind # "image" /\ Owners(row'[i]) \subseteq Born'
       /\ Unclaimed(i) /\ Unique(i, row'[i]) /\ Placed(i)
       /\ row'[i].kind = "favorite" => ~Keeps(row'[i].user, row'[i].target)
       /\ row'[i].kind = "archive" /\ row'[i].type = "news" =>
             row'[i].of \in Items /\ Exists(row'[i].of) /\ row'[row'[i].of] = Gone
    \/ /\ row[i] = Gone /\ row'[i] \in Docs /\ row'[i].kind = "image" /\ Owners(row'[i]) \subseteq Born'
       /\ \E a \in Actors : pend[a].step = "upload" /\ pend[a].item = i /\ pend'[a] # pend[a]
RowsGo == \E k : \A i \in Items : Calm(i) \/ (i = k /\ Makes(i))

FilesGo ==
    \A i \in Items :
        \/ files'[i] = files[i]
        \/ files'[i] = "none" /\ Unserved(i)
        \/ files'[i] = "new" /\ row[i] = Unused /\ row'[i] = Gone
        \/ files'[i] = "old" /\ files[i] = "new" /\ Taken(i)

\* What a handler goes on to leaves categories where they are.
Settles(w) == \A home : Homes(home) => HomeRight(home, w)
Going ==
    /\ RowsGo /\ row' = [i \in Items |-> row'[i]]
    /\ FilesGo
    /\ Born \subseteq Born' /\ Dead \subseteq Dead'
    /\ \A i \in Items : Uploading(i)' => Uploading(i) \/ row[i] = Unused
    /\ \A b \in Actors : pend'[b] = pend[b] \/ Settles(pend'[b])

LEMMA RowGoes ==
    ASSUME RowsGo, NEW i \in Items
    PROVE  Calm(i) \/ Makes(i)
BY DEF RowsGo

\* An id that is taken stays taken, and its row what it is.
LEMMA TakenStays ==
    ASSUME Basis, Going, NEW i \in Items
    PROVE  /\ row[i] # Unused => row'[i] # Unused
           /\ Taken(i) => Taken(i)'
           /\ Taken(i) /\ row'[i] \notin {Unused, Gone} => Exists(i) /\ (row'[i] = row[i] \/ SameRow(row[i], row'[i]))
<1>0. Unused # Gone /\ row[i] \in {Unused, Gone} \cup Docs /\ Unused \notin Docs /\ Gone \notin Docs
  BY IdsAssumption DEF Basis, Types
<1>1. Calm(i) \/ Makes(i)
  BY RowGoes DEF Going
<1>2. row[i] # Unused => row'[i] # Unused
  BY <1>0, <1>1 DEF Calm, Makes, SameRow
<1>3. Taken(i) => Taken(i)'
  BY <1>2 DEF Taken, Going
<1>4. Taken(i) /\ row'[i] \notin {Unused, Gone} => Exists(i) /\ (row'[i] = row[i] \/ SameRow(row[i], row'[i]))
  BY <1>0, <1>1 DEF Taken, Uploading, Calm, Makes, Exists
<1> QED BY <1>2, <1>3, <1>4

\* What is in hand stays right, whatever others do meanwhile.
LEMMA RightStays ==
    ASSUME Basis, Going, NEW p, Right(p),
           Reserves(p) => row'[p.item] = row[p.item],
           p.step = "upload" => files'[p.item] # "none"
    PROVE  Right(p)'
<1>0. Born \subseteq Born' /\ Dead \subseteq Dead' /\ Born \subseteq Orgs
  BY DEF Going, Born
<1>1. CASE p.step \in Making /\ MakingRight(p)
  <2>1. MakingRight(p)'
    BY <1>0, <1>1, Zenon DEF MakingRight, Reserves
  <2> QED BY <1>1, <2>1 DEF Right
<1>2. CASE p.step \in Writing /\ WritingRight(p)
  <2>1. p.item \in Items /\ Taken(p.item) /\ (Exists(p.item) => Names(p, row[p.item]))
    BY <1>2 DEF WritingRight
  <2>2. /\ Taken(p.item)'
        /\ row'[p.item] \notin {Unused, Gone} =>
              Exists(p.item) /\ (row'[p.item] = row[p.item] \/ SameRow(row[p.item], row'[p.item]))
    BY <2>1, TakenStays
  <2>3. ASSUME Exists(p.item)' PROVE Names(p, row[p.item])'
    <3>1. /\ Names(p, row[p.item])
          /\ row'[p.item] = row[p.item] \/ SameRow(row[p.item], row'[p.item])
      BY <2>1, <2>2, <2>3 DEF Exists
    <3> QED BY <3>1 DEF Names, SameRow
  <2>4. p.step \in {"set", "set_service"} => Fits(p.change)'
    BY <1>0, <1>2 DEF WritingRight, Fits
  <2>5. WritingRight(p)'
    BY <1>2, <2>1, <2>2, <2>3, <2>4 DEF WritingRight
  <2> QED BY <1>2, <2>5 DEF Right
<1>3. CASE p.step = "reorder" /\ ReorderRight(p)
  BY <1>3 DEF Right, ReorderRight
<1>4. CASE p.step = "expire" /\ ExpireRight(p)
  <2>1. ASSUME NEW n \in DOMAIN p.news
        PROVE  Taken(n)' /\ p.news[n] \in Born' /\ (Exists(n)' => row'[n].kind = "news" /\ row'[n].org = p.news[n])
    <3>1. n \in Items /\ Taken(n) /\ p.news[n] \in Born /\ (Exists(n) => row[n].kind = "news" /\ row[n].org = p.news[n])
      BY <1>4 DEF ExpireRight
    <3>2. /\ Taken(n)'
          /\ row'[n] \notin {Unused, Gone} => Exists(n) /\ (row'[n] = row[n] \/ SameRow(row[n], row'[n]))
      BY <3>1, TakenStays
    <3> QED BY <1>0, <3>1, <3>2 DEF Exists, SameRow
  <2>2. ExpireRight(p)'
    BY <1>4, <2>1 DEF ExpireRight
  <2> QED BY <1>4, <2>2 DEF Right
<1>5. CASE p.step = "upload" /\ Right(p)
  BY <1>0, <1>5 DEF Right, Reserves, Making, Writing
<1>6. ASSUME CascadeOf(p.next) PROVE CascadeOf(p.next)'
  BY <1>0, <1>6 DEF CascadeOf
<1>7. CASE p.step = "unlink" /\ (\A i \in p.files : Unserved(i)) /\ (p.next = Idle \/ CascadeOf(p.next))
  <2>1. ASSUME NEW i \in p.files PROVE Unserved(i)'
    <3>1. i \in Items /\ Taken(i) /\ ~(Exists(i) /\ row[i].kind = "image" /\ row[i].told)
      BY <1>7 DEF Unserved
    <3>2. /\ Taken(i)'
          /\ row'[i] \notin {Unused, Gone} => Exists(i) /\ (row'[i] = row[i] \/ SameRow(row[i], row'[i]))
      BY <3>1, TakenStays
    <3> QED BY <3>1, <3>2 DEF Unserved, Exists, SameRow
  <2> QED BY <1>6, <1>7, <2>1 DEF Right
<1>8. CASE p.step = "sweep" /\ \A i \in p.files : i \in Items /\ Taken(i)
  <2>1. \A i \in p.files : i \in Items /\ Taken(i)'
    BY <1>8, TakenStays
  <2> QED BY <1>8, <2>1 DEF Right
<1>9. CASE p.step = "reconcile" /\ ReconcileRight(p)
  <2>1. ReconcileRight(p)'
    BY <1>0, <1>9 DEF ReconcileRight
  <2> QED BY <1>9, <2>1 DEF Right
<1>10. CASE p.step = "cascade" /\ CascadeOf(p)
  <2>1. CascadeOf(p)'
    BY <1>0, <1>10 DEF CascadeOf
  <2> QED BY <1>10, <2>1 DEF Right
<1>11. CASE p.step = "idle" \/ (p.step \in {"touch", "record"} /\ p.org \in Orgs)
  BY <1>11 DEF Right
<1> QED BY <1>1, <1>2, <1>3, <1>4, <1>5, <1>7, <1>8, <1>9, <1>10, <1>11 DEF Right

\* A handler stays where it is, or goes on to something that is right; it takes
\* an id only if nobody has it.
Moves(b) ==
    \/ pend'[b] = pend[b]
    \/ /\ Right(pend[b])'
       /\ Reserves(pend'[b]) =>
             \A c \in Actors \ {b} : pend'[c] = pend[c] /\ (Reserves(pend[c]) => pend[c].item # pend'[b].item)
Sorts ==
    /\ org \in [Orgs -> [state : {"none", "live", "gone"}, version : Nat, value : Values \cup {None}]]
    /\ DOMAIN pend = Actors
    /\ files \in [Items -> {"none", "new", "old"}]
    /\ now \in Nat /\ lost \in SUBSET Orgs /\ silent \in SUBSET Orgs
    /\ offered \in DOMAIN Scenarios

\* Who stays put keeps the id taken, and its file.
LEMMA ReservedStays ==
    ASSUME Basis, Going, NEW b \in Actors, pend'[b] = pend[b], Reserves(pend[b])
    PROVE  /\ row'[pend[b].item] = row[pend[b].item]
           /\ pend[b].step = "upload" => files'[pend[b].item] # "none"
<1> DEFINE i == pend[b].item
<1>0. Unused # Gone /\ Unused \notin Docs /\ Gone \notin Docs
  BY IdsAssumption
<1>1. /\ i \in Items /\ row[i] \in {Unused, Gone}
      /\ pend[b].step = "upload" => row[i] = Gone /\ files[i] # "none"
      /\ pend[b].step # "upload" => row[i] = Unused
  BY DEF Basis, Works, Right, Reserves, MakingRight, Making, Writing
<1>2. Calm(i) \/ Makes(i)
  BY <1>1, RowGoes DEF Going
<1>3. ASSUME NEW a \in Actors, pend[a].step = "upload", pend[a].item = i, pend'[a] # pend[a] PROVE FALSE
  BY <1>3 DEF Basis, Apart, Reserves
<1>4. row'[i] = row[i]
  <2> HIDE DEF i
  <2>1. i = pend[b].item
    BY DEF i
  <2> QED BY <1>0, <1>1, <1>2, <1>3, <2>1 DEF Calm, Makes, Exists, Unclaimed
<1>5. pend[b].step = "upload" => files'[i] # "none"
  <2>1. pend[b].step = "upload" => ~Unserved(i)
    BY DEF Unserved, Taken, Uploading
  <2> QED BY <1>1, <2>1 DEF Going, FilesGo
<1> QED BY <1>4, <1>5

LEMMA BasisFrom ==
    ASSUME Basis, Going, Sorts', \A b \in Actors : Moves(b)
    PROVE  Basis'
<1>0. /\ Unused # Gone /\ Unused \notin Docs /\ Gone \notin Docs /\ Born \subseteq Born'
      /\ row \in [Items -> {Unused, Gone} \cup Docs]
  BY IdsAssumption DEF Basis, Types, Going
<1>1. ASSUME NEW i \in Items PROVE row'[i] \in {Unused, Gone} \cup Docs /\ Owners(row'[i]) \subseteq Born'
  <2>1. Calm(i) \/ Makes(i)
    BY RowGoes DEF Going
  <2>2. Owners(row[i]) \subseteq Born' /\ Owners(Gone) = {}
    BY <1>0 DEF Basis, Owned, Owners
  <2>3. CASE Calm(i)
    BY <1>0, <2>2, <2>3 DEF Calm, SameRow
  <2>4. CASE Makes(i)
    BY <1>0, <2>2, <2>4 DEF Makes, SameRow
  <2> QED BY <2>1, <2>3, <2>4
<1>2. Types'
  <2>1. row' \in [Items -> {Unused, Gone} \cup Docs]
    BY <1>1 DEF Going
  <2> QED BY <2>1 DEF Types, Sorts
<1>3. Owned'
  BY <1>1 DEF Owned, Owners, Born
<1>4. Works'
  <2> SUFFICES ASSUME NEW b \in Actors PROVE Right(pend[b])'
    BY DEF Works
  <2>1. CASE pend'[b] = pend[b]
    <3>1. PICK p : p = pend[b]
      OBVIOUS
    <3>2. Right(p)
      BY <3>1 DEF Basis, Works
    <3>3. /\ Reserves(p) => row'[p.item] = row[p.item]
          /\ p.step = "upload" => files'[p.item] # "none"
      <4>1. p.step = "upload" => Reserves(p)
        BY DEF Reserves
      <4> QED BY <2>1, <3>1, <4>1, ReservedStays
    <3>4. Right(p)'
      BY <3>2, <3>3, RightStays
    <3>5. p = pend'[b]
      BY <2>1, <3>1
    <3> HIDE DEF Right
    <3> QED BY <3>4, <3>5
  <2>2. CASE pend'[b] # pend[b]
    BY <2>2 DEF Moves
  <2> QED BY <2>1, <2>2
<1>5. Apart'
  <2> SUFFICES ASSUME NEW a \in Actors, NEW b \in Actors, a # b, Reserves(pend'[a]), Reserves(pend'[b])
               PROVE  pend'[a].item # pend'[b].item
    BY DEF Apart, Reserves
  <2>1. Moves(a) /\ Moves(b)
    OBVIOUS
  <2>2. CASE pend'[a] = pend[a] /\ pend'[b] = pend[b]
    BY <2>2 DEF Basis, Apart
  <2>3. CASE pend'[a] # pend[a]
    BY <2>1, <2>3 DEF Moves
  <2>4. CASE pend'[b] # pend[b]
    BY <2>1, <2>4 DEF Moves
  <2> QED BY <2>2, <2>3, <2>4
<1>6. Filed'
  <2> SUFFICES ASSUME NEW i \in Items
               PROVE  /\ files'[i] # "none" => row'[i] # Unused
                      /\ files'[i] = "old" => ~Uploading(i)'
                      /\ row'[i] \notin {Unused, Gone} /\ row'[i].kind = "image" /\ row'[i].told => files'[i] # "none"
    BY DEF Filed, Exists
  <2>1. /\ files[i] # "none" => row[i] # Unused
        /\ files[i] = "old" => ~Uploading(i)
        /\ row[i] \notin {Unused, Gone} /\ row[i].kind = "image" /\ row[i].told => files[i] # "none"
    BY DEF Basis, Filed, Exists
  <2>2. /\ row[i] # Unused => row'[i] # Unused
        /\ Uploading(i)' => Uploading(i) \/ row[i] = Unused
    BY TakenStays DEF Going
  <2>3. \/ files'[i] = files[i]
        \/ files'[i] = "none" /\ Unserved(i)
        \/ files'[i] = "new" /\ row[i] = Unused /\ row'[i] = Gone
        \/ files'[i] = "old" /\ files[i] = "new" /\ Taken(i)
    BY DEF Going, FilesGo
  <2>4. files'[i] # "none" => row'[i] # Unused
    BY <1>0, <2>1, <2>2, <2>3 DEF Taken
  <2>5. files'[i] = "old" => ~Uploading(i)'
    BY <2>1, <2>2, <2>3 DEF Taken
  <2>6. ASSUME row'[i] \notin {Unused, Gone}, row'[i].kind = "image", row'[i].told PROVE files'[i] # "none"
    <3>1. Calm(i) \/ Makes(i)
      BY RowGoes DEF Going
    <3>2. \/ row'[i] = row[i]
          \/ row[i] = Gone /\ \E a \in Actors : pend[a].step = "upload" /\ pend[a].item = i
      BY <1>0, <2>6, <3>1 DEF Calm, Makes, SameRow, Exists
    <3>3. CASE row'[i] = row[i]
      BY <2>1, <2>3, <2>6, <3>3 DEF Unserved, Exists
    <3>4. ASSUME NEW a \in Actors, pend[a].step = "upload", pend[a].item = i PROVE files'[i] # "none"
      <4>1. Uploading(i) /\ files[i] # "none"
        BY <3>4 DEF Uploading, Basis, Works, Right, Making, Writing
      <4> QED BY <2>3, <4>1 DEF Unserved, Taken
    <3> QED BY <3>2, <3>3, <3>4
  <2> QED BY <2>4, <2>5, <2>6
<1> QED BY <1>2, <1>3, <1>4, <1>5, <1>6 DEF Basis

-----------------------------------------------------------------------------
(* What a handler reads before it writes.                                   *)

\* What is begun is right, takes no id that somebody has, and leaves categories
\* where they are.
Ready(w) ==
    /\ Right(w) /\ w.step # "upload"
    /\ w.step \in Making => \A b \in Actors : Reserves(pend[b]) => pend[b].item # w.item
    /\ Settles(w)
Reads(a, w) ==
    /\ ~Busy(a) /\ pend' = [pend EXCEPT ![a] = w]
    /\ UNCHANGED <<org, row, files, now, lost, silent, offered>>
Begun(a) == \E w : Reads(a, w) /\ Ready(w)

LEMMA Beginning ==
    ASSUME NEW a, NEW w, Free(a), Begin(a, w), Read, Ready(w)
    PROVE  Begun(a)
BY DEF Free, Begin, Read, Begun, Reads

LEMMA FreshIs ==
    ASSUME Basis, NEW i, Fresh(i)
    PROVE  i \in Items /\ row[i] = Unused /\ \A b \in Actors : Reserves(pend[b]) => pend[b].item # i
<1>1. i \in Items /\ row[i] = Unused
  BY ScenariosAssumption DEF Fresh, Basis, Types
<1>2. \A b \in Actors : Reserves(pend[b]) => "item" \in DOMAIN pend[b]
  BY DEF Basis, Works, Right, Reserves, MakingRight, Making, Writing
<1> QED BY <1>1, <1>2 DEF Fresh

\* A row that exists is a document in use.
LEMMA ThereIs ==
    ASSUME Basis, NEW kind, NEW i \in Rows(kind)
    PROVE  /\ i \in Items /\ Exists(i) /\ Taken(i) /\ row[i] \in Docs /\ row[i].kind = kind
           /\ row[i] # Unused /\ row[i] # Gone /\ Owners(row[i]) \subseteq Born
<1>1. /\ i \in Items /\ Exists(i) /\ row[i] \in Docs /\ row[i].kind = kind /\ row[i] # Unused /\ row[i] # Gone
      /\ Owners(row[i]) \subseteq Born
  BY DEF Rows, Exists, Basis, Types, Owned
<1>2. ~Uploading(i)
  BY <1>1 DEF Uploading, Basis, Works, Right, Making, Writing
<1> QED BY <1>1, <1>2 DEF Taken

LEMMA LiveIsBorn == Live \subseteq Born /\ Born \subseteq Orgs
BY DEF Live, Born

\* Rows under way, by what is to be done with them.
LEMMA ReadyToInsert ==
    ASSUME Basis, NEW i, Fresh(i), NEW r \in Docs, Owners(r) \subseteq Born,
           \/ r.kind \in {"category", "infosection", "news"}
           \/ r.kind = "archive" /\ r.type = "service"
           \/ r.kind = "user"
    PROVE  /\ r.kind \in {"category", "infosection", "news"} => Ready(Insert(i, r))
           /\ r.kind \in {"archive", "user"} => Ready(Plain(i, r))
<1>1. i \in Items /\ row[i] = Unused /\ \A b \in Actors : Reserves(pend[b]) => pend[b].item # i
  BY FreshIs
<1>2. ASSUME r.kind \in {"category", "infosection", "news"} PROVE Ready(Insert(i, r))
  <2> DEFINE w == Insert(i, r)
  <2>1. w.step = "insert" /\ "item" \in DOMAIN w /\ w.item = i /\ w.made = r /\ w.org = r.org
    BY DEF Insert
  <2> HIDE DEF w
  <2>2. MakingRight(w)
    BY <1>1, <1>2, <2>1 DEF MakingRight
  <2> QED BY <1>1, <2>1, <2>2 DEF Ready, Settles, Right, Making, HomeRight, w
<1>3. ASSUME r.kind \in {"archive", "user"} PROVE Ready(Plain(i, r))
  <2> DEFINE w == Plain(i, r)
  <2>1. w.step = "insert" /\ "item" \in DOMAIN w /\ w.item = i /\ w.made = r /\ w.org = None
    BY DEF Plain
  <2> HIDE DEF w
  <2>2. MakingRight(w)
    BY <1>1, <1>3, <2>1 DEF MakingRight
  <2> QED BY <1>1, <2>1, <2>2 DEF Ready, Settles, Right, Making, HomeRight, w
<1> QED BY <1>2, <1>3

LEMMA ReadyToWrite ==
    ASSUME Basis, NEW kind, NEW i \in Rows(kind), NEW w, w.item = i, Names(w, row[i]),
           w.step \in {"set", "delete", "delete_category", "trash_service", "delete_image", "delete_user"},
           w.step = "set" => Fits(w.change),
           w.step \in {"delete_category", "trash_service", "delete_image"} => w.org = row[i].org
    PROVE  Ready(w)
<1>1. i \in Items /\ Exists(i) /\ Taken(i) /\ row[i] \in Docs
  BY ThereIs
<1>2. /\ w.step \in {"set", "delete"} => w.org \in Orgs \cup {None}
      /\ w.step \in {"delete_category", "trash_service", "delete_image"} => w.org \in Orgs
  BY <1>1, DocsAre DEF Names
<1>3. WritingRight(w)
  BY <1>1, <1>2 DEF WritingRight
<1>4. ASSUME NEW home, Homes(home) PROVE HomeRight(home, w)
  <2>1. w.step = "delete_category" => row[i].kind = "category" /\ i \in Rows("category")
    BY <1>1 DEF Names, Rows
  <2>2. w.step = "delete_category" => Held(home, i, w.org)
    BY <1>1, <1>4, <2>1 DEF Homes, Held, Taken
  <2> QED BY <2>2 DEF HomeRight
<1> QED BY <1>3, <1>4 DEF Ready, Settles, Right, Writing, Making

LEMMA PositionOf ==
    ASSUME Basis, NEW o, NEW kind \in {"category", "infosection", "service", "news"}, NEW S \in SUBSET Of(kind, o)
    PROVE  NextPosition(S) \in Nat
BY PositionIs DEF Basis, Of, Rows

LEMMA LiveOwns ==
    ASSUME NEW o \in Live, NEW r \in Docs, r.kind # "user", r.org = o
    PROVE  Owners(r) \subseteq Born
BY DocsAre, LiveIsBorn

\* The handlers that only read before their write, one by one.
LEMMA CreatesBegin ==
    ASSUME Basis, NEW a, NEW i, NEW o
    PROVE  /\ CreateCategory(a, i, o) => Begun(a)
           /\ CreateInfoSection(a, i, o) => Begun(a)
           /\ CreateNews(a, i, o) => Begun(a)
           /\ CreateArchive(a, i, o) => Begun(a)
           /\ CreateUser(a, i) => Begun(a)
<1>0. Live \subseteq Orgs /\ Live \subseteq Born
  BY LiveIsBorn DEF Born
<1>1. ASSUME CreateCategory(a, i, o) PROVE Begun(a)
  <2> DEFINE r == Category(o, NextPosition(Of("category", o)))
  <2>1. Free(a) /\ o \in Live /\ Fresh(i) /\ Begin(a, Insert(i, r)) /\ Read
    BY <1>1 DEF CreateCategory, Starts
  <2>2. r \in Docs /\ r.kind = "category" /\ r.org = o
    BY <1>0, <2>1, PositionOf, MadeAre
  <2> HIDE DEF r
  <2>3. Ready(Insert(i, r))
    BY <2>1, <2>2, LiveOwns, ReadyToInsert
  <2> QED BY <2>1, <2>3, Beginning
<1>2. ASSUME CreateInfoSection(a, i, o) PROVE Begun(a)
  <2> DEFINE r == InfoSection(o, NextPosition(Of("infosection", o)))
  <2>1. Free(a) /\ o \in Live /\ Fresh(i) /\ Begin(a, Insert(i, r)) /\ Read
    BY <1>2 DEF CreateInfoSection, Starts
  <2>2. r \in Docs /\ r.kind = "infosection" /\ r.org = o
    BY <1>0, <2>1, PositionOf, MadeAre
  <2> HIDE DEF r
  <2>3. Ready(Insert(i, r))
    BY <2>1, <2>2, LiveOwns, ReadyToInsert
  <2> QED BY <2>1, <2>3, Beginning
<1>3. ASSUME CreateNews(a, i, o) PROVE Begun(a)
  <2>1. Free(a) /\ o \in Live /\ Fresh(i) /\ Read
    BY <1>3 DEF CreateNews, Starts
  <2>2. PICK slug \in Slugs, publish \in Moments \cup {None}, expires \in Moments \cup {None} :
           Begin(a, Insert(i, News(o, NextPosition(Of("news", o)), slug, publish, expires)))
    BY <1>3 DEF CreateNews
  <2> DEFINE r == News(o, NextPosition(Of("news", o)), slug, publish, expires)
  <2>3. r \in Docs /\ r.kind = "news" /\ r.org = o
    BY <1>0, <2>1, PositionOf, MadeAre
  <2>4. Begin(a, Insert(i, r))
    BY <2>2
  <2> HIDE DEF r
  <2>5. Ready(Insert(i, r))
    BY <2>1, <2>3, LiveOwns, ReadyToInsert
  <2> QED BY <2>1, <2>4, <2>5, Beginning
<1>4. ASSUME CreateArchive(a, i, o) PROVE Begun(a)
  <2>1. Free(a) /\ o \in Live /\ Fresh(i) /\ Read
    BY <1>4 DEF CreateArchive, Starts
  <2>2. PICK s \in {None} \cup Of("service", o) : Begin(a, Plain(i, Archive(o, "service", s)))
    BY <1>4 DEF CreateArchive
  <2> DEFINE r == Archive(o, "service", s)
  <2>3. r \in Docs /\ r.kind = "archive" /\ r.type = "service" /\ r.org = o
    <3>1. s \in Items \cup {None}
      BY DEF Of, Rows
    <3> QED BY <1>0, <2>1, <3>1, MadeAre
  <2>4. Begin(a, Plain(i, r))
    BY <2>2
  <2> HIDE DEF r
  <2>5. Ready(Plain(i, r))
    BY <2>1, <2>3, LiveOwns, ReadyToInsert
  <2> QED BY <2>1, <2>4, <2>5, Beginning
<1>5. ASSUME CreateUser(a, i) PROVE Begun(a)
  <2>1. Free(a) /\ Fresh(i) /\ Read
    BY <1>5 DEF CreateUser, Starts
  <2>2. PICK os \in SUBSET Live : Begin(a, Plain(i, User(os)))
    BY <1>5 DEF CreateUser
  <2> DEFINE r == User(os)
  <2>3. r \in Docs /\ r.kind = "user" /\ r.orgs = os
    BY <1>0, UsersAre
  <2>4. Begin(a, Plain(i, r)) /\ Owners(r) \subseteq Born
    BY <1>0, <2>2, <2>3, DocsAre
  <2> HIDE DEF r
  <2>5. Ready(Plain(i, r))
    BY <2>1, <2>3, <2>4, ReadyToInsert
  <2> QED BY <2>1, <2>4, <2>5, Beginning
<1> QED BY <1>1, <1>2, <1>3, <1>4, <1>5

\* A plain change of a row that was read.
LEMMA ReadyToChange ==
    ASSUME Basis, NEW kind \in {"category", "infosection", "news"}, NEW i \in Rows(kind)
    PROVE  /\ \A c : Fits(c) => Ready(Change(i, c, row[i].org))
           /\ kind # "category" => Ready(Remove(i, row[i].org))
<1>1. row[i].kind = kind
  BY ThereIs
<1>2. ASSUME NEW c, Fits(c) PROVE Ready(Change(i, c, row[i].org))
  <2> DEFINE w == Change(i, c, row[i].org)
  <2>1. w.step = "set" /\ w.item = i /\ w.change = c /\ w.org = row[i].org
    BY DEF Change
  <2> HIDE DEF w
  <2>2. Names(w, row[i])
    BY <1>1, <2>1 DEF Names
  <2>3. Ready(w)
    BY <1>2, <2>1, <2>2, ReadyToWrite
  <2> QED BY <2>3 DEF w
<1>3. ASSUME kind # "category" PROVE Ready(Remove(i, row[i].org))
  <2> DEFINE w == Remove(i, row[i].org)
  <2>1. w.step = "delete" /\ w.item = i /\ w.org = row[i].org
    BY DEF Remove
  <2> HIDE DEF w
  <2>2. Names(w, row[i])
    BY <1>1, <1>3, <2>1 DEF Names
  <2>3. Ready(w)
    BY <2>1, <2>2, ReadyToWrite
  <2> QED BY <2>3 DEF w
<1> QED BY <1>2, <1>3

LEMMA ChangesBegin ==
    ASSUME Basis, NEW a, NEW i
    PROVE  /\ UpdateCategory(a, i) => Begun(a)
           /\ UpdateInfoSection(a, i) => Begun(a)
           /\ UpdateNews(a, i) => Begun(a)
           /\ DeleteInfoSection(a, i) => Begun(a)
           /\ DeleteNews(a, i) => Begun(a)
<1>0. \A c \in [enabled : BOOLEAN] \cup [value : Values] : Fits(c)
  BY DEF Fits
<1>1. ASSUME UpdateCategory(a, i) PROVE Begun(a)
  <2>1. Free(a) /\ i \in Rows("category") /\ Read
    BY <1>1 DEF UpdateCategory, Starts
  <2>2. PICK c \in [enabled : BOOLEAN] \cup [value : Values] : Begin(a, Change(i, c, row[i].org))
    BY <1>1 DEF UpdateCategory
  <2>3. Ready(Change(i, c, row[i].org))
    BY <1>0, <2>1, ReadyToChange
  <2> QED BY <2>1, <2>2, <2>3, Beginning
<1>2. ASSUME UpdateInfoSection(a, i) PROVE Begun(a)
  <2>1. Free(a) /\ i \in Rows("infosection") /\ Read
    BY <1>2 DEF UpdateInfoSection, Starts
  <2>2. PICK c \in [enabled : BOOLEAN] \cup [value : Values] : Begin(a, Change(i, c, row[i].org))
    BY <1>2 DEF UpdateInfoSection
  <2>3. Ready(Change(i, c, row[i].org))
    BY <1>0, <2>1, ReadyToChange
  <2> QED BY <2>1, <2>2, <2>3, Beginning
<1>3. ASSUME UpdateNews(a, i) PROVE Begun(a)
  <2>1. Free(a) /\ i \in Rows("news") /\ Read
    BY <1>3 DEF UpdateNews, Starts
  <2>2. PICK c \in [slug : {x \in Slugs : ~SlugTaken("news", row[i].org, x, i)}]
                   \cup [publish : Moments \cup {None}] \cup [expires : Moments \cup {None}]
                   \cup [enabled : BOOLEAN] : Begin(a, Change(i, c, row[i].org))
    BY <1>3 DEF UpdateNews
  <2>3. Fits(c)
    BY DEF Fits
  <2>4. Ready(Change(i, c, row[i].org))
    BY <2>1, <2>3, ReadyToChange
  <2> QED BY <2>1, <2>2, <2>4, Beginning
<1>4. ASSUME DeleteInfoSection(a, i) PROVE Begun(a)
  <2>1. Free(a) /\ i \in Rows("infosection") /\ Read /\ Begin(a, Remove(i, row[i].org))
    BY <1>4 DEF DeleteInfoSection, Starts
  <2>2. Ready(Remove(i, row[i].org))
    BY <2>1, ReadyToChange
  <2> QED BY <2>1, <2>2, Beginning
<1>5. ASSUME DeleteNews(a, i) PROVE Begun(a)
  <2>1. Free(a) /\ i \in Rows("news") /\ Read /\ Begin(a, Remove(i, row[i].org))
    BY <1>5 DEF DeleteNews, Starts
  <2>2. Ready(Remove(i, row[i].org))
    BY <2>1, ReadyToChange
  <2> QED BY <2>1, <2>2, Beginning
<1> QED BY <1>1, <1>2, <1>3, <1>4, <1>5

LEMMA RemovalsBegin ==
    ASSUME Basis, NEW a, NEW i
    PROVE  /\ DeleteCategory(a, i) => Begun(a)
           /\ TrashService(a, i) => Begun(a)
           /\ DeleteImage(a, i) => Begun(a)
           /\ DeleteArchive(a, i) => Begun(a)
           /\ DeleteUser(a, i) => Begun(a)
<1>1. ASSUME DeleteCategory(a, i) PROVE Begun(a)
  <2> DEFINE w == [step |-> "delete_category", item |-> i, org |-> row[i].org]
  <2>1. Free(a) /\ i \in Rows("category") /\ Read /\ Begin(a, w)
    BY <1>1 DEF DeleteCategory, Starts
  <2>2. w.step = "delete_category" /\ w.item = i /\ w.org = row[i].org
    OBVIOUS
  <2> HIDE DEF w
  <2>3. row[i].kind = "category"
    BY <2>1, ThereIs
  <2>4. Ready(w)
    <3>1. Names(w, row[i])
      BY <2>2, <2>3 DEF Names
    <3> QED BY <2>1, <2>2, <3>1, ReadyToWrite
  <2> QED BY <2>1, <2>4, Beginning
<1>2. ASSUME TrashService(a, i) PROVE Begun(a)
  <2> DEFINE w == [step |-> "trash_service", item |-> i, org |-> row[i].org]
  <2>1. Free(a) /\ i \in Rows("service") /\ Read /\ Begin(a, w)
    BY <1>2 DEF TrashService, Starts
  <2>2. w.step = "trash_service" /\ w.item = i /\ w.org = row[i].org
    OBVIOUS
  <2> HIDE DEF w
  <2>3. row[i].kind = "service"
    BY <2>1, ThereIs
  <2>4. Ready(w)
    <3>1. Names(w, row[i])
      BY <2>2, <2>3 DEF Names
    <3> QED BY <2>1, <2>2, <3>1, ReadyToWrite
  <2> QED BY <2>1, <2>4, Beginning
<1>3. ASSUME DeleteImage(a, i) PROVE Begun(a)
  <2> DEFINE w == [step |-> "delete_image", item |-> i, org |-> row[i].org]
  <2>1. Free(a) /\ i \in Rows("image") /\ Read /\ Begin(a, w)
    BY <1>3 DEF DeleteImage, Starts
  <2>2. w.step = "delete_image" /\ w.item = i /\ w.org = row[i].org
    OBVIOUS
  <2> HIDE DEF w
  <2>3. row[i].kind = "image"
    BY <2>1, ThereIs
  <2>4. Ready(w)
    <3>1. Names(w, row[i])
      BY <2>2, <2>3 DEF Names
    <3> QED BY <2>1, <2>2, <3>1, ReadyToWrite
  <2> QED BY <2>1, <2>4, Beginning
<1>4. ASSUME DeleteArchive(a, i) PROVE Begun(a)
  <2> DEFINE w == Remove(i, None)
  <2>1. Free(a) /\ i \in Rows("archive") /\ Read /\ Begin(a, w)
    BY <1>4 DEF DeleteArchive, Starts
  <2>2. w.step = "delete" /\ w.item = i /\ w.org = None
    BY DEF Remove
  <2> HIDE DEF w
  <2>3. row[i].kind = "archive"
    BY <2>1, ThereIs
  <2>4. Ready(w)
    <3>1. Names(w, row[i])
      BY <2>2, <2>3 DEF Names
    <3> QED BY <2>1, <2>2, <3>1, ReadyToWrite
  <2> QED BY <2>1, <2>4, Beginning
<1>5. ASSUME DeleteUser(a, i) PROVE Begun(a)
  <2> DEFINE w == [step |-> "delete_user", item |-> i]
  <2>1. Free(a) /\ i \in Rows("user") /\ Read /\ Begin(a, w)
    BY <1>5 DEF DeleteUser, Starts
  <2>2. w.step = "delete_user" /\ w.item = i
    OBVIOUS
  <2> HIDE DEF w
  <2>3. row[i].kind = "user"
    BY <2>1, ThereIs
  <2>4. Ready(w)
    <3>1. Names(w, row[i])
      BY <2>2, <2>3 DEF Names
    <3> QED BY <2>1, <2>2, <3>1, ReadyToWrite
  <2> QED BY <2>1, <2>4, Beginning
<1> QED BY <1>1, <1>2, <1>3, <1>4, <1>5

LEMMA MembersBegin ==
    ASSUME Basis, NEW a, NEW i
    PROVE  /\ SetOrganizations(a, i) => Begun(a)
           /\ \A o : RemoveOperator(a, i, o) => Begun(a)
<1>1. ASSUME NEW os \in SUBSET Born, i \in Rows("user") PROVE Ready(Joins(i, os))
  <2> DEFINE w == Joins(i, os)
  <2>1. w.step = "set" /\ w.item = i /\ w.change = [orgs |-> os] /\ w.org = None
    BY DEF Joins, Change
  <2> HIDE DEF w
  <2>2. row[i].kind = "user"
    BY <1>1, ThereIs
  <2>3. Names(w, row[i]) /\ Fits(w.change)
    BY <2>1, <2>2 DEF Names, Fits
  <2>4. Ready(w)
    BY <1>1, <2>1, <2>3, ReadyToWrite
  <2> QED BY <2>4 DEF w
<1>2. ASSUME SetOrganizations(a, i) PROVE Begun(a)
  <2>1. Free(a) /\ i \in Rows("user") /\ Read
    BY <1>2 DEF SetOrganizations, Starts
  <2>2. PICK os \in SUBSET Live : Begin(a, Joins(i, os))
    BY <1>2 DEF SetOrganizations
  <2>3. Ready(Joins(i, os))
    BY <1>1, <2>1, LiveIsBorn
  <2> QED BY <2>1, <2>2, <2>3, Beginning
<1>3. ASSUME NEW o, RemoveOperator(a, i, o) PROVE Begun(a)
  <2>1. Free(a) /\ i \in Rows("user") /\ Read
    BY <1>3 DEF RemoveOperator, Starts
  <2> DEFINE d == [step |-> "delete_user", item |-> i]
  <2>2. Begin(a, d) \/ Begin(a, Joins(i, row[i].orgs \ {o}))
    BY <1>3 DEF RemoveOperator
  <2>3. d.step = "delete_user" /\ d.item = i
    OBVIOUS
  <2> HIDE DEF d
  <2>4. row[i].kind = "user" /\ row[i].orgs \subseteq Born
    BY <2>1, ThereIs, DocsAre
  <2>5. Ready(d)
    <3>1. Names(d, row[i])
      BY <2>3, <2>4 DEF Names
    <3> QED BY <2>1, <2>3, <3>1, ReadyToWrite
  <2>6. Ready(Joins(i, row[i].orgs \ {o}))
    BY <1>1, <2>1, <2>4
  <2> QED BY <2>1, <2>2, <2>5, <2>6, Beginning
<1> QED BY <1>2, <1>3

\* A service to be made, in a category of its organization.
LEMMA ReadyToCreate ==
    ASSUME Basis, NEW i, Fresh(i), NEW o \in Born, NEW c, NEW slug \in Slugs, NEW status \in {"draft", "published"},
           c = None \/ c \in Of("category", o) \/ \E s \in Of("service", o) : row[s].category = c,
           c \in Items \cup {None}
    PROVE  Ready([step |-> "create_service", item |-> i, org |-> o, made |-> Service(o, c, Position(o, c), slug, status)])
<1> DEFINE r == Service(o, c, Position(o, c), slug, status)
           w == [step |-> "create_service", item |-> i, org |-> o, made |-> r]
<1>0. Position(o, c) \in Nat
  BY PositionOf DEF Position
<1>1. o \in Orgs
  BY DEF Born
<1>2. r \in Docs /\ r.kind = "service" /\ r.org = o /\ r.category = c
  BY <1>0, <1>1, MadeAre
<1> HIDE DEF r
<1>3. w.step = "create_service" /\ "item" \in DOMAIN w /\ w.item = i /\ w.made = r /\ w.org = o
  OBVIOUS
<1> HIDE DEF w
<1>4. i \in Items /\ row[i] = Unused /\ \A b \in Actors : Reserves(pend[b]) => pend[b].item # i
  BY FreshIs
<1>5. MakingRight(w)
  <2>1. Owners(r) \subseteq Born
    BY <1>2, DocsAre
  <2> QED BY <1>2, <1>3, <1>4, <2>1 DEF MakingRight
<1>6. ASSUME NEW home, Homes(home) PROVE HomeRight(home, w)
  <2>1. ASSUME c \in Of("category", o) PROVE Held(home, c, o)
    <3>1. c \in Rows("category") /\ row[c].org = o
      BY <2>1 DEF Of
    <3> QED BY <1>6, <3>1, ThereIs DEF Homes, Held
  <2>2. ASSUME NEW s \in Of("service", o), row[s].category = c, c # None PROVE Held(home, c, o)
    BY <1>6, <2>2 DEF Homes, Of
  <2>3. c # None => Held(home, c, o)
    BY <2>1, <2>2
  <2> QED BY <1>2, <1>3, <2>3 DEF HomeRight
<1>7. Ready(w)
  BY <1>3, <1>4, <1>5, <1>6 DEF Ready, Settles, Right, Making
<1> QED BY <1>7 DEF w, r

\* A service to be changed, within its organization.
LEMMA ReadyToSet ==
    ASSUME Basis, NEW i \in Rows("service"), NEW w, w.step = "set_service", w.item = i, w.org = row[i].org, Fits(w.change),
           "category" \in DOMAIN w.change => MayHold(w.change.category, row[i].org)
    PROVE  Ready(w)
<1>1. i \in Items /\ Exists(i) /\ Taken(i) /\ row[i] \in Docs /\ row[i].kind = "service"
  BY ThereIs
<1>2. WritingRight(w)
  <2>1. Names(w, row[i]) /\ w.org \in Orgs
    BY <1>1, DocsAre DEF Names
  <2> QED BY <1>1, <2>1 DEF WritingRight
<1>3. ASSUME NEW home, Homes(home) PROVE HomeRight(home, w)
  <2>1. ASSUME "category" \in DOMAIN w.change, w.change.category # None
        PROVE  Held(home, w.change.category, w.org)
    <3>1. w.change.category \in Rows("category") /\ row[w.change.category].org = w.org
      BY <2>1 DEF MayHold, Of
    <3> QED BY <1>3, <3>1, ThereIs DEF Homes, Held
  <2> QED BY <2>1 DEF HomeRight
<1> QED BY <1>2, <1>3 DEF Ready, Settles, Right, Writing, Making

LEMMA ServicesBegin ==
    ASSUME Basis, NEW a, NEW i
    PROVE  /\ \A o : CreateService(a, i, o) => Begun(a)
           /\ \A s : CloneService(a, i, s) => Begun(a)
           /\ UpdateService(a, i) => Begun(a)
           /\ RestoreService(a, i) => Begun(a)
<1>1. ASSUME NEW o, CreateService(a, i, o) PROVE Begun(a)
  <2>1. Free(a) /\ o \in Live /\ Fresh(i) /\ Read
    BY <1>1 DEF CreateService, Starts
  <2>2. PICK c \in Items \cup {None}, slug \in Slugs, status \in {"draft", "published"} :
           /\ MayHold(c, o)
           /\ Begin(a, [step |-> "create_service", item |-> i, org |-> o,
                        made |-> Service(o, c, Position(o, c), slug, status)])
    BY <1>1 DEF CreateService
  <2>3. Ready([step |-> "create_service", item |-> i, org |-> o, made |-> Service(o, c, Position(o, c), slug, status)])
    BY <2>1, <2>2, LiveIsBorn, ReadyToCreate DEF MayHold
  <2> QED BY <2>1, <2>2, <2>3, Beginning
<1>2. ASSUME NEW s, CloneService(a, i, s) PROVE Begun(a)
  <2>1. Free(a) /\ s \in Rows("service") /\ Fresh(i) /\ Read
    BY <1>2 DEF CloneService, Starts
  <2> DEFINE o == row[s].org
             c == row[s].category
  <2>2. PICK slug \in Slugs :
           Begin(a, [step |-> "create_service", item |-> i, org |-> o,
                     made |-> Service(o, c, Position(o, c), slug, "draft")])
    BY <1>2 DEF CloneService
  <2>3. s \in Of("service", o)
    BY <2>1 DEF Of
  <2>4. o \in Born /\ c \in Items \cup {None}
    <3>1. row[s] \in Docs /\ row[s].kind = "service" /\ Owners(row[s]) \subseteq Born
      BY <2>1, ThereIs
    <3>2. o \in Born
      BY <3>1, DocsAre
    <3>3. c \in Items \cup {None}
      BY <3>1 DEF Docs
    <3> QED BY <3>2, <3>3
  <2>5. \E q \in Of("service", o) : row[q].category = c
    BY <2>3
  <2> HIDE DEF o, c
  <2>6. Ready([step |-> "create_service", item |-> i, org |-> o, made |-> Service(o, c, Position(o, c), slug, "draft")])
    BY <2>1, <2>4, <2>5, ReadyToCreate
  <2> QED BY <2>1, <2>2, <2>6, Beginning DEF o, c
<1>3. ASSUME NEW o, NEW c PROVE Position(o, c) \in Nat
  BY PositionOf DEF Position
<1>4. ASSUME UpdateService(a, i) PROVE Begun(a)
  <2>1. Free(a) /\ i \in Rows("service") /\ Read
    BY <1>4 DEF UpdateService, Starts
  <2>2. PICK change \in Changes(i) :
           Begin(a, [step |-> "set_service", item |-> i, change |-> change, org |-> row[i].org, read |-> row[i]])
    BY <1>4 DEF UpdateService
  <2> DEFINE w == [step |-> "set_service", item |-> i, change |-> change, org |-> row[i].org, read |-> row[i]]
  <2>3. w.step = "set_service" /\ w.item = i /\ w.change = change /\ w.org = row[i].org /\ Begin(a, w)
    BY <2>2
  <2> HIDE DEF w
  <2>4. Fits(change) /\ ("category" \in DOMAIN change => MayHold(change.category, row[i].org))
    <3>1. \/ \E c \in Items \cup {None} : MayHold(c, row[i].org) /\ change = [category |-> c, position |-> Position(row[i].org, c)]
          \/ \E slug \in Slugs : change = [slug |-> slug]
          \/ \E status \in {"draft", "published"} : change = [status |-> status]
          \/ change \in [value : Values]
      BY DEF Changes
    <3>2. ASSUME NEW c \in Items \cup {None}, MayHold(c, row[i].org), change = [category |-> c, position |-> Position(row[i].org, c)]
          PROVE  Fits(change) /\ ("category" \in DOMAIN change => MayHold(change.category, row[i].org))
      BY <1>3, <3>2 DEF Fits
    <3>3. ASSUME NEW slug \in Slugs, change = [slug |-> slug] PROVE Fits(change) /\ "category" \notin DOMAIN change
      BY <3>3 DEF Fits
    <3>4. ASSUME NEW status \in {"draft", "published"}, change = [status |-> status]
          PROVE  Fits(change) /\ "category" \notin DOMAIN change
      BY <3>4 DEF Fits
    <3>5. ASSUME change \in [value : Values] PROVE Fits(change) /\ "category" \notin DOMAIN change
      BY <3>5 DEF Fits
    <3> QED BY <3>1, <3>2, <3>3, <3>4, <3>5
  <2>5. Ready(w)
    BY <2>1, <2>3, <2>4, ReadyToSet
  <2> QED BY <2>1, <2>3, <2>5, Beginning
<1>5. ASSUME RestoreService(a, i) PROVE Begun(a)
  <2> DEFINE change == [deleted |-> FALSE, position |-> Position(row[i].org, row[i].category)]
             w == [step |-> "set_service", item |-> i, org |-> row[i].org, read |-> row[i], change |-> change]
  <2>1. Free(a) /\ i \in Rows("service") /\ Read /\ Begin(a, w)
    BY <1>5 DEF RestoreService, Starts
  <2>2. w.step = "set_service" /\ w.item = i /\ w.change = change /\ w.org = row[i].org
    OBVIOUS
  <2>3. Fits(change) /\ "category" \notin DOMAIN change
    BY <1>3 DEF Fits
  <2> HIDE DEF w, change
  <2>4. Ready(w)
    BY <2>1, <2>2, <2>3, ReadyToSet
  <2> QED BY <2>1, <2>4, Beginning
<1> QED BY <1>1, <1>2, <1>4, <1>5

LEMMA FavoriteBegins ==
    ASSUME Basis, NEW a, NEW i, NEW o, AddFavorite(a, i, o)
    PROVE  Begun(a)
<1>1. Free(a) /\ Fresh(i) /\ Read
  BY DEF AddFavorite, Starts
<1>2. PICK u \in People, t \in {o} \cup Of("service", o) :
         IsVisible(t, o) /\ Begin(a, [step |-> "favorite", item |-> i, made |-> Favorite(o, u, t)])
  BY DEF AddFavorite
<1>3. o \in Born /\ t \in Orgs \cup Items
  <2>1. CASE t = o
    BY <1>2, <2>1, LiveIsBorn DEF IsVisible
  <2>2. CASE t # o
    <3>1. t \in Rows("service") /\ row[t].org = o
      BY <2>2 DEF Of
    <3>2. t \in Items /\ row[t] \in Docs /\ row[t].kind = "service" /\ Owners(row[t]) \subseteq Born
      BY <3>1, ThereIs
    <3> QED BY <3>1, <3>2, DocsAre
  <2> QED BY <2>1, <2>2
<1> DEFINE r == Favorite(o, u, t)
           w == [step |-> "favorite", item |-> i, made |-> r]
<1>4. r \in Docs /\ r.kind = "favorite" /\ Owners(r) \subseteq Born
  <2>1. o \in Orgs
    BY <1>3 DEF Born
  <2>2. r \in Docs /\ r.kind = "favorite" /\ r.org = o
    BY <1>3, <2>1, MadeAre
  <2> HIDE DEF r
  <2> QED BY <1>3, <2>2, DocsAre
<1> HIDE DEF r
<1>5. w.step = "favorite" /\ "item" \in DOMAIN w /\ w.item = i /\ w.made = r
  OBVIOUS
<1>6. Begin(a, w)
  BY <1>2 DEF r
<1> HIDE DEF w
<1>7. Ready(w)
  <2>1. i \in Items /\ row[i] = Unused /\ \A b \in Actors : Reserves(pend[b]) => pend[b].item # i
    BY <1>1, FreshIs
  <2>2. MakingRight(w)
    BY <1>4, <1>5, <2>1 DEF MakingRight
  <2> QED BY <1>5, <2>1, <2>2 DEF Ready, Settles, Right, Making, HomeRight
<1> QED BY <1>1, <1>6, <1>7, Beginning

\* An order of siblings is one of ids of items.
LEMMA ReadyToReorder ==
    ASSUME NEW kind \in {"category", "infosection", "news", "service"}, NEW o, NEW c, NEW S \in SUBSET Items, NEW f \in Orders(S)
    PROVE  Ready(Reorder(kind, o, c, f))
<1> DEFINE w == Reorder(kind, o, c, f)
<1>1. w.step = "reorder" /\ w.kind = kind /\ w.order = f
  BY DEF Reorder
<1> HIDE DEF w
<1>2. DOMAIN f \subseteq Items /\ \A i \in DOMAIN f : f[i] \in Nat
  <2>1. Cardinality(S) \in Nat
    BY IdsAssumption, FS_Subset, FS_CardinalityType
  <2>2. f \in [S -> 0 .. Cardinality(S) - 1]
    BY DEF Orders
  <2> QED BY <2>1, <2>2
<1>3. ReorderRight(w)
  BY <1>1, <1>2 DEF ReorderRight
<1>4. Ready(w)
  BY <1>1, <1>3 DEF Ready, Settles, Right, Making, HomeRight
<1> QED BY <1>4 DEF w

LEMMA ReordersBegin ==
    ASSUME Basis, NEW a, NEW o
    PROVE  /\ ReorderCategories(a, o) => Begun(a)
           /\ ReorderInfoSections(a, o) => Begun(a)
           /\ ReorderNews(a, o) => Begun(a)
           /\ \A c : ReorderServices(a, o, c) => Begun(a)
<1>0. \A kind, c : Siblings(kind, o, c) \subseteq Items
  BY DEF Siblings, Of, Rows
<1>1. ASSUME ReorderCategories(a, o) PROVE Begun(a)
  <2>1. Free(a) /\ Read
    BY <1>1 DEF ReorderCategories, Starts
  <2>2. PICK f \in Orders(Siblings("category", o, None)) : Begin(a, Reorder("category", o, None, f))
    BY <1>1 DEF ReorderCategories
  <2> QED BY <1>0, <2>1, <2>2, ReadyToReorder, Beginning
<1>2. ASSUME ReorderInfoSections(a, o) PROVE Begun(a)
  <2>1. Free(a) /\ Read
    BY <1>2 DEF ReorderInfoSections, Starts
  <2>2. PICK f \in Orders(Siblings("infosection", o, None)) : Begin(a, Reorder("infosection", o, None, f))
    BY <1>2 DEF ReorderInfoSections
  <2> QED BY <1>0, <2>1, <2>2, ReadyToReorder, Beginning
<1>3. ASSUME ReorderNews(a, o) PROVE Begun(a)
  <2>1. Free(a) /\ Read
    BY <1>3 DEF ReorderNews, Starts
  <2>2. PICK f \in Orders(Siblings("news", o, None)) : Begin(a, Reorder("news", o, None, f))
    BY <1>3 DEF ReorderNews
  <2> QED BY <1>0, <2>1, <2>2, ReadyToReorder, Beginning
<1>4. ASSUME NEW c, ReorderServices(a, o, c) PROVE Begun(a)
  <2>1. Free(a) /\ Read
    BY <1>4 DEF ReorderServices, Starts
  <2>2. PICK f \in Orders(Siblings("service", o, c)) : Begin(a, Reorder("service", o, c, f))
    BY <1>4 DEF ReorderServices
  <2> QED BY <1>0, <2>1, <2>2, ReadyToReorder, Beginning
<1> QED BY <1>1, <1>2, <1>3, <1>4

LEMMA JobsBegin ==
    ASSUME Basis, NEW a
    PROVE  /\ ListExpired(a) => Begun(a)
           /\ ListFiles(a) => Begun(a)
           /\ StartReconcile(a) => Begun(a)
<1>1. ASSUME ListExpired(a) PROVE Begun(a)
  <2> DEFINE w == [step |-> "expire", news |-> [n \in Expired |-> row[n].org]]
  <2>1. w.step = "expire" /\ DOMAIN w = {"step", "news"} /\ DOMAIN w.news = Expired /\ \A n \in Expired : w.news[n] = row[n].org
    OBVIOUS
  <2>2. Reads(a, w)
    BY <1>1 DEF ListExpired, Reads, documents, counters
  <2> HIDE DEF w
  <2>3. ASSUME NEW n \in Expired
        PROVE  n \in Items /\ Taken(n) /\ row[n].org \in Born /\ row[n].kind = "news"
    <3>1. n \in Rows("news")
      BY DEF Expired
    <3> QED BY <3>1, ThereIs, DocsAre
  <2>4. ExpireRight(w)
    BY <2>1, <2>3 DEF ExpireRight
  <2>5. Ready(w)
    BY <2>1, <2>4 DEF Ready, Settles, Right, Making, HomeRight
  <2> QED BY <2>2, <2>5 DEF Begun
<1>2. ASSUME ListFiles(a) PROVE Begun(a)
  <2> DEFINE w == [step |-> "sweep", files |-> Swept]
  <2>1. w.step = "sweep" /\ w.files = Swept
    OBVIOUS
  <2>2. Reads(a, w)
    BY <1>2 DEF ListFiles, Reads, documents, counters
  <2> HIDE DEF w
  <2>3. \A i \in Swept : i \in Items /\ Taken(i)
    BY DEF Swept, Basis, Filed, Taken
  <2>4. Ready(w)
    BY <2>1, <2>3 DEF Ready, Settles, Right, Making, HomeRight
  <2> QED BY <2>2, <2>4 DEF Begun
<1>3. ASSUME StartReconcile(a) PROVE Begun(a)
  <2> DEFINE w == [step |-> "reconcile", left |-> Readings, referenced |-> {}, existing |-> {}]
  <2>1. w.step = "reconcile" /\ ReconcileRight(w)
    BY DEF ReconcileRight
  <2>2. Reads(a, w)
    BY <1>3 DEF StartReconcile, Reads, documents, counters
  <2> HIDE DEF w
  <2>4. Ready(w)
    BY <2>1 DEF Ready, Settles, Right, Making, HomeRight
  <2> QED BY <2>2, <2>4 DEF Begun
<1> QED BY <1>1, <1>2, <1>3

-----------------------------------------------------------------------------
(* Steps, by what they touch.                                               *)

OrgsGo ==
    /\ org' \in [Orgs -> [state : {"none", "live", "gone"}, version : Nat, value : Values \cup {None}]]
    /\ Born \subseteq Born' /\ Dead \subseteq Dead'
RowsStep == RowsGo /\ row' = [i \in Items |-> row'[i]]
FilesStep == FilesGo /\ files' \in [Items -> {"none", "new", "old"}]
RestGoes == now' \in Nat /\ lost' \in SUBSET Orgs /\ silent' \in SUBSET Orgs /\ offered' = offered
Turn(a, w) == pend' = [pend EXCEPT ![a] = w]

LEMMA Quietly ==
    ASSUME Basis
    PROVE  /\ row' = row => RowsStep
           /\ files' = files => FilesStep
           /\ org' = org => OrgsGo
BY DEF Basis, Types, RowsStep, RowsGo, Calm, FilesStep, FilesGo, OrgsGo, Born, Dead

LEMMA BumpedIs ==
    ASSUME Basis, NEW o, org' = Bumped(org, o)
    PROVE  /\ OrgsGo
           /\ \A q \in Orgs : org'[q].state = org[q].state /\ org'[q].value = org[q].value
                              /\ org'[q].version = IF q = o /\ org[q].state = "live" THEN org[q].version + 1 ELSE org[q].version
<1>1. \A q \in Orgs : /\ org'[q] \in [state : {"none", "live", "gone"}, version : Nat, value : Values \cup {None}]
                      /\ org'[q].state = org[q].state /\ org'[q].value = org[q].value
                      /\ org'[q].version = IF q = o /\ org[q].state = "live" THEN org[q].version + 1 ELSE org[q].version
  BY DEF Basis, Types, Bumped
<1>2. org' \in [Orgs -> [state : {"none", "live", "gone"}, version : Nat, value : Values \cup {None}]]
  BY <1>1 DEF Bumped
<1>3. Born' = Born /\ Dead' = Dead
  BY <1>1 DEF Born, Dead
<1> QED BY <1>1, <1>2, <1>3 DEF OrgsGo

LEMMA TurnIs ==
    ASSUME Basis, NEW a \in Actors, NEW w, Turn(a, w)
    PROVE  DOMAIN pend' = Actors /\ pend'[a] = w /\ \A b \in Actors \ {a} : pend'[b] = pend[b]
BY DEF Turn, Basis, Types

LEMMA GoingStep ==
    ASSUME Basis, RowsStep, FilesStep, OrgsGo,
           pend' = pend \/ \E a \in Actors : \E w : Turn(a, w) /\ Settles(w) /\ (w.step = "upload" => row[w.item] = Unused)
    PROVE  Going
<1>1. CASE pend' = pend
  BY <1>1 DEF Going, RowsStep, FilesStep, OrgsGo, Uploading
<1>2. ASSUME NEW a \in Actors, NEW w, Turn(a, w), Settles(w), w.step = "upload" => row[w.item] = Unused
      PROVE  Going
  <2>1. pend'[a] = w /\ \A b \in Actors \ {a} : pend'[b] = pend[b]
    BY <1>2, TurnIs
  <2>2. \A i \in Items : Uploading(i)' => Uploading(i) \/ row[i] = Unused
    BY <1>2, <2>1 DEF Uploading
  <2>3. \A b \in Actors : pend'[b] = pend[b] \/ Settles(pend'[b])
    BY <1>2, <2>1
  <2> QED BY <2>2, <2>3 DEF Going, RowsStep, FilesStep, OrgsGo
<1> QED BY <1>1, <1>2

LEMMA BasisStep ==
    ASSUME Basis, RowsStep, FilesStep, OrgsGo, RestGoes, NEW a \in Actors, NEW w, Turn(a, w), Settles(w), Right(w)',
           w.step = "upload" => row[w.item] = Unused,
           Reserves(w) => \A b \in Actors : Reserves(pend[b]) => pend[b].item # w.item
    PROVE  Going /\ Basis'
<1>1. Going
  BY GoingStep
<1>2. DOMAIN pend' = Actors /\ pend'[a] = w /\ \A b \in Actors \ {a} : pend'[b] = pend[b]
  BY TurnIs
<1>3. Sorts'
  BY <1>2 DEF Sorts, OrgsGo, FilesStep, RestGoes, Basis, Types
<1>4. ASSUME NEW b \in Actors PROVE Moves(b)
  <2>1. CASE b = a
    <3>1. Right(pend[b])'
      <4>1. pend'[b] = w
        BY <1>2, <2>1
      <4> HIDE DEF Right
      <4> QED BY <4>1
    <3> QED BY <1>2, <2>1, <3>1 DEF Moves
  <2>2. CASE b # a
    BY <1>2, <2>2 DEF Moves
  <2> QED BY <2>1, <2>2
<1> QED BY <1>1, <1>3, <1>4, BasisFrom

LEMMA BasisRests ==
    ASSUME Basis, RowsStep, FilesStep, OrgsGo, RestGoes, pend' = pend
    PROVE  Going /\ Basis'
<1>1. Going
  BY GoingStep
<1>2. Sorts'
  BY DEF Sorts, OrgsGo, FilesStep, RestGoes, Basis, Types
<1> QED BY <1>1, <1>2, BasisFrom DEF Moves

LEMMA BegunBasis ==
    ASSUME Basis, NEW a \in Actors, Begun(a)
    PROVE  Going /\ Basis'
<1>1. PICK w : Reads(a, w) /\ Ready(w)
  BY DEF Begun
<1>2. RowsStep /\ FilesStep /\ OrgsGo /\ RestGoes /\ Turn(a, w) /\ Settles(w) /\ row' = row /\ w.step # "upload"
  BY <1>1, Quietly DEF Reads, RestGoes, Turn, Basis, Types, Ready
<1>3. Going
  BY <1>2, GoingStep
<1>4. Right(w)'
  BY <1>1, <1>2, <1>3, RightStays DEF Ready
<1>5. Reserves(w) => \A b \in Actors : Reserves(pend[b]) => pend[b].item # w.item
  BY <1>1, <1>2 DEF Ready, Reserves
<1> QED BY <1>2, <1>4, <1>5, BasisStep

\* Most writes are followed by something that takes no id and writes no row that
\* was read, and that was right before them.
After(w) == w.step \notin Making \cup Writing \cup {"upload"}

LEMMA AfterSettles ==
    ASSUME NEW w, After(w)
    PROVE  Settles(w) /\ ~Reserves(w) /\ w.step # "upload"
BY DEF After, Settles, HomeRight, Reserves, Making, Writing

LEMMA BasisOnward ==
    ASSUME Basis, RowsStep, FilesStep, OrgsGo, RestGoes, NEW a \in Actors, NEW w, Turn(a, w), Right(w),
           After(w)
    PROVE  Going /\ Basis'
<1>1. Settles(w) /\ ~Reserves(w) /\ w.step # "upload"
  BY AfterSettles
<1>2. Going
  BY <1>1, GoingStep
<1>3. Right(w)'
  BY <1>1, <1>2, RightStays
<1> QED BY <1>1, <1>3, BasisStep

\* The end, or the version next.
LEMMA EndsRight ==
    ASSUME NEW w, w.step = "idle" \/ (w.step \in {"touch", "record"} /\ w.org \in Orgs)
    PROVE  Right(w) /\ After(w)
BY DEF Right, After, Making, Writing

LEMMA InsertsRow ==
    ASSUME Basis, NEW a \in Actors, NEW w, Turn(a, w), After(w), Born \subseteq Born',
           pend[a].step \in Making, Unique(pend[a].item, pend[a].made),
           pend[a].step = "favorite" => ~Keeps(pend[a].made.user, pend[a].made.target),
           row' = [row EXCEPT ![pend[a].item] = pend[a].made]
    PROVE  RowsStep
<1> DEFINE i == pend[a].item
           r == pend[a].made
<1>1. /\ i \in Items /\ row[i] = Unused /\ r \in Docs /\ r.kind # "image" /\ Owners(r) \subseteq Born
      /\ r.kind = "favorite" => pend[a].step = "favorite"
      /\ ~(r.kind = "archive" /\ r.type = "news")
  BY DEF Basis, Works, Right, Making, MakingRight, Writing
<1>2. Unclaimed(i)
  <2>1. Reserves(pend[a]) /\ pend'[a] = w /\ ~Reserves(w)
    BY TurnIs, AfterSettles DEF Reserves
  <2>2. pend'[a] # pend[a]
    BY <2>1
  <2> QED BY <2>1, <2>2 DEF Unclaimed, Basis, Apart
<1>3. row' = [row EXCEPT ![i] = r] /\ Unique(i, r) /\ (r.kind = "favorite" => ~Keeps(r.user, r.target))
  BY <1>1
<1>6. ASSUME NEW home, Homes(home), r.kind = "service", r.category # None
      PROVE  Held(home, r.category, r.org)
  <2>1. pend[a].step = "create_service" /\ pend[a].org = r.org
    BY <1>6 DEF Basis, Works, Right, Making, MakingRight, Writing
  <2> QED BY <1>6, <2>1 DEF Homes, HomeRight
<1> HIDE DEF i, r
<1>4. row'[i] = r /\ \A j \in Items \ {i} : row'[j] = row[j]
  BY <1>1, <1>3 DEF Basis, Types
<1>7. Placed(i)
  BY <1>4, <1>6 DEF Placed
<1>5. Makes(i)
  BY <1>1, <1>2, <1>3, <1>4, <1>7 DEF Makes
<1> QED BY <1>3, <1>4, <1>5 DEF RowsStep, RowsGo, Calm, Basis, Types

LEMMA RowGone ==
    ASSUME Basis, NEW i \in Items, row[i] # Unused, row' = [row EXCEPT ![i] = Gone]
    PROVE  RowsStep
BY DEF RowsStep, RowsGo, Calm, Exists, Basis, Types

LEMMA RowSet ==
    ASSUME Basis, NEW i \in Items, Exists(i), NEW c, Fits(c), Unique(i, Set(row[i], c)), Born \subseteq Born',
           row[i].kind \notin {"image", "archive", "favorite"}, row' = [row EXCEPT ![i] = Set(@, c)],
           row[i].kind = "service" /\ "category" \in DOMAIN c /\ c.category # None =>
               \A home : Homes(home) => Held(home, c.category, row[i].org)
    PROVE  RowsStep
<1>1. row[i] \in Docs /\ Owners(row[i]) \subseteq Born
  BY DEF Basis, Types, Owned, Exists
<1> DEFINE s == Set(row[i], c)
<1>2. /\ s \in Docs /\ s.kind = row[i].kind
      /\ row[i].kind # "user" => s.org = row[i].org
      /\ row[i].kind = "user" => s.orgs = IF "orgs" \in DOMAIN c THEN c.orgs ELSE row[i].orgs
      /\ row[i].kind = "service" => s.category = IF "category" \in DOMAIN c THEN c.category ELSE row[i].category
  BY <1>1, SetIs
<1>3. row' = [row EXCEPT ![i] = s] /\ Unique(i, s)
  OBVIOUS
<1> HIDE DEF s
<1>4. Owners(s) \subseteq Born'
  <2>1. "orgs" \in DOMAIN c => c.orgs \subseteq Born
    BY DEF Fits
  <2> QED BY <1>1, <1>2, <2>1, DocsAre
<1>5. row'[i] = s /\ \A j \in Items \ {i} : row'[j] = row[j]
  BY <1>3 DEF Basis, Types
<1>7. Placed(i)
  BY <1>2, <1>5 DEF Placed
<1>6. Makes(i)
  BY <1>2, <1>3, <1>4, <1>5, <1>7 DEF Makes, SameRow
<1> QED BY <1>3, <1>5, <1>6 DEF RowsStep, RowsGo, Calm, Basis, Types

LEMMA WriteRowBasis ==
    ASSUME Basis, NEW a \in Actors, WriteRow(a)
    PROVE  Going /\ Basis'
<1> DEFINE p == pend[a]
<1>0. UNCHANGED <<org, files, now, lost, silent, offered>>
  BY DEF WriteRow, counters
<1>1. FilesStep /\ OrgsGo /\ RestGoes /\ Born \subseteq Born' /\ (row' = row => RowsStep)
  BY <1>0, Quietly DEF RestGoes, OrgsGo, Basis, Types
<1> DEFINE w == IF p.org = None THEN Idle ELSE Bump(p.org)
<1>2. Idle.step = "idle" /\ (p.org \in Orgs \cup {None} => w.step = "idle" \/ (w.step = "touch" /\ w.org \in Orgs))
  BY DEF Idle, Bump
<1>3. CASE /\ p.step = "insert"
           /\ IF Unique(p.item, p.made)
              THEN row' = [row EXCEPT ![p.item] = p.made] /\ pend' = [pend EXCEPT ![a] = w]
              ELSE row' = row /\ pend' = [pend EXCEPT ![a] = Idle]
  <2>1. MakingRight(p) /\ p.step \in Making
    BY <1>3 DEF Basis, Works, Right, Making, Writing
  <2>2. p.org \in Orgs \cup {None}
    BY <1>3, <2>1, DocsAre DEF MakingRight
  <2> HIDE DEF w
  <2>3. CASE Unique(p.item, p.made)
    <3>1. Turn(a, w) /\ row' = [row EXCEPT ![p.item] = p.made]
      BY <1>3, <2>3 DEF Turn
    <3>2. Right(w) /\ After(w)
      BY <1>2, <2>2, EndsRight
    <3>3. RowsStep
      BY <1>1, <1>3, <2>1, <2>3, <3>1, <3>2, InsertsRow
    <3> QED BY <1>1, <3>1, <3>2, <3>3, BasisOnward
  <2>4. CASE ~Unique(p.item, p.made)
    <3>1. Turn(a, Idle) /\ RowsStep
      BY <1>1, <1>3, <2>4 DEF Turn
    <3>2. Right(Idle) /\ After(Idle)
      BY <1>2, EndsRight
    <3> QED BY <1>1, <3>1, <3>2, BasisOnward
  <2> QED BY <2>3, <2>4
<1>4. CASE /\ p.step = "set"
           /\ IF Exists(p.item) /\ Unique(p.item, Set(row[p.item], p.change))
              THEN row' = [row EXCEPT ![p.item] = Set(@, p.change)] /\ pend' = [pend EXCEPT ![a] = w]
              ELSE row' = row /\ pend' = [pend EXCEPT ![a] = Idle]
  <2>1. WritingRight(p)
    BY <1>4 DEF Basis, Works, Right, Making, Writing
  <2>2. p.item \in Items /\ p.org \in Orgs \cup {None} /\ Fits(p.change) /\ (Exists(p.item) => Names(p, row[p.item]))
    BY <1>4, <2>1 DEF WritingRight
  <2> HIDE DEF w
  <2>3. CASE Exists(p.item) /\ Unique(p.item, Set(row[p.item], p.change))
    <3>1. Turn(a, w) /\ row' = [row EXCEPT ![p.item] = Set(@, p.change)]
      BY <1>4, <2>3 DEF Turn
    <3>2. Right(w) /\ After(w)
      BY <1>2, <2>2, EndsRight
    <3>3. row[p.item].kind \notin {"image", "archive", "favorite", "service"}
      BY <1>4, <2>2, <2>3 DEF Names
    <3>4. RowsStep
      BY <1>1, <2>2, <2>3, <3>1, <3>3, RowSet
    <3> QED BY <1>1, <3>1, <3>2, <3>4, BasisOnward
  <2>4. CASE ~(Exists(p.item) /\ Unique(p.item, Set(row[p.item], p.change)))
    <3>1. Turn(a, Idle) /\ RowsStep
      BY <1>1, <1>4, <2>4 DEF Turn
    <3>2. Right(Idle) /\ After(Idle)
      BY <1>2, EndsRight
    <3> QED BY <1>1, <3>1, <3>2, BasisOnward
  <2> QED BY <2>3, <2>4
<1>5. CASE p.step = "delete" /\ row' = [row EXCEPT ![p.item] = Gone] /\ pend' = [pend EXCEPT ![a] = w]
  <2>1. WritingRight(p)
    BY <1>5 DEF Basis, Works, Right, Making, Writing
  <2>2. p.item \in Items /\ p.org \in Orgs \cup {None} /\ row[p.item] # Unused
    BY <1>5, <2>1 DEF WritingRight, Taken
  <2> HIDE DEF w
  <2>3. Turn(a, w) /\ RowsStep
    BY <1>5, <2>2, RowGone DEF Turn
  <2>4. Right(w) /\ After(w)
    BY <1>2, <2>2, EndsRight
  <2> QED BY <1>1, <2>3, <2>4, BasisOnward
<1> QED BY <1>3, <1>4, <1>5 DEF WriteRow

LEMMA VersionBasis ==
    ASSUME Basis, NEW a \in Actors, Touch(a) \/ Record(a)
    PROVE  Going /\ Basis'
<1>1. RowsStep /\ FilesStep /\ OrgsGo /\ RestGoes /\ Turn(a, Idle)
  <2>1. UNCHANGED <<row, files, now, lost, silent, offered>> /\ Turn(a, Idle)
        /\ (org' = org \/ org' = Bumped(org, pend[a].org))
    BY DEF Touch, Record, counters, Turn
  <2>2. OrgsGo
    BY <2>1, Quietly, BumpedIs
  <2> QED BY <2>1, <2>2, Quietly DEF RestGoes, Basis, Types
<1>2. Right(Idle) /\ After(Idle)
  BY EndsRight DEF Idle
<1> QED BY <1>1, <1>2, BasisOnward

LEMMA CrashBasis ==
    ASSUME Basis, NEW a \in Actors, Crash(a)
    PROVE  Going /\ Basis'
<1>1. lost' \in SUBSET Orgs
  BY DEF Crash, Basis, Types, Works, Right, Making, Writing
<1>2. RowsStep /\ FilesStep /\ OrgsGo /\ RestGoes /\ Turn(a, Idle)
  BY <1>1, Quietly DEF Crash, documents, RestGoes, Turn, Basis, Types
<1>3. Right(Idle) /\ After(Idle)
  BY EndsRight DEF Idle
<1> QED BY <1>2, <1>3, BasisOnward

LEMMA RemoveFilesBasis ==
    ASSUME Basis, NEW a \in Actors, RemoveFiles(a)
    PROVE  Going /\ Basis'
<1> DEFINE p == pend[a]
<1>1. p.step = "unlink" /\ (\A i \in p.files : Unserved(i)) /\ (p.next = Idle \/ CascadeOf(p.next))
  BY DEF RemoveFiles, Basis, Works, Right, Making, Writing
<1>2. Turn(a, p.next) /\ UNCHANGED <<org, row, now, lost, silent, offered>>
  BY DEF RemoveFiles, Turn, documents, Basis, Types
<1>3. FilesStep
  <2>1. PICK failed \in SUBSET p.files : files' = [i \in Items |-> IF i \in p.files \ failed THEN "none" ELSE files[i]]
    BY DEF RemoveFiles
  <2> QED BY <1>1, <2>1 DEF FilesStep, FilesGo, Basis, Types
<1>4. RowsStep /\ OrgsGo /\ RestGoes
  BY <1>2, Quietly DEF RestGoes, Basis, Types
<1>5. Right(p.next) /\ After(p.next)
  <2>1. CASE p.next = Idle
    BY <2>1, EndsRight DEF Idle
  <2>2. CASE CascadeOf(p.next)
    <3>1. p.next.step = "cascade"
      BY <2>2 DEF CascadeOf
    <3> QED BY <2>2, <3>1 DEF Right, After, Making, Writing
  <2> QED BY <1>1, <2>1, <2>2
<1> QED BY <1>2, <1>3, <1>4, <1>5, BasisOnward

LEMMA WriteServiceBasis ==
    ASSUME Basis, NEW a \in Actors, WriteService(a)
    PROVE  Going /\ Basis'
<1> DEFINE p == pend[a]
<1>1. p.step = "set_service" /\ UNCHANGED <<org, files, now, lost, offered>>
  BY DEF WriteService
<1>2. WritingRight(p)
  BY <1>1 DEF Basis, Works, Right, Making, Writing
<1>3. p.item \in Items /\ p.org \in Orgs /\ Fits(p.change) /\ (Exists(p.item) => Names(p, row[p.item]))
  BY <1>1, <1>2 DEF WritingRight
<1>4. FilesStep /\ OrgsGo /\ Born \subseteq Born'
  BY <1>1, Quietly DEF OrgsGo
<1>5. RestGoes
  <2>1. silent' = silent \/ silent' = silent \cup {p.org}
    BY DEF WriteService
  <2> QED BY <1>1, <1>3, <2>1 DEF RestGoes, Basis, Types
<1>6. CASE Exists(p.item) /\ Unique(p.item, Set(row[p.item], p.change))
  <2> DEFINE w == [step |-> "record", org |-> p.org, same |-> row'[p.item] = p.read]
  <2>1. Turn(a, w) /\ row' = [row EXCEPT ![p.item] = Set(@, p.change)]
    BY <1>6 DEF WriteService, Turn
  <2>2. w.step = "record" /\ w.org = p.org
    OBVIOUS
  <2> HIDE DEF w
  <2>3. Right(w) /\ After(w)
    BY <1>3, <2>2, EndsRight
  <2>4. row[p.item].kind = "service" /\ p.org = row[p.item].org
    BY <1>1, <1>3, <1>6 DEF Names
  <2>6. "category" \in DOMAIN p.change /\ p.change.category # None =>
           \A home : Homes(home) => Held(home, p.change.category, p.org)
    BY <1>1 DEF Homes, HomeRight
  <2>5. RowsStep
    BY <1>3, <1>4, <1>6, <2>1, <2>4, <2>6, RowSet
  <2> QED BY <1>4, <1>5, <2>1, <2>3, <2>5, BasisOnward
<1>7. CASE ~(Exists(p.item) /\ Unique(p.item, Set(row[p.item], p.change)))
  <2>1. Turn(a, Idle) /\ RowsStep
    BY <1>7, Quietly DEF WriteService, Turn
  <2>2. Right(Idle) /\ After(Idle)
    BY EndsRight DEF Idle
  <2> QED BY <1>4, <1>5, <2>1, <2>2, BasisOnward
<1> QED BY <1>6, <1>7

\* A transaction, by its rows and what follows it.
LEMMA InTransactionIs ==
    ASSUME Basis, NEW a, NEW rows, NEW o, NEW after, InTransaction(a, rows, o, after)
    PROVE  /\ row' = rows /\ Turn(a, after) /\ FilesStep /\ OrgsGo /\ RestGoes /\ Born \subseteq Born' /\ files' = files
           /\ rows = row => RowsStep
<1>1. row' = rows /\ Turn(a, after) /\ org' = Bumped(org, o) /\ UNCHANGED <<files, now, lost, silent, offered>>
  BY DEF InTransaction, Turn, counters
<1> QED BY <1>1, Quietly, BumpedIs DEF RestGoes, OrgsGo, Basis, Types

LEMMA CommitCreateBasis ==
    ASSUME Basis, NEW a \in Actors, CommitCreateService(a) \/ CommitFavorite(a)
    PROVE  Going /\ Basis'
<1> DEFINE p == pend[a]
<1>1. Right(Idle) /\ After(Idle)
  BY EndsRight DEF Idle
<1>2. CASE CommitCreateService(a)
  <2>1. CASE Unique(p.item, p.made)
    <3>1. InTransaction(a, [row EXCEPT ![p.item] = p.made], p.org, Idle) /\ p.step = "create_service"
      BY <1>2, <2>1 DEF CommitCreateService
    <3>2. RowsStep
      BY <1>1, <2>1, <3>1, InTransactionIs, InsertsRow DEF Making
    <3> QED BY <1>1, <3>1, <3>2, InTransactionIs, BasisOnward
  <2>2. CASE ~Unique(p.item, p.made)
    <3>1. InTransaction(a, row, None, Idle)
      BY <1>2, <2>2 DEF CommitCreateService
    <3> QED BY <1>1, <3>1, InTransactionIs, BasisOnward
  <2> QED BY <2>1, <2>2
<1>3. CASE CommitFavorite(a)
  <2>1. p.step = "favorite"
    BY <1>3 DEF CommitFavorite
  <2>2. CASE Keeps(p.made.user, p.made.target)
    <3>1. InTransaction(a, row, None, Idle)
      BY <1>3, <2>2 DEF CommitFavorite
    <3> QED BY <1>1, <3>1, InTransactionIs, BasisOnward
  <2>3. CASE ~Keeps(p.made.user, p.made.target)
    <3>1. InTransaction(a, [row EXCEPT ![p.item] = p.made], None, Idle)
      BY <1>3, <2>3 DEF CommitFavorite
    <3>2. Unique(p.item, p.made)
      <4>1. p.made \in Docs /\ p.made.kind = "favorite"
        BY <2>1 DEF Basis, Works, Right, Making, MakingRight, Writing
      <4> QED BY <4>1, DocsAre DEF Unique
    <3>3. RowsStep
      BY <1>1, <2>1, <2>3, <3>1, <3>2, InTransactionIs, InsertsRow DEF Making
    <3> QED BY <1>1, <3>1, <3>3, InTransactionIs, BasisOnward
  <2> QED BY <2>2, <2>3
<1> QED BY <1>2, <1>3

\* What the hooks do to a row: nothing, or it goes, or it is taken out.
LEMMA CalmStep ==
    ASSUME row' = [i \in Items |-> row'[i]], \A i \in Items : Calm(i)
    PROVE  RowsStep
BY DEF RowsStep, RowsGo

LEMMA OrganizationHooksCalm ==
    ASSUME Basis, NEW o, row' = OrganizationHooks(row, o), Born \subseteq Born'
    PROVE  RowsStep
<1>1. ASSUME NEW i \in Items PROVE Calm(i)
  <2>1. row'[i] = IF row[i] \in {Unused, Gone} THEN row[i]
                  ELSE IF row[i].kind = "user" THEN Detached(row[i], o)
                  ELSE IF row[i].org = o THEN Gone ELSE row[i]
    BY DEF OrganizationHooks
  <2>2. CASE Exists(i) /\ row[i].kind = "user"
    <3>1. row[i] \in Docs /\ row[i].orgs \subseteq Born
      BY <2>2, DocsAre DEF Basis, Types, Owned, Exists
    <3> DEFINE s == Detached(row[i], o)
    <3>2. s \in Docs /\ s.kind = "user" /\ s.orgs = row[i].orgs \ {o}
      BY <2>2, <3>1 DEF Docs, Detached
    <3>3. row'[i] = s
      BY <2>1, <2>2 DEF Exists
    <3> HIDE DEF s
    <3>4. Owners(s) \subseteq Born'
      BY <3>1, <3>2, DocsAre
    <3>5. "slug" \notin DOMAIN row[i]
      BY <2>2, <3>1, DocsAre
    <3> QED BY <2>2, <3>2, <3>3, <3>4, <3>5 DEF Calm, SameRow
  <2>3. CASE ~(Exists(i) /\ row[i].kind = "user")
    BY <2>1, <2>3 DEF Calm, Exists
  <2> QED BY <2>2, <2>3
<1>2. row' = [i \in Items |-> row'[i]]
  BY DEF OrganizationHooks
<1> QED BY <1>1, <1>2, CalmStep

LEMMA ServiceHooksCalm ==
    ASSUME Basis, NEW s \in Items, row[s] # Unused, row' = [ServiceHooks(row, s) EXCEPT ![s] = Gone]
    PROVE  RowsStep
<1>1. \A i \in Items : row'[i] = row[i] \/ (row[i] # Unused /\ row'[i] = Gone)
  BY DEF ServiceHooks
<1>2. \A i \in Items : Calm(i)
  BY <1>1 DEF Calm, Exists
<1>3. row' = [i \in Items |-> row'[i]]
  BY DEF ServiceHooks
<1> QED BY <1>2, <1>3, CalmStep

LEMMA UserHooksCalm ==
    ASSUME Basis, NEW u \in Items, row[u] # Unused, row' = [UserHooks(row, u) EXCEPT ![u] = Gone]
    PROVE  RowsStep
<1>1. \A i \in Items : row'[i] = row[i] \/ (row[i] # Unused /\ row'[i] = Gone)
  BY DEF UserHooks
<1>2. \A i \in Items : Calm(i)
  BY <1>1 DEF Calm, Exists
<1>3. row' = [i \in Items |-> row'[i]]
  BY DEF UserHooks
<1> QED BY <1>2, <1>3, CalmStep

LEMMA CategoryHooksCalm ==
    ASSUME Basis, NEW c \in Items, row[c] # Unused, row' = [CategoryHooks(row, c) EXCEPT ![c] = Gone],
           Born \subseteq Born'
    PROVE  RowsStep
<1>0. \A i \in Items : row'[i] = IF i = c THEN Gone
                                 ELSE IF i \in InCategory(c) THEN [row[i] EXCEPT !.category = None] ELSE row[i]
  BY DEF CategoryHooks
<1>1. ASSUME NEW i \in Items PROVE Calm(i)
  <2>1. CASE i # c /\ i \in InCategory(c)
    <3>1. Exists(i) /\ row[i] \in Docs /\ row[i].kind = "service" /\ Owners(row[i]) \subseteq Born
      BY <2>1, ThereIs DEF InCategory
    <3> DEFINE s == [row[i] EXCEPT !.category = None]
    <3>2. s \in Docs /\ s.kind = "service" /\ s.org = row[i].org /\ s.slug = row[i].slug /\ s.category = None
      BY <3>1 DEF Docs
    <3>3. row'[i] = s
      BY <1>0, <2>1
    <3> HIDE DEF s
    <3>4. Owners(s) = {row[i].org} /\ Owners(row[i]) = {row[i].org}
      BY <3>1, <3>2, DocsAre
    <3> QED BY <3>1, <3>2, <3>3, <3>4 DEF Calm, SameRow
  <2>2. CASE i = c
    BY <1>0, <2>2 DEF Calm, Exists
  <2>3. CASE i # c /\ i \notin InCategory(c)
    BY <1>0, <2>3 DEF Calm
  <2> QED BY <2>1, <2>2, <2>3
<1>2. row' = [i \in Items |-> row'[i]]
  BY DEF CategoryHooks
<1> QED BY <1>1, <1>2, CalmStep

LEMMA CommitDeletesBasis ==
    ASSUME Basis, NEW a \in Actors, CommitDeleteCategory(a) \/ CommitDeleteUser(a)
    PROVE  Going /\ Basis'
<1> DEFINE p == pend[a]
<1>1. Right(Idle) /\ After(Idle)
  BY EndsRight DEF Idle
<1>2. p.item \in Items /\ row[p.item] # Unused
  BY DEF CommitDeleteCategory, CommitDeleteUser, Basis, Works, Right, Making, Writing, WritingRight, Taken
<1>3. ASSUME CommitDeleteCategory(a) PROVE Going /\ Basis'
  <2>1. CASE CategoryIsEmpty(p.item)
    <3>1. InTransaction(a, [CategoryHooks(row, p.item) EXCEPT ![p.item] = Gone], p.org, Idle)
      BY <1>3, <2>1 DEF CommitDeleteCategory
    <3>2. RowsStep
      BY <1>2, <3>1, InTransactionIs, CategoryHooksCalm
    <3> QED BY <1>1, <3>1, <3>2, InTransactionIs, BasisOnward
  <2>2. CASE ~CategoryIsEmpty(p.item)
    <3>1. InTransaction(a, row, None, Idle)
      BY <1>3, <2>2 DEF CommitDeleteCategory
    <3> QED BY <1>1, <3>1, InTransactionIs, BasisOnward
  <2> QED BY <2>1, <2>2
<1>4. ASSUME CommitDeleteUser(a) PROVE Going /\ Basis'
  <2>1. InTransaction(a, [UserHooks(row, p.item) EXCEPT ![p.item] = Gone], None, Idle)
    BY <1>4 DEF CommitDeleteUser
  <2>2. RowsStep
    BY <1>2, <2>1, InTransactionIs, UserHooksCalm
  <2> QED BY <1>1, <2>1, <2>2, InTransactionIs, BasisOnward
<1> QED BY <1>3, <1>4

LEMMA CommitTrashBasis ==
    ASSUME Basis, NEW a \in Actors, CommitTrashService(a)
    PROVE  Going /\ Basis'
<1> DEFINE p == pend[a]
           i == p.item
<1>1. Right(Idle) /\ After(Idle)
  BY EndsRight DEF Idle
<1>2. i \in Items /\ (Exists(i) => row[i].kind = "service") /\ p.step = "trash_service"
  BY DEF CommitTrashService, Basis, Works, Right, Making, Writing, WritingRight, Names
<1> HIDE DEF i
<1>3. CASE Exists(i)
  <2>1. InTransaction(a, [row EXCEPT ![i].deleted = TRUE], p.org, Idle)
    BY <1>3 DEF CommitTrashService, i
  <2> DEFINE s == [row[i] EXCEPT !.deleted = TRUE]
  <2>2. row[i] \in Docs /\ Owners(row[i]) \subseteq Born
    BY <1>2, <1>3 DEF Basis, Types, Owned, Exists
  <2>3. s \in Docs /\ s.kind = "service" /\ s.org = row[i].org /\ s.slug = row[i].slug /\ s.category = row[i].category
    BY <1>2, <1>3, <2>2 DEF Docs
  <2>4. row' = [row EXCEPT ![i] = s] /\ Born \subseteq Born'
    BY <2>1, InTransactionIs
  <2> HIDE DEF s
  <2>5. row'[i] = s /\ (\A j \in Items \ {i} : row'[j] = row[j]) /\ row' = [j \in Items |-> row'[j]]
    BY <1>2, <2>4 DEF Basis, Types
  <2>6. Owners(s) = Owners(row[i])
    BY <1>2, <1>3, <2>2, <2>3, DocsAre
  <2>7. Calm(i)
    BY <1>2, <1>3, <2>2, <2>3, <2>4, <2>5, <2>6 DEF Calm, SameRow
  <2>8. RowsStep
    BY <2>5, <2>7, CalmStep DEF Calm
  <2> QED BY <1>1, <2>1, <2>8, InTransactionIs, BasisOnward
<1>4. CASE ~Exists(i)
  <2>1. InTransaction(a, row, None, Idle)
    BY <1>4 DEF CommitTrashService, i
  <2> QED BY <1>1, <2>1, InTransactionIs, BasisOnward
<1> QED BY <1>3, <1>4

LEMMA CommitReorderBasis ==
    ASSUME Basis, NEW a \in Actors, CommitReorder(a)
    PROVE  Going /\ Basis'
<1> DEFINE p == pend[a]
           f == p.order
<1>1. Right(Idle) /\ After(Idle)
  BY EndsRight DEF Idle
<1>2. p.step = "reorder" /\ p.kind \in {"category", "infosection", "news", "service"}
      /\ DOMAIN f \subseteq Items /\ \A i \in DOMAIN f : f[i] \in Nat
  BY DEF CommitReorder, Basis, Works, Right, Making, Writing, ReorderRight
<1> HIDE DEF f
<1>3. CASE DOMAIN f = Siblings(p.kind, p.org, p.category)
  <2>1. InTransaction(a, Reordered(f), p.org, Idle)
    BY <1>3 DEF CommitReorder, f
  <2>2. row' = Reordered(f) /\ Born \subseteq Born'
    BY <2>1, InTransactionIs
  <2>3. ASSUME NEW i \in Items PROVE Calm(i)
    <3>1. CASE i \in DOMAIN f
      <4>1. Exists(i) /\ row[i] \in Docs /\ row[i].kind = p.kind /\ Owners(row[i]) \subseteq Born
        BY <1>3, <3>1, ThereIs DEF Siblings, Of
      <4> DEFINE s == [row[i] EXCEPT !.position = f[i]]
      <4>2. /\ s \in Docs /\ s.kind = row[i].kind /\ s.org = row[i].org
            /\ "slug" \in DOMAIN row[i] => s.slug = row[i].slug
            /\ row[i].kind = "service" => s.category = row[i].category
        BY <1>2, <3>1, <4>1 DEF Docs
      <4>3. row'[i] = s
        BY <2>2, <3>1 DEF Reordered
      <4> HIDE DEF s
      <4>4. Owners(s) = {row[i].org} /\ Owners(row[i]) = {row[i].org}
        BY <1>2, <4>1, <4>2, DocsAre
      <4> QED BY <1>2, <2>2, <4>1, <4>2, <4>3, <4>4 DEF Calm, SameRow
    <3>2. CASE i \notin DOMAIN f
      BY <2>2, <3>2 DEF Reordered, Calm
    <3> QED BY <3>1, <3>2
  <2>4. RowsStep
    BY <2>2, <2>3, CalmStep DEF Reordered
  <2> QED BY <1>1, <2>1, <2>4, InTransactionIs, BasisOnward
<1>4. CASE DOMAIN f # Siblings(p.kind, p.org, p.category)
  <2>1. InTransaction(a, row, None, Idle)
    BY <1>4 DEF CommitReorder, f
  <2> QED BY <1>1, <2>1, InTransactionIs, BasisOnward
<1> QED BY <1>3, <1>4

\* The files of images that are gone may go too.
LEMMA FilesMayGo ==
    ASSUME Basis, Going, NEW fs, NEW next, NEW w, w = UnlinkThen(fs, next),
           \A i \in fs : i \in Items /\ Taken(i) /\ row'[i] = Gone,
           next = Idle \/ CascadeOf(next)'
    PROVE  Right(w)'
<1>1. CASE fs = {} /\ next = Idle
  BY <1>1 DEF UnlinkThen, Idle, Right, After, Making, Writing
<1>2. CASE fs = {} /\ CascadeOf(next)'
  BY <1>2 DEF UnlinkThen, CascadeOf, Right, After, Making, Writing
<1>3. CASE fs # {}
  <2>1. w.step = "unlink" /\ w.files = fs /\ w.next = next
    BY <1>3 DEF UnlinkThen
  <2>2. ASSUME NEW i \in fs PROVE Unserved(i)'
    <3>1. i \in Items /\ Taken(i) /\ row'[i] = Gone
      OBVIOUS
    <3> QED BY <3>1, TakenStays DEF Unserved, Exists
  <2> QED BY <2>1, <2>2 DEF Right, After, Making, Writing
<1> QED BY <1>1, <1>2, <1>3

LEMMA FilesOfAre ==
    ASSUME Basis, NEW o, row' = OrganizationHooks(row, o)
    PROVE  \A i \in FilesOf(o) : i \in Items /\ Taken(i) /\ row'[i] = Gone
<1>1. ASSUME NEW i \in FilesOf(o) PROVE i \in Items /\ Taken(i) /\ row'[i] = Gone
  <2>1. i \in Rows("image") /\ row[i].org = o
    BY DEF FilesOf, Of
  <2>2. i \in Items /\ Taken(i) /\ Exists(i) /\ row[i].kind = "image"
    BY <2>1, ThereIs
  <2> QED BY <2>1, <2>2 DEF OrganizationHooks, Exists
<1> QED BY <1>1

LEMMA DeleteOrganizationBasis ==
    ASSUME Basis, NEW a \in Actors, NEW o, DeleteOrganization(a, o)
    PROVE  Going /\ Basis'
<1>1. PICK w : w = UnlinkThen(FilesOf(o), Idle)
  OBVIOUS
<1>2. /\ Turn(a, w) /\ row' = OrganizationHooks(row, o) /\ org' = [org EXCEPT ![o].state = "gone"]
      /\ UNCHANGED <<files, now, lost, silent, offered>>
  BY <1>1 DEF DeleteOrganization, Begin, Turn, Unlink
<1>3. OrgsGo /\ Born \subseteq Born'
  BY <1>2 DEF OrgsGo, Born, Dead, Basis, Types
<1>4. RowsStep /\ FilesStep /\ RestGoes
  BY <1>2, <1>3, OrganizationHooksCalm, Quietly DEF RestGoes, Basis, Types
<1>5. After(w) /\ Settles(w) /\ ~Reserves(w) /\ w.step # "upload"
  <2>1. After(w)
    BY <1>1 DEF UnlinkThen, Idle, After, Making, Writing
  <2> QED BY <2>1, AfterSettles
<1>6. Going
  BY <1>2, <1>3, <1>4, <1>5, GoingStep
<1>7. Right(w)'
  <2>1. \A i \in FilesOf(o) : i \in Items /\ Taken(i) /\ row'[i] = Gone
    BY <1>2, FilesOfAre
  <2>2. PICK fs : fs = FilesOf(o)
    OBVIOUS
  <2> QED BY <1>1, <1>6, <2>1, <2>2, FilesMayGo
<1> QED BY <1>2, <1>3, <1>4, <1>5, <1>7, BasisStep

LEMMA PurgeBasis ==
    ASSUME Basis, NEW a \in Actors, NEW s, PurgeService(a, s)
    PROVE  Going /\ Basis'
<1>1. s \in Items /\ row[s] # Unused
  BY ThereIs DEF PurgeService
<1>2. /\ Turn(a, Idle) /\ org' = Bumped(org, row[s].org) /\ row' = [ServiceHooks(row, s) EXCEPT ![s] = Gone]
      /\ UNCHANGED <<files, now, lost, silent, offered>>
  BY DEF PurgeService, Begin, Turn
<1>3. RowsStep /\ FilesStep /\ OrgsGo /\ RestGoes
  BY <1>1, <1>2, ServiceHooksCalm, BumpedIs, Quietly DEF RestGoes, Basis, Types
<1>4. Right(Idle) /\ After(Idle)
  BY EndsRight DEF Idle
<1> QED BY <1>2, <1>3, <1>4, BasisOnward

LEMMA ReconcileBasis ==
    ASSUME Basis, NEW a \in Actors, Reconcile(a)
    PROVE  Going /\ Basis'
<1>1. PICK p : p = pend[a]
  OBVIOUS
<1>2. p.step = "cascade" /\ CascadeOf(p)
  BY <1>1 DEF Reconcile, Basis, Works, Right, Making, Writing
<1>3. PICK o \in p.orgs :
         InTransaction(a, OrganizationHooks(row, o), None,
             UnlinkThen(FilesOf(o), IF p.orgs = {o} THEN Idle ELSE [p EXCEPT !.orgs = @ \ {o}]))
  BY <1>1 DEF Reconcile
<1>4. PICK next : next = IF p.orgs = {o} THEN Idle ELSE [p EXCEPT !.orgs = @ \ {o}]
  OBVIOUS
<1>5. PICK w : w = UnlinkThen(FilesOf(o), next)
  OBVIOUS
<1>6. /\ row' = OrganizationHooks(row, o) /\ Turn(a, w) /\ FilesStep /\ OrgsGo /\ RestGoes /\ Born \subseteq Born'
  BY <1>3, <1>4, <1>5, InTransactionIs
<1>7. RowsStep
  BY <1>6, OrganizationHooksCalm
<1>8. next = Idle \/ CascadeOf(next)
  BY <1>2, <1>4 DEF CascadeOf
<1>9. After(w) /\ Settles(w) /\ ~Reserves(w) /\ w.step # "upload"
  <2>1. After(w)
    BY <1>5, <1>8 DEF UnlinkThen, Idle, CascadeOf, After, Making, Writing
  <2> QED BY <2>1, AfterSettles
<1>10. Going
  BY <1>6, <1>7, <1>9, GoingStep
<1>11. Right(w)'
  <2>1. \A i \in FilesOf(o) : i \in Items /\ Taken(i) /\ row'[i] = Gone
    BY <1>6, FilesOfAre
  <2>2. PICK fs : fs = FilesOf(o)
    OBVIOUS
  <2>3. next = Idle \/ CascadeOf(next)'
    BY <1>8, <1>10 DEF CascadeOf, Going
  <2> QED BY <1>5, <1>10, <2>1, <2>2, <2>3, FilesMayGo
<1> QED BY <1>6, <1>7, <1>9, <1>11, BasisStep

LEMMA UploadBasis ==
    ASSUME Basis, NEW a \in Actors, NEW i, NEW o, UploadImage(a, i, o)
    PROVE  Going /\ Basis'
<1>1. PICK w : w = [step |-> "upload", item |-> i, org |-> o]
  OBVIOUS
<1>2. /\ Turn(a, w) /\ files' = [files EXCEPT ![i] = "new"] /\ row' = [row EXCEPT ![i] = Gone]
      /\ UNCHANGED <<org, now, lost, silent, offered>>
  BY <1>1 DEF UploadImage, Begin, Turn
<1>3. i \in Items /\ row[i] = Unused /\ \A b \in Actors : Reserves(pend[b]) => pend[b].item # i
  BY FreshIs DEF UploadImage
<1>4. OrgsGo /\ RestGoes /\ Born \subseteq Born'
  BY <1>2, Quietly DEF OrgsGo, RestGoes, Basis, Types
<1>5. row'[i] = Gone /\ files'[i] = "new" /\ (\A j \in Items \ {i} : row'[j] = row[j] /\ files'[j] = files[j])
  BY <1>2, <1>3 DEF Basis, Types
<1>6. RowsStep
  <2>1. Makes(i)
    BY <1>3, <1>5 DEF Makes, Unclaimed
  <2> QED BY <1>2, <1>5, <2>1 DEF RowsStep, RowsGo, Calm, Basis, Types
<1>7. FilesStep
  BY <1>2, <1>3, <1>5 DEF FilesStep, FilesGo, Basis, Types
<1>8. Right(w)'
  <2>1. o \in Born'
    BY <1>4, LiveIsBorn DEF UploadImage
  <2>2. "item" \in DOMAIN w /\ w.step = "upload" /\ w.item = i /\ w.org = o
    BY <1>1
  <2> QED BY <1>3, <1>5, <2>1, <2>2 DEF Right
<1>9. Settles(w)
  BY <1>1 DEF Settles, HomeRight
<1> QED BY <1>1, <1>2, <1>3, <1>4, <1>6, <1>7, <1>8, <1>9, BasisStep

LEMMA CommitUploadBasis ==
    ASSUME Basis, NEW a \in Actors, CommitUpload(a)
    PROVE  Going /\ Basis'
<1>1. PICK p : p = pend[a]
  OBVIOUS
<1> DEFINE i == p.item
<1>2. p.step = "upload" /\ i \in Items /\ p.org \in Born /\ p.org \in Orgs /\ row[i] = Gone /\ files[i] # "none"
  BY <1>1 DEF CommitUpload, Basis, Works, Right, Making, Writing, Born
<1>3. ASSUME NEW r, r = Image(p.org, TRUE) \/ r = Image(p.org, FALSE),
             NEW w, Turn(a, w), w.step # "upload", Born \subseteq Born', row' = [row EXCEPT ![i] = r]
      PROVE  RowsStep /\ row'[i] = r
  <2>1. r \in Docs /\ r.kind = "image" /\ r.org = p.org
    <3>1. Image(p.org, TRUE) \in Docs /\ Image(p.org, TRUE).kind = "image" /\ Image(p.org, TRUE).org = p.org
      BY <1>2 DEF Docs, Image
    <3>2. Image(p.org, FALSE) \in Docs /\ Image(p.org, FALSE).kind = "image" /\ Image(p.org, FALSE).org = p.org
      BY <1>2 DEF Docs, Image
    <3> QED BY <1>3, <3>1, <3>2
  <2>2. row' = [row EXCEPT ![i] = r]
    BY <1>3
  <2>3. row'[i] = r /\ \A j \in Items \ {i} : row'[j] = row[j]
    BY <1>2, <2>2 DEF Basis, Types
  <2>4. Owners(r) \subseteq Born'
    BY <1>2, <1>3, <2>1, DocsAre
  <2>5. pend'[a] # pend[a]
    BY <1>1, <1>2, <1>3, TurnIs
  <2>6. Makes(i)
    BY <1>1, <1>2, <2>1, <2>3, <2>4, <2>5 DEF Makes
  <2> QED BY <2>2, <2>3, <2>6 DEF RowsStep, RowsGo, Calm, Basis, Types
<1>4. CASE InTransaction(a, [row EXCEPT ![i] = Image(p.org, TRUE)], p.org, Idle)
  <2>1. Right(Idle) /\ After(Idle) /\ Idle.step # "upload"
    BY EndsRight DEF Idle
  <2>2. /\ row' = [row EXCEPT ![i] = Image(p.org, TRUE)] /\ Turn(a, Idle)
        /\ FilesStep /\ OrgsGo /\ RestGoes /\ Born \subseteq Born'
    BY <1>4, InTransactionIs
  <2>3. RowsStep
    BY <1>3, <2>1, <2>2
  <2> QED BY <2>1, <2>2, <2>3, BasisOnward
<1>5. CASE /\ (row' = row /\ org' = org) \/ (row' = [row EXCEPT ![i] = Image(p.org, FALSE)] /\ org' = Bumped(org, p.org))
           /\ pend' = [pend EXCEPT ![a] = Unlink({i})]
           /\ UNCHANGED <<files, now, lost, silent, ops, offered>>
  <2>1. PICK w : w = [step |-> "unlink", files |-> {i}, next |-> Idle]
    OBVIOUS
  <2>2. Turn(a, w) /\ w.step = "unlink" /\ w.files = {i} /\ w.next = Idle
    BY <1>5, <2>1 DEF Unlink, UnlinkThen, Turn
  <2>3. OrgsGo /\ Born \subseteq Born' /\ FilesStep /\ RestGoes
    BY <1>5, Quietly, BumpedIs DEF OrgsGo, RestGoes, Basis, Types
  <2>4. RowsStep /\ (row'[i] = Gone \/ row'[i] = Image(p.org, FALSE))
    BY <1>2, <1>3, <1>5, <2>2, <2>3, Quietly
  <2>5. Unserved(i)'
    <3>1. Image(p.org, FALSE) \in Docs /\ Image(p.org, FALSE).told = FALSE
      BY <1>2, MadeAre
    <3>2. row'[i] # Unused /\ ~(row'[i] \notin {Unused, Gone} /\ row'[i].told)
      BY <2>4, <3>1, IdsAssumption
    <3>3. ~Uploading(i)'
      <4>1. \A b \in Actors \ {a} : ~(pend[b].step = "upload" /\ pend[b].item = i)
        BY <1>1, <1>2 DEF Basis, Apart, Reserves
      <4> QED BY <2>2, <4>1, TurnIs DEF Uploading
    <3> QED BY <1>2, <3>2, <3>3 DEF Unserved, Taken, Exists
  <2>6. Right(w)' /\ Settles(w) /\ ~Reserves(w)
    <3>1. After(w)
      BY <2>2 DEF After, Making, Writing
    <3> QED BY <2>2, <2>5, <3>1, AfterSettles DEF Right
  <2> QED BY <2>2, <2>3, <2>4, <2>6, BasisStep
<1> QED BY <1>1, <1>4, <1>5 DEF CommitUpload

LEMMA CommitDeleteImageBasis ==
    ASSUME Basis, NEW a \in Actors, CommitDeleteImage(a)
    PROVE  Going /\ Basis'
<1>1. PICK p : p = pend[a]
  OBVIOUS
<1>2. PICK fs : fs = {p.item}
  OBVIOUS
<1>3. p.item \in Items /\ Taken(p.item)
  BY <1>1 DEF CommitDeleteImage, Basis, Works, Right, Making, Writing, WritingRight
<1>4. PICK w : w = UnlinkThen(fs, Idle)
  OBVIOUS
<1>5. InTransaction(a, [row EXCEPT ![p.item] = Gone], p.org, w)
  BY <1>1, <1>2, <1>4 DEF CommitDeleteImage, Unlink
<1>6. row' = [row EXCEPT ![p.item] = Gone] /\ Turn(a, w) /\ FilesStep /\ OrgsGo /\ RestGoes
  BY <1>5, InTransactionIs
<1>7. RowsStep /\ row'[p.item] = Gone
  BY <1>3, <1>6, RowGone DEF Taken, Basis, Types
<1>8. After(w) /\ Settles(w) /\ ~Reserves(w) /\ w.step # "upload"
  <2>1. After(w)
    BY <1>4 DEF UnlinkThen, Idle, After, Making, Writing
  <2> QED BY <2>1, AfterSettles
<1>9. Going
  BY <1>6, <1>7, <1>8, GoingStep
<1>10. Right(w)'
  BY <1>2, <1>3, <1>4, <1>7, <1>9, FilesMayGo
<1> QED BY <1>6, <1>7, <1>8, <1>10, BasisStep

LEMMA SweepBasis ==
    ASSUME Basis, NEW a \in Actors, SweepFiles(a)
    PROVE  Going /\ Basis'
<1>1. PICK w : w = Unlink(pend[a].files \ Rows("image"))
  OBVIOUS
<1>2. Turn(a, w) /\ UNCHANGED <<org, row, files, now, lost, silent, offered>>
  BY <1>1 DEF SweepFiles, documents, counters, Turn
<1>3. RowsStep /\ FilesStep /\ OrgsGo /\ RestGoes
  BY <1>2, Quietly DEF RestGoes, Basis, Types
<1>4. \A i \in pend[a].files : i \in Items /\ Taken(i)
  BY DEF SweepFiles, Basis, Works, Right, Making, Writing
<1>5. Right(w) /\ After(w)
  <2>1. CASE pend[a].files \ Rows("image") = {}
    BY <1>1, <2>1, EndsRight DEF Unlink, UnlinkThen, Idle
  <2>2. CASE pend[a].files \ Rows("image") # {}
    <3>1. w.step = "unlink" /\ w.files = pend[a].files \ Rows("image") /\ w.next = Idle
      BY <1>1, <2>2 DEF Unlink, UnlinkThen
    <3>2. \A i \in w.files : Unserved(i)
      BY <1>4, <3>1 DEF Unserved, Rows
    <3> QED BY <3>1, <3>2 DEF Right, After, Making, Writing
  <2> QED BY <2>1, <2>2
<1> QED BY <1>2, <1>3, <1>5, BasisOnward

LEMMA ReadBasis ==
    ASSUME Basis, NEW a \in Actors, ReadReferences(a) \/ StartCascade(a)
    PROVE  Going /\ Basis'
<1>1. PICK p : p = pend[a]
  OBVIOUS
<1>2. p.step = "reconcile" /\ ReconcileRight(p)
  BY <1>1 DEF ReadReferences, StartCascade, Basis, Works, Right, Making, Writing
<1>3. UNCHANGED <<org, row, files, now, lost, silent, offered>>
  BY DEF ReadReferences, StartCascade, documents, counters
<1>4. RowsStep /\ FilesStep /\ OrgsGo /\ RestGoes
  BY <1>3, Quietly DEF RestGoes, Basis, Types
<1>5. CASE ReadReferences(a)
  <2> DEFINE v == [p EXCEPT !.left = Tail(@),
                            !.referenced = IF Head(p.left) = "referenced" THEN Referenced ELSE @,
                            !.existing = IF Head(p.left) = "existing" THEN Live ELSE @]
  <2>1. pend' = [pend EXCEPT ![a] = v] /\ p.left # <<>>
    BY <1>1, <1>5 DEF ReadReferences
  <2>2. ReconcileRight(v) /\ v.step = "reconcile"
    <3>1. Referenced \subseteq Born
      BY DEF Referenced, References, Basis, Owned
    <3>2. Live \subseteq Orgs /\ Born \ Live \subseteq Dead
      BY DEF Live, Born, Dead, Basis, Types
    <3>3. /\ Readings = <<"referenced", "existing">> /\ Head(Readings) = "referenced"
          /\ Tail(Readings) = <<"existing">> /\ Head(Tail(Readings)) = "existing" /\ Tail(Tail(Readings)) = <<>>
          /\ Tail(Readings) # <<>>
      BY DEF Readings
    <3> DEFINE l == Tail(p.left)
               r == IF Head(p.left) = "referenced" THEN Referenced ELSE p.referenced
               e == IF Head(p.left) = "existing" THEN Live ELSE p.existing
    <3>4. p.referenced \subseteq Born /\ p.existing \subseteq Orgs /\ p = [step |-> "reconcile", left |-> p.left, referenced |-> p.referenced, existing |-> p.existing]
      BY <1>2 DEF ReconcileRight
    <3>5. v = [step |-> "reconcile", left |-> l, referenced |-> r, existing |-> e]
      <4>1. v = [[[p EXCEPT !.left = l] EXCEPT !.referenced = r] EXCEPT !.existing = e]
        OBVIOUS
      <4> HIDE DEF v, l, r, e
      <4>2. [p EXCEPT !.left = l] = [step |-> "reconcile", left |-> l, referenced |-> p.referenced, existing |-> p.existing]
        BY <3>4
      <4>3. PICK q : q = [p EXCEPT !.left = l]
        OBVIOUS
      <4>4. q = [step |-> "reconcile", left |-> l, referenced |-> p.referenced, existing |-> p.existing]
        BY <4>2, <4>3
      <4>5. [q EXCEPT !.referenced = r] = [step |-> "reconcile", left |-> l, referenced |-> r, existing |-> p.existing]
        BY <4>4
      <4>6. PICK q2 : q2 = [q EXCEPT !.referenced = r]
        OBVIOUS
      <4>7. v = [q2 EXCEPT !.existing = e]
        BY <4>1, <4>3, <4>6
      <4> QED BY <4>5, <4>6, <4>7
    <3>6. r \subseteq Born /\ e \subseteq Orgs
      BY <3>1, <3>2, <3>4
    <3>7. CASE p.left = Readings
      <4>1. l = Tail(Readings) /\ l # <<>>
        BY <3>3, <3>7
      <4> HIDE DEF v, l, r, e
      <4> QED BY <3>5, <3>6, <4>1 DEF ReconcileRight
    <3>8. CASE p.left = Tail(Readings)
      <4>1. l = <<>> /\ r = p.referenced /\ e = Live
        BY <3>3, <3>8
      <4>2. r \ e \subseteq Dead
        BY <3>2, <3>4, <4>1
      <4> HIDE DEF v, l, r, e
      <4> QED BY <3>5, <3>6, <4>1, <4>2 DEF ReconcileRight
    <3> QED BY <1>2, <2>1, <3>7, <3>8 DEF ReconcileRight
  <2>3. PICK w : w = v
    OBVIOUS
  <2>4. Turn(a, w) /\ ReconcileRight(w) /\ w.step = "reconcile"
    <3> HIDE DEF v
    <3> QED BY <2>1, <2>2, <2>3 DEF Turn
  <2>5. Right(w) /\ After(w)
    BY <2>4 DEF Right, After, Making, Writing
  <2> QED BY <1>4, <2>4, <2>5, BasisOnward
<1>6. CASE StartCascade(a)
  <2> DEFINE dangling == p.referenced \ p.existing
  <2>1. p.left = <<>> /\ dangling \subseteq Dead
    BY <1>1, <1>2, <1>6 DEF StartCascade, ReconcileRight
  <2>2. PICK w : w = IF dangling = {} \/ Cardinality(dangling) > ReconcileLimit THEN Idle
                     ELSE [step |-> "cascade", orgs |-> dangling]
    OBVIOUS
  <2>3. Turn(a, w)
    BY <1>1, <1>6, <2>2 DEF StartCascade, Turn
  <2> HIDE DEF dangling
  <2>4. CASE w = Idle
    <3>1. Right(w) /\ After(w)
      BY <2>4, EndsRight DEF Idle
    <3> QED BY <1>4, <2>3, <3>1, BasisOnward
  <2>5. CASE w = [step |-> "cascade", orgs |-> dangling]
    <3>1. Right(w) /\ After(w)
      BY <2>1, <2>5 DEF Right, After, Making, Writing, CascadeOf
    <3> QED BY <1>4, <2>3, <3>1, BasisOnward
  <2> QED BY <2>2, <2>4, <2>5
<1> QED BY <1>5, <1>6

LEMMA ArchiveExpiredBasis ==
    ASSUME Basis, NEW a \in Actors, ArchiveExpired(a)
    PROVE  Going /\ Basis'
<1>1. PICK p : p = pend[a]
  OBVIOUS
<1>2. p.step = "expire" /\ ExpireRight(p)
  BY <1>1 DEF ArchiveExpired, Basis, Works, Right, Making, Writing
<1>3. PICK n \in DOMAIN p.news :
         IF Exists(n)
         THEN \E k \in Items : /\ Fresh(k)
                               /\ InTransaction(a, Snapshot(DeletedExpired(row, n), k, p.news[n], n), p.news[n], Rest(a, n))
         ELSE InTransaction(a, row, None, Rest(a, n))
  BY <1>1 DEF ArchiveExpired
<1>4. PICK w : w = Rest(a, n)
  OBVIOUS
<1>5. Right(w) /\ After(w)
  <2>1. CASE w = Idle
    BY <2>1, EndsRight DEF Idle
  <2>2. CASE w = [p EXCEPT !.news = [m \in DOMAIN p.news \ {n} |-> p.news[m]]]
    <3>1. /\ w.step = "expire" /\ DOMAIN w = {"step", "news"} /\ DOMAIN w.news = DOMAIN p.news \ {n}
          /\ \A m \in DOMAIN w.news : w.news[m] = p.news[m]
      BY <1>2, <2>2 DEF ExpireRight
    <3>2. ExpireRight(w)
      BY <1>2, <3>1 DEF ExpireRight
    <3> QED BY <3>1, <3>2 DEF Right, After, Making, Writing
  <2>3. w = Idle \/ w = [p EXCEPT !.news = [m \in DOMAIN p.news \ {n} |-> p.news[m]]]
    BY <1>1, <1>2, <1>4 DEF Rest, ExpireRight
  <2> QED BY <2>1, <2>2, <2>3
<1>6. CASE ~Exists(n)
  <2>1. InTransaction(a, row, None, w)
    BY <1>3, <1>4, <1>6
  <2> QED BY <1>5, <2>1, InTransactionIs, BasisOnward
<1>7. CASE Exists(n)
  <2>1. PICK k \in Items : Fresh(k) /\ InTransaction(a, Snapshot(DeletedExpired(row, n), k, p.news[n], n), p.news[n], w)
    BY <1>3, <1>4, <1>7
  <2>2. n \in Items /\ p.news[n] \in Born /\ p.news[n] \in Orgs
    BY <1>2 DEF ExpireRight, Born
  <2>3. row[k] = Unused /\ (\A b \in Actors : Reserves(pend[b]) => pend[b].item # k) /\ k # n
    BY <1>7, <2>1, FreshIs DEF Exists
  <2> DEFINE r == Archive(p.news[n], "news", n)
  <2>4. r \in Docs /\ r.kind = "archive" /\ r.type = "news" /\ r.of = n /\ r.org = p.news[n]
    BY <2>2, MadeAre
  <2>5. row' = [[row EXCEPT ![n] = Gone] EXCEPT ![k] = r] /\ Born \subseteq Born'
    BY <2>1, InTransactionIs DEF Snapshot, DeletedExpired
  <2> HIDE DEF r
  <2>6. row'[k] = r /\ row'[n] = Gone /\ \A j \in Items \ {k, n} : row'[j] = row[j]
    BY <2>2, <2>3, <2>5 DEF Basis, Types
  <2>7. Owners(r) \subseteq Born'
    BY <2>2, <2>4, <2>5, DocsAre
  <2>8. Makes(k)
    <3>1. Unique(k, r)
      BY <2>4, DocsAre DEF Unique
    <3>2. Placed(k)
      BY <2>4, <2>6 DEF Placed
    <3> QED BY <1>7, <2>2, <2>3, <2>4, <2>6, <2>7, <3>1, <3>2 DEF Makes, Unclaimed
  <2>9. RowsStep
    BY <1>7, <2>5, <2>6, <2>8 DEF RowsStep, RowsGo, Calm, Basis, Types
  <2> QED BY <1>5, <2>1, <2>9, InTransactionIs, BasisOnward
<1> QED BY <1>6, <1>7

LEMMA RestBasis ==
    ASSUME Basis,
           \/ \E o \in Orgs : CreateOrganization(o) \/ UpdateOrganization(o) \/ AskTree(o)
           \/ GetTree \/ Tick
           \/ \E i \in Items : Age(i) \/ RemoveFavorite(i)
           \/ UNCHANGED vars
    PROVE  Going /\ Basis'
<1>0. pend' = pend
  BY DEF CreateOrganization, UpdateOrganization, AskTree, GetTree, Tick, Age, RemoveFavorite, vars
<1>1. ASSUME NEW o \in Orgs, CreateOrganization(o) \/ UpdateOrganization(o) PROVE Going /\ Basis'
  <2>1. OrgsGo
    <3>1. CASE CreateOrganization(o)
      BY <3>1 DEF CreateOrganization, OrgsGo, Born, Dead, Basis, Types
    <3>2. CASE UpdateOrganization(o)
      <4>1. PICK v \in Values : org' = [org EXCEPT ![o].value = v, ![o].version = @ + 1]
        BY <3>2 DEF UpdateOrganization
      <4>2. org'[o] = [org[o] EXCEPT !.value = v, !.version = @ + 1] /\ \A q \in Orgs \ {o} : org'[q] = org[q]
        BY <4>1 DEF Basis, Types
      <4>3. \A q \in Orgs : /\ org'[q].state = org[q].state
                            /\ org'[q] \in [state : {"none", "live", "gone"}, version : Nat, value : Values \cup {None}]
        <5>1. org[o] \in [state : {"none", "live", "gone"}, version : Nat, value : Values \cup {None}]
          BY DEF Basis, Types
        <5> DEFINE r == [org[o] EXCEPT !.value = v]
        <5>2. r \in [state : {"none", "live", "gone"}, version : Nat, value : Values \cup {None}] /\ r.state = org[o].state
          BY <5>1
        <5>3. org'[o] = [r EXCEPT !.version = @ + 1]
          BY <4>2
        <5> HIDE DEF r
        <5>4. org'[o] \in [state : {"none", "live", "gone"}, version : Nat, value : Values \cup {None}] /\ org'[o].state = org[o].state
          BY <5>2, <5>3
        <5> QED BY <4>2, <5>4 DEF Basis, Types
      <4>4. org' = [q \in Orgs |-> org'[q]]
        BY <4>1 DEF Basis, Types
      <4> QED BY <4>3, <4>4 DEF OrgsGo, Born, Dead
    <3> QED BY <1>1, <3>1, <3>2
  <2>2. RowsStep /\ FilesStep /\ RestGoes
    BY <1>1, Quietly DEF CreateOrganization, UpdateOrganization, RestGoes, Basis, Types
  <2> QED BY <1>0, <2>1, <2>2, BasisRests
<1>2. ASSUME NEW o \in Orgs, AskTree(o) PROVE Going /\ Basis'
  <2>1. RowsStep /\ FilesStep /\ OrgsGo /\ RestGoes
    BY <1>2, Quietly DEF AskTree, documents, counters, RestGoes, Basis, Types
  <2> QED BY <1>0, <2>1, BasisRests
<1>3. ASSUME GetTree PROVE Going /\ Basis'
  <2>1. RowsStep /\ FilesStep /\ OrgsGo /\ RestGoes
    BY <1>3, Quietly DEF GetTree, documents, counters, RestGoes, Basis, Types
  <2> QED BY <1>0, <2>1, BasisRests
<1>4. ASSUME Tick PROVE Going /\ Basis'
  <2>1. RowsStep /\ FilesStep /\ OrgsGo /\ RestGoes
    BY <1>4, Quietly DEF Tick, documents, counters, RestGoes, Basis, Types
  <2> QED BY <1>0, <2>1, BasisRests
<1>5. ASSUME NEW i \in Items, Age(i) PROVE Going /\ Basis'
  <2>1. UNCHANGED <<org, row, now, lost, silent, offered>> /\ files' = [files EXCEPT ![i] = "old"]
    BY <1>5 DEF Age, documents, counters
  <2>2. files[i] = "new" /\ Taken(i)
    BY <1>5 DEF Age, Taken, Uploading, Basis, Filed
  <2>3. RowsStep /\ OrgsGo /\ RestGoes
    BY <2>1, Quietly DEF RestGoes, Basis, Types
  <2>4. FilesStep
    BY <2>1, <2>2 DEF FilesStep, FilesGo, Basis, Types
  <2> QED BY <1>0, <2>3, <2>4, BasisRests
<1>6. ASSUME NEW i \in Items, RemoveFavorite(i) PROVE Going /\ Basis'
  <2>1. UNCHANGED <<org, files, now, lost, silent, offered>> /\ row' = [row EXCEPT ![i] = Gone] /\ row[i] # Unused
    BY <1>6, ThereIs DEF RemoveFavorite
  <2>2. RowsStep /\ FilesStep /\ OrgsGo /\ RestGoes
    BY <2>1, Quietly, RowGone DEF RestGoes, Basis, Types
  <2> QED BY <1>0, <2>2, BasisRests
<1>7. ASSUME UNCHANGED vars PROVE Going /\ Basis'
  <2>1. RowsStep /\ FilesStep /\ OrgsGo /\ RestGoes
    BY <1>7, Quietly DEF vars, RestGoes, Basis, Types
  <2> QED BY <1>0, <2>1, BasisRests
<1> QED BY <1>1, <1>2, <1>3, <1>4, <1>5, <1>6, <1>7

-----------------------------------------------------------------------------
(* Every step.                                                              *)

LEMMA CatalogueBegins ==
    ASSUME Basis, NEW a \in Actors, CatalogueBegin(a)
    PROVE  \/ Begun(a)
           \/ \E o : DeleteOrganization(a, o)
           \/ \E s : PurgeService(a, s)
<1>1. ASSUME NEW o \in Scenarios[offered].orgs,
             \/ DeleteOrganization(a, o) \/ ReorderCategories(a, o) \/ ReorderInfoSections(a, o)
             \/ \E c \in Items \cup {None} : ReorderServices(a, o, c)
             \/ \E i \in Scenarios[offered].items : CreateCategory(a, i, o) \/ CreateService(a, i, o) \/ CreateInfoSection(a, i, o)
      PROVE  Begun(a) \/ \E q : DeleteOrganization(a, q)
  <2>1. ASSUME NEW i, CreateCategory(a, i, o) \/ CreateInfoSection(a, i, o) PROVE Begun(a)
    BY <2>1, CreatesBegin
  <2>2. ASSUME NEW i, CreateService(a, i, o) PROVE Begun(a)
    BY <2>2, ServicesBegin
  <2>3. ASSUME ReorderCategories(a, o) \/ ReorderInfoSections(a, o) PROVE Begun(a)
    BY <2>3, ReordersBegin
  <2>4. ASSUME NEW c, ReorderServices(a, o, c) PROVE Begun(a)
    BY <2>4, ReordersBegin
  <2> QED BY <1>1, <2>1, <2>2, <2>3, <2>4
<1>2. ASSUME NEW i \in Items,
             \/ UpdateCategory(a, i) \/ DeleteCategory(a, i)
             \/ UpdateService(a, i) \/ RestoreService(a, i) \/ TrashService(a, i) \/ PurgeService(a, i)
             \/ UpdateInfoSection(a, i) \/ DeleteInfoSection(a, i)
             \/ \E s \in Items : CloneService(a, i, s)
      PROVE  Begun(a) \/ \E s : PurgeService(a, s)
  <2>1. ASSUME UpdateCategory(a, i) \/ UpdateInfoSection(a, i) \/ DeleteInfoSection(a, i) PROVE Begun(a)
    BY <2>1, ChangesBegin
  <2>2. ASSUME DeleteCategory(a, i) \/ TrashService(a, i) PROVE Begun(a)
    BY <2>2, RemovalsBegin
  <2>3. ASSUME UpdateService(a, i) \/ RestoreService(a, i) PROVE Begun(a)
    BY <2>3, ServicesBegin
  <2>4. ASSUME NEW s, CloneService(a, i, s) PROVE Begun(a)
    BY <2>4, ServicesBegin
  <2> QED BY <1>2, <2>1, <2>2, <2>3, <2>4
<1>3. \/ \E o \in Scenarios[offered].orgs :
            \/ DeleteOrganization(a, o) \/ ReorderCategories(a, o) \/ ReorderInfoSections(a, o)
            \/ \E c \in Items \cup {None} : ReorderServices(a, o, c)
            \/ \E i \in Scenarios[offered].items : CreateCategory(a, i, o) \/ CreateService(a, i, o) \/ CreateInfoSection(a, i, o)
      \/ \E i \in Items :
            \/ UpdateCategory(a, i) \/ DeleteCategory(a, i)
            \/ UpdateService(a, i) \/ RestoreService(a, i) \/ TrashService(a, i) \/ PurgeService(a, i)
            \/ UpdateInfoSection(a, i) \/ DeleteInfoSection(a, i)
            \/ \E s \in Items : CloneService(a, i, s)
  BY Zenon DEF CatalogueBegin
<1> QED BY <1>1, <1>2, <1>3, Zenon

LEMMA PortalBegins ==
    ASSUME Basis, NEW a \in Actors, PortalBegin(a)
    PROVE  Begun(a) \/ \E i, o : UploadImage(a, i, o)
<1>1. ASSUME NEW o \in Scenarios[offered].orgs,
             \/ ReorderNews(a, o)
             \/ \E i \in Scenarios[offered].items :
                   \/ CreateNews(a, i, o) \/ UploadImage(a, i, o) \/ CreateArchive(a, i, o) \/ AddFavorite(a, i, o)
                   \/ RemoveOperator(a, i, o)
      PROVE  Begun(a) \/ \E i, q : UploadImage(a, i, q)
  <2>1. ASSUME ReorderNews(a, o) PROVE Begun(a)
    BY <2>1, ReordersBegin
  <2>2. ASSUME NEW i, CreateNews(a, i, o) \/ CreateArchive(a, i, o) PROVE Begun(a)
    BY <2>2, CreatesBegin
  <2>3. ASSUME NEW i, AddFavorite(a, i, o) PROVE Begun(a)
    BY <2>3, FavoriteBegins
  <2>4. ASSUME NEW i, RemoveOperator(a, i, o) PROVE Begun(a)
    BY <2>4, MembersBegin
  <2> QED BY <1>1, <2>1, <2>2, <2>3, <2>4
<1>2. ASSUME NEW i \in Items,
             \/ UpdateNews(a, i) \/ DeleteNews(a, i) \/ DeleteImage(a, i) \/ DeleteArchive(a, i)
             \/ CreateUser(a, i) \/ SetOrganizations(a, i) \/ DeleteUser(a, i)
      PROVE  Begun(a)
  <2>1. ASSUME UpdateNews(a, i) \/ DeleteNews(a, i) PROVE Begun(a)
    BY <2>1, ChangesBegin
  <2>2. ASSUME DeleteImage(a, i) \/ DeleteArchive(a, i) \/ DeleteUser(a, i) PROVE Begun(a)
    BY <2>2, RemovalsBegin
  <2>3. ASSUME CreateUser(a, i) PROVE Begun(a)
    BY <2>3, CreatesBegin
  <2>4. ASSUME SetOrganizations(a, i) PROVE Begun(a)
    BY <2>4, MembersBegin
  <2> QED BY <1>2, <2>1, <2>2, <2>3, <2>4
<1>3. \/ \E o \in Scenarios[offered].orgs :
            \/ ReorderNews(a, o)
            \/ \E i \in Scenarios[offered].items :
                  \/ CreateNews(a, i, o) \/ UploadImage(a, i, o) \/ CreateArchive(a, i, o) \/ AddFavorite(a, i, o)
                  \/ RemoveOperator(a, i, o)
      \/ \E i \in Items :
            \/ UpdateNews(a, i) \/ DeleteNews(a, i) \/ DeleteImage(a, i) \/ DeleteArchive(a, i)
            \/ CreateUser(a, i) \/ SetOrganizations(a, i) \/ DeleteUser(a, i)
  BY Zenon DEF PortalBegin
<1> QED BY <1>1, <1>2, <1>3, Zenon

\* A step keeps the basis.
LEMMA CommitBasis ==
    ASSUME Basis, NEW a \in Actors, CatalogueWrite(a) \/ PortalCommit(a)
    PROVE  Going /\ Basis'
<1>1. ASSUME CatalogueWrite(a) PROVE Going /\ Basis'
  <2>1. \/ WriteRow(a) \/ Touch(a) \/ RemoveFiles(a)
        \/ CommitDeleteCategory(a) \/ CommitCreateService(a) \/ CommitTrashService(a) \/ CommitReorder(a)
        \/ WriteService(a) \/ Record(a)
    BY <1>1, Zenon DEF CatalogueWrite
  <2> QED BY <2>1, WriteRowBasis, VersionBasis, RemoveFilesBasis, CommitDeletesBasis, CommitCreateBasis,
             CommitTrashBasis, CommitReorderBasis, WriteServiceBasis
<1>2. ASSUME PortalCommit(a) PROVE Going /\ Basis'
  <2>1. \/ ArchiveExpired(a) \/ CommitUpload(a) \/ CommitDeleteImage(a) \/ SweepFiles(a)
        \/ CommitFavorite(a) \/ CommitDeleteUser(a)
        \/ ReadReferences(a) \/ StartCascade(a) \/ Reconcile(a)
    BY <1>2, Zenon DEF PortalCommit
  <2> QED BY <2>1, ArchiveExpiredBasis, CommitUploadBasis, CommitDeleteImageBasis, SweepBasis, CommitCreateBasis,
             CommitDeletesBasis, ReadBasis, ReconcileBasis
<1> QED BY <1>1, <1>2

LEMMA NextBasis ==
    ASSUME Basis, [Next]_vars
    PROVE  Going /\ Basis'
<1>1. ASSUME NEW a \in Actors, CatalogueBegin(a) \/ PortalBegin(a) PROVE Going /\ Basis'
  BY <1>1, CatalogueBegins, PortalBegins, BegunBasis, DeleteOrganizationBasis, PurgeBasis, UploadBasis
<1>2. ASSUME NEW a \in Actors, Commit(a) PROVE Going /\ Basis'
  BY <1>2, CommitBasis DEF Commit
<1>3. ASSUME NEW a \in Actors, ListExpired(a) \/ ListFiles(a) \/ StartReconcile(a) PROVE Going /\ Basis'
  BY <1>3, JobsBegin, BegunBasis
<1>4. ASSUME NEW a \in Actors, Crash(a) PROVE Going /\ Basis'
  BY <1>4, CrashBasis
<1>5. \/ \E o \in Orgs : CreateOrganization(o) \/ UpdateOrganization(o) \/ AskTree(o)
      \/ GetTree \/ Tick
      \/ \E i \in Items : Age(i) \/ RemoveFavorite(i)
      \/ UNCHANGED vars
      \/ \E a \in Actors : CatalogueBegin(a) \/ PortalBegin(a)
      \/ \E a \in Actors : Commit(a)
      \/ \E a \in Actors : Crash(a)
      \/ \E a \in Actors : ListExpired(a) \/ ListFiles(a) \/ StartReconcile(a)
  BY Zenon DEF Next, CatalogueStep
<1> QED BY <1>1, <1>2, <1>3, <1>4, <1>5, RestBasis, Zenon

-----------------------------------------------------------------------------
(* Nothing twice.                                                           *)

\* A row that is there afterwards, and was not made in this step.
LEMMA StillThere ==
    ASSUME Basis, NEW i \in Items, Calm(i), row'[i] \notin {Unused, Gone}
    PROVE  /\ Exists(i) /\ row'[i].kind = row[i].kind
           /\ row[i].kind # "user" => row'[i].org = row[i].org
           /\ row[i].kind \in {"service", "news"} => row'[i].slug = row[i].slug
           /\ row[i].kind \in {"image", "archive", "favorite"} => row'[i] = row[i]
<1>1. Exists(i) => row[i] \in Docs
  BY DEF Basis, Types, Exists
<1> QED BY <1>1, DocsAre DEF Calm, SameRow, Exists

LEMMA SlugStep ==
    ASSUME Basis, Going, SlugFindsOne
    PROVE  SlugFindsOne'
<1>1. PICK k : \A i \in Items : Calm(i) \/ (i = k /\ Makes(i))
  BY DEF Going, RowsGo
<1>2. ASSUME NEW o \in Orgs, NEW kind \in {"service", "news"}, NEW i \in Items, NEW j \in Items, i # j,
             row'[i] \notin {Unused, Gone}, row'[j] \notin {Unused, Gone},
             row'[i].kind = kind, row'[j].kind = kind, row'[i].org = o, row'[j].org = o,
             row'[i].slug = row'[j].slug, Calm(j)
      PROVE  FALSE
  <2>1. j \in Of(kind, o) /\ row[j].slug = row'[j].slug
    BY <1>2, StillThere DEF Of, Rows
  <2>2. CASE Calm(i)
    <3>1. i \in Of(kind, o) /\ row[i].slug = row'[i].slug
      BY <1>2, <2>2, StillThere DEF Of, Rows
    <3> QED BY <1>2, <2>1, <3>1 DEF SlugFindsOne
  <2>3. CASE Makes(i)
    <3>1. row'[i] \in Docs /\ Unique(i, row'[i])
      BY <1>2, <2>3 DEF Makes, SameRow
    <3>2. "slug" \in DOMAIN row'[i]
      BY <1>2, <3>1, DocsAre
    <3> QED BY <1>2, <2>1, <3>1, <3>2 DEF Unique, IndexAllows, SlugTaken
  <2> QED BY <1>1, <2>2, <2>3
<1>3. ASSUME NEW o \in Orgs, NEW kind \in {"service", "news"}, NEW i \in Of(kind, o)', NEW j \in Of(kind, o)',
             row'[i].slug = row'[j].slug
      PROVE  i = j
  <2>1. /\ i \in Items /\ row'[i] \notin {Unused, Gone} /\ row'[i].kind = kind /\ row'[i].org = o
        /\ j \in Items /\ row'[j] \notin {Unused, Gone} /\ row'[j].kind = kind /\ row'[j].org = o
    BY DEF Of, Rows, Exists
  <2>2. i = j \/ Calm(i) \/ Calm(j)
    BY <1>1, <2>1
  <2> QED BY <1>2, <1>3, <2>1, <2>2
<1> QED BY <1>3 DEF SlugFindsOne

LEMMA FavoriteStep ==
    ASSUME Basis, Going, FavoritesOnce
    PROVE  FavoritesOnce'
<1>1. PICK k : \A i \in Items : Calm(i) \/ (i = k /\ Makes(i))
  BY DEF Going, RowsGo
<1>2. ASSUME NEW i \in Items, NEW j \in Items, i # j,
             row'[i] \notin {Unused, Gone}, row'[j] \notin {Unused, Gone},
             row'[i].kind = "favorite", row'[j].kind = "favorite",
             row'[i].user = row'[j].user, row'[i].target = row'[j].target, Calm(j)
      PROVE  FALSE
  <2>1. j \in Rows("favorite") /\ row[j] = row'[j]
    BY <1>2, StillThere DEF Rows
  <2>2. CASE row'[i] = row[i]
    <3>1. i \in Rows("favorite")
      BY <1>2, <2>2 DEF Rows, Exists
    <3> QED BY <1>2, <2>1, <2>2, <3>1 DEF FavoritesOnce
  <2>3. CASE ~Keeps(row'[i].user, row'[i].target)
    BY <1>2, <2>1, <2>3 DEF Keeps, Favorites
  <2>4. row'[i] = row[i] \/ ~Keeps(row'[i].user, row'[i].target)
    <3>1. CASE Calm(i)
      BY <1>2, <3>1, StillThere
    <3>2. CASE Makes(i)
      BY <1>2, <3>2 DEF Makes, SameRow
    <3> QED BY <1>1, <3>1, <3>2
  <2> QED BY <2>2, <2>3, <2>4
<1>3. ASSUME NEW i \in Rows("favorite")', NEW j \in Rows("favorite")',
             row'[i].user = row'[j].user, row'[i].target = row'[j].target
      PROVE  i = j
  <2>1. /\ i \in Items /\ row'[i] \notin {Unused, Gone} /\ row'[i].kind = "favorite"
        /\ j \in Items /\ row'[j] \notin {Unused, Gone} /\ row'[j].kind = "favorite"
    BY DEF Rows, Exists
  <2>2. i = j \/ Calm(i) \/ Calm(j)
    BY <1>1, <2>1
  <2> QED BY <1>2, <1>3, <2>1, <2>2
<1> QED BY <1>3 DEF FavoritesOnce

LEMMA ArchiveStep ==
    ASSUME Basis, Going, Archived
    PROVE  Archived'
<1>0. Unused # Gone /\ Unused \notin Docs /\ Gone \notin Docs /\ row \in [Items -> {Unused, Gone} \cup Docs]
  BY IdsAssumption DEF Basis, Types
<1>1. PICK k : \A i \in Items : Calm(i) \/ (i = k /\ Makes(i))
  BY DEF Going, RowsGo
<1> DEFINE Shelved(i) == row'[i] \notin {Unused, Gone} /\ row'[i].kind = "archive" /\ row'[i].type = "news"
           Old(i) == row'[i] = row[i]
           New(i) == /\ i = k /\ row'[i].of \in Items /\ Exists(row'[i].of) /\ row'[row'[i].of] = Gone
<1>2. ASSUME NEW i \in Items, Shelved(i) PROVE Old(i) \/ New(i)
  <2>1. CASE Calm(i)
    BY <1>2, <2>1, StillThere
  <2>2. CASE i = k /\ Makes(i)
    BY <1>2, <2>2 DEF Makes, SameRow
  <2> QED BY <1>1, <2>1, <2>2
<1>3. ASSUME NEW i \in Items, Shelved(i), Old(i)
      PROVE  /\ i \in Rows("archive") /\ row[i].type = "news" /\ row[i].of \in Items /\ row[row[i].of] = Gone
             /\ ~Uploading(row[i].of)
  <2>1. i \in Rows("archive") /\ row[i].type = "news"
    BY <1>3 DEF Rows, Exists
  <2> QED BY <2>1 DEF Archived
<1>4. ASSUME NEW n \in Items, row[n] = Gone, ~Uploading(n) PROVE row'[n] = Gone /\ ~Uploading(n)'
  <2>1. Calm(n) \/ Makes(n)
    BY <1>1
  <2>2. row'[n] = Gone
    BY <1>0, <1>4, <2>1 DEF Calm, Makes, Exists, Uploading
  <2> QED BY <1>0, <1>4, <2>2 DEF Going
<1>5. ASSUME NEW n \in Items, Exists(n) PROVE ~Uploading(n)'
  <2>1. Taken(n)
    BY <1>0, <1>5 DEF Taken, Exists, Uploading, Basis, Works, Right, Making, Writing
  <2> QED BY <2>1, TakenStays DEF Taken
<1>6. ASSUME NEW i \in Items, NEW n, Shelved(i), n = row'[i].of
      PROVE  n \in Items /\ row'[n] = Gone /\ ~Uploading(n)'
  <2>1. CASE Old(i)
    BY <1>3, <1>4, <1>6, <2>1
  <2>2. CASE New(i)
    BY <1>5, <1>6, <2>2
  <2> QED BY <1>2, <1>6, <2>1, <2>2
<1>7. ASSUME NEW i \in Items, NEW j \in Items, Shelved(i), Shelved(j), row'[i].of = row'[j].of PROVE i = j
  <2>1. CASE Old(i) /\ Old(j)
    <3>1. i \in Rows("archive") /\ row[i].type = "news" /\ j \in Rows("archive") /\ row[j].type = "news" /\ row[i].of = row[j].of
      BY <1>3, <1>7, <2>1
    <3> QED BY <3>1 DEF Archived
  <2>2. CASE Old(i) /\ New(j)
    <3>1. row[row'[i].of] = Gone
      BY <1>3, <1>7, <2>2
    <3> QED BY <1>7, <2>2, <3>1 DEF Exists
  <2>3. CASE New(i) /\ Old(j)
    <3>1. row[row'[j].of] = Gone
      BY <1>3, <1>7, <2>3
    <3> QED BY <1>7, <2>3, <3>1 DEF Exists
  <2>4. CASE New(i) /\ New(j)
    BY <2>4
  <2> QED BY <1>2, <1>7, <2>1, <2>2, <2>3, <2>4
<1>8. \A i : i \in Rows("archive")' /\ row'[i].type = "news" <=> i \in Items /\ Shelved(i)
  BY DEF Rows, Exists
<1> HIDE DEF Old, New
<1>9. SUFFICES ASSUME NEW i \in Rows("archive")', row'[i].type = "news"
               PROVE  /\ (row[i].of \in Items)' /\ (row[row[i].of] = Gone)' /\ (~Uploading(row[i].of))'
                      /\ \A l \in Rows("archive")' : row'[l].type = "news" /\ row'[l].of = row'[i].of => l = i
  BY DEF Archived
<1>10. i \in Items /\ Shelved(i)
  BY <1>8, <1>9
<1>11. PICK n : n = row'[i].of
  OBVIOUS
<1>12. n \in Items /\ row'[n] = Gone /\ ~Uploading(n)'
  BY <1>6, <1>10, <1>11
<1>13. (~Uploading(row[i].of))'
  BY <1>11, <1>12 DEF Uploading
<1>14. ASSUME NEW l \in Rows("archive")', row'[l].type = "news", row'[l].of = row'[i].of PROVE l = i
  BY <1>7, <1>8, <1>10, <1>14
<1> QED BY <1>11, <1>12, <1>13, <1>14

-----------------------------------------------------------------------------
(* The theorems on rows and files.                                          *)

Told == SlugFindsOne /\ FavoritesOnce /\ Archived
Kept == Basis /\ Told

LEMMA InitKept == Init => Kept
<1> SUFFICES ASSUME Init PROVE Kept
  OBVIOUS
<1> DEFINE sc == Scenarios[offered]
<1>1. /\ sc.live \subseteq Orgs /\ row = sc.rows /\ offered \in DOMAIN Scenarios
      /\ Consistent(sc.rows, sc.live)
  BY ScenariosAssumption DEF Init
<1> HIDE DEF sc
<1>2. /\ row \in [Items -> Docs \cup {Unused}]
      /\ \A i \in Items : row[i] # Unused =>
            /\ Owners(row[i]) \subseteq sc.live
            /\ row[i].kind = "archive" => row[i].type # "news"
            /\ \A j \in Items : row[j] # Unused /\ Alike(row[i], row[j]) => i = j
  BY <1>1 DEF Consistent
<1>3. /\ org = [o \in Orgs |-> [state |-> IF o \in sc.live THEN "live" ELSE "none", version |-> 0, value |-> None]]
      /\ pend = [a \in Actors |-> Idle] /\ files = [i \in Items |-> IF i \in Rows("image") THEN "new" ELSE "none"]
      /\ now = 0 /\ lost = {} /\ silent = {}
  BY DEF Init, sc
<1>4. Types
  <2>1. files \in [Items -> {"none", "new", "old"}]
    BY <1>3
  <2>2. org \in [Orgs -> [state : {"none", "live", "gone"}, version : Nat, value : Values \cup {None}]]
    BY <1>3
  <2>3. row \in [Items -> {Unused, Gone} \cup Docs]
    BY <1>2
  <2>4. DOMAIN pend = Actors /\ now \in Nat /\ lost \in SUBSET Orgs /\ silent \in SUBSET Orgs /\ offered \in DOMAIN Scenarios
    BY <1>1, <1>3
  <2> QED BY <2>1, <2>2, <2>3, <2>4 DEF Types
<1>5. Owned
  <2>1. sc.live \subseteq Born
    BY <1>1, <1>3 DEF Born
  <2> QED BY <1>2, <2>1 DEF Owned, Owners
<1>6. \A a \in Actors : pend[a].step = "idle"
  BY <1>3 DEF Idle
<1>7. Works /\ Apart
  BY <1>6 DEF Works, Right, Apart, Reserves, Making
<1>8. Filed
  <2>1. \A i \in Items : files[i] = "none" \/ files[i] = "new"
    BY <1>3
  <2>2. \A i \in Items : files[i] # "none" <=> Exists(i) /\ row[i].kind = "image"
    BY <1>3 DEF Rows
  <2> QED BY <2>1, <2>2 DEF Filed, Exists
<1>9. SlugFindsOne /\ FavoritesOnce
  <2>1. ASSUME NEW i \in Items, NEW j \in Items, Exists(i), Exists(j), Alike(row[i], row[j]) PROVE i = j
    BY <1>2, <2>1 DEF Exists
  <2> QED BY <2>1 DEF SlugFindsOne, FavoritesOnce, Alike, Of, Rows
<1>10. Archived
  BY <1>2 DEF Archived, Rows, Exists
<1> QED BY <1>4, <1>5, <1>7, <1>8, <1>9, <1>10 DEF Kept, Basis, Told

LEMMA NextKept == Kept /\ [Next]_vars => Kept'
BY NextBasis, SlugStep, FavoriteStep, ArchiveStep DEF Kept, Told

\* What is never done twice is not done twice: see NothingTwice.  An item that
\* was archived is gone for good, its id is not that of an upload, and a handler
\* that has it in hand finds nothing to archive.
THEOREM NothingDoneTwice == Spec => []NothingTwice
<1>1. Init => Kept
  BY InitKept
<1>2. Kept /\ [Next]_vars => Kept'
  BY NextKept
<1>3. Kept => NothingTwice
  BY DEF Kept, Told, NothingTwice, Archived, ArchivedOnce, Exists
<1> QED BY <1>1, <1>2, <1>3, PTL DEF Spec

\* The jobs take nothing that is in use: see JobsSpareTheLiving.  A file goes
\* only if its id names no image that was answered for, and will not; and an
\* organization that was referenced and did not exist afterwards is dead.
THEOREM JobsSpare == Spec => []JobsSpareTheLiving
<1>1. Init => Kept
  BY InitKept
<1>2. Kept /\ [Next]_vars => Kept'
  BY NextKept
<1>3. Kept => JobsSpareTheLiving
  <2> SUFFICES ASSUME Kept PROVE JobsSpareTheLiving
    OBVIOUS
  <2>1. ToldImagesServe
    BY DEF Kept, Basis, Filed, ToldImagesServe, Rows
  <2>2. ASSUME NEW a \in Actors, pend[a].step = "cascade" PROVE pend[a].orgs \cap Live = {}
    <3>1. CascadeOf(pend[a])
      BY <2>2 DEF Kept, Basis, Works, Right, Making, Writing
    <3> QED BY <3>1 DEF CascadeOf, Dead, Live
  <2> QED BY <2>1, <2>2 DEF JobsSpareTheLiving, OnlyTheDead
<1> QED BY <1>1, <1>2, <1>3, PTL DEF Spec

-----------------------------------------------------------------------------
(* Categories stay in their organizations.                                  *)

LEMMA InitHomed == Init => Homed
<1> SUFFICES ASSUME Init PROVE Homed
  OBVIOUS
<1> DEFINE home == [i \in Items |-> IF Exists(i) /\ row[i].kind = "category" THEN row[i].org ELSE None]
<1>1. /\ Consistent(row, Scenarios[offered].live) /\ Basis
      /\ \A a \in Actors : pend[a].step = "idle"
  BY ScenariosAssumption, InitKept DEF Init, Kept, Idle
<1>2. home \in [Items -> Orgs \cup {None}]
  BY <1>1, DocsAre DEF Basis, Types, Exists
<1>3. \A i \in Rows("category") : row[i].org = home[i]
  BY DEF Rows
<1>4. ASSUME NEW i \in Rows("service"), row[i].category # None PROVE Held(home, row[i].category, row[i].org)
  <2>1. row[i] \in Docs /\ row[i].kind = "service" /\ row[i] # Unused /\ i \in Items
    BY <1>1, ThereIs
  <2>2. row[i].category \in Items
    BY <1>4, <2>1 DEF Docs
  <2>3. /\ row[row[i].category] # Unused /\ row[row[i].category].kind = "category"
        /\ row[row[i].category].org = row[i].org
    BY <1>1, <1>4, <2>1 DEF Consistent
  <2>4. Exists(row[i].category)
    BY <1>1, <2>2, <2>3, IdsAssumption DEF Exists, Consistent
  <2> QED BY <2>2, <2>3, <2>4 DEF Held
<1>5. \A a \in Actors : HomeRight(home, pend[a])
  BY <1>1 DEF HomeRight
<1> HIDE DEF home
<1> QED BY <1>2, <1>3, <1>4, <1>5 DEF Homed, Homes

LEMMA HomedStep ==
    ASSUME Basis, Basis', Going, Homed
    PROVE  Homed'
<1>0. /\ Unused # Gone /\ Unused \notin Docs /\ Gone \notin Docs
      /\ row \in [Items -> {Unused, Gone} \cup Docs] /\ row' \in [Items -> {Unused, Gone} \cup Docs]
  BY IdsAssumption DEF Basis, Types
<1>1. PICK home \in [Items -> Orgs \cup {None}] : Homes(home)
  BY DEF Homed
<1>2. PICK next : next = [i \in Items |-> IF row[i] = Unused /\ row'[i] \notin {Unused, Gone} /\ row'[i].kind = "category"
                                          THEN row'[i].org ELSE home[i]]
  OBVIOUS
<1>3. next \in [Items -> Orgs \cup {None}]
  BY <1>0, <1>1, <1>2, DocsAre
<1>4. ASSUME NEW c, NEW o, Held(home, c, o) PROVE Held(next, c, o)'
  <2>1. c \in Items /\ row[c] # Unused /\ home[c] = o
    BY <1>4 DEF Held
  <2> QED BY <1>2, <2>1, TakenStays DEF Held
<1>5. ASSUME NEW i \in Items, row'[i] \notin {Unused, Gone}, row'[i].kind = "category" PROVE row'[i].org = next[i]
  <2>1. CASE Exists(i) /\ row[i].kind = "category" /\ row'[i].org = row[i].org
    <3>1. row[i].org = home[i]
      BY <1>1, <2>1 DEF Homes, Rows
    <3>2. row[i] # Unused
      BY <2>1 DEF Exists
    <3> QED BY <1>2, <2>1, <3>1, <3>2
  <2>2. CASE row[i] = Unused
    BY <1>2, <1>5, <2>2
  <2>3. CASE Calm(i)
    BY <1>5, <2>1, <2>3, StillThere
  <2>4. CASE Makes(i)
    BY <1>5, <2>1, <2>2, <2>4 DEF Makes, SameRow
  <2> QED BY <2>3, <2>4, RowGoes DEF Going
<1>6. ASSUME NEW i \in Items, row'[i] \notin {Unused, Gone}, row'[i].kind = "service", row'[i].category # None
      PROVE  Held(home, row'[i].category, row'[i].org)
  <2>1. CASE Exists(i) /\ row[i].kind = "service" /\ row'[i].org = row[i].org /\ row'[i].category = row[i].category
    <3>1. i \in Rows("service")
      BY <2>1 DEF Rows
    <3> QED BY <1>1, <1>6, <2>1, <3>1 DEF Homes
  <2>2. CASE Placed(i) /\ (Exists(i) => row'[i].org = row[i].org)
    BY <1>1, <1>6, <2>1, <2>2 DEF Placed
  <2>3. CASE Calm(i)
    <3>1. Exists(i) /\ row[i].kind = "service" /\ row'[i].org = row[i].org
      BY <1>6, <2>3, StillThere
    <3>2. row'[i].category = row[i].category
      BY <1>6, <2>3, <3>1 DEF Calm
    <3> QED BY <2>1, <3>1, <3>2
  <2>4. CASE Makes(i)
    BY <1>0, <1>6, <2>2, <2>4 DEF Makes, SameRow, Exists
  <2> QED BY <2>3, <2>4, RowGoes DEF Going
<1>7. ASSUME NEW b \in Actors PROVE HomeRight(next, pend[b])'
  <2>1. HomeRight(home, pend'[b])
    BY <1>1 DEF Homes, Going, Settles
  <2>2. PICK p : p = pend'[b]
    OBVIOUS
  <2>3. HomeRight(next, p)'
    BY <1>4, <2>1, <2>2 DEF HomeRight
  <2> QED BY <2>2, <2>3
<1>8. /\ \A i \in Rows("category")' : row'[i].org = next[i]
      /\ \A i \in Rows("service")' : row'[i].category # None => Held(next, row[i].category, row[i].org)'
  <2>1. ASSUME NEW i \in Rows("service")', row'[i].category # None PROVE Held(next, row[i].category, row[i].org)'
    <3>1. Held(home, row'[i].category, row'[i].org)
      BY <1>6, <2>1 DEF Rows, Exists
    <3>2. PICK c, o : c = row'[i].category /\ o = row'[i].org
      OBVIOUS
    <3>3. Held(next, c, o)'
      BY <1>4, <3>1, <3>2
    <3> QED BY <3>2, <3>3
  <2> QED BY <1>5, <2>1 DEF Rows, Exists
<1>9. Homes(next)'
  BY <1>3, <1>7, <1>8 DEF Homes
<1> QED BY <1>3, <1>9 DEF Homed

-----------------------------------------------------------------------------
(* What is seen of an organization, and its version.                        *)

Parts == {"category", "infosection", "service", "news", "image"}
PartOf(r, o) == r \notin {Unused, Gone} /\ r.kind \in Parts /\ r.org = o
SameRows(o) == \A i \in Items : row'[i] = row[i] \/ (~PartOf(row[i], o) /\ ~PartOf(row'[i], o))
FaceGoes(o) ==
    /\ org[o].version <= org'[o].version
    /\ org'[o].version = org[o].version /\ ~Dirty(o)' =>
          ~Dirty(o) /\ SameRows(o) /\ org'[o].value = org[o].value

LEMMA DirtyStays ==
    ASSUME Basis, NEW o, lost \subseteq lost', silent \subseteq silent',
           pend' = pend \/ \E a \in Actors : \E w : Turn(a, w) /\ ~DirtyBy(pend[a], o),
           Dirty(o)
    PROVE  Dirty(o)'
<1>1. CASE pend' = pend
  BY <1>1 DEF Dirty, DirtyBy
<1>2. ASSUME NEW a \in Actors, NEW w, Turn(a, w), ~DirtyBy(pend[a], o) PROVE Dirty(o)'
  <2>1. \A b \in Actors \ {a} : pend'[b] = pend[b]
    BY <1>2, TurnIs
  <2>2. CASE o \in lost \/ o \in silent
    BY <2>2 DEF Dirty
  <2>3. ASSUME NEW b \in Actors, DirtyBy(pend[b], o) PROVE Dirty(o)'
    <3>1. pend'[b] = pend[b]
      BY <1>2, <2>1, <2>3
    <3>2. DirtyBy(pend[b], o)'
      BY <2>3, <3>1 DEF DirtyBy
    <3> QED BY <3>2 DEF Dirty
  <2> QED BY <2>2, <2>3 DEF Dirty
<1> QED BY <1>1, <1>2

\* The steps that write no part of it.
LEMMA FaceRests ==
    ASSUME Basis, NEW o \in Orgs, org'[o] = org[o], SameRows(o), lost \subseteq lost', silent \subseteq silent',
           pend' = pend \/ \E a \in Actors : \E w : Turn(a, w) /\ ~DirtyBy(pend[a], o)
    PROVE  FaceGoes(o)
<1>1. org[o].version \in Nat
  BY DEF Basis, Types
<1>2. Dirty(o) => Dirty(o)'
  BY DirtyStays
<1> QED BY <1>1, <1>2 DEF FaceGoes

\* The steps that write its version.
LEMMA FaceBumps ==
    ASSUME Basis, NEW o \in Orgs, org'[o].version = org[o].version + 1
    PROVE  FaceGoes(o)
<1>1. org[o].version \in Nat
  BY DEF Basis, Types
<1> QED BY <1>1 DEF FaceGoes

\* The steps after which it is behind.
LEMMA FaceFalls ==
    ASSUME Basis, NEW o \in Orgs, org'[o] = org[o], Dirty(o)'
    PROVE  FaceGoes(o)
<1>1. org[o].version \in Nat
  BY DEF Basis, Types
<1> QED BY <1>1 DEF FaceGoes

\* A transaction writes the version of the organization whose parts it writes.
LEMMA FaceBumped ==
    ASSUME Basis, NEW o \in Live, NEW a \in Actors, NEW w, Turn(a, w), ~DirtyBy(pend[a], o), lost' = lost, silent' = silent,
           NEW q, org' = Bumped(org, q), q # o => SameRows(o)
    PROVE  FaceGoes(o)
<1>1. o \in Orgs /\ org[o].state = "live"
  BY DEF Live
<1>2. CASE q = o
  BY <1>1, <1>2, BumpedIs, FaceBumps
<1>3. CASE q # o
  <2>1. org'[o] = org[o]
    BY <1>1, <1>3 DEF Bumped
  <2> QED BY <1>1, <1>3, <2>1, FaceRests
<1> QED BY <1>2, <1>3

LEMMA FaceCommits ==
    ASSUME Basis, NEW o \in Live, NEW a \in Actors, NEW w, NEW rows, NEW q, InTransaction(a, rows, q, w),
           pend[a].step \notin {"touch", "record"}, q # o => SameRows(o)
    PROVE  FaceGoes(o)
BY FaceBumped DEF InTransaction, counters, Turn, DirtyBy

\* The steps that leave documents alone.
LEMMA FaceLooks ==
    ASSUME Basis, NEW o \in Orgs, row' = row, org' = org, lost' = lost, silent' = silent,
           pend' = pend \/ \E a \in Actors : \E w : Turn(a, w) /\ pend[a].step \notin {"touch", "record"}
    PROVE  FaceGoes(o)
BY FaceRests DEF SameRows, DirtyBy

\* A row written in place of another.
LEMMA OneRow ==
    ASSUME Basis, NEW o, NEW i, NEW r, row' = [row EXCEPT ![i] = r],
           ~PartOf(row[i], o), ~PartOf(r, o)
    PROVE  SameRows(o)
BY DEF SameRows, Basis, Types

\* Plain writes leave the version behind, till the next write.
LEMMA FaceWritten ==
    ASSUME Basis, NEW o \in Live, NEW a \in Actors, NEW w, NEW i, NEW r, NEW q,
           Turn(a, w), UNCHANGED <<org, lost, silent>>, pend[a].step \notin {"touch", "record"},
           row' = [row EXCEPT ![i] = r],
           q = o => DirtyBy(w, o),
           q # o => ~PartOf(row[i], o) /\ ~PartOf(r, o)
    PROVE  FaceGoes(o)
<1>1. o \in Orgs
  BY DEF Live
<1>2. CASE q = o
  <2>1. pend'[a] = w
    BY TurnIs
  <2>2. DirtyBy(pend[a], o)'
    BY <1>2, <2>1 DEF DirtyBy
  <2> QED BY <1>1, <2>2, FaceFalls DEF Dirty
<1>3. CASE q # o
  BY <1>1, <1>3, OneRow, FaceRests DEF DirtyBy
<1> QED BY <1>2, <1>3

LEMMA WriteRowFace ==
    ASSUME Basis, NEW o \in Live, NEW a \in Actors, WriteRow(a)
    PROVE  FaceGoes(o)
<1> DEFINE p == pend[a]
           w == IF p.org = None THEN Idle ELSE Bump(p.org)
<1>0. UNCHANGED <<org, files, now, lost, silent, offered>> /\ o \in Orgs /\ o # None
  BY IdsAssumption DEF WriteRow, counters, Live
<1>1. p.org = o => DirtyBy(w, o)
  BY <1>0 DEF DirtyBy, Bump
<1>2. p.step \in {"insert", "set", "delete"}
  BY DEF WriteRow
<1>3. ASSUME row' = row, Turn(a, Idle) PROVE FaceGoes(o)
  BY <1>0, <1>2, <1>3, FaceLooks
<1> HIDE DEF w
<1>4. CASE p.step = "insert"
  <2>1. MakingRight(p)
    BY <1>4 DEF Basis, Works, Right, Making, Writing
  <2>2. CASE Unique(p.item, p.made)
    <3>0. PICK r : r = p.made
      OBVIOUS
    <3>1. row' = [row EXCEPT ![p.item] = r] /\ Turn(a, w)
      BY <1>4, <2>2, <3>0 DEF WriteRow, Turn, w
    <3>2. p.org # o => ~PartOf(row[p.item], o) /\ ~PartOf(r, o)
      BY <1>4, <2>1, <3>0 DEF MakingRight, PartOf, Parts
    <3> QED BY <1>0, <1>1, <1>2, <3>1, <3>2, FaceWritten
  <2>3. CASE ~Unique(p.item, p.made)
    BY <1>3, <1>4, <2>3 DEF WriteRow, Turn
  <2> QED BY <2>2, <2>3
<1>5. CASE p.step = "set"
  <2>1. p.item \in Items /\ Fits(p.change) /\ (Exists(p.item) => Names(p, row[p.item]))
    BY <1>5 DEF Basis, Works, Right, Making, Writing, WritingRight
  <2>2. CASE Exists(p.item) /\ Unique(p.item, Set(row[p.item], p.change))
    <3> DEFINE r == Set(row[p.item], p.change)
    <3>1. row' = [row EXCEPT ![p.item] = r] /\ Turn(a, w)
      BY <1>5, <2>2 DEF WriteRow, Turn, w
    <3>2. row[p.item] \in Docs
      BY <2>1, <2>2 DEF Exists, Basis, Types
    <3>3. r.kind = row[p.item].kind /\ (row[p.item].kind # "user" => r.org = row[p.item].org)
      BY <2>1, <3>2, SetIs
    <3> HIDE DEF r
    <3>4. p.org # o => ~PartOf(row[p.item], o) /\ ~PartOf(r, o)
      BY <1>5, <2>1, <2>2, <3>3 DEF Names, PartOf, Parts
    <3> QED BY <1>0, <1>1, <1>2, <3>1, <3>4, FaceWritten
  <2>3. CASE ~(Exists(p.item) /\ Unique(p.item, Set(row[p.item], p.change)))
    BY <1>3, <1>5, <2>3 DEF WriteRow, Turn
  <2> QED BY <2>2, <2>3
<1>6. CASE p.step = "delete"
  <2>1. p.item \in Items /\ (Exists(p.item) => Names(p, row[p.item]))
    BY <1>6 DEF Basis, Works, Right, Making, Writing, WritingRight
  <2>2. row' = [row EXCEPT ![p.item] = Gone] /\ Turn(a, w)
    BY <1>6 DEF WriteRow, Turn, w
  <2>3. p.org # o => ~PartOf(row[p.item], o) /\ ~PartOf(Gone, o)
    BY <1>6, <2>1 DEF Names, PartOf, Parts, Exists
  <2> QED BY <1>0, <1>1, <1>2, <2>2, <2>3, FaceWritten
<1> QED BY <1>2, <1>4, <1>5, <1>6

LEMMA VersionFace ==
    ASSUME Basis, NEW o \in Live, NEW a \in Actors, Touch(a) \/ Record(a)
    PROVE  FaceGoes(o)
<1> DEFINE p == pend[a]
<1>1. UNCHANGED <<row, lost, silent>> /\ Turn(a, Idle) /\ o \in Orgs /\ org[o].state = "live"
  BY DEF Touch, Record, counters, Turn, Live
<1>2. CASE org' = Bumped(org, p.org) /\ p.org = o
  BY <1>1, <1>2, BumpedIs, FaceBumps
<1>3. CASE org' = Bumped(org, p.org) /\ p.org # o
  <2>1. org'[o] = org[o]
    BY <1>1, <1>3 DEF Bumped
  <2> QED BY <1>1, <1>3, <2>1, FaceRests DEF SameRows, DirtyBy
<1>4. CASE org' = org /\ p.step = "record" /\ p.same
  BY <1>1, <1>4, FaceRests DEF SameRows, DirtyBy
<1> QED BY <1>2, <1>3, <1>4 DEF Touch, Record

LEMMA CrashFace ==
    ASSUME Basis, NEW o \in Live, NEW a \in Actors, Crash(a)
    PROVE  FaceGoes(o)
<1>1. UNCHANGED <<row, org, silent>> /\ Turn(a, Idle) /\ lost \subseteq lost' /\ o \in Orgs
  BY DEF Crash, documents, Turn, Live
<1>2. CASE DirtyBy(pend[a], o)
  <2>1. o \in lost'
    BY <1>2 DEF Crash, DirtyBy
  <2> QED BY <1>1, <2>1, FaceFalls DEF Dirty
<1>3. CASE ~DirtyBy(pend[a], o)
  BY <1>1, <1>3, FaceRests DEF SameRows
<1> QED BY <1>2, <1>3

LEMMA WriteServiceFace ==
    ASSUME Basis, NEW o \in Live, NEW a \in Actors, WriteService(a)
    PROVE  FaceGoes(o)
<1> DEFINE p == pend[a]
<1>1. p.step = "set_service" /\ UNCHANGED <<org, lost>> /\ o \in Orgs
  BY DEF WriteService, Live
<1>2. p.item \in Items /\ Fits(p.change) /\ (Exists(p.item) => Names(p, row[p.item]))
  BY <1>1 DEF Basis, Works, Right, Making, Writing, WritingRight
<1>3. CASE Exists(p.item) /\ Unique(p.item, Set(row[p.item], p.change))
  <2> DEFINE r == Set(row[p.item], p.change)
             w == [step |-> "record", org |-> p.org, same |-> row'[p.item] = p.read]
  <2>1. Turn(a, w) /\ row' = [row EXCEPT ![p.item] = r]
        /\ silent' = IF row'[p.item] = p.read /\ row' # row THEN silent \cup {p.org} ELSE silent
    BY <1>3 DEF WriteService, Turn
  <2>2. row[p.item] \in Docs /\ row[p.item].kind = "service" /\ row[p.item].org = p.org
    BY <1>1, <1>2, <1>3 DEF Exists, Names, Basis, Types
  <2>3. r.org = p.org
    BY <1>2, <2>2, SetIs
  <2>4. w.step = "record" /\ w.org = p.org /\ (w.same <=> row'[p.item] = p.read)
    OBVIOUS
  <2> HIDE DEF r, w
  <2>5. pend'[a] = w
    BY <2>1, TurnIs
  <2>6. CASE p.org = o /\ row'[p.item] # p.read
    <3>1. DirtyBy(pend[a], o)'
      BY <2>4, <2>5, <2>6 DEF DirtyBy
    <3> QED BY <1>1, <3>1, FaceFalls DEF Dirty
  <2>7. CASE p.org = o /\ row'[p.item] = p.read /\ row' # row
    <3>1. o \in silent'
      BY <2>1, <2>7
    <3> QED BY <1>1, <3>1, FaceFalls DEF Dirty
  <2>8. CASE p.org = o /\ row'[p.item] = p.read /\ row' = row
    BY <1>1, <2>1, <2>8, FaceLooks
  <2>9. CASE p.org # o
    <3>1. ~PartOf(row[p.item], o) /\ ~PartOf(r, o)
      BY <2>2, <2>3, <2>9 DEF PartOf
    <3>2. SameRows(o)
      BY <2>1, <3>1, OneRow
    <3>3. silent \subseteq silent'
      BY <2>1
    <3> QED BY <1>1, <2>1, <3>2, <3>3, FaceRests DEF DirtyBy
  <2> QED BY <2>6, <2>7, <2>8, <2>9
<1>4. CASE ~(Exists(p.item) /\ Unique(p.item, Set(row[p.item], p.change)))
  <2>1. Turn(a, Idle) /\ row' = row /\ silent' = silent
    BY <1>4 DEF WriteService, Turn
  <2> QED BY <1>1, <2>1, FaceLooks
<1> QED BY <1>3, <1>4

LEMMA CommitServiceFace ==
    ASSUME Basis, NEW o \in Live, NEW a \in Actors, CommitCreateService(a) \/ CommitTrashService(a)
    PROVE  FaceGoes(o)
<1>1. PICK p : p = pend[a]
  OBVIOUS
<1>2. p.step \in {"create_service", "trash_service"}
  BY <1>1 DEF CommitCreateService, CommitTrashService
<1>3. ASSUME InTransaction(a, row, None, Idle) PROVE FaceGoes(o)
  BY <1>1, <1>2, <1>3, FaceCommits DEF InTransaction, SameRows
<1>4. ASSUME NEW r, InTransaction(a, [row EXCEPT ![p.item] = r], p.org, Idle),
             p.org # o => ~PartOf(row[p.item], o) /\ ~PartOf(r, o)
      PROVE  FaceGoes(o)
  <2>1. PICK rows : rows = [row EXCEPT ![p.item] = r]
    OBVIOUS
  <2>2. row' = rows
    BY <1>4, <2>1 DEF InTransaction
  <2>3. p.org # o => SameRows(o)
    BY <1>4, <2>1, <2>2, OneRow
  <2> QED BY <1>1, <1>2, <1>4, <2>1, <2>3, FaceCommits
<1>5. CASE CommitCreateService(a)
  <2>1. MakingRight(p) /\ p.step = "create_service"
    BY <1>1, <1>5 DEF CommitCreateService, Basis, Works, Right, Making, Writing
  <2>2. PICK r : r = p.made
    OBVIOUS
  <2>3. p.org # o => ~PartOf(row[p.item], o) /\ ~PartOf(r, o)
    BY <2>1, <2>2 DEF MakingRight, PartOf
  <2>4. InTransaction(a, [row EXCEPT ![p.item] = r], p.org, Idle) \/ InTransaction(a, row, None, Idle)
    BY <1>1, <1>5, <2>2 DEF CommitCreateService
  <2> QED BY <1>3, <1>4, <2>3, <2>4
<1>6. CASE CommitTrashService(a)
  <2>1. p.item \in Items /\ (Exists(p.item) => row[p.item].kind = "service" /\ row[p.item].org = p.org)
    BY <1>1, <1>6 DEF CommitTrashService, Basis, Works, Right, Making, Writing, WritingRight, Names
  <2>2. CASE Exists(p.item)
    <3>1. PICK r : r = [row[p.item] EXCEPT !.deleted = TRUE]
      OBVIOUS
    <3>2. row[p.item] \in Docs
      BY <2>1, <2>2 DEF Exists, Basis, Types
    <3>3. r.org = p.org
      BY <2>1, <2>2, <3>1, <3>2 DEF Docs
    <3>4. InTransaction(a, [row EXCEPT ![p.item] = r], p.org, Idle)
      BY <1>1, <1>6, <2>2, <3>1 DEF CommitTrashService
    <3>5. p.org # o => ~PartOf(row[p.item], o) /\ ~PartOf(r, o)
      BY <2>1, <2>2, <3>3 DEF PartOf
    <3> QED BY <1>4, <3>4, <3>5
  <2>3. CASE ~Exists(p.item)
    <3>1. InTransaction(a, row, None, Idle)
      BY <1>1, <1>6, <2>3 DEF CommitTrashService
    <3> QED BY <1>3, <3>1
  <2> QED BY <2>2, <2>3
<1> QED BY <1>5, <1>6

LEMMA CommitRemovalsFace ==
    ASSUME Basis, NEW o \in Live, NEW a \in Actors, CommitDeleteImage(a) \/ CommitDeleteUser(a) \/ CommitFavorite(a)
    PROVE  FaceGoes(o)
<1>1. PICK p : p = pend[a]
  OBVIOUS
<1>2. p.step \in {"delete_image", "delete_user", "favorite"}
  BY <1>1 DEF CommitDeleteImage, CommitDeleteUser, CommitFavorite
<1>3. CASE CommitDeleteImage(a)
  <2>1. p.item \in Items /\ (Exists(p.item) => row[p.item].org = p.org)
    BY <1>1, <1>3 DEF CommitDeleteImage, Basis, Works, Right, Making, Writing, WritingRight, Names
  <2>2. PICK rows, w : rows = [row EXCEPT ![p.item] = Gone] /\ w = Unlink({p.item})
    OBVIOUS
  <2>3. InTransaction(a, rows, p.org, w)
    BY <1>1, <1>3, <2>2 DEF CommitDeleteImage
  <2>4. row' = [row EXCEPT ![p.item] = Gone]
    BY <2>2, <2>3 DEF InTransaction
  <2>5. p.org # o => SameRows(o)
    BY <2>1, <2>4, OneRow DEF PartOf, Exists
  <2> QED BY <1>1, <1>2, <2>3, <2>5, FaceCommits
<1>4. CASE CommitDeleteUser(a)
  <2>1. p.item \in Items /\ (Exists(p.item) => row[p.item].kind = "user")
    BY <1>1, <1>4 DEF CommitDeleteUser, Basis, Works, Right, Making, Writing, WritingRight, Names
  <2>2. PICK rows : rows = [UserHooks(row, p.item) EXCEPT ![p.item] = Gone]
    OBVIOUS
  <2>3. InTransaction(a, rows, None, Idle)
    BY <1>1, <1>4, <2>2 DEF CommitDeleteUser
  <2>4. row' = [UserHooks(row, p.item) EXCEPT ![p.item] = Gone]
    BY <2>2, <2>3 DEF InTransaction
  <2>5. ASSUME NEW i \in Items PROVE row'[i] = row[i] \/ (~PartOf(row[i], o) /\ ~PartOf(row'[i], o))
    BY <2>1, <2>4 DEF UserHooks, PartOf, Parts, Exists
  <2> QED BY <1>1, <1>2, <2>3, <2>5, FaceCommits DEF SameRows
<1>5. CASE CommitFavorite(a)
  <2>1. p.step = "favorite" /\ MakingRight(p)
    BY <1>1, <1>5 DEF CommitFavorite, Basis, Works, Right, Making, Writing
  <2>2. PICK r : r = p.made
    OBVIOUS
  <2>3. ~PartOf(row[p.item], o) /\ ~PartOf(r, o)
    BY <2>1, <2>2 DEF MakingRight, PartOf, Parts
  <2>4. PICK rows : rows = IF Keeps(r.user, r.target) THEN row ELSE [row EXCEPT ![p.item] = r]
    OBVIOUS
  <2>5. InTransaction(a, rows, None, Idle)
    BY <1>1, <1>5, <2>2, <2>4 DEF CommitFavorite
  <2>6. row' = row \/ row' = [row EXCEPT ![p.item] = r]
    BY <2>4, <2>5 DEF InTransaction
  <2>7. SameRows(o)
    BY <2>3, <2>6, OneRow DEF SameRows
  <2> QED BY <1>1, <1>2, <2>5, <2>7, FaceCommits
<1> QED BY <1>3, <1>4, <1>5

LEMMA CommitReorderFace ==
    ASSUME Basis, NEW o \in Live, NEW a \in Actors, CommitReorder(a)
    PROVE  FaceGoes(o)
<1>1. PICK p : p = pend[a]
  OBVIOUS
<1>2. p.step = "reorder" /\ p.kind \in {"category", "infosection", "news", "service"}
  BY <1>1 DEF CommitReorder, Basis, Works, Right, Making, Writing, ReorderRight
<1>3. CASE DOMAIN p.order = Siblings(p.kind, p.org, p.category)
  <2>1. PICK rows : rows = Reordered(p.order)
    OBVIOUS
  <2>2. InTransaction(a, rows, p.org, Idle)
    BY <1>1, <1>3, <2>1 DEF CommitReorder
  <2>3. row' = Reordered(p.order)
    BY <2>1, <2>2 DEF InTransaction
  <2>4. ASSUME p.org # o, NEW i \in Items PROVE row'[i] = row[i] \/ (~PartOf(row[i], o) /\ ~PartOf(row'[i], o))
    <3>1. CASE i \in DOMAIN p.order
      <4>1. row[i] \in Docs /\ row[i].kind = p.kind /\ row[i].org = p.org
        BY <1>3, <3>1, ThereIs DEF Siblings, Of
      <4>2. row'[i] = [row[i] EXCEPT !.position = p.order[i]]
        BY <2>3, <3>1 DEF Reordered
      <4>3. row'[i].org = p.org
        BY <1>2, <4>1, <4>2 DEF Docs
      <4> QED BY <2>4, <4>1, <4>3 DEF PartOf
    <3>2. CASE i \notin DOMAIN p.order
      BY <2>3, <3>2 DEF Reordered
    <3> QED BY <3>1, <3>2
  <2> QED BY <1>1, <1>2, <2>2, <2>4, FaceCommits DEF SameRows
<1>4. CASE DOMAIN p.order # Siblings(p.kind, p.org, p.category)
  <2>1. InTransaction(a, row, None, Idle)
    BY <1>1, <1>4 DEF CommitReorder
  <2> QED BY <1>1, <1>2, <2>1, FaceCommits DEF InTransaction, SameRows
<1> QED BY <1>3, <1>4

\* The services in a category are of its organization, so that a deletion that
\* takes them out of it writes the version that has to change.
LEMMA CommitDeleteCategoryFace ==
    ASSUME Basis, Homed, NEW o \in Live, NEW a \in Actors, CommitDeleteCategory(a)
    PROVE  FaceGoes(o)
<1>1. PICK p : p = pend[a]
  OBVIOUS
<1>2. p.step = "delete_category" /\ p.item \in Items /\ (Exists(p.item) => row[p.item].org = p.org)
  BY <1>1 DEF CommitDeleteCategory, Basis, Works, Right, Making, Writing, WritingRight, Names
<1>3. CASE CategoryIsEmpty(p.item)
  <2>1. PICK rows : rows = [CategoryHooks(row, p.item) EXCEPT ![p.item] = Gone]
    OBVIOUS
  <2>2. InTransaction(a, rows, p.org, Idle)
    BY <1>1, <1>3, <2>1 DEF CommitDeleteCategory
  <2>3. row' = [CategoryHooks(row, p.item) EXCEPT ![p.item] = Gone]
    BY <2>1, <2>2 DEF InTransaction
  <2>4. PICK home \in [Items -> Orgs \cup {None}] : Homes(home)
    BY DEF Homed
  <2>5. home[p.item] = p.org
    BY <1>1, <1>2, <2>4 DEF Homes, HomeRight, Held
  <2>6. ASSUME p.org # o, NEW i \in Items PROVE row'[i] = row[i] \/ (~PartOf(row[i], o) /\ ~PartOf(row'[i], o))
    <3>1. CASE i = p.item
      BY <1>2, <2>3, <2>6, <3>1 DEF CategoryHooks, PartOf, Exists
    <3>2. CASE i # p.item /\ i \in InCategory(p.item)
      <4>1. i \in Rows("service") /\ row[i].category = p.item /\ row[i] \in Docs /\ row[i].kind = "service"
        BY <3>2, ThereIs DEF InCategory
      <4>2. p.item # None
        BY <1>2, IdsAssumption
      <4>3. row[i].org = p.org
        BY <2>4, <2>5, <4>1, <4>2 DEF Homes, Held
      <4>4. row'[i] = [row[i] EXCEPT !.category = None]
        BY <2>3, <3>2 DEF CategoryHooks
      <4>5. row'[i].org = row[i].org
        BY <4>1, <4>4 DEF Docs
      <4> QED BY <2>6, <4>3, <4>5 DEF PartOf
    <3>3. CASE i # p.item /\ i \notin InCategory(p.item)
      BY <2>3, <3>3 DEF CategoryHooks
    <3> QED BY <3>1, <3>2, <3>3
  <2> QED BY <1>1, <1>2, <2>2, <2>6, FaceCommits DEF SameRows
<1>4. CASE ~CategoryIsEmpty(p.item)
  <2>1. InTransaction(a, row, None, Idle)
    BY <1>1, <1>4 DEF CommitDeleteCategory
  <2> QED BY <1>1, <1>2, <2>1, FaceCommits DEF InTransaction, SameRows
<1> QED BY <1>3, <1>4

\* The rows of an organization that is removed are of no other.
LEMMA HooksElsewhere ==
    ASSUME Basis, NEW o, NEW q, q # o, row' = OrganizationHooks(row, q)
    PROVE  SameRows(o)
<1>1. ASSUME NEW i \in Items PROVE row'[i] = row[i] \/ (~PartOf(row[i], o) /\ ~PartOf(row'[i], o))
  <2>1. row'[i] = IF row[i] \in {Unused, Gone} THEN row[i]
                  ELSE IF row[i].kind = "user" THEN Detached(row[i], q)
                  ELSE IF row[i].org = q THEN Gone ELSE row[i]
    BY DEF OrganizationHooks
  <2>2. CASE row[i] \notin {Unused, Gone} /\ row[i].kind = "user"
    <3>1. row[i] \in [kind : {"user"}, orgs : SUBSET Orgs]
      BY <2>2 DEF Basis, Types, Docs
    <3>2. row'[i].kind = "user"
      BY <2>1, <2>2, <3>1 DEF Detached
    <3> QED BY <2>2, <3>2 DEF PartOf, Parts
  <2>3. CASE row[i] \in {Unused, Gone} \/ row[i].kind # "user"
    BY <2>1, <2>3 DEF PartOf
  <2> QED BY <2>2, <2>3
<1> QED BY <1>1 DEF SameRows

LEMMA ReconcileFace ==
    ASSUME Basis, NEW o \in Live, NEW a \in Actors, Reconcile(a)
    PROVE  FaceGoes(o)
<1>1. PICK p : p = pend[a]
  OBVIOUS
<1>2. p.step = "cascade" /\ CascadeOf(p)
  BY <1>1 DEF Reconcile, Basis, Works, Right, Making, Writing
<1>3. PICK q \in p.orgs : \E w : InTransaction(a, OrganizationHooks(row, q), None, w)
  BY <1>1 DEF Reconcile
<1>4. PICK w : InTransaction(a, OrganizationHooks(row, q), None, w)
  BY <1>3
<1>5. q # o
  BY <1>2 DEF CascadeOf, Dead, Live
<1>6. PICK rows : rows = OrganizationHooks(row, q)
  OBVIOUS
<1>7. row' = OrganizationHooks(row, q)
  BY <1>4 DEF InTransaction
<1> QED BY <1>1, <1>2, <1>4, <1>5, <1>6, <1>7, HooksElsewhere, FaceCommits

LEMMA ArchiveExpiredFace ==
    ASSUME Basis, NEW o \in Live, NEW a \in Actors, ArchiveExpired(a)
    PROVE  FaceGoes(o)
<1>1. PICK p : p = pend[a]
  OBVIOUS
<1>2. p.step = "expire" /\ ExpireRight(p)
  BY <1>1 DEF ArchiveExpired, Basis, Works, Right, Making, Writing
<1>3. PICK n \in DOMAIN p.news :
         IF Exists(n)
         THEN \E k \in Items : /\ Fresh(k)
                               /\ InTransaction(a, Snapshot(DeletedExpired(row, n), k, p.news[n], n), p.news[n], Rest(a, n))
         ELSE InTransaction(a, row, None, Rest(a, n))
  BY <1>1 DEF ArchiveExpired
<1>4. PICK w : w = Rest(a, n)
  OBVIOUS
<1>5. CASE ~Exists(n)
  <2>1. InTransaction(a, row, None, w)
    BY <1>3, <1>4, <1>5
  <2> QED BY <1>1, <1>2, <2>1, FaceCommits DEF InTransaction, SameRows
<1>6. CASE Exists(n)
  <2>1. PICK k \in Items : Fresh(k) /\ InTransaction(a, Snapshot(DeletedExpired(row, n), k, p.news[n], n), p.news[n], w)
    BY <1>3, <1>4, <1>6
  <2>2. n \in Items /\ p.news[n] \in Orgs /\ row[n].org = p.news[n] /\ row[k] = Unused
    BY <1>2, <1>6, <2>1, FreshIs DEF ExpireRight, Born
  <2>3. PICK r : r = Archive(p.news[n], "news", n)
    OBVIOUS
  <2>4. r.kind = "archive"
    BY <2>3 DEF Archive
  <2>5. PICK rows : rows = [[row EXCEPT ![n] = Gone] EXCEPT ![k] = r]
    OBVIOUS
  <2>6. InTransaction(a, rows, p.news[n], w) /\ row' = [[row EXCEPT ![n] = Gone] EXCEPT ![k] = r]
    BY <2>1, <2>3, <2>5 DEF InTransaction, Snapshot, DeletedExpired
  <2>7. ASSUME p.news[n] # o, NEW i \in Items PROVE row'[i] = row[i] \/ (~PartOf(row[i], o) /\ ~PartOf(row'[i], o))
    <3>1. row'[i] = IF i = k THEN r ELSE IF i = n THEN Gone ELSE row[i]
      BY <2>2, <2>6 DEF Basis, Types
    <3>2. ~PartOf(r, o) /\ ~PartOf(Gone, o) /\ ~PartOf(row[n], o) /\ ~PartOf(row[k], o)
      BY <2>2, <2>4, <2>7 DEF PartOf, Parts
    <3> QED BY <3>1, <3>2
  <2> QED BY <1>1, <1>2, <2>6, <2>7, FaceCommits DEF SameRows
<1> QED BY <1>5, <1>6

LEMMA CommitUploadFace ==
    ASSUME Basis, NEW o \in Live, NEW a \in Actors, CommitUpload(a)
    PROVE  FaceGoes(o)
<1>1. PICK p : p = pend[a]
  OBVIOUS
<1>2. p.step = "upload" /\ p.item \in Items /\ p.org \in Orgs /\ row[p.item] = Gone
  BY <1>1 DEF CommitUpload, Basis, Works, Right, Making, Writing, Born
<1>3. ASSUME NEW told, row' = [row EXCEPT ![p.item] = Image(p.org, told)], p.org # o PROVE SameRows(o)
  <2>1. PICK r : r = Image(p.org, told)
    OBVIOUS
  <2>2. ~PartOf(row[p.item], o) /\ ~PartOf(r, o)
    BY <1>2, <1>3, <2>1 DEF PartOf, Image
  <2> QED BY <1>3, <2>1, <2>2, OneRow
<1>4. CASE InTransaction(a, [row EXCEPT ![p.item] = Image(p.org, TRUE)], p.org, Idle)
  <2>1. PICK rows : rows = [row EXCEPT ![p.item] = Image(p.org, TRUE)]
    OBVIOUS
  <2>2. row' = [row EXCEPT ![p.item] = Image(p.org, TRUE)]
    BY <1>4 DEF InTransaction
  <2> QED BY <1>1, <1>2, <1>3, <1>4, <2>1, <2>2, FaceCommits
<1>5. ASSUME NEW w, Turn(a, w), UNCHANGED <<lost, silent>>,
             \/ row' = row /\ org' = org
             \/ row' = [row EXCEPT ![p.item] = Image(p.org, FALSE)] /\ org' = Bumped(org, p.org)
      PROVE  FaceGoes(o)
  <2>1. CASE row' = row /\ org' = org
    BY <1>1, <1>2, <1>5, <2>1, FaceLooks DEF Live
  <2>2. CASE row' = [row EXCEPT ![p.item] = Image(p.org, FALSE)] /\ org' = Bumped(org, p.org)
    BY <1>1, <1>2, <1>3, <1>5, <2>2, FaceBumped DEF DirtyBy
  <2> QED BY <1>5, <2>1, <2>2
<1> QED BY <1>1, <1>4, <1>5 DEF CommitUpload, Turn

LEMMA DeleteOrganizationFace ==
    ASSUME Basis, NEW o \in Live, o \in Live', NEW a \in Actors, NEW q, DeleteOrganization(a, q)
    PROVE  FaceGoes(o)
<1>1. PICK w : w = Unlink(FilesOf(q))
  OBVIOUS
<1>2. Turn(a, w) /\ org' = [org EXCEPT ![q].state = "gone"] /\ row' = OrganizationHooks(row, q) /\ UNCHANGED <<lost, silent>>
  BY <1>1 DEF DeleteOrganization, Begin, Turn
<1>3. q # o /\ org'[o] = org[o] /\ o \in Orgs
  BY <1>2 DEF Live, Basis, Types
<1>4. pend[a].step = "idle"
  BY DEF DeleteOrganization, Starts, Free, Busy
<1> QED BY <1>2, <1>3, <1>4, HooksElsewhere, FaceRests DEF DirtyBy

LEMMA PurgeFace ==
    ASSUME Basis, NEW o \in Live, NEW a \in Actors, NEW s, PurgeService(a, s)
    PROVE  FaceGoes(o)
<1>1. s \in Items /\ pend[a].step = "idle"
  BY DEF PurgeService, Rows, Starts, Free, Busy
<1>2. /\ Turn(a, Idle) /\ org' = Bumped(org, row[s].org) /\ row' = [ServiceHooks(row, s) EXCEPT ![s] = Gone]
      /\ UNCHANGED <<lost, silent>>
  BY DEF PurgeService, Begin, Turn
<1>3. ASSUME row[s].org # o, NEW i \in Items PROVE row'[i] = row[i] \/ (~PartOf(row[i], o) /\ ~PartOf(row'[i], o))
  <2>1. row'[i] = IF i = s THEN Gone
                  ELSE IF row[i] \in {Unused, Gone} THEN row[i]
                  ELSE IF row[i].kind = "favorite" /\ row[i].target = s THEN Gone
                  ELSE IF row[i].kind = "archive" /\ row[i].type = "service" /\ row[i].of = s THEN Gone
                  ELSE row[i]
    BY <1>1, <1>2 DEF ServiceHooks
  <2> QED BY <1>3, <2>1 DEF PartOf, Parts
<1> QED BY <1>1, <1>2, <1>3, FaceBumped DEF SameRows, DirtyBy

LEMMA UploadFace ==
    ASSUME Basis, NEW o \in Live, NEW a \in Actors, NEW i, NEW q, UploadImage(a, i, q)
    PROVE  FaceGoes(o)
<1>1. PICK w : w = [step |-> "upload", item |-> i, org |-> q]
  OBVIOUS
<1>2. Turn(a, w) /\ row' = [row EXCEPT ![i] = Gone] /\ UNCHANGED <<org, lost, silent>> /\ pend[a].step = "idle"
  BY <1>1 DEF UploadImage, Begin, Turn, Starts, Free, Busy
<1>3. row[i] = Unused /\ o \in Orgs
  BY FreshIs DEF UploadImage, Live
<1>4. SameRows(o)
  BY <1>2, <1>3, OneRow DEF PartOf
<1> QED BY <1>2, <1>3, <1>4, FaceRests DEF DirtyBy

LEMMA RestFace ==
    ASSUME Basis, NEW o \in Live,
           \/ \E q \in Orgs : CreateOrganization(q) \/ UpdateOrganization(q) \/ AskTree(q)
           \/ GetTree \/ Tick
           \/ \E i \in Items : Age(i) \/ RemoveFavorite(i)
           \/ UNCHANGED vars
    PROVE  FaceGoes(o)
<1>1. o \in Orgs /\ org[o].state = "live"
  BY DEF Live
<1>2. ASSUME NEW q \in Orgs, CreateOrganization(q) PROVE FaceGoes(o)
  <2>1. org'[o] = org[o] /\ UNCHANGED <<row, pend, lost, silent>>
    BY <1>1, <1>2 DEF CreateOrganization, Basis, Types
  <2> QED BY <1>1, <2>1, FaceRests DEF SameRows
<1>3. ASSUME NEW q \in Orgs, UpdateOrganization(q) PROVE FaceGoes(o)
  <2>1. PICK v \in Values : org' = [org EXCEPT ![q].value = v, ![q].version = @ + 1]
    BY <1>3 DEF UpdateOrganization
  <2>2. org'[q] = [org[q] EXCEPT !.value = v, !.version = @ + 1] /\ \A r \in Orgs \ {q} : org'[r] = org[r]
    BY <2>1 DEF Basis, Types
  <2>3. CASE q = o
    <3>1. org'[o].version = org[o].version + 1
      <4>1. org[o] \in [state : {"none", "live", "gone"}, version : Nat, value : Values \cup {None}]
        BY <1>1 DEF Basis, Types
      <4> QED BY <2>2, <2>3, <4>1
    <3> QED BY <1>1, <3>1, FaceBumps
  <2>4. CASE q # o
    <3>1. org'[o] = org[o] /\ UNCHANGED <<row, pend, lost, silent>>
      BY <1>1, <1>3, <2>2, <2>4 DEF UpdateOrganization
    <3> QED BY <1>1, <3>1, FaceRests DEF SameRows
  <2> QED BY <2>3, <2>4
<1>4. ASSUME NEW i \in Items, RemoveFavorite(i) PROVE FaceGoes(o)
  <2>1. row' = [row EXCEPT ![i] = Gone] /\ UNCHANGED <<org, pend, lost, silent>> /\ row[i].kind = "favorite"
    BY <1>4 DEF RemoveFavorite, Rows
  <2>2. SameRows(o)
    BY <2>1, OneRow DEF PartOf, Parts
  <2> QED BY <1>1, <2>1, <2>2, FaceRests
<1>5. ASSUME UNCHANGED <<org, row, pend, lost, silent>> PROVE FaceGoes(o)
  BY <1>1, <1>5, FaceLooks
<1>6. ASSUME NEW q, AskTree(q) \/ GetTree \/ Tick \/ (\E i \in Items : Age(i)) \/ UNCHANGED vars
      PROVE  UNCHANGED <<org, row, pend, lost, silent>>
  BY <1>6 DEF AskTree, GetTree, Tick, Age, vars, documents, counters
<1> QED BY <1>2, <1>3, <1>4, <1>5, <1>6

LEMMA CommitFace ==
    ASSUME Basis, Homed, NEW o \in Live, NEW a \in Actors, CatalogueWrite(a) \/ PortalCommit(a)
    PROVE  FaceGoes(o)
<1>1. ASSUME RemoveFiles(a) \/ SweepFiles(a) \/ ReadReferences(a) \/ StartCascade(a) PROVE FaceGoes(o)
  <2>1. UNCHANGED <<row, org, lost, silent>> /\ pend[a].step \notin {"touch", "record"} /\ o \in Orgs
    BY <1>1 DEF RemoveFiles, SweepFiles, ReadReferences, StartCascade, documents, counters, Live
  <2>2. \E w : Turn(a, w)
    BY <1>1 DEF RemoveFiles, SweepFiles, ReadReferences, StartCascade, Turn
  <2> QED BY <2>1, <2>2, FaceLooks
<1>2. ASSUME CatalogueWrite(a) PROVE FaceGoes(o)
  <2>1. \/ WriteRow(a) \/ Touch(a) \/ RemoveFiles(a)
        \/ CommitDeleteCategory(a) \/ CommitCreateService(a) \/ CommitTrashService(a) \/ CommitReorder(a)
        \/ WriteService(a) \/ Record(a)
    BY <1>2, Zenon DEF CatalogueWrite
  <2> QED BY <1>1, <2>1, WriteRowFace, VersionFace, CommitDeleteCategoryFace, CommitServiceFace,
             CommitReorderFace, WriteServiceFace
<1>3. ASSUME PortalCommit(a) PROVE FaceGoes(o)
  <2>1. \/ ArchiveExpired(a) \/ CommitUpload(a) \/ CommitDeleteImage(a) \/ SweepFiles(a)
        \/ CommitFavorite(a) \/ CommitDeleteUser(a)
        \/ ReadReferences(a) \/ StartCascade(a) \/ Reconcile(a)
    BY <1>3, Zenon DEF PortalCommit
  <2> QED BY <1>1, <2>1, ArchiveExpiredFace, CommitUploadFace, CommitRemovalsFace, ReconcileFace
<1> QED BY <1>2, <1>3

\* A step that leaves the version of an organization what it is, and not behind,
\* leaves the parts of the organization what they are.
LEMMA NextFace ==
    ASSUME Basis, Homed, [Next]_vars, NEW o \in Live, o \in Live'
    PROVE  FaceGoes(o)
<1>1. ASSUME NEW a \in Actors, Begun(a) PROVE FaceGoes(o)
  <2>1. PICK w : Reads(a, w)
    BY <1>1 DEF Begun
  <2>2. UNCHANGED <<row, org, lost, silent>> /\ Turn(a, w) /\ pend[a].step \notin {"touch", "record"} /\ o \in Orgs
    BY <2>1 DEF Reads, Turn, Busy, Live
  <2> QED BY <2>2, FaceLooks
<1>2. ASSUME NEW a \in Actors, CatalogueBegin(a) \/ PortalBegin(a) PROVE FaceGoes(o)
  BY <1>1, <1>2, CatalogueBegins, PortalBegins, DeleteOrganizationFace, PurgeFace, UploadFace
<1>3. ASSUME NEW a \in Actors, Commit(a) PROVE FaceGoes(o)
  BY <1>3, CommitFace DEF Commit
<1>4. ASSUME NEW a \in Actors, ListExpired(a) \/ ListFiles(a) \/ StartReconcile(a) PROVE FaceGoes(o)
  BY <1>1, <1>4, JobsBegin
<1>5. ASSUME NEW a \in Actors, Crash(a) PROVE FaceGoes(o)
  BY <1>5, CrashFace
<1>6. \/ \E q \in Orgs : CreateOrganization(q) \/ UpdateOrganization(q) \/ AskTree(q)
      \/ GetTree \/ Tick
      \/ \E i \in Items : Age(i) \/ RemoveFavorite(i)
      \/ UNCHANGED vars
      \/ \E a \in Actors : CatalogueBegin(a) \/ PortalBegin(a)
      \/ \E a \in Actors : Commit(a)
      \/ \E a \in Actors : Crash(a)
      \/ \E a \in Actors : ListExpired(a) \/ ListFiles(a) \/ StartReconcile(a)
  BY Zenon DEF Next, CatalogueStep
<1>7. ASSUME \/ \E q \in Orgs : CreateOrganization(q) \/ UpdateOrganization(q) \/ AskTree(q)
             \/ GetTree \/ Tick
             \/ \E i \in Items : Age(i) \/ RemoveFavorite(i)
             \/ UNCHANGED vars
      PROVE  FaceGoes(o)
  BY <1>7, RestFace
<1> QED BY <1>2, <1>3, <1>4, <1>5, <1>6, <1>7, Zenon

-----------------------------------------------------------------------------
(* The tree and the tag of the rows there are.                              *)

LEMMA ShownIsPart ==
    ASSUME Types, NEW o, NEW m, NEW i \in Items
    PROVE  i \in Children(o) /\ ShownAt(i, o, m) => PartOf(row[i], o)
<1> SUFFICES ASSUME i \in Children(o), ShownAt(i, o, m) PROVE PartOf(row[i], o)
  OBVIOUS
<1>1. row[i] \in Docs /\ row[i] \notin {Unused, Gone} /\ row[i].kind # "user" /\ row[i].org = o
  BY DEF Children, Exists, Types
<1>2. row[i].kind \in Kinds
  BY <1>1, DocsAre
<1>3. row[i].kind \notin {"archive", "favorite"}
  BY DEF ShownAt
<1> QED BY <1>1, <1>2, <1>3 DEF PartOf, Parts, Kinds

\* The parts are the same, so what is shown of them is.
LEMMA SameOf ==
    ASSUME NEW o, SameRows(o), NEW kind \in Parts
    PROVE  Of(kind, o)' = Of(kind, o) /\ \A i \in Of(kind, o) : row'[i] = row[i]
<1>1. ASSUME NEW i \in Items PROVE i \in Of(kind, o) <=> PartOf(row[i], o) /\ row[i].kind = kind
  BY DEF Of, Rows, Exists, PartOf
<1>2. ASSUME NEW i \in Items PROVE i \in Of(kind, o)' <=> PartOf(row'[i], o) /\ row'[i].kind = kind
  BY DEF Of, Rows, Exists, PartOf
<1>3. Of(kind, o) \subseteq Items /\ Of(kind, o)' \subseteq Items
  BY DEF Of, Rows
<1> QED BY <1>1, <1>2, <1>3 DEF SameRows

LEMMA SameShown ==
    ASSUME Types, Types', NEW o, SameRows(o), NEW m, NEW i \in Items
    PROVE  /\ i \in Children(o)' /\ ShownAt(i, o, m)' <=> i \in Children(o) /\ ShownAt(i, o, m)
           /\ i \in Children(o) /\ ShownAt(i, o, m) => row'[i] = row[i]
<1>1. CASE ~PartOf(row[i], o) /\ ~PartOf(row'[i], o)
  <2>1. ~(i \in Children(o) /\ ShownAt(i, o, m))
    BY <1>1, ShownIsPart
  <2>2. ~(i \in Children(o)' /\ ShownAt(i, o, m)')
    <3> SUFFICES ASSUME i \in Children(o)', ShownAt(i, o, m)' PROVE FALSE
      OBVIOUS
    <3>1. row'[i] \in Docs /\ row'[i] \notin {Unused, Gone} /\ row'[i].kind # "user" /\ row'[i].org = o
      BY DEF Children, Exists, Types
    <3>2. row'[i].kind \in Kinds
      BY <3>1, DocsAre
    <3>3. row'[i].kind \notin {"archive", "favorite"}
      BY DEF ShownAt
    <3> QED BY <1>1, <3>1, <3>2, <3>3 DEF PartOf, Parts, Kinds
  <2> QED BY <2>1, <2>2
<1>2. CASE row'[i] = row[i]
  <2>1. i \in Children(o)' <=> i \in Children(o)
    BY <1>2 DEF Children, Exists
  <2>2. PICK C : C = Of("category", o) /\ C = Of("category", o)' /\ \A c \in C : row'[c] = row[c]
    BY SameOf DEF Parts
  <2>3. ShownAt(i, o, m)' <=> ShownAt(i, o, m)
    <3>1. PICK r : r = row[i] /\ r = row'[i]
      BY <1>2
    <3>2. row[i].category \in C => row'[row[i].category] = row[row[i].category]
      BY <2>2
    <3> QED BY <2>2, <3>1, <3>2 DEF ShownAt
  <2> QED BY <1>2, <2>1, <2>3
<1> QED BY <1>1, <1>2 DEF SameRows

LEMMA SameTree ==
    ASSUME Types, Types', NEW o, SameRows(o), org'[o].value = org[o].value, NEW m
    PROVE  TreeAt(o, m)' = TreeAt(o, m) /\ ReleasedAt(o, m)' = ReleasedAt(o, m)
<1>1. TreeAt(o, m)' = TreeAt(o, m)
  <2>1. PICK S : S = {i \in Children(o) : ShownAt(i, o, m)} /\ S \subseteq Items
    BY DEF Children
  <2>2. S = {i \in Children(o)' : ShownAt(i, o, m)'}
    <3>1. Children(o)' \subseteq Items
      BY DEF Children
    <3> QED BY <2>1, <3>1, SameShown
  <2>3. \A i \in S : Card(row'[i]) = Card(row[i])
    BY <2>1, SameShown
  <2>4. TreeAt(o, m) = [value |-> org[o].value, children |-> [i \in S |-> Card(row[i])]]
    BY <2>1 DEF TreeAt
  <2>5. TreeAt(o, m)' = [value |-> org'[o].value, children |-> [i \in S |-> Card(row'[i])]]
    BY <2>2 DEF TreeAt, Card
  <2> QED BY <2>3, <2>4, <2>5
<1>2. PastAt(o, m)' = PastAt(o, m)
  <2>1. Of("news", o)' = Of("news", o) /\ \A i \in Of("news", o) : row'[i] = row[i]
    BY SameOf DEF Parts
  <2> QED BY <2>1 DEF PastAt
<1>3. ReleasedAt(o, m)' = ReleasedAt(o, m)
  BY <1>2 DEF ReleasedAt
<1> QED BY <1>1, <1>3

-----------------------------------------------------------------------------
(* What the caller keeps.                                                   *)

\* Clock and counters go on by one, within their bounds.
CountersGo ==
    /\ offered' = offered
    /\ now' = now \/ (now < MaxNow /\ now' = now + 1)
    /\ ops' = ops \/ (ops < MaxOps /\ ops' = ops + 1)
    /\ crashes' = crashes \/ (crashes' \in Nat /\ crashes' <= MaxCrashes)

LEMMA CountersBegin ==
    ASSUME NEW a, NEW w, Free(a), Begin(a, w), UNCHANGED <<now, crashes, offered>>
    PROVE  CountersGo
BY DEF Free, Begin, CountersGo

LEMMA CatalogueCounts ==
    ASSUME NEW a \in Actors, Free(a), CatalogueBegin(a)
    PROVE  CountersGo
<1>1. ASSUME NEW o, \/ DeleteOrganization(a, o) \/ ReorderCategories(a, o) \/ ReorderInfoSections(a, o)
      PROVE  CountersGo
  BY <1>1, CountersBegin DEF DeleteOrganization, ReorderCategories, ReorderInfoSections, Read
<1>2. ASSUME NEW o, NEW c, ReorderServices(a, o, c) PROVE CountersGo
  BY <1>2, CountersBegin DEF ReorderServices, Read
<1>3. ASSUME NEW i, NEW o, CreateCategory(a, i, o) \/ CreateService(a, i, o) \/ CreateInfoSection(a, i, o) \/ CloneService(a, i, o)
      PROVE  CountersGo
  BY <1>3, CountersBegin DEF CreateCategory, CreateService, CreateInfoSection, CloneService, Read
<1>4. ASSUME NEW i, \/ UpdateCategory(a, i) \/ DeleteCategory(a, i) \/ UpdateService(a, i) \/ RestoreService(a, i)
                    \/ TrashService(a, i) \/ PurgeService(a, i) \/ UpdateInfoSection(a, i) \/ DeleteInfoSection(a, i)
      PROVE  CountersGo
  BY <1>4, CountersBegin DEF UpdateCategory, DeleteCategory, UpdateService, RestoreService, TrashService, PurgeService,
                             UpdateInfoSection, DeleteInfoSection, Read
<1>5. \/ \E o : DeleteOrganization(a, o) \/ ReorderCategories(a, o) \/ ReorderInfoSections(a, o)
      \/ \E o, c : ReorderServices(a, o, c)
      \/ \E i, o : CreateCategory(a, i, o) \/ CreateService(a, i, o) \/ CreateInfoSection(a, i, o) \/ CloneService(a, i, o)
      \/ \E i : \/ UpdateCategory(a, i) \/ DeleteCategory(a, i) \/ UpdateService(a, i) \/ RestoreService(a, i)
                \/ TrashService(a, i) \/ PurgeService(a, i) \/ UpdateInfoSection(a, i) \/ DeleteInfoSection(a, i)
  BY Zenon DEF CatalogueBegin
<1> QED BY <1>1, <1>2, <1>3, <1>4, <1>5, Zenon

LEMMA PortalCounts ==
    ASSUME NEW a \in Actors, Free(a), PortalBegin(a)
    PROVE  CountersGo
<1>1. ASSUME NEW o, ReorderNews(a, o) PROVE CountersGo
  BY <1>1, CountersBegin DEF ReorderNews, Read
<1>2. ASSUME NEW i, NEW o, CreateNews(a, i, o) \/ UploadImage(a, i, o) \/ CreateArchive(a, i, o) \/ AddFavorite(a, i, o)
      PROVE  CountersGo
  BY <1>2, CountersBegin DEF CreateNews, UploadImage, CreateArchive, AddFavorite, Read
<1>3. ASSUME NEW i, NEW o, RemoveOperator(a, i, o) PROVE CountersGo
  BY <1>3, CountersBegin DEF RemoveOperator, Read
<1>4. ASSUME NEW i, \/ UpdateNews(a, i) \/ DeleteNews(a, i) \/ DeleteImage(a, i) \/ DeleteArchive(a, i)
                    \/ CreateUser(a, i) \/ SetOrganizations(a, i) \/ DeleteUser(a, i)
      PROVE  CountersGo
  BY <1>4, CountersBegin DEF UpdateNews, DeleteNews, DeleteImage, DeleteArchive, CreateUser, SetOrganizations, DeleteUser, Read
<1>5. \/ \E o : ReorderNews(a, o)
      \/ \E i, o : CreateNews(a, i, o) \/ UploadImage(a, i, o) \/ CreateArchive(a, i, o) \/ AddFavorite(a, i, o)
      \/ \E i, o : RemoveOperator(a, i, o)
      \/ \E i : \/ UpdateNews(a, i) \/ DeleteNews(a, i) \/ DeleteImage(a, i) \/ DeleteArchive(a, i)
                \/ CreateUser(a, i) \/ SetOrganizations(a, i) \/ DeleteUser(a, i)
  BY Zenon DEF PortalBegin
<1> QED BY <1>1, <1>2, <1>3, <1>4, <1>5, Zenon

LEMMA CommitCounts ==
    ASSUME Basis, crashes \in Nat, NEW a \in Actors, CatalogueWrite(a) \/ PortalCommit(a)
    PROVE  CountersGo
<1>1. ASSUME NEW rows, NEW o, NEW w, InTransaction(a, rows, o, w) PROVE CountersGo
  BY <1>1 DEF InTransaction, counters, CountersGo
<1>2. ASSUME WriteRow(a) \/ Touch(a) \/ WriteService(a) \/ Record(a) PROVE CountersGo
  BY <1>2 DEF WriteRow, Touch, WriteService, Record, counters, CountersGo
<1>3. ASSUME RemoveFiles(a) PROVE CountersGo
  <2>1. PICK failed \in SUBSET pend[a].files : crashes + Cardinality(failed) <= MaxCrashes /\ crashes' = crashes + Cardinality(failed)
    BY <1>3 DEF RemoveFiles
  <2>2. pend[a].files \subseteq Items
    BY <1>3 DEF RemoveFiles, Unserved, Basis, Works, Right, Making, Writing
  <2>3. Cardinality(failed) \in Nat
    BY <2>1, <2>2, IdsAssumption, FS_Subset, FS_CardinalityType
  <2> QED BY <1>3, <2>1, <2>3 DEF RemoveFiles, CountersGo
<1>4. ASSUME CommitDeleteCategory(a) \/ CommitCreateService(a) \/ CommitTrashService(a) \/ CommitReorder(a) PROVE CountersGo
  BY <1>1, <1>4 DEF CommitDeleteCategory, CommitCreateService, CommitTrashService, CommitReorder
<1>5. ASSUME SweepFiles(a) \/ ReadReferences(a) \/ StartCascade(a) PROVE CountersGo
  BY <1>5 DEF SweepFiles, ReadReferences, StartCascade, counters, CountersGo
<1>6. ASSUME CommitDeleteImage(a) \/ CommitFavorite(a) \/ CommitDeleteUser(a) PROVE CountersGo
  BY <1>1, <1>6 DEF CommitDeleteImage, CommitFavorite, CommitDeleteUser
<1>7. ASSUME CommitUpload(a) PROVE CountersGo
  <2>1. CASE crashes < MaxCrashes /\ crashes' = crashes + 1 /\ UNCHANGED <<now, ops, offered>>
    BY <2>1, DocumentsAssumption DEF CountersGo
  <2>2. CASE InTransaction(a, [row EXCEPT ![pend[a].item] = Image(pend[a].org, TRUE)], pend[a].org, Idle)
    BY <1>1, <2>2, Zenon
  <2> QED BY <1>7, <2>1, <2>2 DEF CommitUpload
<1>8. ASSUME ArchiveExpired(a) \/ Reconcile(a) PROVE CountersGo
  BY <1>1, <1>8, Zenon DEF ArchiveExpired, Reconcile
<1>9. \/ WriteRow(a) \/ Touch(a) \/ RemoveFiles(a)
      \/ CommitDeleteCategory(a) \/ CommitCreateService(a) \/ CommitTrashService(a) \/ CommitReorder(a)
      \/ WriteService(a) \/ Record(a)
      \/ ArchiveExpired(a) \/ CommitUpload(a) \/ CommitDeleteImage(a) \/ SweepFiles(a)
      \/ CommitFavorite(a) \/ CommitDeleteUser(a)
      \/ ReadReferences(a) \/ StartCascade(a) \/ Reconcile(a)
  BY Zenon DEF CatalogueWrite, PortalCommit
<1> QED BY <1>2, <1>3, <1>4, <1>5, <1>6, <1>7, <1>8, <1>9, Zenon

LEMMA NextCounts ==
    ASSUME Basis, crashes \in Nat, [Next]_vars
    PROVE  CountersGo
<1>1. ASSUME NEW a \in Actors, Free(a) /\ (CatalogueBegin(a) \/ PortalBegin(a)) PROVE CountersGo
  BY <1>1, CatalogueCounts, PortalCounts
<1>2. ASSUME NEW a \in Actors, ListExpired(a) \/ ListFiles(a) \/ StartReconcile(a) PROVE CountersGo
  BY <1>2 DEF ListExpired, ListFiles, StartReconcile, counters, CountersGo
<1>3. ASSUME NEW a \in Actors, Crash(a) PROVE CountersGo
  BY <1>3, DocumentsAssumption DEF Crash, CountersGo
<1>4. ASSUME NEW o, CreateOrganization(o) \/ UpdateOrganization(o) \/ AskTree(o) PROVE CountersGo
  BY <1>4 DEF CreateOrganization, UpdateOrganization, AskTree, counters, CountersGo
<1>5. ASSUME NEW i, Age(i) \/ RemoveFavorite(i) PROVE CountersGo
  BY <1>5 DEF Age, RemoveFavorite, counters, CountersGo
<1>6. Tick \/ GetTree \/ UNCHANGED vars => CountersGo
  BY DEF Tick, GetTree, vars, counters, CountersGo
<1>7. \/ \E o : CreateOrganization(o) \/ UpdateOrganization(o) \/ AskTree(o)
      \/ Tick \/ GetTree \/ UNCHANGED vars
      \/ \E i : Age(i) \/ RemoveFavorite(i)
      \/ \E a \in Actors : Free(a) /\ (CatalogueBegin(a) \/ PortalBegin(a))
      \/ \E a \in Actors : CatalogueWrite(a) \/ PortalCommit(a)
      \/ \E a \in Actors : ListExpired(a) \/ ListFiles(a) \/ StartReconcile(a)
      \/ \E a \in Actors : Crash(a)
  BY Zenon DEF Next, CatalogueStep, Commit
<1> QED BY <1>1, <1>2, <1>3, <1>4, <1>5, <1>6, <1>7, CommitCounts, Zenon

Counted == now <= MaxNow /\ ops \in Nat /\ ops <= MaxOps /\ crashes \in Nat /\ crashes <= MaxCrashes

LEMMA InitCounted == Init => Counted
BY PortalAssumption, DocumentsAssumption, ScenariosAssumption DEF Init, Counted, MaxOps

LEMMA CountedStep ==
    ASSUME Basis, Counted, [Next]_vars
    PROVE  Counted'
<1>1. CountersGo /\ now \in Nat /\ MaxOps \in Nat /\ MaxNow \in Nat
  BY NextCounts, PortalAssumption, ScenariosAssumption DEF Counted, Basis, Types, MaxOps
<1>2. MaxOps' = MaxOps
  BY <1>1 DEF CountersGo, MaxOps
<1> QED BY <1>1, <1>2 DEF CountersGo, Counted

\* Every reachable state is typed: see TypeOK.
THEOREM PortalTypes == Spec => []TypeOK
<1>1. Init => Kept /\ Counted
  BY InitKept, InitCounted
<1>2. Kept /\ Counted /\ [Next]_vars => Kept' /\ Counted'
  BY NextKept, CountedStep DEF Kept
<1>3. Kept /\ Counted => TypeOK
  BY PortalAssumption DEF Kept, Basis, Types, Counted, TypeOK
<1> QED BY <1>1, <1>2, <1>3, PTL DEF Spec

\* Only the caller touches its copy.
LEMMA CacheGoes ==
    ASSUME [Next]_vars
    PROVE  cache' = cache \/ (\E o : AskTree(o)) \/ GetTree
<1>1. \/ \E o \in Orgs : CreateOrganization(o) \/ UpdateOrganization(o) \/ AskTree(o)
      \/ Tick \/ GetTree \/ UNCHANGED vars
      \/ \E i \in Items : Age(i) \/ RemoveFavorite(i)
      \/ \E a \in Actors : ListExpired(a) \/ ListFiles(a) \/ StartReconcile(a)
      \/ UNCHANGED cache
  BY Zenon DEF Next, CatalogueStep, Commit
<1>2. ASSUME NEW o, CreateOrganization(o) \/ UpdateOrganization(o) PROVE cache' = cache
  BY <1>2 DEF CreateOrganization, UpdateOrganization
<1>3. ASSUME NEW i, Age(i) \/ RemoveFavorite(i) PROVE cache' = cache
  BY <1>3 DEF Age, RemoveFavorite
<1>4. ASSUME NEW a, ListExpired(a) \/ ListFiles(a) \/ StartReconcile(a) PROVE cache' = cache
  BY <1>4 DEF ListExpired, ListFiles, StartReconcile
<1>5. Tick \/ UNCHANGED vars => cache' = cache
  BY DEF Tick, vars
<1> QED BY <1>1, <1>2, <1>3, <1>4, <1>5, Zenon

\* What is kept is as old as it was, and no more wrong.
LEMMA KeptStays ==
    ASSUME Basis, Basis', Homed, Going, [Next]_vars, crashes \in Nat, NEW o, NEW tag
    PROVE  /\ Asked(o, tag) => Asked(o, tag)'
           /\ \A tree : Answered(o, tag, tree) => Answered(o, tag, tree)'
<1>1. now \in Nat /\ now' \in Nat /\ now <= now'
  BY NextCounts DEF CountersGo, Basis, Types
<1>2. ASSUME o \in Born PROVE o \in Born' /\ (o \in Live' => o \in Live)
  BY <1>2 DEF Going, Born, Dead, Live, Basis, Types
<1>3. ASSUME o \in Born, tag[1] \in Nat, o \in Live'
      PROVE  /\ o \in Live /\ org[o].version \in Nat /\ org'[o].version \in Nat
             /\ org[o].version <= org'[o].version
             /\ org'[o].version = org[o].version /\ ~Dirty(o)' =>
                   ~Dirty(o) /\ \A m : TreeAt(o, m)' = TreeAt(o, m) /\ ReleasedAt(o, m)' = ReleasedAt(o, m)
  <2>1. o \in Live /\ o \in Orgs
    BY <1>2, <1>3 DEF Born
  <2>2. FaceGoes(o)
    BY <1>3, <2>1, NextFace
  <2>3. org[o].version \in Nat /\ org'[o].version \in Nat
    BY <2>1 DEF Basis, Types
  <2>4. ASSUME SameRows(o), org'[o].value = org[o].value, NEW m
        PROVE  TreeAt(o, m)' = TreeAt(o, m) /\ ReleasedAt(o, m)' = ReleasedAt(o, m)
    BY <2>4, SameTree DEF Basis
  <2> QED BY <2>1, <2>2, <2>3, <2>4 DEF FaceGoes
<1>4. ASSUME Asked(o, tag) PROVE Asked(o, tag)'
  <2>1. o \in Born' /\ tag[1] \in Nat
    BY <1>2, <1>4 DEF Asked
  <2>2. ASSUME o \in Live' PROVE tag[1] <= org'[o].version
    BY <1>3, <1>4, <2>2 DEF Asked
  <2>3. ASSUME o \in Live', tag[1] = org'[o].version, ~Dirty(o)'
        PROVE  \E k \in 0 .. now' : tag[2] = ReleasedAt(o, k)'
    <3>1. o \in Live /\ tag[1] = org[o].version /\ ~Dirty(o)
          /\ \A m : ReleasedAt(o, m)' = ReleasedAt(o, m)
      BY <1>3, <1>4, <2>3 DEF Asked
    <3>2. PICK k \in 0 .. now : tag[2] = ReleasedAt(o, k)
      BY <1>4, <3>1 DEF Asked
    <3>3. k \in 0 .. now'
      BY <1>1
    <3> QED BY <3>1, <3>2, <3>3
  <2> QED BY <2>1, <2>2, <2>3 DEF Asked
<1>5. ASSUME NEW tree, Answered(o, tag, tree) PROVE Answered(o, tag, tree)'
  <2>1. o \in Born' /\ tag[1] \in Nat
    BY <1>2, <1>5 DEF Answered
  <2>2. ASSUME o \in Live' PROVE tag[1] <= org'[o].version
    BY <1>3, <1>5, <2>2 DEF Answered
  <2>3. ASSUME o \in Live', tag[1] = org'[o].version, ~Dirty(o)'
        PROVE  \E m \in 0 .. now' : \E k \in 0 .. m : tag[2] = ReleasedAt(o, k)' /\ tree = TreeAt(o, m)'
    <3>1. o \in Live /\ tag[1] = org[o].version /\ ~Dirty(o)
          /\ \A m : TreeAt(o, m)' = TreeAt(o, m) /\ ReleasedAt(o, m)' = ReleasedAt(o, m)
      BY <1>3, <1>5, <2>3 DEF Answered
    <3>2. PICK m \in 0 .. now : \E k \in 0 .. m : tag[2] = ReleasedAt(o, k) /\ tree = TreeAt(o, m)
      BY <1>5, <3>1 DEF Answered
    <3>3. m \in 0 .. now'
      BY <1>1
    <3> QED BY <3>1, <3>2, <3>3
  <2> QED BY <2>1, <2>2, <2>3 DEF Answered
<1> QED BY <1>4, <1>5

LEMMA TreeNow ==
    ASSUME NEW o
    PROVE  Tree(o) = TreeAt(o, now) /\ Released(o) = ReleasedAt(o, now) /\ Tag(o) = <<org[o].version, ReleasedAt(o, now)>>
<1>1. \A i \in Items : IsShown(i, o) <=> ShownAt(i, o, now)
  BY DEF IsShown, ShownAt
<1>2. {i \in Children(o) : IsShown(i, o)} = {i \in Children(o) : ShownAt(i, o, now)}
  BY <1>1 DEF Children
<1>3. Tree(o) = TreeAt(o, now)
  BY <1>2 DEF Tree, TreeAt
<1>4. Released(o) = ReleasedAt(o, now)
  BY DEF Released, ReleasedAt, PastAt
<1> QED BY <1>3, <1>4 DEF Tag

LEMMA CacheStep ==
    ASSUME Basis, Basis', Homed, Going, [Next]_vars, crashes \in Nat, CacheRight
    PROVE  CacheRight'
<1>1. CASE cache' = cache
  <2>1. PICK c : c = cache /\ c = cache'
    BY <1>1
  <2>2. c.asking # None => Asked(c.asking, c.tag)'
    BY <2>1, KeptStays DEF CacheRight
  <2>3. c.copy.org # None => Answered(c.copy.org, c.copy.tag, c.copy.tree)'
    BY <2>1, KeptStays DEF CacheRight
  <2> QED BY <2>1, <2>2, <2>3 DEF CacheRight
<1>2. ASSUME NEW o, AskTree(o) PROVE CacheRight'
  <2>1. PICK tag : tag = Tag(o)
    OBVIOUS
  <2>2. o \in Live /\ UNCHANGED <<org, row, pend, now, lost, silent>>
    BY <1>2 DEF AskTree, documents, counters
  <2>3. DOMAIN cache' = DOMAIN cache /\ cache'.asking = o /\ cache'.tag = tag /\ cache'.copy = cache.copy
    BY <1>2, <2>1 DEF AskTree, CacheRight
  <2>4. Asked(o, tag)
    <3>1. o \in Born /\ org[o].version \in Nat /\ now \in Nat
      BY <2>2, LiveIsBorn DEF Basis, Types
    <3>2. tag[1] = org[o].version /\ tag[2] = ReleasedAt(o, now)
      BY <2>1, TreeNow
    <3>3. now \in 0 .. now /\ tag[1] <= org[o].version
      BY <3>1, <3>2
    <3> QED BY <3>1, <3>2, <3>3 DEF Asked
  <2>5. Asked(o, tag)'
    BY <2>4, KeptStays
  <2>6. PICK c : c = cache.copy
    OBVIOUS
  <2>7. c.org # None => Answered(c.org, c.tag, c.tree)'
    BY <2>6, KeptStays DEF CacheRight
  <2> QED BY <2>3, <2>5, <2>6, <2>7 DEF CacheRight
<1>3. ASSUME GetTree PROVE CacheRight'
  <2>1. PICK o, tag, c : o = cache.asking /\ tag = cache.tag /\ c = cache.copy
    OBVIOUS
  <2>2. o # None /\ Asked(o, tag) /\ (c.org # None => Answered(c.org, c.tag, c.tree))
    BY <1>3, <2>1 DEF GetTree, CacheRight
  <2>3. c.org # None => Answered(c.org, c.tag, c.tree)'
    BY <2>2, KeptStays
  <2>4. CASE o \in Live
    <3>1. PICK tree : tree = Tree(o)
      OBVIOUS
    <3>2. cache' = [asking |-> None, tag |-> None, copy |-> [org |-> o, tag |-> tag, tree |-> tree]]
      BY <1>3, <2>1, <2>4, <3>1 DEF GetTree
    <3>3. Answered(o, tag, tree)
      <4>1. now \in Nat /\ now \in 0 .. now
        BY DEF Basis, Types
      <4>2. tree = TreeAt(o, now)
        BY <3>1, TreeNow
      <4> QED BY <2>2, <4>1, <4>2 DEF Asked, Answered
    <3>4. Answered(o, tag, tree)'
      BY <3>3, KeptStays
    <3> QED BY <3>2, <3>4 DEF CacheRight
  <2>5. CASE o \notin Live
    <3>1. cache' = [cache EXCEPT !.asking = None, !.tag = None]
      BY <1>3, <2>1, <2>5 DEF GetTree
    <3>2. DOMAIN cache' = DOMAIN cache /\ cache'.asking = None /\ cache'.copy = c
      BY <2>1, <3>1 DEF CacheRight
    <3> QED BY <2>3, <3>2 DEF CacheRight
  <2> QED BY <2>4, <2>5
<1> QED BY <1>1, <1>2, <1>3, CacheGoes

LEMMA LastReleased ==
    ASSUME Types, NEW o, NEW m \in Nat
    PROVE  /\ PastAt(o, m) \subseteq Nat
           /\ PastAt(o, m) = {} => ReleasedAt(o, m) = None
           /\ PastAt(o, m) # {} => ReleasedAt(o, m) \in PastAt(o, m) /\ \A x \in PastAt(o, m) : x <= ReleasedAt(o, m)
<1> DEFINE D == {i \in Of("news", o) : row[i].publish # None}
           S == {row[i].publish : i \in D}
<1>1. \A i \in D : row[i].publish \in Nat
  <2>1. \A i \in D : row[i] \in Docs /\ row[i].kind = "news" /\ row[i].publish # None
    BY DEF Of, Rows, Exists, Types
  <2>2. \A i \in D : row[i].publish \in Moments
    BY <2>1 DEF Docs
  <2> HIDE DEF D
  <2> QED BY <2>2, MomentsAssumption
<1>2. IsFiniteSet(S)
  <2>1. IsFiniteSet(D)
    BY IdsAssumption, FS_Subset DEF Of, Rows
  <2> DEFINE f == [i \in D |-> row[i].publish]
  <2>2. IsFiniteSet({f[i] : i \in D})
    <3> HIDE DEF f, D
    <3> QED BY <2>1, ImageFinite
  <2> QED BY <2>2
<1>3. PastAt(o, m) = {x \in S : x <= m} /\ S \subseteq Nat
  BY <1>1 DEF PastAt
<1> HIDE DEF D, S
<1>4. IsFiniteSet(PastAt(o, m)) /\ PastAt(o, m) \in SUBSET Nat
  BY <1>2, <1>3, FS_Subset
<1>5. PICK P : P = PastAt(o, m)
  OBVIOUS
<1>6. P # {} => \E x \in P : \A y \in P : y <= x
  BY <1>4, <1>5, Greatest
<1>7. ReleasedAt(o, m) = IF P = {} THEN None ELSE CHOOSE x \in P : \A y \in P : y <= x
  BY <1>5 DEF ReleasedAt
<1>8. P # {} => ReleasedAt(o, m) \in P /\ \A x \in P : x <= ReleasedAt(o, m)
  BY <1>6, <1>7
<1> QED BY <1>4, <1>5, <1>7, <1>8

\* Between two moments with the same last release nothing was released.
LEMMA NothingReleased ==
    ASSUME Types, NEW o, NEW k \in Nat, NEW m \in Nat, NEW n \in Nat, k <= m, m <= n,
           ReleasedAt(o, k) = ReleasedAt(o, n)
    PROVE  TreeAt(o, m) = TreeAt(o, n)
<1>1. ASSUME NEW x \in PastAt(o, n) PROVE x <= m
  <2>1. ReleasedAt(o, n) \in PastAt(o, n) /\ x <= ReleasedAt(o, n) /\ PastAt(o, n) \subseteq Nat
    BY <1>1, LastReleased
  <2>2. ReleasedAt(o, n) # None
    BY <2>1, LastReleased, MomentsAssumption DEF PastAt
  <2>3. ReleasedAt(o, n) \in PastAt(o, k)
    BY <2>2, LastReleased
  <2>4. ReleasedAt(o, n) <= k
    BY <2>3 DEF PastAt
  <2> QED BY <1>1, <2>1, <2>4
<1>2. ASSUME NEW i \in Children(o) PROVE ShownAt(i, o, m) <=> ShownAt(i, o, n)
  <2>1. CASE row[i].kind = "news" /\ row[i].publish # None
    <3>1. i \in Of("news", o) /\ row[i] \in Docs
      BY <1>2, <2>1 DEF Children, Of, Rows, Exists, Types
    <3>2. row[i].publish \in Nat
      <4>1. row[i].publish \in Moments
        BY <2>1, <3>1 DEF Docs
      <4> QED BY <4>1, MomentsAssumption
    <3>3. row[i].publish <= n => row[i].publish <= m
      <4>1. row[i].publish <= n => row[i].publish \in PastAt(o, n)
        BY <2>1, <3>1 DEF PastAt
      <4> QED BY <1>1, <4>1
    <3>4. row[i].publish <= n <=> row[i].publish <= m
      BY <3>2, <3>3
    <3> QED BY <2>1, <3>4 DEF ShownAt
  <2>2. CASE ~(row[i].kind = "news" /\ row[i].publish # None)
    BY <2>2 DEF ShownAt
  <2> QED BY <2>1, <2>2
<1>3. {i \in Children(o) : ShownAt(i, o, m)} = {i \in Children(o) : ShownAt(i, o, n)}
  BY <1>2
<1> QED BY <1>3 DEF TreeAt

LEMMA FreshFromCache ==
    ASSUME Basis, CacheRight
    PROVE  FreshTag
<1>1. PICK c : c = cache.copy
  OBVIOUS
<1>2. PICK o : o = c.org
  OBVIOUS
<1>3. ASSUME o \notin silent, o \in Live, c.tag = Tag(o), Settled(o) PROVE c.tree = Tree(o)
  <2>1. o \in Orgs /\ o # None /\ now \in Nat
    BY <1>3, IdsAssumption DEF Live, Basis, Types
  <2>2. Answered(o, c.tag, c.tree)
    BY <1>1, <1>2, <2>1 DEF CacheRight
  <2>3. c.tag[1] = org[o].version /\ c.tag[2] = ReleasedAt(o, now)
    BY <1>3, TreeNow
  <2>4. ~Dirty(o)
    BY <1>3 DEF Dirty, DirtyBy, Settled
  <2>5. PICK m \in 0 .. now : \E k \in 0 .. m : c.tag[2] = ReleasedAt(o, k) /\ c.tree = TreeAt(o, m)
    BY <1>3, <2>2, <2>3, <2>4 DEF Answered
  <2>6. PICK k \in 0 .. m : c.tag[2] = ReleasedAt(o, k) /\ c.tree = TreeAt(o, m)
    BY <2>5
  <2>7. m \in Nat /\ k \in Nat /\ k <= m /\ m <= now
    BY <2>1
  <2>8. TreeAt(o, m) = TreeAt(o, now)
    <3>1. Types /\ now \in Nat /\ ReleasedAt(o, k) = ReleasedAt(o, now)
      BY <2>1, <2>3, <2>6 DEF Basis
    <3> QED BY <2>7, <3>1, NothingReleased
  <2> QED BY <2>6, <2>8, TreeNow
<1> QED BY <1>1, <1>2, <1>3 DEF FreshTag, TagCoversTree

\* A caller told that its copy is up to date has the tree as it is: see
\* FreshTag.  A step that writes a part of an organization writes the version of
\* that organization, or leaves it behind till it does; so while the version is
\* the one that was asked for, and not behind, the rows are those the answer was
\* made of, and news are the only thing that time shows - which the tag says too.
THEOREM TagStaysFresh == Spec => []FreshTag
<1> DEFINE I == Kept /\ Counted /\ Homed /\ CacheRight
<1>1. Init => I
  <2> SUFFICES ASSUME Init PROVE I
    OBVIOUS
  <2>1. CacheRight
    BY DEF Init, Quiet, NoCopy, CacheRight
  <2> QED BY <2>1, InitKept, InitCounted, InitHomed
<1>2. I /\ [Next]_vars => I'
  <2> SUFFICES ASSUME I, [Next]_vars PROVE I'
    OBVIOUS
  <2>1. Kept' /\ Basis /\ Basis' /\ Going /\ Counted'
    BY NextKept, NextBasis, CountedStep DEF Kept
  <2>2. Homed'
    BY <2>1, HomedStep
  <2>3. CacheRight'
    BY <2>1, CacheStep DEF Counted
  <2> QED BY <2>1, <2>2, <2>3
<1>3. I => FreshTag
  BY FreshFromCache DEF Kept
<1> QED BY <1>1, <1>2, <1>3, PTL DEF Spec

-----------------------------------------------------------------------------
(* The lock the jobs that clean up take: mutual exclusion of the runs of a *)
(* job, for any number of processes, ticks and crashes, while runs are     *)
(* timely.                                                                 *)


\* A run under way is the one its process's lease was taken for, and the lease
\* still runs; a renewal still under way has not lapsed.
Leased ==
    /\ \A r \in Runs : pc[r] \in Holding => lock.holder = Process(r) /\ lock.until >= 0
    /\ \A r \in Runs : renewal[r] # NoRenewal => renewal[r] >= 0

LeaseInv == LeaseTypeOK /\ Leased /\ OneAtATime

\* Time moves an expiry by one, and never below Lapsed.
LEMMA LaterFacts ==
    ASSUME NEW x \in NoRenewal .. Ttl
    PROVE  /\ Later(x) \in NoRenewal .. Ttl
           /\ x >= Lapsed => Later(x) >= Lapsed
           /\ x >= 0 => Later(x) = x - 1
           /\ Later(x) = NoRenewal <=> x = NoRenewal
BY TtlAssumption DEF Later, NoRenewal, Lapsed

\* The type invariant is inductive by itself.
LEMMA LeaseTypeStep == LeaseTypeOK /\ [LeaseNext]_leaseVars => LeaseTypeOK'
<1> SUFFICES ASSUME LeaseTypeOK, [LeaseNext]_leaseVars PROVE LeaseTypeOK'
  OBVIOUS
<1> USE DEF LeaseTypeOK
<1>s. {"waiting", "due", "skipped", "over", "dead", "working", "recording", "releasing"} \subseteq Stages
  BY DEF Stages, Holding, Working
<1>p. \A r \in Runs : Process(r) \in Processes
  BY DEF Runs, Process
<1>1. CASE Fire
  BY <1>1, <1>s, TtlAssumption DEF Fire
<1>2. ASSUME NEW r \in Runs, Acquire(r) PROVE LeaseTypeOK'
  BY <1>2, <1>s, <1>p, TtlAssumption DEF Acquire, Lapsed
<1>3. ASSUME NEW r \in Runs, SendRenewal(r) PROVE LeaseTypeOK'
  BY <1>3, TtlAssumption DEF SendRenewal, NoRenewal
<1>4. ASSUME NEW r \in Runs, Renew(r) PROVE LeaseTypeOK'
  <2>1. renewal[r] \in Lapsed .. Ttl
    BY <1>4, TtlAssumption DEF Renew, NoRenewal, Lapsed
  <2>2. NoRenewal \in NoRenewal .. Ttl
    BY TtlAssumption DEF NoRenewal
  <2> QED BY <1>4, <2>1, <2>2 DEF Renew
<1>5. ASSUME NEW r \in Runs, LoseRenewal(r) PROVE LeaseTypeOK'
  BY <1>5, TtlAssumption DEF LoseRenewal, NoRenewal
<1>6. ASSUME NEW r \in Runs, EndWork(r) PROVE LeaseTypeOK'
  BY <1>6, <1>s DEF EndWork
<1>7. ASSUME NEW r \in Runs, RecordRun(r) PROVE LeaseTypeOK'
  BY <1>7, <1>s DEF RecordRun
<1>8. ASSUME NEW r \in Runs, Release(r) PROVE LeaseTypeOK'
  BY <1>8, <1>s, TtlAssumption DEF Release, Lapsed
<1>9. ASSUME NEW r \in Runs, LoseRelease(r) PROVE LeaseTypeOK'
  BY <1>9, <1>s DEF LoseRelease
<1>10. ASSUME NEW p \in Processes, Die(p) PROVE LeaseTypeOK'
  BY <1>10, <1>s DEF Die
<1>11. CASE Clock
  <2>1. lock' \in [until : Lapsed .. Ttl, holder : Processes \cup {Nobody}]
    <3>1. lock.until \in NoRenewal .. Ttl /\ lock.until >= Lapsed
      BY TtlAssumption DEF NoRenewal, Lapsed
    <3>2. Later(lock.until) \in Lapsed .. Ttl
      BY <3>1, LaterFacts, TtlAssumption DEF NoRenewal, Lapsed
    <3> QED BY <1>11, <3>2 DEF Clock
  <2>2. renewal' \in [Runs -> NoRenewal .. Ttl]
    BY <1>11, LaterFacts DEF Clock
  <2> QED BY <1>11, <2>1, <2>2 DEF Clock
<1>12. CASE UNCHANGED leaseVars
  BY <1>12 DEF leaseVars
<1> QED BY <1>1, <1>2, <1>3, <1>4, <1>5, <1>6, <1>7, <1>8, <1>9, <1>10, <1>11, <1>12
        DEF LeaseNext, Step

\* The first state.
LEMMA LeaseInvInit == LeaseInit => LeaseInv
<1> SUFFICES ASSUME LeaseInit PROVE LeaseInv
  OBVIOUS
<1>1. LeaseTypeOK
  BY TtlAssumption DEF LeaseInit, LeaseTypeOK, Stages, NoRenewal, Lapsed
<1>2. Leased /\ OneAtATime
  BY DEF LeaseInit, Leased, OneAtATime, Holding, Working
<1> QED BY <1>1, <1>2 DEF LeaseInv

\* Every step keeps the lease with the one run under way.
LEMMA LeasedStep ==
    ASSUME Timely
    PROVE  LeaseInv /\ [LeaseNext]_leaseVars => (Leased /\ OneAtATime)'
<1> SUFFICES ASSUME LeaseInv, [LeaseNext]_leaseVars PROVE (Leased /\ OneAtATime)'
  OBVIOUS
<1> USE DEF LeaseInv, LeaseTypeOK, Leased, OneAtATime
<1>h. Holding = {"working", "recording", "releasing"} /\ Working = {"working", "recording"}
  BY DEF Holding, Working
<1>1. CASE Fire
  BY <1>1, <1>h DEF Fire
<1>2. ASSUME NEW r \in Runs, Acquire(r) PROVE (Leased /\ OneAtATime)'
  <2>1. CASE lock.until < 0
    <3>1. \A q \in Runs : pc[q] \notin Holding
      BY <2>1
    <3> QED BY <1>2, <1>h, <2>1, <3>1, TtlAssumption DEF Acquire
  <2>2. CASE ~(lock.until < 0)
    BY <1>2, <1>h, <2>2 DEF Acquire
  <2> QED BY <2>1, <2>2
<1>3. ASSUME NEW r \in Runs, SendRenewal(r) PROVE (Leased /\ OneAtATime)'
  BY <1>3, TtlAssumption DEF SendRenewal
<1>4. ASSUME NEW r \in Runs, Renew(r) PROVE (Leased /\ OneAtATime)'
  BY <1>4 DEF Renew
<1>5. ASSUME NEW r \in Runs, LoseRenewal(r) PROVE (Leased /\ OneAtATime)'
  BY <1>5 DEF LoseRenewal
<1>6. ASSUME NEW r \in Runs, EndWork(r) PROVE (Leased /\ OneAtATime)'
  BY <1>6, <1>h DEF EndWork
<1>7. ASSUME NEW r \in Runs, RecordRun(r) PROVE (Leased /\ OneAtATime)'
  BY <1>7, <1>h DEF RecordRun
<1>8. ASSUME NEW r \in Runs, Release(r) PROVE (Leased /\ OneAtATime)'
  <2>1. \A q \in Runs : pc'[q] \notin Holding
    BY <1>8, <1>h DEF Release
  <2> QED BY <1>8, <2>1 DEF Release
<1>9. ASSUME NEW r \in Runs, LoseRelease(r) PROVE (Leased /\ OneAtATime)'
  BY <1>9, <1>h DEF LoseRelease
<1>10. ASSUME NEW p \in Processes, Die(p) PROVE (Leased /\ OneAtATime)'
  BY <1>10, <1>h DEF Die
<1>11. CASE Clock
  <2>1. \A r \in Runs : renewal'[r] # NoRenewal => renewal'[r] >= 0
    <3> SUFFICES ASSUME NEW r \in Runs, renewal'[r] # NoRenewal PROVE renewal'[r] >= 0
      OBVIOUS
    <3>1. renewal'[r] = Later(renewal[r]) /\ renewal[r] # 0
      BY <1>11 DEF Clock
    <3>2. renewal[r] \in NoRenewal .. Ttl
      OBVIOUS
    <3> QED BY <3>1, <3>2, LaterFacts, TtlAssumption DEF NoRenewal
  <2>2. ASSUME NEW r \in Runs, pc[r] \in Holding PROVE lock'.until >= 0 /\ lock'.holder = lock.holder
    <3>1. lock.until > 0 /\ lock' = [lock EXCEPT !.until = Later(@)]
      BY <1>11, <2>2 DEF Clock
    <3>2. lock.until \in NoRenewal .. Ttl
      BY TtlAssumption DEF NoRenewal, Lapsed
    <3>3. Later(lock.until) >= 0
      BY <3>1, <3>2, LaterFacts, TtlAssumption DEF NoRenewal
    <3> QED BY <3>1, <3>3
  <2>3. pc' = pc
    BY <1>11 DEF Clock
  <2> QED BY <2>1, <2>2, <2>3
<1>12. CASE UNCHANGED leaseVars
  BY <1>12 DEF leaseVars
<1> QED BY <1>1, <1>2, <1>3, <1>4, <1>5, <1>6, <1>7, <1>8, <1>9, <1>10, <1>11, <1>12
        DEF LeaseNext, Step

\* Every reachable state is typed, timely or not.
THEOREM LeaseTypes == LeaseSpec => []LeaseTypeOK
<1>1. LeaseInit => LeaseTypeOK
  BY LeaseInvInit DEF LeaseInv
<1> QED BY <1>1, LeaseTypeStep, PTL DEF LeaseSpec

\* Two runs of a job are never under way at once while runs are timely.
THEOREM RunsExclude ==
    ASSUME Timely
    PROVE  LeaseSpec => []OneAtATime
<1>1. LeaseInv /\ [LeaseNext]_leaseVars => LeaseInv'
  <2>1. LeaseInv /\ [LeaseNext]_leaseVars => LeaseTypeOK'
    BY LeaseTypeStep DEF LeaseInv
  <2>2. LeaseInv /\ [LeaseNext]_leaseVars => (Leased /\ OneAtATime)'
    BY LeasedStep
  <2> QED BY <2>1, <2>2 DEF LeaseInv
<1>2. LeaseInv => OneAtATime
  BY DEF LeaseInv
<1> QED BY <1>1, <1>2, LeaseInvInit, PTL DEF LeaseSpec
=============================================================================
