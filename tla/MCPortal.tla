----------------------------- MODULE MCPortal -----------------------------
(***************************************************************************)
(* Two handlers at a time, two calls, one failure;  every scenario offers *)
(* the operations that meet each other, on the rows they meet on.          *)
(***************************************************************************)
EXTENDS Portal, TLC

CONSTANTS o1, o2, i1, i2, i3, a1, a2, s1, s2, u1, v1

Start(rows) == [i \in Items |-> IF i \in DOMAIN rows THEN rows[i] ELSE Unused]
Scenario(calls, does, live, orgs, items, rows) ==
    [calls |-> calls, does |-> does, live |-> live, orgs |-> orgs, items |-> items, rows |-> Start(rows)]

ACategory == Category(o1, 0)
AService(c) == Service(o1, c, 0, s1, "published")
ANews == News(o1, 0, s1, None, 1)

MCScenarios == <<
    \* The tree: what is shown, moved, hidden, trashed while it is read.
    Scenario(2, {"read_tree", "update_service", "trash_service", "restore_service", "update_organization"},
             {o1}, {o1}, {}, i1 :> ACategory @@ i2 :> AService(i1)),
    Scenario(2, {"read_tree", "update_category", "create_category", "delete_category", "create_service",
              "purge_service", "reorder"},
             {o1}, {o1}, {i3}, i1 :> ACategory @@ i2 :> AService(i1)),
    Scenario(2, {"read_tree", "create_infosection", "update_infosection", "delete_infosection", "reorder"},
             {o1}, {o1}, {i2, i3}, i1 :> InfoSection(o1, 0)),
    Scenario(2, {"read_tree", "update_news", "wait"},
             {o1}, {o1}, {}, i1 :> News(o1, 0, s1, 1, None)),
    \* Slugs.
    Scenario(2, {"create_service", "clone_service", "update_service"},
             {o1}, {o1}, {i2, i3}, i1 :> AService(None)),
    \* News and their expiry on two workers.
    Scenario(2, {"update_news", "delete_news", "reorder", "wait", "news_expiry"},
             {o1}, {o1}, {i2, i3}, i1 :> ANews),
    Scenario(2, {"create_news", "update_news", "news_expiry"},
             {o1}, {o1}, {i2, i3}, i1 :> ANews),
    \* Images and the collection of their files.
    Scenario(2, {"upload", "delete_image", "delete_organization", "storage_gc"},
             {o1}, {o1}, {i2}, i1 :> Image(o1, TRUE)),
    \* An organization deleted, another created, while children are written.
    Scenario(2, {"create_organization", "create_category", "upload", "cascade_reconcile"},
             {o1}, {o2}, {i1}, <<>>),
    Scenario(2, {"delete_organization", "create_category", "upload", "cascade_reconcile"},
             {o1}, {o1}, {i1, i2}, <<>>),
    Scenario(2, {"delete_organization", "create_user", "set_organizations", "remove_operator", "delete_user",
              "cascade_reconcile"},
             {o1, o2}, {o1, o2}, {i2}, i1 :> User({o1, o2})),
    \* Favourites and archives.
    Scenario(2, {"add_favorite", "remove_favorite", "purge_service", "create_archive", "delete_archive",
              "delete_organization"},
             {o1}, {o1}, {i2, i3}, i1 :> AService(None)) >>
=============================================================================
