SPECIFICATION Spec
CONSTANTS
    o1 = o1
    o2 = o2
    i1 = i1
    i2 = i2
    i3 = i3
    a1 = a1
    a2 = a2
    s1 = s1
    s2 = s2
    u1 = u1
    v1 = v1
    Orgs = {o1, o2}
    Items = {i1, i2, i3}
    Actors = {a1, a2}
    Values = {v1}
    Slugs = {s1, s2}
    People = {u1}
    Moments = {1}
    None = None
    Unused = Unused
    Gone = Gone
    MaxCrashes = 1
    MaxNow = 1
    FavoritesMax = 1
    ReconcileLimit = 1
    Scenarios <- MCScenarios
INVARIANTS
    FreshTag
    NothingTwice
    JobsSpareTheLiving
PROPERTIES
    LeftoversGo
CHECK_DEADLOCK FALSE
