SPECIFICATION Spec
CONSTANTS
    People = {c1, s1}
    Staff = {s1}
    Messages = {m1}
    Requests = {q1}
    Events = {e1, e2}
    Targets = {"inbox", "mail", "phone"}
    MaxUnread = 1
    KeepRead = 1
    None = None
    Idle = Idle
    Order <- MCOrder
    Scenarios <- AllScenarios
INVARIANT
    NobodyToldOfOwn
SYMMETRY Alike
CHECK_DEADLOCK FALSE
