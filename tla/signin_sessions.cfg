SPECIFICATION Spec
CONSTANTS
    Requests = {r1, r2}
    Sids = {s1, s2, s3, s4}
    NoSid = NoSid
    MaxFailed = 2
    AttemptBound = 3
SYMMETRY Symmetry
INVARIANTS OneUnspentPerFamily LimitLocks
PROPERTIES DeadStaysDead DeletionEndsWhatItFound
CHECK_DEADLOCK FALSE
