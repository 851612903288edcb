SPECIFICATION Spec
CONSTANTS
    Workers = {w1, w2}
    Events = {e1, e2}
    Targets = {x1}
    CronWorkers = {w1}
    Replayers = {w2}
    MaxAttempts = 2
    BatchSize = 2
    Lease = 1
    Backoff <- OneTick
    MaxPass = 2
    MayFail = {x1}
    MaxCrashes = 0
    MaxReplays = 0
INVARIANTS NeverTwice
