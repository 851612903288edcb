SPECIFICATION FairSpec
CONSTANTS
    Workers = {w1, w2}
    Events = {e1}
    Targets = {x1, x2}
    CronWorkers = {w1}
    Replayers = {w2}
    MaxAttempts = 2
    BatchSize = 2
    Lease = 2
    Backoff <- OneTick
    MaxPass = 1
    MayFail = {x1}
    MaxCrashes = 1
    MaxReplays = 1
INVARIANTS ExclusiveDelivery NeverTwice PokeSuffices
PROPERTIES KeepsPromise EventsSettle
