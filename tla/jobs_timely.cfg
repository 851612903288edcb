SPECIFICATION FairLeaseSpec
CONSTANTS
    Processes = {w1, w2}
    Ticks = 2
    Ttl = 2
    MaxDeaths = 1
    Nobody = Nobody
    Timely = TRUE
    Failing = TRUE
INVARIANTS OneAtATime
PROPERTIES LeaseEnds
