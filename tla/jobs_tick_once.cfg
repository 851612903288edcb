SPECIFICATION LeaseSpec
CONSTANTS
    Processes = {w1, w2}
    Ticks = 1
    Ttl = 2
    MaxDeaths = 0
    Nobody = Nobody
    Timely = TRUE
    Failing = FALSE
INVARIANTS TickRunsOnce
