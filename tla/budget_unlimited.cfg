SPECIFICATION BudgetSpec
CONSTANTS
    Replicas = {r1, r2}
    Tasks = {t1, t2}
    Limits = {0, 1}
    StampBound = 1
    Hours = 0
    HoursPerDay = 2
SYMMETRY Symmetry
INVARIANTS RefusalsAreFree
CHECK_DEADLOCK FALSE
