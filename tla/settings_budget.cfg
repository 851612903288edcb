SPECIFICATION BudgetSpec
CONSTANTS
    Replicas = {r1, r2}
    Tasks = {t1, t2}
    Limits = {1, 2}
    StampBound = 2
    Hours = 1
    HoursPerDay = 2
SYMMETRY Symmetry
INVARIANTS RulesHold BudgetHolds RefusalsAreFree
CHECK_DEADLOCK FALSE
