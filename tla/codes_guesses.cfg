SPECIFICATION Spec
CONSTANTS
    Requests = {r1, r2}
    CodeBound = 2
    MaxAttempts = 2
    Cooldown = 2
    DailyCodes = 2
SYMMETRY Symmetry
INVARIANTS SingleUse GuessesLimited
CHECK_DEADLOCK FALSE
