SPECIFICATION Spec
CONSTANTS
    Accounts = {a1}
    Ids = {b1, b2}
    NoShowLimit = 2
    Txns = {t1, t2}
    Operations = {"book", "mark", "correct"}
SYMMETRY Symmetry
INVARIANTS CorrectedIsLifted
