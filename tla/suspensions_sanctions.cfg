SPECIFICATION Spec
CONSTANTS
    Accounts = {a1}
    Ids = {b1, b2}
    NoShowLimit = 2
    Txns = {t1, t2}
    Operations = {"book", "onBehalf", "attend", "mark", "correct", "cancel", "late", "suspend", "lift", "join", "leave", "delete", "lapse"}
SYMMETRY Symmetry
INVARIANTS LimitSanctions
PROPERTIES SanctionOutlivesAccount ManualStays
