SPECIFICATION Spec
CONSTANTS
    p1 = p1  p2 = p2  s1 = s1
    Users = {u1, u2}
    Ids = {b1, b2}
    Places = {p1}
    SlotDocs = {s1}
    SlotOf <- OnePlace
    TimedSlots = {s1}
    Limits <- JustOne
    NoLimit = NoLimit
    Txns = {t1, t2}
    Operations <- TrashOps
INVARIANTS TrashHasNoActiveBooking
