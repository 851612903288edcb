SPECIFICATION Spec
CONSTANTS
    p1 = p1  p2 = p2  s1 = s1
    Users = {u1, u2}
    Ids = {b1, b2}
    Places = {p1, p2}
    SlotDocs = {s1}
    SlotOf <- OneSlot
    TimedSlots = {s1}
    Limits <- OneOrNone
    NoLimit = NoLimit
    Txns = {t1, t2}
    Operations <- CapacityOps
SYMMETRY SlotSymmetry
INVARIANTS CounterCoversBookings NoPhantomPlace
PROPERTIES NoOverbooking
