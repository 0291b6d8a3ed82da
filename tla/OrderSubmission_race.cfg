CONSTANTS
    m1 = m1
    m2 = m2
    c1 = c1
    Managers = {m1, m2}
    Orders = {c1}
    EntryOrders = {c1}
    Quantity = 1
    MaxFaults = 1
SPECIFICATION Spec
SYMMETRY ManagerSymmetry
CONSTRAINT OnePassAtATime
INVARIANTS
    AtMostOnePost
    RefusalProvesNoPost
    RejectedHidesNoFill
