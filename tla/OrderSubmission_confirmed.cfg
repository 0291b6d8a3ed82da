CONSTANTS
    m1 = m1
    c1 = c1
    Managers = {m1}
    Orders = {c1}
    EntryOrders = {}
    Quantity = 2
    MaxFaults = 0
SPECIFICATION Spec
INVARIANT ConfirmedFillIsDurableOrTripped
