CONSTANTS
    Attempts = {"a"}
    HedgeCount = 2
    SellCount = 2
    Exits = {"x"}
    Base = 1
    Burst = 3
    Quantity = 1
    MaxGross = 20
SPECIFICATION Spec
INVARIANT HedgedBeforeSell
INVARIANT ParkedForAReason
CHECK_DEADLOCK FALSE
