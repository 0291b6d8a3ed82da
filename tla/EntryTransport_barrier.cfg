CONSTANTS
    Attempts = {"a", "b"}
    HedgeCount = 2
    SellCount = 1
    Exits = {"x"}
    Base = 2
    Burst = 2
    Quantity = 1
    MaxGross = 7
SPECIFICATION Spec
INVARIANT ParkedBehindLiveHedge
CHECK_DEADLOCK FALSE
