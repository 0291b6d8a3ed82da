CONSTANTS
    Attempts = {"a", "b"}
    HedgeCount = 1
    SellCount = 1
    Exits = {"x"}
    Base = 1
    Burst = 2
    Quantity = 1
    MaxGross = 20
SPECIFICATION FairSpec
INVARIANT PumpIsExact
PROPERTY SlotsComeBack
CHECK_DEADLOCK FALSE
