CONSTANTS
    StreamOrders = {"o1"}
    StreamQuantity = 2
    MaxConnects = 2
    MaxStreamFaults = 1
    Adapters = {"kite", "dhan"}
    OrderQuantity = 1
    MaxPolls = 1
    AccountLimit = 2
    RecoveryReserve = 1
    MaxTraffic = 1
    MaxEvents = 1
    Underlyings = {"a"}
    Refreshes = {"r1"}
    MaxStreamed = 1
    MaxConnections = 1
    RequestedLots = 1
    Excess = 1
    Frames = 2
    QueueThreshold = 1
    PaperRuns = {1, 2}
    PaperRoles = {"a", "b"}
    PaperLegsOf <- PaperLegs
    PaperLot = 2
    PaperProfiles = {"touch", "sequential", "parity"}
    MaxBooks = 2
    MaxPaperExits = 1
    ChainOwners = {"a", "c"}
    ChainHomes <- OneOrTwoProcesses
    ChainWants <- ChainContracts
    ChainTtl = 2
    LastInstant = 3
    MaxAcquires = 2
    MaxTierFaults = 1
    DayTrades = {"x"}
    EarlierTrades = {"y"}
    StartTick = 2
    Midnight = 3
    LastTick = 3
    MaxMarginTries = 1
    MaxBackfills = 1
    Pages = {"p", "q"}
    StrayPages = {"q"}
    SecretConfigured = TRUE
    VerifyMax = 1
    SessionTtl = 1
    LastHour = 1
    MaxMints = 1
    MaxGateFaults = 1
SPECIFICATION Spec
INVARIANTS
    StreamIsProven
    
    
    HighestReportStands
    DisplayedSoldOnce
    PeakIsHighest
    EndedSessionActsNoMore
PROPERTIES
    ChainIsSound
CHECK_DEADLOCK FALSE
