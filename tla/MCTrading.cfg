CONSTANTS
    Procs = {"p", "q"}
    Entries = {1, 2, 3}
    ProcOf <- CoordinatorProcOf
    UnderlyingOf <- CoordinatorUnderlyingOf
    ContractsOf <- CoordinatorContractsOf
    Live = TRUE
    MaxPerUnderlying = 2
    MaxFaults = 1
    Boxes = {1, 2}
    MaxCompletedTrades = 1
    MaxEntryAttempts = 1
    MaxArms = 2
    MaxSaves = 2
    MaxSessionFaults = 1
    Quantity = 2
    MaxGenerations = 2
    Retriers = {"r1", "r2"}
    LastDay = 2
    MaxLedgerFaults = 1
    MaxLedgerCrashes = 1
    Attempts = {"a1"}
    LegRoles = {"k1_ce", "k2_ce", "k1_pe", "k2_pe"}
    Shorts = {"k2_ce", "k1_pe"}
    verticalPartner <- AttemptPartner
    LegLot = 2
    MaxUnknown = 1
    EconomicControl = TRUE
    LastRiskDay = 2
    LossLimit = 2
    MaxOpenBoxes = 1
    MaxRiskLoads = 2
    MaxLosses = 1
    MaxToggles = 2
    MaxGateFaults = 1
    StrikePairs = {"u"}
    Tokens = {1, 2}
    legsOf <- ScannerLegs
    MaxPipelines = 1
    MaxFills = 2
    MaxStoreLosses = 1
    SwitchRequests = {"s1"}
    StartsDuringSwitch = FALSE
    MaxGeneration = 3
    MaxSaveFaults = 1
    MaxSwitchCrashes = 1
SPECIFICATION Spec
INVARIANTS
    
    
    
    BookedIsHeld
    EntryKnowsSeededLosses
    ScannerIsConsistent
    
PROPERTIES
    HedgeOutlivesShort
CHECK_DEADLOCK FALSE
