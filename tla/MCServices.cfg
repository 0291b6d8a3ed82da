CONSTANTS
    Entries = {"e1"}
    Exits = {}
    Quantity = 2
    Held = 2
    MaxGross = 4
    MaxFaults = 1
    FeedKinds = {"kite", "dhan"}
    FeedTokens = {1, 2}
    MaxSocketFaults = 2
    TokenBrokers = {"zerodha", "dhan"}
    ActiveBroker = "zerodha"
    LastTokenDay = 2
    MaxTokenFaults = 1
    MaxRestarts = 2
    Deployments = {"paper", "live_dhan"}
    MaxBootFaults = 2
    MaxSignals = 2
    ModeRuns = {"r", "s"}
    ExecModes = {"paper_legging", "paper_latency", "live"}
    Profiles = {"standard", "live_parity", "stress"}
    LiveFacts = {"failed", "tripped", "kill_switch"}
SPECIFICATION ServicesSpec
INVARIANTS
    SimulationKeepsProfile
PROPERTIES
    AttributionKeepsStep
    
    OfferedIsAcquired
    
CHECK_DEADLOCK FALSE
