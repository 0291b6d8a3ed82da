CONSTANTS
    Roles = {"ce", "pe"}
    Lot = 1
    MaxExits = 2
    MaxObjects = 2
    MaxStoreFaults = 2
    MaxReconciles = 1
    ReconcilesDuringExit = TRUE
    Events = {1, 2, 3}
    AggregateOf <- OutboxAggregates
    Snapshots = {3}
    MaxVersions = 2
    BatchSize = 2
    MaxPublishAttempts = 2
    MaxMongoFaults = 2
    MaxDrainFaults = 1
    PnlTrades = {"a"}
    TradeOrder <- PnlTradeOrder
    MaxPasses = 1
    MaxPnlFaults = 2
    ChargeJobs = {"a", "b"}
    ReconcileWorkers = 1
    MaxChargeAttempts = 3
    RetryBase = 1
    ChargeCacheTtl = 1
    MaxPricingFaults = 3
    MaxLogouts = 1
SPECIFICATION Spec
INVARIANTS
    BookCoversAccount
PROPERTIES
    CloseBecomesDurable
    ImplementsReplica
    FactsAreReplicated
    ArchiveConverges
    VerificationEnds
CHECK_DEADLOCK FALSE
