SPECIFICATION Spec
CONSTANTS
    InitialBalance = 10
    RepeatedPayout = FALSE
    Spread = 1
    CostPerLot = 1
    MarginPerLot = 1
    DailyLimit = 4
    SoftDailyLimit = 3
    MaxLossLimit = 5
    TrailingLimit = 0
    SoftTrailingLimit = 0
    OperatingBalance = 10
    ProfitTarget = 20
    ExecutionReserve = 0
    CandidateMaxAge = 1
    ArmRequiresRetest = FALSE
    Prices = {10, 12, 14}
    LotSizes = {2}
    StopDistances = {1}
    NBars = 13
    NyIndices <- EightAndThree
    SessionOf <- EightAndThreeOf
    MaxSteps = 0
    Episodic = FALSE
    BlockOvernight = TRUE
    StrategyActions = TRUE
    UseFsm = FALSE
    Latency = 1
    EntryCooldown = 1
    MaxEntries = 2
    PeakDdPct = 30
INVARIANTS
    LatchedStaysFlat
    FlatOverGap
    NoUnseenBreach
    SessionCap
PROPERTIES
    NoEntryAtCeiling
