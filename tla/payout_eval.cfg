SPECIFICATION Spec
CONSTANTS
    InitialBalance = 10
    RepeatedPayout = TRUE
    Spread = 0
    CostPerLot = 0
    MarginPerLot = 1
    DailyLimit = 4
    SoftDailyLimit = 3
    MaxLossLimit = 5
    TrailingLimit = 0
    SoftTrailingLimit = 0
    OperatingBalance = 10
    ProfitTarget = 13
    ExecutionReserve = 0
    CandidateMaxAge = 1
    ArmRequiresRetest = FALSE
    Prices = {10, 12}
    LotSizes = {1, 2}
    StopDistances = {1}
    NBars = 8
    NyIndices <- ThreeAndThree
    SessionOf <- ThreeAndThreeOf
    MaxSteps = 0
    Episodic = FALSE
    BlockOvernight = FALSE
    StrategyActions = FALSE
    UseFsm = FALSE
    Latency = 0
    EntryCooldown = 2
    MaxEntries = 0
    PeakDdPct = 0
INVARIANTS
    BreachIsTerminal
PROPERTIES
    PayoutIsSound
