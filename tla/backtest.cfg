SPECIFICATION Spec
CONSTANTS
    InitialBalance = 10
    RepeatedPayout = FALSE
    Spread = 1
    CostPerLot = 1
    MarginPerLot = 1
    DailyLimit = 4
    SoftDailyLimit = 0
    MaxLossLimit = 6
    TrailingLimit = 0
    SoftTrailingLimit = 0
    OperatingBalance = 10
    ProfitTarget = 20
    ExecutionReserve = 0
    Bars <- TwoDays
    Prices = {10, 12}
    Settings <- SomeSettings
    DefaultLots = 1
    LotSizes = {0, 1}
    MaxTradeLoss = 3
    TakeProfit = 1
    RiskPerTrade = 3
INVARIANTS
    LogExplainsBalance
    ExitAfterEntry
    NoUnseenBreach
CHECK_DEADLOCK FALSE
