SPECIFICATION Spec
CONSTANTS
    Symbols = {"a", "b"}
    Home = "a"
    Robots = {"rl", "multi", "crossover"}
    RiskPerSymbol = 1
    MaxTotalRisk = 2
    DefaultRisk = 2
    MaxOpen = 4
    MaxFaults = 3
    MaxManual = 1
INVARIANTS
    OwnRiskCapped
    OneAWay
    OppositeClosed
CHECK_DEADLOCK FALSE
