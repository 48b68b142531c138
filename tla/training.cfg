SPECIFICATION Spec
CONSTANTS
    MaxSeeds = 2
    NEnvs = 2
    RolloutSteps = 3
    Total = 20
    SaveFreq = 5
    ViaFreq = 5
    CollapseAt = 10
    EntryMachine = TRUE
    MaxCrashes = 1
INVARIANTS
    LittleLost
    ExitZeroCompletes
    ResultsAreEarned
PROPERTIES
    RunEnds
CHECK_DEADLOCK FALSE
