SPECIFICATION Spec
CONSTANTS
    MaxSeeds = 1
    NEnvs = 2
    RolloutSteps = 3
    Total = 20
    SaveFreq = 5
    ViaFreq = 5
    CollapseAt = 10
    EntryMachine = TRUE
    MaxCrashes = 1
INVARIANTS
    TwoChecks
CHECK_DEADLOCK FALSE
