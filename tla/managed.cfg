SPECIFICATION Spec
CONSTANTS
    Markets <- BothSides
    Sizes = {2, 9}
    Splits <- SomeSplits
    BarShapes <- BothShapes
    Swings <- SomeSwings
    Evidence = {"candles", "ticks", "strict"}
    SlModes <- SomeSlModes
    TpModes <- SomeTpModes
    BreakevenTrigger = 1
    BreakevenBuffer = 1
    SlBuffer = 1
    MaxTicks = 2
    MaxBars = 3
INVARIANTS
    NothingDiscarded
    SharesAsAllocated
    RunnerProtected
PROPERTIES
    StopNeverWidens
CHECK_DEADLOCK FALSE
