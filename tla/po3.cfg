SPECIFICATION Spec
CONSTANTS
    BarShapes <- SomeBars
    References <- SomeReferences
    Higher <- SomeHigher
    Variants <- Shipped
    SwingPeriod = 1
    MaxRefs = 1
    GapAge = 3
    ZoneAge = 3
    SetupAge = 3
    MaxNews = 2
INVARIANTS
    PhasesAsDefined
    ZonesAsDefined
    SweepsFresh
CHECK_DEADLOCK FALSE
