SPECIFICATION Spec
CONSTANTS
    NJobs = 2
    Workers = 1
    Budget = 1
    Parent = 0
    MaxAttempts = 3
    MaxStarts = 3
    MaxCrashes = 1
INVARIANTS
    ResumeAccepted
    ReturnsClean
PROPERTIES
    SuccessIsDurable
    StopDrains
CHECK_DEADLOCK FALSE
