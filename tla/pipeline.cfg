SPECIFICATION Spec
CONSTANTS
    MAX_REVISITS = 2
    MaxFixes = 1
    MAX_PHASE_STEPS = 10
    MaxGotos = 1
    MaxResumes = 1
    FromPhases = {"reporting"}
INVARIANTS TriagePaid ReportIsEarned
PROPERTIES RestartsPhase
CHECK_DEADLOCK FALSE
