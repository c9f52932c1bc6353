SPECIFICATION Spec
CONSTANTS
    PARTIAL_RUN_MIN = 3
    MaxStray = 1
INVARIANTS
    PassMeansNoLeak
    PassMeansWatched
    HealthyRunPasses
CHECK_DEADLOCK FALSE
