CONSTANTS
    c1 = c1
    c2 = c2
    w1 = w1
    w2 = w2
    w3 = w3
    CP <- OneControlPlane
    Workers <- TwoWorkers
    SerialPercent = 50
    Limits <- Procedure
    AlwaysCordon = FALSE
    DrainNodes = TRUE
    DrainRetries = 0
    FallbackEnabled = TRUE
    FallbackRetries = 0
    UncordonAfterDrainFailure = TRUE
    FailIfDrainFails = TRUE
    Faults <- NoReadFaults
    Unsteady <- FirstWorker
    AdminWindow = "outside_batch"
    MaxRuns = 2
SPECIFICATION Spec
SYMMETRY Symmetry
CHECK_DEADLOCK FALSE
INVARIANT TypeOK
INVARIANT ControlPlaneFirst
INVARIANT OneBatchOut
INVARIANT AdminCordonKept
INVARIANT EndedMeansUpgraded
PROPERTY DisruptOnlyDrained
PROPERTY ImplementsStagedRollout
