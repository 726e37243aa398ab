CONSTANTS
    c1 = c1
    c2 = c2
    w1 = w1
    w2 = w2
    w3 = w3
    CP <- OneControlPlane
    Workers <- TwoWorkers
    SerialPercent = 20
    Limits <- WholeInventory
    AlwaysCordon = FALSE
    DrainNodes = TRUE
    DrainRetries = 1
    FallbackEnabled = TRUE
    FallbackRetries = 0
    UncordonAfterDrainFailure = TRUE
    FailIfDrainFails = TRUE
    Faults <- DrainFaults
    Unsteady <- NoNode
    AdminWindow = "never"
    MaxRuns = 1
SPECIFICATION Spec
SYMMETRY Symmetry
PROPERTY RescueOnlyAfterFallback
CHECK_DEADLOCK FALSE
