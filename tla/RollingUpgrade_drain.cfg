CONSTANTS
    c1 = c1
    c2 = c2
    w1 = w1
    w2 = w2
    w3 = w3
    CP <- OneControlPlane
    Workers <- ThreeWorkers
    SerialPercent = 67
    Limits <- WholeInventory
    AlwaysCordon = TRUE
    DrainNodes = TRUE
    DrainRetries = 1
    FallbackEnabled = FALSE
    FallbackRetries = 0
    UncordonAfterDrainFailure = TRUE
    FailIfDrainFails = TRUE
    Faults <- DrainReadFaults
    Unsteady <- NoNode
    AdminWindow = "never"
    MaxRuns = 2
SPECIFICATION Spec
INVARIANT NothingStranded
PROPERTY EventuallyGivenBack
PROPERTY RunUpgradesAll
PROPERTY EveryUpgradeDrained
CHECK_DEADLOCK FALSE
