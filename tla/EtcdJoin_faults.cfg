CONSTANTS
    e1 = e1
    e2 = e2
    e3 = e3
    e4 = e4
    e5 = e5
    Hosts <- ThreeHosts
    Initials <- TwoRunning
    Events = FALSE
    Faults <- AllFaults
    MaxRuns = 3
SPECIFICATION Spec
INVARIANT TypeOK
INVARIANT NoSplitBrain
CHECK_DEADLOCK FALSE
