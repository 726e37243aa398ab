CONSTANTS
    e1 = e1
    e2 = e2
    e3 = e3
    e4 = e4
    e5 = e5
    Hosts <- ThreeHosts
    Initials <- TwoRunning
    Events = TRUE
    Faults <- NoFaults
    MaxRuns = 1
SPECIFICATION Spec
PROPERTY ScalingProceeds
CHECK_DEADLOCK FALSE
