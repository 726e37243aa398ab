CONSTANTS
    e1 = e1
    e2 = e2
    e3 = e3
    Hosts <- ThreeHosts
    Settings <- HostOnly
    Retention = 1
    Faults <- BackupFaults
    MaxRuns = 2
SPECIFICATION Spec
INVARIANT DoneMeansCurrent
CHECK_DEADLOCK FALSE
