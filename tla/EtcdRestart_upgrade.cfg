CONSTANTS
    e1 = e1
    e2 = e2
    e3 = e3
    Hosts <- ThreeHosts
    Settings <- AllSettings
    Retention = 1
    Faults <- AllFaults
    MaxRuns = 2
SPECIFICATION Spec
INVARIANT TypeOK
INVARIANT HostStaysAvailable
INVARIANT RerunCompletes
INVARIANT HostCleansBeforeUpgrade
PROPERTY BackupBeforeRestart
PROPERTY LastBackupKept
PROPERTY EventuallyServing
CHECK_DEADLOCK FALSE
