CONSTANTS
    e1 = e1
    e2 = e2
    e3 = e3
    e4 = e4
    e5 = e5
    Hosts <- FiveHosts
    Initials <- NoneOrThreeRunning
    Events = FALSE
    Faults <- Interrupts
    MaxRuns = 3
SPECIFICATION Spec
INVARIANT DoneMeansJoined
INVARIANT OneAtATime
PROPERTY EventuallyJoined
CHECK_DEADLOCK FALSE
