CONSTANTS
    h1 = h1
    h2 = h2
    o1 = o1
    o2 = o2
    Hosts <- TwoHosts
    Objects <- TwoObjects
    Calls <- Calls1
    MaxTries = 2
    MaxBroken = 2
    MaxOthers = 1
SPECIFICATION Spec
SYMMETRY Symmetry
INVARIANT TypeOK
INVARIANT AbsentMeansAbsent
INVARIANT AppliedMeansCurrent
INVARIANT FailsForAReason
