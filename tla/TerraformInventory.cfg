CONSTANTS
    fa = fa
    fb = fb
    NoIp = NoIp
    Files <- TwoFiles
    Contents <- AllContents
    Initial <- Starts
    Sanitized <- Names
    MaxApplies = 2
SPECIFICATION Spec
INVARIANT TypeOK
INVARIANT NoForeignAddress
INVARIANT QuietListComplete
