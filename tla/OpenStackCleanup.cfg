CONSTANTS
    vm = vm
    vmPort = vmPort
    spare = spare
    youngIp = youngIp
    ip = ip
    key = key
    net = net
    subnet = subnet
    iface = iface
    group = group
    default = default
    young = young
    youngPort = youngPort
    youngNet = youngNet
    youngSubnet = youngSubnet
    lateSubnet = lateSubnet
    stray = stray
    NoOwner = NoOwner
    Resources <- All
    Kind <- Kinds1
    Uses <- Uses1
    Owner <- Owner1
    RouterPorts <- Routed
    Unmanaged <- NotManaged
    Old <- OldOnes
    Initial <- Starts
    MaxRuns = 2
    MaxFaults = 1
SPECIFICATION Spec
INVARIANT TypeOK
INVARIANT TwoRunsClean
PROPERTY YoungKept
PROPERTY DryRunKeepsAll
PROPERTY DoneMeansClean
