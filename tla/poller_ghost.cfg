SPECIFICATION PollerSpec
CONSTANTS
    None = "none"
    HostNames <- MCHostNames
    MACs <- MCMACs
    Serials = {}
    IPs = {"ip1", "ip2"}
    Boxes = {"b1"}
    HostFold <- MCHostFold
    MacFold <- MCMacFold
    SerialFold <- MCSerialFold
    GenericHosts = {}
    Reports <- MCOneBox
    TTL = 1
    MaxTime = 2
    Static = {}
    Subnet = {"ip1", "ip2"}
    RescanInterval = 1
    MaxMoves = 1
    CanStop = FALSE
INVARIANT
    RowsBoundedByBoxes
