SPECIFICATION PollerSpec
CONSTANTS
    None = "none"
    HostNames <- MCHostNames
    MACs <- MCMACs
    Serials = {}
    IPs = {"ip1", "ip2"}
    Boxes = {"b1"}
    HostFold <- MCHostFold
    MacFold <- MCMacFold
    SerialFold <- MCSerialFold
    GenericHosts = {}
    Reports <- MCOneBox
    TTL = 1
    MaxTime = 2
    Static = {"ip1"}
    Subnet = {"ip2"}
    RescanInterval = 0
    MaxMoves = 0
    CanStop = TRUE
INVARIANT
    NoPhantom
