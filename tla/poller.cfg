SPECIFICATION PollerSpec
CONSTANTS
    None = "none"
    HostNames <- MCHostNames
    MACs <- MCMACs
    Serials = {}
    IPs = {"ip1", "ip2"}
    Boxes = {"b1", "b2"}
    HostFold <- MCHostFold
    MacFold <- MCMacFold
    SerialFold <- MCSerialFold
    GenericHosts = {}
    Reports <- MCReports
    TTL = 1
    MaxTime = 3
    Static = {"ip1"}
    Subnet = {"ip2"}
    RescanInterval = 2
    MaxMoves = 1
    CanStop = TRUE
INVARIANTS
    FleetIsPolled
    IdleMeansApplied
    FleetTypeOK
    KeyedByIdentity
    UniqueAddress
PROPERTY
    ImplementsFleet
