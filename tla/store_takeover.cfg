SPECIFICATION StoreSpec
CONSTANTS
    None = "none"
    HostNames <- MCHostNames
    MACs <- MCMACs
    Serials = {}
    IPs = {"ip1", "ip2"}
    Boxes = {"b1", "b2"}
    HostFold <- MCHostFold
    MacFold <- MCMacFold
    SerialFold <- MCSerialFold
    GenericHosts = {"bitaxe"}
    Reports <- MCTakeover
    TTL = 1
    MaxTime = 2
    BadLabels = {"bitaxe"}
    ModelName <- MCModels
    Gap = 1
    UseSQLite = TRUE
    Points = 2
    Retention = 0
    PollLag = 0
    MaxFaults = 0
INVARIANT
    Attribution
