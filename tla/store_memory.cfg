SPECIFICATION StoreSpec
CONSTANTS
    None = "none"
    HostNames <- MCHostNames
    MACs <- MCMACs
    Serials = {}
    IPs = {"ip1", "ip2", "ip3"}
    Boxes = {"b1", "b2"}
    HostFold <- MCHostFold
    MacFold <- MCMacFold
    SerialFold <- MCSerialFold
    GenericHosts = {"bitaxe"}
    Reports <- MCNamed
    TTL = 1
    MaxTime = 3
    BadLabels = {"bitaxe"}
    ModelName <- MCModels
    Gap = 1
    UseSQLite = FALSE
    Points = 3
    Retention = 0
    PollLag = 0
    MaxFaults = 0
INVARIANTS
    SeriesInOrder
    StoreTypeOK
    OneSeriesPerRow
    OneRowPerMAC
    GapsBreakLines
PROPERTIES
    ImplementsFleet
    StaysUntilTTL
