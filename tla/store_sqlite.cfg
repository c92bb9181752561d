SPECIFICATION StoreSpec
CONSTANTS
    None = "none"
    HostNames <- MCHostNames
    MACs <- MCMACs
    Serials = {}
    IPs = {"ip1", "ip2", "ip3"}
    Boxes = {"b1", "b2"}
    HostFold <- MCHostFold
    MacFold <- MCMacFold
    SerialFold <- MCSerialFold
    GenericHosts = {"bitaxe"}
    Reports <- MCRenames
    TTL = 1
    MaxTime = 3
    BadLabels = {"bitaxe"}
    ModelName <- MCTwoModels
    Gap = 1
    UseSQLite = TRUE
    Points = 2
    Retention = 1
    PollLag = 0
    MaxFaults = 1
INVARIANTS
    HealedByUpsert
    Attribution
    LinesOfOneBox
    OneLinePerNamedMiner
    GroupsAreOfOneModel
    NamedBoxesCount
PROPERTY
    SamplesStay
