SPECIFICATION DashSpec
CONSTANTS
    None = None
    MinWidth = 2
    MostWidth = 6
    DefaultWidth = 3
    Reserve = 4
    Step = 2
    Viewports = {5, 9}
    Positions = {0, 8}
    Pointers = {"p1", "p2"}
    Columns = {"ip", "temp"}
    DefaultOn = {"ip", "temp"}
    Texty = {"ip"}
    Retired = {"old", "30d", "pools"}
    Presets = {"4h", "1d"}
    Ages = {6}
    Oldest = 30
    Sections = {"fleet"}
    MobileMax = 6
    Miners = {"a", "b"}
    Makes = {"m1", "m2"}
    Worlds <- MCWorlds
    Metrics = {"hashrate", "hashrate_by_type"}
    Visits <- MCVisits
    MaxCalls = 2
INVARIANTS
    DashTypeOK
    ChartMatchesFilters
    HiddenAreDrawn
    ReloadRestores
    AxisIsQuery
    WidthFits
PROPERTIES
    SortStaysShown
    RefreshLeavesTableRight
    DetailSettles
    ChartSettles
    TableSettles
