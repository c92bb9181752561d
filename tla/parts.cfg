SPECIFICATION PartsSpec
CONSTANTS
    Keys = {k1, k2}
    Values = {v1, v2, v3}
    Zero = zero
    Size = 3
    Unset = unset
    DefaultPoll = 3
    DefaultRetention = 10
    LeastPoll = 2
    LeastPoints = 4
    Settings <- MCSettings
    NoReading = noreading
    Readings = {0, 1, 3}
INVARIANTS
    RingCoversRetention
    BoardsAgreeWithRange
    CopiesAreNotChips
PROPERTY
    KeepsRecentPoints
