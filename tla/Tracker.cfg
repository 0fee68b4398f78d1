CONSTANTS
    Workers = {v1, v2}
    Frames <- SomeFrames
    MaxFrames = 3
    Places = {1, 5}
    Ref = 0
    VelocityCheck = TRUE
    Viable = 1
    PairWindow = 2
    RefWindow = 4
    MaxHistory = 2
    Reach = 1
    TileWidth = 5
    NavMessages <- SomeNav
    NavExpiry = 1
    Tolerance = 1
    Skew = 1
    NavTime = 3
    NavHeard = 3
    Pushers = {v1, v2, v3}
    Capacity = 3
    MaxPushes = 8
    Addresses = {1, 2}
    Tags = {"t1", "t2"}
    Filters <- SomeFilters
    Busy = {1, 6}
    Heights = {20, 41, 60}
    MaxUpdates = 2
SPECIFICATION Spec
CHECK_DEADLOCK FALSE
INVARIANTS
    RecordsSound
    ChangesAnnounced
    Corroborated
    ViewTrue
PROPERTIES
    HistoryIsTrack
