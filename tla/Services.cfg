CONSTANTS
    Aircraft = {i1, i2}
    Handlers = {h1, h2}
    MaxChanges = 2
    MaxDelay = 3
    Keys = {k1}
    Doubtful = {k1}
    SessionIds = {1}
    MaxFaults = 1
    MaxListed = 1
    MaxConnects = 1
    Callers = {c1, c2}
    MaxAsked = 3
    MaxAway = 2
    Stalling = {"mlat"}
    MaxBytes = 2
    Connections = {x1}
    MaxIssue = 2
    TreeWorkers = {w1, w2}
    TreeKeys = {b1}
    MaxAge = 2
    RegionCallers = {q1, q2}
    RegionFeeders = {k1, k2}
    Latitudes = {1, 2}
    Longitudes = {1}
    Features <- Overlap
    MaxMoves = 1
SPECIFICATION Spec
CHECK_DEADLOCK FALSE
INVARIANTS
    NothingMadeUp
PROPERTIES
    DueComesAbout
    EndsWhenTold
