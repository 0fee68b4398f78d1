CONSTANTS
    w1 = w1  w2 = w2
    p1 = p1  p2 = p2  p3 = p3
    t1 = t1  t2 = t2
    a = a  b = b
    Icaos = {a, b}
    Workers = {w1, w2}
    Positions = {p1, p2, p3}
    Tiles = {t1, t2}
    NoTile = NoTile
    Bearing <- East
    TileOf <- InTile
    SquawkHold = 5
    Junk = Junk
    None = None
    Updates <- ThreeOfOne
    Spread = FALSE
    ClickHouse = TRUE
    MaxJunk = 1
    ChanCap = 1
    DsCap = 1
    MaxSweeps = 0
SPECIFICATION FairSpec
PROPERTIES ShutdownCompletes WorkersComeBack
