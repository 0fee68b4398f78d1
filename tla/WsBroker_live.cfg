CONSTANTS
    c1 = c1  c2 = c2  v1 = v1
    a = a  b = b  t1 = t1  t2 = t2
    Clients = {c1, c2}
    Workers = {v1}
    Icaos = {a, b}
    Tiles = {t1, t2}
    Updates <- Moves
    Requests <- OneSets
    MaxRequests = 1
    MaxForgets = 0
    OutCap = 1
    None = None
SPECIFICATION FairSpec
CHECK_DEADLOCK FALSE
PROPERTIES FanOutEnds LostClientsLeave
