CONSTANTS
    icao = icao  message = message  planeList = planeList  list = list
    Maps = {planeList, list}
    Keys = {icao, message}
    MapOf <- TwoMaps
    Marbles = {x1, x2, x3}
    Callers = {c1, c2}
    MaxStores = 3
    Nil = Nil
SPECIFICATION MapFairSpec
CHECK_DEADLOCK FALSE
INVARIANTS MapTypeOK SharedOnlyWhileDeleting WrongOnlyByDelete
PROPERTY OldIsForgotten
