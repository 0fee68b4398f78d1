CONSTANTS
    Icaos = {}
    Positions = {}
    Tiles = {t}
    NoTile = NoTile
    Bearing <- NoBearing
    TileOf <- AnyTile
    SquawkHold = 5
    Resolution = 16384
SPECIFICATION Spec
INVARIANTS
    CodesRead
    DescribedAsDecoded
    RegistersRecovered
    PositionsPlaced
    StreamsRecovered
