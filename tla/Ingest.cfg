CONSTANTS
    p1 = p1  p2 = p2  m1 = m1  m2 = m2  i1 = i1
    Producers = {p1}
    NameOf <- OwnNames
    KindsOf <- AnyKind
    Workers = {1, 2}
    Payloads = {m1, m2}
    Bad = {m2}
    Icaos = {i1}
    IcaoOf <- OneAircraft
    Objects = {o1, o2}
    MaxReads <- TwoReads
    MaxForgets = 1
    OutCap = 1
    TapCap = 1
    None = None
SPECIFICATION FairSpec
INVARIANTS
    Accounted
    DuplicatesOnlyByRace
    NothingLeftBehind
PROPERTIES
    ShutdownCompletes
