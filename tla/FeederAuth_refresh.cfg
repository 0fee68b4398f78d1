CONSTANTS
    k = k  c1 = c1  c2 = c2  c3 = c3
    Keys = {k}
    Labels = {11}
    Conns = {c1}
    KeyOf <- OneKey
    ProtoOf <- AllBeast
    RateWindow = 1
    ForgetAfter = 2
    MaxClock = 0
    MaxRefreshes = 1
    None = None
SPECIFICATION FairSpec
CHECK_DEADLOCK FALSE
PROPERTY RefreshCompletes
