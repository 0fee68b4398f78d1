CONSTANTS
    k = k  c1 = c1  c2 = c2  c3 = c3
    Keys = {k}
    Labels = {11}
    Conns = {c1, c2, c3}
    KeyOf <- OneKey
    ProtoOf <- Mixed
    RateWindow = 1
    ForgetAfter = 0
    MaxClock = 1
    MaxRefreshes = 1
    None = None
SPECIFICATION FairSpec
CHECK_DEADLOCK FALSE
INVARIANTS TypeOK OneServedPerCounter FlagAccounted
PROPERTY AttemptsSettle
