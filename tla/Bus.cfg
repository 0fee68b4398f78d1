CONSTANTS
    Tappers = {t1, t2}
    Ingests = {n1, n2}
    Nil = Nil
    Matches = {{t1}}
    MaxTapFrames = 1
    MaxTimeouts = 1
    MaxRefresh = 2
    Duration = 2
    LastHeard = 3
    ApiWorkers = {w1, w2}
    Asked <- OneRequest
    Feeders = {f1, f2}
    MaxDbFaults = 1
    HandleDepth = 1
    UpdateDepth = 1
    Minute = 1
    MaxClock = 3
    RestartTimes = {2}
    FeedWorkers = {g1}
    QueueDepth = 1
    MaxBrokerMsgs = 2
    MaxBrokerErrs = 1
SPECIFICATION Spec
CHECK_DEADLOCK FALSE
INVARIANTS
    BooksBalance
PROPERTIES
    EndsWhenLeft
    AskedIsAnswered
    PutBackOnlyLate
