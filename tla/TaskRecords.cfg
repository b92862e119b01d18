SPECIFICATION RecordsLiveSpec
CONSTANTS
    n1 = n1
    w1 = w1
    w2 = w2
    t1 = t1
    u1 = u1
    u2 = u2
    admin = admin
    Tasks = {t1}
    Nodes = {n1}
    Workers = {w1, w2}
    NodeOf <- NodeOf1
    NoNode = NoNode
    NoTask = NoTask
    MaxRetries = 1
    Commands = {k1}
    MaxInFlight = 2
    Env <- EnvRecords
    Users = {u1, u2, admin}
    Admins = {admin}
    OwnerOf <- Owner
    Cleaners = {c1}
    BatchSize = 1
    EsFails = TRUE
INVARIANTS RecordsTypeOK SearchMatchesList LoggedOnce TypeTellsOutcome
PROPERTIES CleanupDeletesFinished LogsOutliveTask ImplementsAttempts OldTasksGo
CHECK_DEADLOCK FALSE
