SPECIFICATION LiveSpec
CONSTANTS
    n1 = n1
    n2 = n2
    w1 = w1
    w2 = w2
    Tasks = {t1}
    Nodes = {n1}
    Workers = {w1, w2}
    NodeOf <- NodeOf1
    NoNode = NoNode
    NoTask = NoTask
    MaxRetries = 1
    Commands = {k1, k2}
    MaxInFlight = 3
    Env <- EnvFailover
INVARIANTS ExecutorsBounded RunningHasExecutor PendingHasMessage
PROPERTY EveryTaskSettles
CHECK_DEADLOCK FALSE
