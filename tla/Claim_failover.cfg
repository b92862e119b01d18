SPECIFICATION FailoverSpec
CONSTANTS
    n1 = n1
    n2 = n2
    w1 = w1
    w2 = w2
    Tasks = {t1}
    Nodes = {n1, n2}
    Workers = {w1, w2}
    NodeOf <- NodeOf2
    NoNode = NoNode
    NoTask = NoTask
    MaxRetries = 1
    Commands = {k1}
    MaxInFlight = 2
    Env <- EnvCrash
PROPERTY FailoverRecovers
CHECK_DEADLOCK FALSE
