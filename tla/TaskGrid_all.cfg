SPECIFICATION Spec
CONSTANTS
    n1 = n1
    n2 = n2
    w1 = w1
    w2 = w2
    Tasks = {t1}
    Nodes = {n1}
    Workers = {w1}
    NodeOf <- NodeOfOne
    NoNode = NoNode
    NoTask = NoTask
    MaxRetries = 1
    Commands = {k1}
    MaxInFlight = 2
    Env <- EnvAll
INVARIANT TypeOK
PROPERTIES OnlyStaleSavesLeaveTerminal OrphanedByFault AbandonedByFault
CHECK_DEADLOCK FALSE
