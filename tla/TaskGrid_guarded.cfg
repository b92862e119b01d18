SPECIFICATION Spec
CONSTANTS
    n1 = n1
    n2 = n2
    w1 = w1
    w2 = w2
    Tasks = {t1, t2}
    Nodes = {n1}
    Workers = {w1, w2}
    NodeOf <- NodeOf1
    NoNode = NoNode
    NoTask = NoTask
    MaxRetries = 1
    Commands = {k1}
    MaxInFlight = 2
    Env <- EnvGuarded
INVARIANTS SingleExecution TimestampsAgree CancelledOnRequest
PROPERTIES ExecutedAtMostOnce ImplementsLifecycle
SYMMETRY TaskSymmetry
CHECK_DEADLOCK FALSE
