SPECIFICATION LiveSpec
CONSTANTS
    n1 = n1
    c1 = c1
    c2 = c2
    Nodes <- MCNodes
    Checkers <- MCCheckers
    Interval = 3
    Limit = 6
    Latency = 1
    CheckTime = 1
    Env <- EnvAll
INVARIANTS
    TypeOK
    SelectSeesFresh
PROPERTIES
    ImplementsDetector
    NoSilentMark
    DeadIsFound
    AliveComesBack
