SPECIFICATION LiveSpec
CONSTANTS
    b1 = b1
    b2 = b2
    c1 = c1
    c2 = c2
    Tabs <- MCTabs
    Calls <- MCCalls
    MaxIssued = 4
    NoToken = NoToken
    Undefined = Undefined
    NoTab = NoTab
    Env <- EnvAll
INVARIANTS TypeOK StaysSignedIn RenewalHelps
PROPERTY CallsEnd
CHECK_DEADLOCK FALSE
