SPECIFICATION LiveSpec
CONSTANTS
    Calls = {c1, c2}
    Env <- EnvAll
INVARIANT TypeOK
PROPERTIES KeepsPromise HangsOnlyInWait OutlivedByFault
CHECK_DEADLOCK FALSE
