SPECIFICATION Spec
CONSTANTS
    Calls = {c1}
    Env <- EnvStart
INVARIANT NothingLeft
CHECK_DEADLOCK FALSE
