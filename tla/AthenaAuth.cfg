SPECIFICATION Spec
CONSTANTS
    Envs = {"production", "development"}
    TokenKinds <- SomeMissing
    Selectors = {select}
    Loads = {load}
    Switches = {sw1}
    Requests = {r1, r2}
    NULL = NULL
    CONFIG_CACHE_DURATION = 1
    EXPIRY_MARGIN = 1
    YEAR = 9
    TokenLifetime = 1
    MaxTime = 2
    MaxOps = 5
SYMMETRY ProcSymmetry
CHECK_DEADLOCK FALSE
INVARIANTS TypeOK ConfigConsistent CacheAgeSound RefreshSerialised
