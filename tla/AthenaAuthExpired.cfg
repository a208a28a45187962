SPECIFICATION Spec
CONSTANTS
    Envs = {"production", "development"}
    TokenKinds <- AllTokens
    Selectors = {select}
    Loads = {load}
    Switches = {sw1}
    Requests = {r1}
    NULL = NULL
    CONFIG_CACHE_DURATION = 1
    EXPIRY_MARGIN = 1
    YEAR = 9
    TokenLifetime = 1
    MaxTime = 2
    MaxOps = 5
CHECK_DEADLOCK FALSE
PROPERTY NoExpiredTokenSent
