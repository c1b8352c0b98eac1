SPECIFICATION Spec
CONSTANTS
    Rpcs = {rpc1,rpc2}
    Apis = {api1}
    Heights = {1}
    acceptableHeightDiff = 1
    CACHE_TTL = 2
    HEALTH_CHECK_TIMEOUT = 1
    Null = Null
    MaxRequests = 2
    MaxTime = 3
INVARIANTS
    AnswersAreRecent
    CacheKeepsUp
CHECK_DEADLOCK FALSE
