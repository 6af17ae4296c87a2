\* Two callers look up again and again: one may join, or follow, the other.
CONSTANTS
    Caller = {c1, c2}
    TTL = 2
    Timeout = 1
    None = None
    MaxTime = 4
    MaxKeys = 2
SPECIFICATION KeysFairSpec
INVARIANTS StalenessBounded
PROPERTIES CacheMovesForward LookupsReturn
