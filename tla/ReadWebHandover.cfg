SPECIFICATION Spec
CONSTANTS
    r1 = r1
    r2 = r2
    r3 = r3
    Readers = {r1, r2}
    Urls = {"page", "post"}
    Route <- MCRoute
    Requests <- MCRequests
    Ttl <- MCTtl
    MaxTime = 1
    NoEntry = NoEntry
    NoReader = NoReader
INVARIANT
    LockHandsOverResult
CHECK_DEADLOCK FALSE
