SPECIFICATION MCSpec
CONSTANTS
    r1 = r1
    r2 = r2
    r3 = r3
    Readers = {r1, r2, r3}
    Urls = {"page", "post"}
    Route <- MCRoute
    Requests <- MCRequests
    Ttl <- MCTtl
    MaxTime = 2
    NoEntry = NoEntry
    NoReader = NoReader
INVARIANTS
    TypeOK
    DuplicatesAreLate
    LocksHaveHolders
    PaidPagesWereOptedIn
PROPERTY
    NobodyWaitsForEver
CHECK_DEADLOCK FALSE
