SPECIFICATION Spec
CONSTANTS
    Callers = {p1, p2, p3}
    Values = {v1, v2}
    Ttls = {0, 1}
    MaxTtl = 1
    MaxTime = 2
    MaxHarm = 1
    Nothing = Nothing
    Damaged = Damaged
    Foreign = Foreign
    Unversioned = Unversioned
    Torn = Torn
INVARIANT StoreStaysClean
PROPERTY ImplementsRegister
CHECK_DEADLOCK FALSE
