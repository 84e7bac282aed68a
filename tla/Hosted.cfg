SPECIFICATION MCSpec
CONSTANTS
    NumCalls = 3
    Sessions = {"s1", "s2"}
    Requests <- MCRequests
    Reports = {1, 3}
    DailyCap = 3
    MaxDay = 1
    NoRow = NoRow
    NotReported = NotReported
INVARIANTS
    TypeOK
    DailyCapHolds
    OneChargePerSession
    LedgerMatchesAnswer
    ReservationHeld
    OverrunLocksOut
PROPERTIES
    NoReservationAfterLockout
    ImplementsBudget
    StartedCallsEnd
CHECK_DEADLOCK FALSE
