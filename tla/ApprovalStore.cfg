SPECIFICATION StoreSpec
CONSTANTS
    Writers = {w1, w2, w3}
    Sessions = {"s1", "s2"}
    Urls = {"page"}
    Scopes = {"exact", "host"}
    ExactScopes = {"exact"}
    Covers <- MCCovers
    DefaultDenied = {}
    SessionTtl = 1
    MaxTime = 1
    Changes <- MCChanges
    NoGrant = NoGrant
    Nobody = Nobody
INVARIANT
    StoreTypeOK
PROPERTIES
    ImplementsApprovals
    RequestsEnd
CHECK_DEADLOCK FALSE
