SPECIFICATION MCSpec
CONSTANTS
    Sessions = {"s1", "s2"}
    Urls = {"page", "bank"}
    Scopes = {"domain", "exact-bank", "list-all"}
    ExactScopes = {"exact-bank", "list-all"}
    Covers <- MCCovers
    DefaultDenied = {"bank"}
    ListAllTabs = "list-all"
    SessionTtl = 1
    NoGrant = NoGrant
    NoScope = NoScope
    Nothing = Nothing
    Never = Never
    Readers = {r1, r2, r3}
    MaxTime = 1
    Requests <- MCAllRequests
SYMMETRY MCSymmetry
INVARIANTS
    TypeOK
    TextWasConsented
    ScreenshotWasConsented
    ListingWasConsented
CHECK_DEADLOCK FALSE
