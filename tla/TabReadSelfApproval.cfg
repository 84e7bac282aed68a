SPECIFICATION TabSpec
CONSTANTS
    Sessions = {"s1", "s2"}
    Urls = {"page", "bank"}
    Scopes = {"domain", "exact-bank", "list-all"}
    ExactScopes = {"exact-bank", "list-all"}
    Covers <- MCCovers
    DefaultDenied = {"bank"}
    ListAllTabs = "list-all"
    SessionTtl = 1
    NoGrant = NoGrant
    NoScope = NoScope
    Nothing = Nothing
    Never = Never
    Readers = {r1, r2}
    MaxTime = 0
    Requests <- MCListRequests
INVARIANT
    SelfApprovalWorks
CHECK_DEADLOCK FALSE
