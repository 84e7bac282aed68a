SPECIFICATION Spec
CONSTANTS
    Urls = {"home", "homeHttp", "away", "act", "search"}
    Host <- MCHost
    Secure = {"home", "away", "act", "search"}
    Suspicious = {"act", "search"}
    Acting = {"act"}
    Addresses = {"public1", "public2", "internal"}
    Blocked = {"internal"}
    Requests <- MCRequests
    Answers <- MCAnswers
    AllowDowngrade = FALSE
    HopLimit = 4
    MaxBytes = 3
    Chunk = 3
    NoUrl = NoUrl
    NoAddress = NoAddress
INVARIANTS
    TypeOK
    WhatIsCarried
    WhereItGoes
    ResponsesAreWhole
PROPERTY
    RequestsEnd
CHECK_DEADLOCK FALSE
