SPECIFICATION Spec
CONSTANTS
    Launchers = {l1, l2}
    Cleaners = {c1, c2}
    Sessions = {"s1", "s2"}
    SessionOf <- MCSessionOf
    Nobody = Nobody
INVARIANTS
    TypeOK
    RunningBrowsersHaveProfiles
PROPERTIES
    WritersKeepRecords
    SurvivorsStayTracked
    LaunchesEnd
CHECK_DEADLOCK FALSE
