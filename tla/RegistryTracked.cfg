SPECIFICATION Spec
CONSTANTS
    Launchers = {l1, l2}
    Cleaners = {c1}
    Sessions = {"s1", "s2"}
    SessionOf <- MCSessionOf
    Nobody = Nobody
INVARIANT
    LaunchedStaysTracked
CHECK_DEADLOCK FALSE
