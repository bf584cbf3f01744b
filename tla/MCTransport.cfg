CONSTANTS
    t1 = t1
    t2 = t2
    Calls = {t1, t2}
    Connects = {c1, c2, c3}
    ReadAttempts = 3
    MaxCuts = 1
SPECIFICATION MCSpec
CHECK_DEADLOCK FALSE
INVARIANTS SendsAsAllowed GateHolds
PROPERTY AllEnd
