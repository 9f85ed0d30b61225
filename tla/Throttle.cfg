SPECIFICATION Spec
CONSTANTS
    Calls = {c1, c2, c3, c4, c5}
    LoginWindow = 2
    LoginMaxFails = 2
    Window = 2
    MaxHits = 2
    MaxTime = 3
SYMMETRY Symmetry
INVARIANTS TypeOK ThrottleHolds LoginHolds
PROPERTIES NobodyElseBlocked
CHECK_DEADLOCK FALSE
