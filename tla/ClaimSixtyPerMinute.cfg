CONSTANTS
    Requests = {r1, r2, r3, r4}
    Period = 2
    Burst = 2
    Horizon = 4
SPECIFICATION Spec
CHECK_DEADLOCK FALSE
INVARIANT SixtyPerMinute
