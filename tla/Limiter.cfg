CONSTANTS
    Requests = {r1, r2, r3, r4, r5}
    Period = 2
    Burst = 2
    Horizon = 5
SPECIFICATION Spec
SYMMETRY Symmetry
CHECK_DEADLOCK FALSE
INVARIANT TypeOK
INVARIANT AdmissionBound
INVARIANT RefusedAfterBurst
