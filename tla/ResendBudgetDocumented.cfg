SPECIFICATION Spec
CHECK_DEADLOCK FALSE
CONSTANTS
    ResendInterval = 10
    Tolerance = 4
    GroupIntervals = {9}
    MaxFailures = 3
    MaxTime = 100
INVARIANTS
    StaysFiring
