SPECIFICATION Spec
CHECK_DEADLOCK FALSE
CONSTANTS
    ResendInterval = 4
    Tolerance = 5
    GroupIntervals = {1, 3, 4, 6}
    MaxFailures = 3
    MaxTime = 60
INVARIANTS
    StaysFiring
