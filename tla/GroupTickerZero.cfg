SPECIFICATION FairSpec
CHECK_DEADLOCK FALSE
CONSTANTS
    Interval = 0
    Start = 1
    MaxTime = 12
    MaxCount = 8
PROPERTIES
    StopsWhenCancelled
