SPECIFICATION FairSpec
CHECK_DEADLOCK FALSE
CONSTANTS
    Interval = 2
    Start = 1
    MaxTime = 12
    MaxCount = 13
INVARIANTS
    BoundariesAccounted
    NoBacklog
PROPERTIES
    StopsWhenCancelled
