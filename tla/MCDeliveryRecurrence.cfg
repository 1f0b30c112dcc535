SPECIFICATION Spec
CHECK_DEADLOCK FALSE
CONSTANTS
    e1 = e1
    e2 = e2
    fast = fast
    slow = slow
    Rules = {fast, slow}
    Endpoints = {e1}
    Definition <- MCDefinition
    GroupInterval <- MCGroupInterval
    Rows <- MCRows
    Hash <- MCHash
    Batch = {}
    None = None
    ResendInterval = 3
    Tolerance = 2
    MaxWaiting = 2
    MaxLag = 3
    MaxTime = 11
PROPERTIES
    ForgottenResolveWasReported
