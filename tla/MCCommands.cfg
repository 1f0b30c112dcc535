SPECIFICATION Spec
CHECK_DEADLOCK FALSE
CONSTANTS
    CheckInputs <- MCCheckInputs
    ReplayInputs <- MCReplayInputs
    Configs <- MCConfigs
    Results <- MCResults
    Hash <- MCHash
    MaxSteps = 4
    Dotted = {"..data", "..old"}
    Reserved = {"ruler_error", "ruler_note"}
    MaxMultiple = 4
INVARIANTS
    PolicyBinds
    CollisionReported
    ReplayWithinCeiling
    ReplayCountsFirings
    GaugeIsLastAnswer
    DriftIsChange
    NothingOutlivesItsOwner
