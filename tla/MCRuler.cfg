SPECIFICATION FairSpec
CHECK_DEADLOCK FALSE
CONSTANTS
    Files <- MCFiles
    Answers <- MCAnswers
    Clients = {"r1"}
    Recheck = TRUE
    MaxEdits = 1
    MaxSignals = 1
INVARIANTS
    NoUseAfterClose
    RunningIsCurrent
    ReloadTellsTheTruth
    DeliveryMaterialClean
PROPERTIES
    SignalHonoured
    ShutdownReturns
