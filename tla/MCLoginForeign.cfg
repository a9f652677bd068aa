SPECIFICATION LoginUpdateSpec
CONSTANTS
    RootTargets <- RootOrder
    UserTargets <- UserOrder
    Wants = "wants"
    MaxFaults = 0
    MaxEdits = 1
    MaxRuns = 1
    MaxAlone = 0
CHECK_DEADLOCK FALSE
PROPERTY NeverOverwritten
