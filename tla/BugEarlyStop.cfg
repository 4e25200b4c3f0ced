SPECIFICATION Spec
CONSTANTS
    MapFile <- Map
    Lines <- FileLines
    MaxDup = 1
    MayLose = TRUE
    CLOCK_WRAP = 3
    MaxTime = 0
PROPERTIES
    AllRespondedAtStop
CHECK_DEADLOCK FALSE
