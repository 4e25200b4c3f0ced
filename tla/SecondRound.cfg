SPECIFICATION FairSpec
CONSTANTS
    MapFile <- Map
    Lines <- FileLines
    MaxDup = 1
    MayLose = TRUE
    CLOCK_WRAP = 3
    MaxTime = 4
INVARIANTS
    TypeOK
    RoundTimesAddUp
    OneOutstanding
PROPERTIES
    RoundsInOrder
    SessionEnds
CHECK_DEADLOCK FALSE
