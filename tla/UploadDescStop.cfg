\* stop() at any moment, with a network that does not fail.
SPECIFICATION FairSpec
CONSTANTS
    NMedia = 2
    Exclusive = TRUE
    AckTimely = TRUE
    MayStop = TRUE
    MayCrash = FALSE
    MaxFaults = 0
PROPERTY StopReturns
CHECK_DEADLOCK FALSE
