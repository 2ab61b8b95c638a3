\* An answer may come after its timeout.
SPECIFICATION Spec
CONSTANTS
    NMedia = 2
    Exclusive = TRUE
    AckTimely = FALSE
    MayStop = FALSE
    MayCrash = FALSE
    MaxFaults = 2
PROPERTY KeepsCustody
CHECK_DEADLOCK FALSE
