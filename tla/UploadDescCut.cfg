\* stop() and losses of power at any moment, in the shared directory of m1.
SPECIFICATION Spec
CONSTANTS
    NMedia = 2
    Exclusive = FALSE
    AckTimely = TRUE
    MayStop = TRUE
    MayCrash = TRUE
    MaxFaults = 2
INVARIANT DeletedMeansAccepted
PROPERTY RemovedWhole
CHECK_DEADLOCK FALSE
