\* A unit of two media on a connection that answers in time or not at all.
SPECIFICATION FairSpec
CONSTANTS
    NMedia = 2
    Exclusive = TRUE
    AckTimely = TRUE
    MayStop = FALSE
    MayCrash = FALSE
    MaxFaults = 4
INVARIANTS
    TypeOK
    RemovedMeansAccepted
    TagsTellFiles
PROPERTIES
    KeepsCustody
    EventuallyRemoved
CHECK_DEADLOCK FALSE
