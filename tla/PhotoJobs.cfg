\* Two jobs of which one is kept, two connections.
SPECIFICATION FairSpec
CONSTANTS
    None = None
    Beat = Beat
    Conns = {"c1", "c2"}
    MaxBeats = 2
    MaxJobs = 2
    Retained = 1
INVARIANTS
    TypeOK
    NoneForgotten
    ToldOnceAndTruly
    Answerable
PROPERTIES
    AcceptedSettles
    ClientHears
CHECK_DEADLOCK FALSE
