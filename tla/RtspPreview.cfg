\* Two clients with one stream each, two session ids, three granted PLAYs.
SPECIFICATION FairSpec
CONSTANTS
    None = None
    Clients = {"c1", "c2"}
    Sessions = {1, 2}
    Streams = {0}
    Timeout = 2
    Window = 1
    MaxPlays = 3
INVARIANTS
    TypeOK
    StreamingIsActive
PROPERTIES
    NoShutdownWhileWatched
    GrantedStarts
CHECK_DEADLOCK FALSE
