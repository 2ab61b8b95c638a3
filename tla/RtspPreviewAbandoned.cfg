\* One client previews once and leaves.
SPECIFICATION FairSpec
CONSTANTS
    None = None
    Clients = {"c1"}
    Sessions = {1}
    Streams = {0}
    Timeout = 2
    Window = 1
    MaxPlays = 2
PROPERTY AbandonedEnds
CHECK_DEADLOCK FALSE
