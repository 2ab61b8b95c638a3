\* A ring of three slots that goes round more than twice.
SPECIFICATION Spec
CONSTANTS
    Capacity = 3
    MaxFrames = 7
    None = None
INVARIANTS
    TypeOK
    OwnersDiffer
PROPERTIES
    RingIsQueue
    KeyFrameEnters
CHECK_DEADLOCK FALSE
