\* Two captures that may carry the same stamp, and any number of boots.
SPECIFICATION Spec
CONSTANTS
    Shots = {s1, s2}
    Stamps = {t1, t2}
    Photos = {1, 2}
    None = None
SYMMETRY Symmetry
INVARIANTS
    TypeOK
    AcceptedWhole
PROPERTIES
    RescueKeeps
    RemovedUp
CHECK_DEADLOCK FALSE
