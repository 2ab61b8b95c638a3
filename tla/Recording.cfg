\* Three recordings, with starts that fail and waits that run out.
SPECIFICATION Spec
CONSTANTS
    MaxTriggers = 3
    None = None
INVARIANTS
    TypeOK
    OneEncoder
    StopIsHeard
    TakenOnlyByForce
    ReportedWhenOver
