\* The scheduler with the tasks wm gives it: a capture may be over before its
\* start() looks, an uploader is running when its start() returns.
SPECIFICATION Spec
CONSTANTS
    IdleGrace = 2
    UploadTimeout = 1
    CaptureStarts = {"Running", "Done", "Failed"}
    UploadStarts = {"Running"}
    MaxCaptures = 3
INVARIANTS
    TypeOK
    StoppedIsQuiet
PROPERTIES
    ShutdownIsFinal
    IdleGraceHonoured
    CaptureHandedOver
CHECK_DEADLOCK FALSE
