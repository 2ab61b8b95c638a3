\* Every mode, with connections and uploads that may fail at any time.
SPECIFICATION FairSpec
CONSTANTS
    IdleGrace = 1
    UploadTimeout = 1
    ConnectGrace = 1
    MaxCaptures = 3
    MaxDescs = 2
    RunModes = {"CaptureOnly", "CaptureUpload", "UploadOnly"}
    ConnectOutcomes = {TRUE, FALSE}
    UploadOutcomes = {"gone", "pending"}
INVARIANTS
    TypeOK
    WakeUpOwed
PROPERTIES
    DoneMeansDrained
    EndsUnlessCaught
CHECK_DEADLOCK FALSE
