SPECIFICATION Spec
CONSTANTS
    Ops = {"toggle", "privacy", "record", "stop", "sensitive"}
    Faults = {"start", "worker", "reply", "session"}
    MaxToggles = 4
    MaxPrivacy = 1
    MaxRecords = 3
INVARIANT PanicStops
INVARIANT TrayKnowsRecording
INVARIANT PauseHolds
INVARIANT PauseRecorded
CHECK_DEADLOCK FALSE
