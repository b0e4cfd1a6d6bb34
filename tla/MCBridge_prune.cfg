\* Recovery on: a pruned command is lost.
SPECIFICATION Spec
CONSTANTS
    MaxSeq = 3
    RecoveryOn = TRUE
    Delays = {}
    CleanupEnabled = TRUE
    MaxCrashes = 1
    MaxReconnects = 0
    MaxSerialFaults = 0
    MaxGiveUps = 0
    MaxCloudFaults = 0
INVARIANT PruningIsSafe
CHECK_DEADLOCK FALSE
