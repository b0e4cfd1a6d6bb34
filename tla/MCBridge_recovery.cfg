\* Recovery on and nothing deleted: listener and heartbeat race on the buffer.
SPECIFICATION FairSpec
CONSTANTS
    MaxSeq = 2
    RecoveryOn = TRUE
    Delays = {1}
    CleanupEnabled = FALSE
    MaxCrashes = 0
    MaxReconnects = 1
    MaxSerialFaults = 0
    MaxGiveUps = 1
    MaxCloudFaults = 0
INVARIANT TypingsHaveACause
PROPERTIES
    ReleasedIsHandled
    SavedIsAcknowledged
\* The heartbeat may be dead and everything typed.
CHECK_DEADLOCK FALSE
