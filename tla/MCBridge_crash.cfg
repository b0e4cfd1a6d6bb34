\* Recovery off; a kill, a reconnection, a failing send, a failing write.
SPECIFICATION FairSpec
CONSTANTS
    MaxSeq = 3
    RecoveryOn = FALSE
    Delays = {2}
    CleanupEnabled = TRUE
    MaxCrashes = 1
    MaxReconnects = 1
    MaxSerialFaults = 1
    MaxGiveUps = 0
    MaxCloudFaults = 1
INVARIANTS
    TypeOK
    TypedInOrder
    RepeatsHaveACause
    AppliedMeansHandled
    NothingForgotten
    PruningIsSafe
PROPERTIES
    ProgressNeverGoesBack
    HalfTypedComesFirst
    TypesAsPromised
    PrefixIsTyped
\* Everything may be published and typed.
CHECK_DEADLOCK FALSE
