\* A voice note and a message, a request of a reviewer, a restart.
SPECIFICATION FairSpec
CONSTANTS
    Rooms = {kitchen}
    ItemIds = {1, 2}
    Kind <- Kinds
    MaxPlan = 2
    MaxRequests = 2
    MaxHandlers = 1
    MaxCalls = 1
    MaxCrashes = 1
    NoDraft = NoDraft
INVARIANTS
    TypeOK
    LockAndLoopExclude
    NothingLostUnlessOverwritten
    NotesAreNotRepeated
    TurnsStartInOrder
    ShownAsDraftedIsDrafted
PROPERTIES
    EndedStaysEnded
    EveryOperationEnds
\* Everything may have been submitted and have ended.
CHECK_DEADLOCK FALSE
