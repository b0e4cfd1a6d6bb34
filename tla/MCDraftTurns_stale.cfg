\* A review while a turn is under way, then a publication.
SPECIFICATION Spec
CONSTANTS
    Rooms = {kitchen}
    ItemIds = {1}
    Kind <- AllMessages
    MaxPlan = 1
    MaxRequests = 2
    MaxHandlers = 1
    MaxCalls = 3
    MaxCrashes = 0
    NoDraft = NoDraft
PROPERTIES
    RejectedIsNotPublished
\* Everything may have been submitted and have ended.
CHECK_DEADLOCK FALSE
