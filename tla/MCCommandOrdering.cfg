\* Five numbers, two versions of each, a queue resumed at 2.
SPECIFICATION FairSpec
CONSTANTS
    a = a
    b = b
    Payload <- Versions
    MaxSeq = 5
    MaxGapAge = 2
    Start = 2
INVARIANTS
    TypeOK
    EmittedInOrder
    NoAcceptedCommandLost
    GapsAreAccountedFor
    TimerRunsIffGap
PROPERTY HeldCommandsComeOut
