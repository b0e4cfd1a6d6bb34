\* Listener and heartbeat race on the buffer, with recovery on and off.  The
\* events end, and the heartbeat may be dead: the system may stop.
SPECIFICATION Spec
CONSTANTS
    MaxSeq = 3
    MaxDeliveries = 2
INVARIANTS
    TypeOK
    TakenIsConserved
PROPERTY
    AloneIsAtomic
CHECK_DEADLOCK FALSE
