\* With recovery on the two threads put out of order.
SPECIFICATION Spec
CONSTANTS
    MaxSeq = 3
    MaxDeliveries = 1
INVARIANT QueueInOrder
CHECK_DEADLOCK FALSE
