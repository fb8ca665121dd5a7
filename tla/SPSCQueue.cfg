\* A ring of three slots and seven records: both indices wrap twice and the
\* queue is full at some point; the producer waits for room.
CONSTANTS
    Size = 3
    MaxItems = 7
    ProducerWaits = TRUE
SPECIFICATION Spec
INVARIANTS
    TypeOK
    FifoDelivery
PROPERTIES
    AllConsumed
