\* One trading client quoting with clip 1 and a position limit of 1
\* against one other participant trading 1 or 2; three requests in all,
\* so that the client can quote both sides and cancel or re-quote one, or
\* be filled twice on one side by a resting order of 2.  With clip 1 every
\* fill of the client's own order is a full fill.  One send of the order
\* server may be lost on EWOULDBLOCK.
CONSTANTS
    Clients = {0, 1}
    TC = 0
    Prices = {1, 2}
    Qtys = {1, 2}
    MaxPriceLevels = 4
    QtyModulus = 65536
    MaxOrderIds = 6
    OrderPoolSize = 6
    MaxRequests = 3
    MaxInFlight = 1
    Clip = 1
    MaxOrderSize = 2
    MaxPosition = 1
    MaxSendBlocks = 1
SPECIFICATION TCFairSpec
INVARIANTS
    ExposureWithinLimit
    NoOrphanOrder
    OMTracksExchange
    ResponsesInOrder
PROPERTY
    PendingResolves
