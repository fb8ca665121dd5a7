\* One recovery of the consumer: CLEAR and the snapshot ADDs must leave the
\* client book reading like the exchange book.
CONSTANTS
    Clients = {0}
    Prices = {1, 2, 3}
    Qtys = {1, 2}
    MaxPriceLevels = 4
    QtyModulus = 65536
    MaxOrderIds = 6
    OrderPoolSize = 6
    MaxRequests = 3
    MaxInFlight = 1
    MktOrderIds = 6
    MaxResyncs = 1
SPECIFICATION MirrorSpec
INVARIANT
    ClientBookMirrors
