\* The client's CMarketOrderBook fed the exchange's updates, with one
\* recovery of the consumer at any point: three prices so that a side holds
\* three levels, three requests so that an add, a partial fill and a cancel
\* can each come before or after the recovery.
CONSTANTS
    Clients = {0}
    Prices = {1, 2, 3}
    Qtys = {1, 2}
    MaxPriceLevels = 4
    QtyModulus = 65536
    MaxOrderIds = 6
    OrderPoolSize = 6
    MaxRequests = 3
    MaxInFlight = 1
    MktOrderIds = 6
    MaxResyncs = 1
SPECIFICATION MirrorSpec
INVARIANTS
    MirrorTypeOK
    ClientIndexMirrors
    MirrorBeforeRecovery
