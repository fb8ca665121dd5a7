\* Two live prices that are equal modulo ME_MAX_PRICE_LEVELS.
CONSTANTS
    c1 = c1
    c2 = c2
    Clients = {0}
    Prices = {1, 5}
    Qtys = {1}
    MaxPriceLevels = 4
    QtyModulus = 65536
    MaxOrderIds = 5
    OrderPoolSize = 5
    MaxRequests = 3
    MaxInFlight = 1
SPECIFICATION Spec
INVARIANTS
    BookWellFormed
