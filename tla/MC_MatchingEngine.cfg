\* Structure of the book, conservation of quantity and refinement of the
\* price-time book: one client (it trades with itself), three prices so
\* that a side holds three levels, four requests.
CONSTANTS
    c1 = c1
    c2 = c2
    Clients = {0}
    Prices = {1, 2, 3}
    Qtys = {1, 2}
    MaxPriceLevels = 4
    QtyModulus = 65536
    MaxOrderIds = 6
    OrderPoolSize = 6
    MaxRequests = 4
    MaxInFlight = 1
SPECIFICATION Spec
INVARIANTS
    TypeOK
    BookWellFormed
    QtyConserved
    NoFatal
PROPERTIES
    AbsSpec
