--------------------------- MODULE MarketOrderBook ---------------------------
(***************************************************************************)
(* CMarketOrderBook (src/trading/strategy/MarketOrderBook.{h,cpp}): the   *)
(* trading side's mirror of one instrument's book, rebuilt from the       *)
(* market updates the consumer forwards.  It is kept at pointer level     *)
(* like MEOrderBook, whose level-list code it repeats line for line:      *)
(*   opool, lpool     m_orderPool, m_ordersAtPricePool                     *)
(*   bids, asks       m_pBidsByPrice, m_pAsksByPrice                       *)
(*   pidx             m_priceOrdersAtPrice (price % ME_MAX_PRICE_LEVELS)   *)
(*   oidToOrder       m_oidToOrder (market order id -> order)              *)
(*   bbo              m_pBbo                                               *)
(*   fatal            a crash: null dereference, .at() throwing inside a   *)
(*                    noexcept function, a failed pool ASSERT              *)
(* A level is the MEOrderBook level record; an order is                    *)
(* [moid, side, price, qty, prio, prev, next].                             *)
(* The two index arrays are not initialised by the constructor; the book  *)
(* is created with new and the arrays are megabytes large, so they come   *)
(* from fresh zeroed pages: they start as nullptr here.                   *)
(***************************************************************************)
EXTENDS Integers, Sequences, FiniteSets
Pool == INSTANCE MemoryPool

CONSTANTS
    MaxPriceLevels, \* ME_MAX_PRICE_LEVELS
    QtyModulus      \* as in MEOrderBook (unused by the client book)

ME == INSTANCE MEOrderBook

NULL    == ME!NULL
INVALID == ME!INVALID
BUY     == ME!BUY
SELL    == ME!SELL

NoMktOrder == [moid |-> INVALID, side |-> ME!NOSIDE, price |-> INVALID, qty |-> INVALID,
               prio |-> INVALID, prev |-> NULL, next |-> NULL]

NoBBO == [bidPrice |-> INVALID, bidQty |-> INVALID, askPrice |-> INVALID, askQty |-> INVALID]

(* The constructor: numOrderIds entries of m_oidToOrder and pools of      *)
(* orderPoolSize orders and MaxPriceLevels levels.                         *)
NewMarketOrderBook(numOrderIds, orderPoolSize) ==
    [opool      |-> Pool!NewPool(orderPoolSize, NoMktOrder),
     lpool      |-> Pool!NewPool(MaxPriceLevels, ME!NoLevel),
     bids       |-> NULL,
     asks       |-> NULL,
     pidx       |-> [i \in 0 .. MaxPriceLevels - 1 |-> NULL],
     oidToOrder |-> [m \in 0 .. numOrderIds - 1 |-> NULL],
     bbo        |-> NoBBO,
     fatal      |-> "none"]

Crashed(b) == ME!Crashed(b)

O(b, o) == ME!O(b, o)
L(b, l) == ME!L(b, l)
SetO(b, o, f, v) == ME!SetO(b, o, f, v)
SetL(b, l, f, v) == ME!SetL(b, l, f, v)

(* m_oidToOrder.at(id): past the table it throws.                          *)
OidInRange(b, m) == m \in DOMAIN b.oidToOrder

(* AddOrdersAtPrice and RemoveOrdersAtPrice are the exchange book's code. *)
AddOrdersAtPrice(b, n) == ME!AddOrdersAtPrice(b, n)
RemoveOrdersAtPrice(b, side, price) == ME!RemoveOrdersAtPrice(b, side, price)

(* Mutant of RemoveOrder: the m_oidToOrder entry is left in place.        *)
RemoveOrder_KeepIndex(b, o) ==
    LET r  == O(b, o)
        l  == ME!GetOrdersAtPrice(b, r.price)
        b1 == IF r.prev = o
              THEN RemoveOrdersAtPrice(b, r.side, r.price)
              ELSE LET c1 == SetO(SetO(b, r.prev, "next", r.next), r.next, "prev", r.prev)
                       c2 == IF L(c1, l).first = o THEN SetL(c1, l, "first", r.next) ELSE c1
                   IN  SetO(SetO(c2, o, "prev", NULL), o, "next", NULL)
    IN  IF l = NULL THEN [b EXCEPT !.fatal = "null level"]
        ELSE IF r.prev # o /\ ~({r.prev, r.next} \subseteq Pool!Slots(b.opool))
        THEN [b EXCEPT !.fatal = "null order"]
        ELSE [b1 EXCEPT !.opool = Pool!Deallocate(@, o)]

(* RemoveOrder: unlink the order from its level's FIFO, dropping the      *)
(* level when it was the only order, clear its index entry and free it.   *)
(* Both branches dereference the level: a missing one is a crash.         *)
RemoveOrder(b, o) ==
    LET r  == O(b, o)
        l  == ME!GetOrdersAtPrice(b, r.price)
        b1 == IF r.prev = o
              THEN RemoveOrdersAtPrice(b, r.side, r.price)
              ELSE LET c1 == SetO(SetO(b, r.prev, "next", r.next), r.next, "prev", r.prev)
                       c2 == IF L(c1, l).first = o THEN SetL(c1, l, "first", r.next) ELSE c1
                   IN  SetO(SetO(c2, o, "prev", NULL), o, "next", NULL)
    IN  IF l = NULL THEN [b EXCEPT !.fatal = "null level"]
        ELSE IF r.prev # o /\ ~({r.prev, r.next} \subseteq Pool!Slots(b.opool))
        THEN [b EXCEPT !.fatal = "null order"]
        ELSE IF ~OidInRange(b1, r.moid) THEN [b1 EXCEPT !.fatal = "oidToOrder out_of_range"]
        ELSE [b1 EXCEPT !.oidToOrder[r.moid] = NULL, !.opool = Pool!Deallocate(@, o)]

(* Mutant of AddOrder: a new order joins an existing level at the head of *)
(* its FIFO.                                                               *)
AddOrder_AtHead(b, o) ==
    LET r  == O(b, o)
        l  == ME!GetOrdersAtPrice(b, r.price)
        b1 == IF l = NULL
              THEN LET c1 == SetO(SetO(b, o, "next", o), o, "prev", o)
                       n  == Pool!AllocSlot(c1.lpool)
                       c2 == [c1 EXCEPT !.lpool = Pool!Allocate(@,
                                 [side |-> r.side, price |-> r.price, first |-> o,
                                  prev |-> NULL, next |-> NULL])]
                   IN  AddOrdersAtPrice(c2, n)
              ELSE LET first == L(b, l).first
                       c1 == SetO(b, O(b, first).prev, "next", o)
                       c2 == SetO(c1, o, "prev", O(c1, first).prev)
                       c3 == SetO(c2, o, "next", first)
                   IN  SetL(SetO(c3, first, "prev", o), l, "first", o)
        broken == l # NULL /\ (L(b, l).first \notin Pool!Slots(b.opool)
                              \/ O(b, L(b, l).first).prev \notin Pool!Slots(b.opool))
    IN  IF broken THEN [b EXCEPT !.fatal = "null order"]
        ELSE IF ~OidInRange(b1, r.moid) THEN [b1 EXCEPT !.fatal = "oidToOrder out_of_range"]
        ELSE [b1 EXCEPT !.oidToOrder[r.moid] = o]

(* AddOrder: append the order at the tail of the FIFO of the level the    *)
(* index holds for its price, creating the level when the slot is empty,  *)
(* then index the order by market order id.                                *)
AddOrder(b, o) ==
    LET r  == O(b, o)
        l  == ME!GetOrdersAtPrice(b, r.price)
        b1 == IF l = NULL
              THEN LET c1 == SetO(SetO(b, o, "next", o), o, "prev", o)
                       n  == Pool!AllocSlot(c1.lpool)
                       c2 == [c1 EXCEPT !.lpool = Pool!Allocate(@,
                                 [side |-> r.side, price |-> r.price, first |-> o,
                                  prev |-> NULL, next |-> NULL])]
                   IN  AddOrdersAtPrice(c2, n)
              ELSE LET first == L(b, l).first
                       c1 == SetO(b, O(b, first).prev, "next", o)
                       c2 == SetO(c1, o, "prev", O(c1, first).prev)
                       c3 == SetO(c2, o, "next", first)
                   IN  SetO(c3, first, "prev", o)
        broken == l # NULL /\ (L(b, l).first \notin Pool!Slots(b.opool)
                              \/ O(b, L(b, l).first).prev \notin Pool!Slots(b.opool))
    IN  IF broken THEN [b EXCEPT !.fatal = "null order"]
        ELSE IF ~OidInRange(b1, r.moid) THEN [b1 EXCEPT !.fatal = "oidToOrder out_of_range"]
        ELSE [b1 EXCEPT !.oidToOrder[r.moid] = o]

(* The for loops of CLEAR over a side's level ring: free best->next, ...  *)
(* until the walk is back at best.  A walk that leaves the ring frees a   *)
(* block twice or a foreign one, and the pool's ASSERT stops it.          *)
RECURSIVE FreeRing(_, _, _)
FreeRing(p, best, cur) ==
    IF cur = best \/ p.fatal # "none" THEN p
    ELSE LET p1 == Pool!Deallocate(p, cur)
         IN  IF p1.fatal # "none" THEN p1 ELSE FreeRing(p1, best, p.obj[cur].next)

FreeSide(p, best) ==
    IF best = NULL THEN p ELSE Pool!Deallocate(FreeRing(p, best, p.obj[best].next), best)

(* The loop of CLEAR over m_oidToOrder, in index order.                    *)
RECURSIVE FreeOrders(_, _)
FreeOrders(p, slots) ==
    IF slots = <<>> \/ p.fatal # "none" THEN p
    ELSE FreeOrders(Pool!Deallocate(p, Head(slots)), Tail(slots))

(* CLEAR: free every indexed order and every level of both sides, reset   *)
(* m_oidToOrder and the two best pointers.  m_priceOrdersAtPrice is left  *)
(* as it was.                                                              *)
Clear(b) ==
    LET ids   == SelectSeq([i \in 1 .. Cardinality(DOMAIN b.oidToOrder) |-> i - 1],
                           LAMBDA m : b.oidToOrder[m] # NULL)
        slots == [i \in DOMAIN ids |-> b.oidToOrder[ids[i]]]
    IN  [b EXCEPT !.opool      = FreeOrders(@, slots),
                  !.oidToOrder = [m \in DOMAIN @ |-> NULL],
                  !.lpool      = FreeSide(FreeSide(@, b.bids), b.asks),
                  !.bids       = NULL,
                  !.asks       = NULL]

(* The for loop of UpdateBBO summing the quantities of the FIFO ring      *)
(* through first.  A walk that meets nullptr dereferences it (NULL); one  *)
(* that has not come back to first after every slot never ends (Hang).    *)
Hang == -2

RECURSIVE RingQty(_, _, _, _)
RingQty(b, first, cur, k) ==
    IF cur = first THEN 0
    ELSE IF cur \notin Pool!Slots(b.opool) THEN NULL
    ELSE IF k = 0 THEN Hang
    ELSE LET rest == RingQty(b, first, O(b, cur).next, k - 1)
         IN  IF rest < 0 THEN rest ELSE O(b, cur).qty + rest

LevelQty(b, l) ==
    LET first == L(b, l).first
        rest  == IF first \in Pool!Slots(b.opool)
                 THEN RingQty(b, first, O(b, first).next, Cardinality(Pool!Slots(b.opool)))
                 ELSE NULL
    IN  IF rest < 0 THEN rest ELSE O(b, first).qty + rest

(* UpdateBBO(updateBid, updateAsk): refresh the price and total quantity  *)
(* of the best level of each side asked for, INVALID for an empty side.   *)
UpdateBBO(b, updateBid, updateAsk) ==
    LET bid == IF b.bids = NULL THEN [p |-> INVALID, q |-> INVALID]
               ELSE [p |-> L(b, b.bids).price, q |-> LevelQty(b, b.bids)]
        ask == IF b.asks = NULL THEN [p |-> INVALID, q |-> INVALID]
               ELSE [p |-> L(b, b.asks).price, q |-> LevelQty(b, b.asks)]
        walk == IF updateBid /\ b.bids # NULL /\ bid.q < 0 THEN bid.q
                ELSE IF updateAsk /\ b.asks # NULL /\ ask.q < 0 THEN ask.q ELSE 0
    IN  IF walk = NULL THEN [b EXCEPT !.fatal = "null order"]
        ELSE IF walk = Hang THEN [b EXCEPT !.fatal = "UpdateBBO loop never ends"]
        ELSE [b EXCEPT !.bbo = [bidPrice |-> IF updateBid THEN bid.p ELSE @.bidPrice,
                           bidQty   |-> IF updateBid THEN bid.q ELSE @.bidQty,
                           askPrice |-> IF updateAsk THEN ask.p ELSE @.askPrice,
                           askQty   |-> IF updateAsk THEN ask.q ELSE @.askQty]]

(* The order named by an update's market order id; .at() out of range    *)
(* throws, an id with no order gives nullptr, which MODIFY and CANCEL     *)
(* dereference.                                                            *)
IndexedOrder(b, m) == IF OidInRange(b, m) THEN b.oidToOrder[m] ELSE NULL
OrderFault(b, m) ==
    IF ~OidInRange(b, m) THEN "oidToOrder out_of_range"
    ELSE IF b.oidToOrder[m] = NULL THEN "null order" ELSE "none"

(* OnMarketUpdate: whether each side's BBO needs refreshing is decided on *)
(* the book before the update; then the switch on the type; a TRADE goes  *)
(* to the trade engine and returns early; then UpdateBBO.                 *)
OnMarketUpdate(b, u) ==
    LET bidUpdated == b.bids # NULL /\ u.side = BUY  /\ u.price >= L(b, b.bids).price
        askUpdated == b.asks # NULL /\ u.side = SELL /\ u.price <= L(b, b.asks).price
        o          == IndexedOrder(b, u.moid)
        b1 == CASE u.type = "ADD" ->
                     LET n == Pool!AllocSlot(b.opool) IN
                     AddOrder([b EXCEPT !.opool = Pool!Allocate(@,
                                  [moid |-> u.moid, side |-> u.side, price |-> u.price,
                                   qty |-> u.qty, prio |-> u.prio, prev |-> NULL, next |-> NULL])], n)
                [] u.type \in {"MODIFY", "CANCEL"} /\ OrderFault(b, u.moid) # "none" ->
                     [b EXCEPT !.fatal = OrderFault(b, u.moid)]
                [] u.type = "MODIFY" /\ OrderFault(b, u.moid) = "none" -> SetO(b, o, "qty", u.qty)
                [] u.type = "CANCEL" /\ OrderFault(b, u.moid) = "none" -> RemoveOrder(b, o)
                [] u.type = "CLEAR"  -> Clear(b)
                [] OTHER             -> b
    IN  IF u.type = "TRADE" \/ Crashed(b1) THEN b1
        ELSE UpdateBBO(b1, bidUpdated, askUpdated)
====
