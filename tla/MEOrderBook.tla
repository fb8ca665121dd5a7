----------------------------- MODULE MEOrderBook -----------------------------
(***************************************************************************)
(* CMEOrderBook (src/exchange/matcher/MatchingEngineOrderBook.{h,cpp}):   *)
(* the limit order book of one instrument at the exchange.                *)
(*                                                                         *)
(* The book is kept at the level of its pointers, because the intrusive   *)
(* lists are what the code gets right or wrong:                           *)
(*   opool   CMemoryPool<SMEOrder>          (slot = the SMEOrder* )        *)
(*   lpool   CMemoryPool<SMEOrdersAtPrice>  (slot = the level pointer)     *)
(*   bids, asks               m_pBidsByPrice / m_pAsksByPrice             *)
(*   pidx[price % N]          m_priceOrdersAtPrice                         *)
(*   cidOid[client][coid]     m_cidOidToOrder                              *)
(*   nextMoid                 m_nextMarketOrderId                          *)
(*   resp, mdu                what SendClientResponse / SendMarketUpdate  *)
(*                            of CMatchingEngine wrote, in order           *)
(*   fatal                    a crash (null dereference, .at() throwing   *)
(*                            inside a noexcept function)                  *)
(* Every operator takes the book and returns it after the C++ function of *)
(* the same name; NULL plays nullptr, INVALID the *_INVALID sentinels.    *)
(* Tickers are independent books, so one book is modelled; the ticker     *)
(* field of the wire records is left out.                                 *)
(***************************************************************************)
EXTENDS Integers, Sequences
Pool == INSTANCE MemoryPool

CONSTANTS
    MaxPriceLevels, \* ME_MAX_PRICE_LEVELS: slots of the price index and of the level pool
    QtyModulus      \* 2^(bits of Qty): CheckForMatch takes the market order id as a Qty

NULL    == -1
INVALID == -1
BUY     == 1
SELL    == -1
NOSIDE  == 0    \* ESide::INVALID

NoOrder == [cid |-> INVALID, coid |-> INVALID, moid |-> INVALID, side |-> NOSIDE,
            price |-> INVALID, qty |-> INVALID, prio |-> INVALID,
            prev |-> NULL, next |-> NULL]
NoLevel == [side |-> NOSIDE, price |-> INVALID, first |-> NULL, prev |-> NULL, next |-> NULL]

(* CMEOrderBook constructor; the two dense arrays are sized by the caller. *)
NewBook(clients, orderIds, orderPoolSize) ==
    [opool    |-> Pool!NewPool(orderPoolSize, NoOrder),
     lpool    |-> Pool!NewPool(MaxPriceLevels, NoLevel),
     bids     |-> NULL,
     asks     |-> NULL,
     pidx     |-> [i \in 0 .. MaxPriceLevels - 1 |-> NULL],
     cidOid   |-> [c \in clients |-> [k \in orderIds |-> NULL]],
     nextMoid |-> 1,
     resp     |-> <<>>,
     mdu      |-> <<>>,
     fatal    |-> "none"]

Crashed(b) == b.fatal # "none" \/ b.opool.fatal # "none" \/ b.lpool.fatal # "none"

O(b, o) == b.opool.obj[o]
L(b, l) == b.lpool.obj[l]
SetO(b, o, f, v) == [b EXCEPT !.opool.obj[o][f] = v]
SetL(b, l, f, v) == [b EXCEPT !.lpool.obj[l][f] = v]

SendClientResponse(b, r) == [b EXCEPT !.resp = Append(@, r)]
SendMarketUpdate(b, u)   == [b EXCEPT !.mdu = Append(@, u)]

Response(type, cid, coid, moid, side, price, exec, leaves) ==
    [type |-> type, cid |-> cid, coid |-> coid, moid |-> moid, side |-> side,
     price |-> price, exec |-> exec, leaves |-> leaves]
Update(type, moid, side, price, qty, prio) ==
    [type |-> type, moid |-> moid, side |-> side, price |-> price, qty |-> qty, prio |-> prio]

(* The two .at() lookups of m_cidOidToOrder; out of range they throw.     *)
CidOidInRange(b, cid, coid) == cid \in DOMAIN b.cidOid /\ coid \in DOMAIN b.cidOid[cid]

PriceToIndex(price) == price % MaxPriceLevels
GetOrdersAtPrice(b, price) == b.pidx[PriceToIndex(price)]

Best(b, side) == IF side = BUY THEN b.bids ELSE b.asks
SetBest(b, side, l) == IF side = BUY THEN [b EXCEPT !.bids = l] ELSE [b EXCEPT !.asks = l]

(* The add_after test of AddOrdersAtPrice: level n is less aggressive     *)
(* than level t on n's side.                                               *)
AddAfter(b, n, t) ==
    \/ L(b, n).side = SELL /\ L(b, n).price > L(b, t).price
    \/ L(b, n).side = BUY  /\ L(b, n).price < L(b, t).price

(* The while loop of AddOrdersAtPrice, from target t with flag aa.         *)
RECURSIVE WalkLevels(_, _, _, _, _)
WalkLevels(b, n, best, t, aa) ==
    IF aa /\ t # best
    THEN IF AddAfter(b, n, t) THEN WalkLevels(b, n, best, L(b, t).next, TRUE)
         ELSE <<t, FALSE>>
    ELSE <<t, aa>>

(* AddOrdersAtPrice: index the new level and link it into its side's      *)
(* circular list, moving the best pointer when it is more aggressive.     *)
AddOrdersAtPrice(b0, n) ==
    LET side == L(b0, n).side
        b    == [b0 EXCEPT !.pidx[PriceToIndex(L(b0, n).price)] = n]
        best == Best(b, side)
    IN
    IF best = NULL
    THEN SetL(SetL(SetBest(b, side, n), n, "prev", n), n, "next", n)
    ELSE
      LET walk   == IF AddAfter(b, n, best)
                    THEN WalkLevels(b, n, best, L(b, best).next, AddAfter(b, n, L(b, best).next))
                    ELSE <<best, FALSE>>
          target == walk[1]
      IN
      IF walk[2]
      THEN \* add after target (after the last level when the walk came round)
        LET t  == IF target = best THEN L(b, best).prev ELSE target
            b1 == SetL(b, n, "prev", t)
            b2 == SetL(b1, L(b1, t).next, "prev", n)
            b3 == SetL(b2, n, "next", L(b2, t).next)
        IN  SetL(b3, t, "next", n)
      ELSE \* add before target
        LET b1 == SetL(b, n, "prev", L(b, target).prev)
            b2 == SetL(b1, n, "next", target)
            b3 == SetL(b2, L(b2, target).prev, "next", n)
            b4 == SetL(b3, target, "prev", n)
            better == \/ side = BUY  /\ L(b4, n).price > L(b4, best).price
                      \/ side = SELL /\ L(b4, n).price < L(b4, best).price
            b5 == SetL(b4, target, "next",
                       IF L(b4, target).next = best THEN n ELSE L(b4, target).next)
        IN  IF better THEN SetBest(b5, side, n) ELSE b4

(* Mutant of RemoveOrdersAtPrice: the side's best pointer is not reset    *)
(* when its only level goes.                                               *)
RemoveOrdersAtPrice_NoBestReset(b, side, price) ==
    LET best == Best(b, side)
        l    == GetOrdersAtPrice(b, price)
        b1   == IF L(b, l).next = l
                THEN b
                ELSE LET c1 == SetL(b, L(b, l).prev, "next", L(b, l).next)
                         c2 == SetL(c1, L(c1, l).next, "prev", L(c1, l).prev)
                         c3 == IF l = best THEN SetBest(c2, side, L(c2, l).next) ELSE c2
                     IN  SetL(SetL(c3, l, "prev", NULL), l, "next", NULL)
        b2   == [b1 EXCEPT !.pidx[PriceToIndex(price)] = NULL]
    IN  [b2 EXCEPT !.lpool = Pool!Deallocate(@, l)]

(* RemoveOrdersAtPrice: unlink the level indexed at price from its side's *)
(* list, clear its index slot and return it to the level pool.            *)
RemoveOrdersAtPrice(b, side, price) ==
    LET best == Best(b, side)
        l    == GetOrdersAtPrice(b, price)
        b1   == IF L(b, l).next = l
                THEN SetBest(b, side, NULL)
                ELSE LET c1 == SetL(b, L(b, l).prev, "next", L(b, l).next)
                         c2 == SetL(c1, L(c1, l).next, "prev", L(c1, l).prev)
                         c3 == IF l = best THEN SetBest(c2, side, L(c2, l).next) ELSE c2
                     IN  SetL(SetL(c3, l, "prev", NULL), l, "next", NULL)
        b2   == [b1 EXCEPT !.pidx[PriceToIndex(price)] = NULL]
    IN  [b2 EXCEPT !.lpool = Pool!Deallocate(@, l)]

(* GetNextPriority: one past the priority of the level's last order.     *)
GetNextPriority(b, price) ==
    LET l == GetOrdersAtPrice(b, price) IN
    IF l = NULL THEN 1 ELSE O(b, O(b, L(b, l).first).prev).prio + 1

(* Mutant of RemoveOrder: the level's first order is not moved on when    *)
(* the head of a longer FIFO goes.                                         *)
RemoveOrder_NoHeadPromote(b, o) ==
    LET l  == GetOrdersAtPrice(b, O(b, o).price)
        b1 == IF O(b, o).prev = o
              THEN RemoveOrdersAtPrice(b, O(b, o).side, O(b, o).price)
              ELSE LET before == O(b, o).prev
                       after  == O(b, o).next
                       c1 == SetO(SetO(b, before, "next", after), after, "prev", before)
                   IN  SetO(SetO(c1, o, "prev", NULL), o, "next", NULL)
        b2 == [b1 EXCEPT !.cidOid[O(b, o).cid][O(b, o).coid] = NULL]
    IN  IF l = NULL THEN [b EXCEPT !.fatal = "null level"]
        ELSE [b2 EXCEPT !.opool = Pool!Deallocate(@, o)]

(* RemoveOrder: unlink the order from its level's FIFO (dropping the      *)
(* level when it was the only one), clear its client index entry and     *)
(* return it to the order pool.  A missing level is a null dereference.   *)
RemoveOrder(b, o) ==
    LET l  == GetOrdersAtPrice(b, O(b, o).price)
        b1 == IF O(b, o).prev = o
              THEN RemoveOrdersAtPrice(b, O(b, o).side, O(b, o).price)
              ELSE LET before == O(b, o).prev
                       after  == O(b, o).next
                       c1 == SetO(SetO(b, before, "next", after), after, "prev", before)
                       c2 == IF L(c1, l).first = o THEN SetL(c1, l, "first", after) ELSE c1
                   IN  SetO(SetO(c2, o, "prev", NULL), o, "next", NULL)
        b2 == [b1 EXCEPT !.cidOid[O(b, o).cid][O(b, o).coid] = NULL]
    IN  IF l = NULL THEN [b EXCEPT !.fatal = "null level"]
        ELSE [b2 EXCEPT !.opool = Pool!Deallocate(@, o)]

(* AddOrder(SMEOrder* ): append the order at the tail of its price level's *)
(* FIFO, creating the level when there is none, and index it by client.   *)
AddOrderNode(b, o) ==
    LET l  == GetOrdersAtPrice(b, O(b, o).price)
        b1 == IF l = NULL
              THEN LET c1 == SetO(SetO(b, o, "next", o), o, "prev", o)
                       n  == Pool!AllocSlot(c1.lpool)
                       c2 == [c1 EXCEPT !.lpool = Pool!Allocate(@,
                                 [side |-> O(c1, o).side, price |-> O(c1, o).price,
                                  first |-> o, prev |-> NULL, next |-> NULL])]
                   IN  AddOrdersAtPrice(c2, n)
              ELSE LET first == L(b, l).first
                       c1 == SetO(b, O(b, first).prev, "next", o)
                       c2 == SetO(c1, o, "prev", O(c1, first).prev)
                       c3 == SetO(c2, o, "next", first)
                   IN  SetO(c3, first, "prev", o)
    IN  IF ~CidOidInRange(b, O(b, o).cid, O(b, o).coid)
        THEN [b1 EXCEPT !.fatal = "cidOid out_of_range"]
        ELSE [b1 EXCEPT !.cidOid[O(b, o).cid][O(b, o).coid] = o]

(* Mutant of Match: the resting order's qty is not decremented.           *)
Match_NoRestingDecrement(b, cid, side, coid, newMoid, o, leaves) ==
    LET orderQty == O(b, o).qty
        fill     == IF leaves < orderQty THEN leaves ELSE orderQty
        left     == leaves - fill
        b1 == b
        r  == O(b1, o)
        b2 == SendClientResponse(b1, Response("FILLED", cid, coid, newMoid, side, r.price, fill, left))
        b3 == SendClientResponse(b2, Response("FILLED", r.cid, r.coid, r.moid, r.side, r.price, fill, r.qty))
        b4 == SendMarketUpdate(b3, Update("TRADE", INVALID, side, r.price, fill, INVALID))
        b5 == IF r.qty = 0
              THEN RemoveOrder(SendMarketUpdate(b4, Update("CANCEL", r.moid, r.side, r.price, orderQty, INVALID)), o)
              ELSE SendMarketUpdate(b4, Update("MODIFY", r.moid, r.side, r.price, r.qty, r.prio))
    IN  <<b5, left>>

(* Match: fill the aggressor against resting order o; returns             *)
(* <<book, leaves>>.  Two FILLED responses, a TRADE, then CANCEL and      *)
(* removal of o when it is used up, MODIFY otherwise.                     *)
Match(b, cid, side, coid, newMoid, o, leaves) ==
    LET orderQty == O(b, o).qty
        fill     == IF leaves < orderQty THEN leaves ELSE orderQty
        left     == leaves - fill
        b1 == SetO(b, o, "qty", orderQty - fill)
        r  == O(b1, o)
        b2 == SendClientResponse(b1, Response("FILLED", cid, coid, newMoid, side, r.price, fill, left))
        b3 == SendClientResponse(b2, Response("FILLED", r.cid, r.coid, r.moid, r.side, r.price, fill, r.qty))
        b4 == SendMarketUpdate(b3, Update("TRADE", INVALID, side, r.price, fill, INVALID))
        b5 == IF r.qty = 0
              THEN RemoveOrder(SendMarketUpdate(b4, Update("CANCEL", r.moid, r.side, r.price, orderQty, INVALID)), o)
              ELSE SendMarketUpdate(b4, Update("MODIFY", r.moid, r.side, r.price, r.qty, r.prio))
    IN  <<b5, left>>

(* Mutant of CheckForMatch: matches against the newest order of the best *)
(* level instead of the oldest.                                            *)
RECURSIVE CheckForMatch_Tail(_, _, _, _, _, _, _)
CheckForMatch_Tail(b, cid, coid, side, price, leaves, newMoid) ==
    LET opp == IF side = BUY THEN b.asks ELSE b.bids IN
    IF leaves = 0 \/ opp = NULL \/ Crashed(b) THEN <<b, leaves>>
    ELSE LET o == O(b, L(b, opp).first).prev IN
         IF \/ side = BUY  /\ price < O(b, o).price
            \/ side = SELL /\ price > O(b, o).price
         THEN <<b, leaves>>
         ELSE LET m == Match(b, cid, side, coid, newMoid, o, leaves)
              IN  CheckForMatch_Tail(m[1], cid, coid, side, price, m[2], newMoid)

(* CheckForMatch: while quantity is left and the opposite side's best     *)
(* level has a first order the limit price reaches, match against it.     *)
RECURSIVE CheckForMatch(_, _, _, _, _, _, _)
CheckForMatch(b, cid, coid, side, price, leaves, newMoid) ==
    LET opp == IF side = BUY THEN b.asks ELSE b.bids IN
    IF leaves = 0 \/ opp = NULL \/ Crashed(b) THEN <<b, leaves>>
    ELSE LET o == L(b, opp).first IN
         IF \/ side = BUY  /\ price < O(b, o).price
            \/ side = SELL /\ price > O(b, o).price
         THEN <<b, leaves>>
         ELSE LET m == Match(b, cid, side, coid, newMoid, o, leaves)
              IN  CheckForMatch(m[1], cid, coid, side, price, m[2], newMoid)

(* AddOrder: the NEW request handler.                                      *)
AddOrder(b0, cid, coid, side, price, qty) ==
    LET moid == b0.nextMoid
        b1   == SendClientResponse([b0 EXCEPT !.nextMoid = @ + 1],
                                   Response("ACCEPTED", cid, coid, moid, side, price, 0, qty))
        m    == CheckForMatch(b1, cid, coid, side, price, qty, moid % QtyModulus)
        b2   == m[1]
        left == m[2]
    IN
    IF left = 0 \/ Crashed(b2) THEN b2
    ELSE LET prio == GetNextPriority(b2, price)
             o    == Pool!AllocSlot(b2.opool)
             b3   == [b2 EXCEPT !.opool = Pool!Allocate(@,
                         [cid |-> cid, coid |-> coid, moid |-> moid, side |-> side, price |-> price,
                          qty |-> left, prio |-> prio, prev |-> NULL, next |-> NULL])]
         IN  SendMarketUpdate(AddOrderNode(b3, o), Update("ADD", moid, side, price, left, prio))

(* CancelOrder: the CANCEL request handler.  A client id past the table  *)
(* is rejected; an order id past it makes .at() throw.                     *)
CancelOrder(b, cid, coid) ==
    LET o == IF CidOidInRange(b, cid, coid) THEN b.cidOid[cid][coid] ELSE NULL IN
    IF cid \in DOMAIN b.cidOid /\ ~CidOidInRange(b, cid, coid)
    THEN [b EXCEPT !.fatal = "cidOid out_of_range"]
    ELSE IF o = NULL
    THEN SendClientResponse(b, Response("CANCEL_REJECTED", cid, coid, INVALID, NOSIDE, INVALID, INVALID, INVALID))
    ELSE LET r  == O(b, o)
             b1 == RemoveOrder(b, o)
             b2 == SendMarketUpdate(b1, Update("CANCEL", r.moid, r.side, r.price, 0, r.prio))
         IN  SendClientResponse(b2, Response("CANCELED", cid, coid, r.moid, r.side, r.price, INVALID, r.qty))
=============================================================================
