--------------------------- MODULE MatchingEngine ---------------------------
(***************************************************************************)
(* CMatchingEngine (src/exchange/matcher/MatchingEngine.h) driving one    *)
(* CMEOrderBook.  The engine thread drains the ingress request queue one  *)
(* record at a time (Run, ProcessClientRequest); each request runs a book *)
(* handler to completion, so one step is one whole handler.  Upstream,   *)
(* the clients' COrderManager makes the requests: a NEW takes the         *)
(* client's next order id (m_nextOrderId, from 1, never reused), a CANCEL *)
(* names an id the client has issued.                                      *)
(***************************************************************************)
EXTENDS MEOrderBook
LOCAL INSTANCE FiniteSetsExt

CONSTANTS
    Clients,        \* client ids
    Prices,         \* limit prices clients send
    Qtys,           \* quantities clients send
    MaxOrderIds,    \* ME_MAX_ORDER_IDS: second dimension of m_cidOidToOrder
    OrderPoolSize,  \* ME_MAX_ORDER_IDS: slots of m_orderPool
    MaxRequests,    \* bound on the requests the clients send in a behaviour
    MaxInFlight     \* bound on the requests queued for the engine at once

VARIABLES
    book,       \* the CMEOrderBook, as in MEOrderBook
    requests,   \* m_pIncomingRequests: requests sequenced, not yet processed
    nextCoid,   \* per client: COrderManager::m_nextOrderId
    sent        \* requests sent so far (bounded by MaxRequests)

vars == <<book, requests, nextCoid, sent>>

OrderIdSet == 0 .. MaxOrderIds - 1

Init ==
    /\ book = NewBook(Clients, OrderIdSet, OrderPoolSize)
    /\ requests = <<>>
    /\ nextCoid = [c \in Clients |-> 1]
    /\ sent = 0

-----------------------------------------------------------------------------
(* Environment: the clients' order managers.                               *)

ClientNew(c, side, price, qty) ==
    /\ sent < MaxRequests
    /\ Len(requests) < MaxInFlight
    /\ requests' = Append(requests, [type |-> "NEW", cid |-> c, coid |-> nextCoid[c],
                                     side |-> side, price |-> price, qty |-> qty])
    /\ nextCoid' = [nextCoid EXCEPT ![c] = @ + 1]
    /\ sent' = sent + 1
    /\ UNCHANGED book

ClientCancel(c, coid) ==
    /\ sent < MaxRequests
    /\ Len(requests) < MaxInFlight
    /\ coid < nextCoid[c]
    /\ requests' = Append(requests, [type |-> "CANCEL", cid |-> c, coid |-> coid,
                                     side |-> NOSIDE, price |-> INVALID, qty |-> INVALID])
    /\ sent' = sent + 1
    /\ UNCHANGED <<book, nextCoid>>

-----------------------------------------------------------------------------
(* The engine thread.                                                      *)

(* Run: a request is at the head of the queue; process it, then          *)
(* UpdateReadIndex.  A crashed process takes no more steps.                *)
ProcessClientRequest ==
    /\ requests # <<>>
    /\ ~Crashed(book)
    /\ LET r == Head(requests) IN
       book' = IF r.type = "NEW"
               THEN AddOrder(book, r.cid, r.coid, r.side, r.price, r.qty)
               ELSE CancelOrder(book, r.cid, r.coid)
    /\ requests' = Tail(requests)
    /\ UNCHANGED <<nextCoid, sent>>

(* Run: GetNextToRead found the queue empty; the loop spins.               *)
Spin ==
    /\ requests = <<>>
    /\ ~Crashed(book)
    /\ UNCHANGED vars

Next ==
    \/ \E c \in Clients, side \in {BUY, SELL}, price \in Prices, qty \in Qtys :
          ClientNew(c, side, price, qty)
    \/ \E c \in Clients : \E coid \in 1 .. nextCoid[c] - 1 : ClientCancel(c, coid)
    \/ ProcessClientRequest
    \/ Spin

Spec == Init /\ [][Next]_vars

-----------------------------------------------------------------------------
(* Views of the book used by the properties.                               *)

LiveOrders == Pool!InUse(book.opool)
LiveLevels == Pool!InUse(book.lpool)

(* The elements of the ring through start, following next, in order.      *)
RECURSIVE Orbit(_, _, _, _)
Orbit(next, start, cur, acc) ==
    IF cur = start \/ cur \notin DOMAIN next \/ \E i \in DOMAIN acc : acc[i] = cur
    THEN acc
    ELSE Orbit(next, start, next[cur], Append(acc, cur))
RingOf(next, start) == Orbit(next, start, next[start], <<start>>)

(* r is a closed ring under next whose prev links run the other way.      *)
IsRing(r, next, prev) ==
    /\ next[r[Len(r)]] = r[1]
    /\ \A i \in DOMAIN r : prev[r[i]] = r[IF i = 1 THEN Len(r) ELSE i - 1]

LevelNext == [l \in Pool!Slots(book.lpool) |-> L(book, l).next]
LevelPrev == [l \in Pool!Slots(book.lpool) |-> L(book, l).prev]
OrderNext == [o \in Pool!Slots(book.opool) |-> O(book, o).next]
OrderPrev == [o \in Pool!Slots(book.opool) |-> O(book, o).prev]

SideLevels(side) ==
    IF Best(book, side) \in LiveLevels THEN RingOf(LevelNext, Best(book, side)) ELSE <<>>
LevelOrders(l) ==
    IF L(book, l).first \in LiveOrders THEN RingOf(OrderNext, L(book, l).first) ELSE <<>>

RestingOrders ==
    {[cid |-> O(book, o).cid, coid |-> O(book, o).coid, moid |-> O(book, o).moid,
      side |-> O(book, o).side, price |-> O(book, o).price, qty |-> O(book, o).qty,
      prio |-> O(book, o).prio] : o \in LiveOrders}

-----------------------------------------------------------------------------
(* Properties.                                                             *)

TypeOK ==
    /\ requests \in Seq([type : {"NEW", "CANCEL"}, cid : Clients, coid : Nat,
                         side : {BUY, SELL, NOSIDE}, price : Prices \cup {INVALID},
                         qty : Qtys \cup {INVALID}])
    /\ nextCoid \in [Clients -> Nat \ {0}]
    /\ sent \in 0 .. MaxRequests
    /\ book.bids \in LiveLevels \cup {NULL}
    /\ book.asks \in LiveLevels \cup {NULL}
    /\ book.pidx \in [0 .. MaxPriceLevels - 1 -> Pool!Slots(book.lpool) \cup {NULL}]
    /\ book.cidOid \in [Clients -> [OrderIdSet -> Pool!Slots(book.opool) \cup {NULL}]]
    /\ book.nextMoid \in Nat \ {0}

(* The section 4.3 structure of CMEOrderBook holds between requests: each  *)
(* side's levels form a closed prev/next ring from m_p{Bids,Asks}ByPrice,  *)
(* strictly from most to least aggressive, and are exactly the level       *)
(* slots in use; m_priceOrdersAtPrice holds exactly the live levels; each  *)
(* level's orders form a closed FIFO ring at its side and price with       *)
(* positive qty and strictly increasing priority; the rings hold exactly   *)
(* the order slots in use; m_cidOidToOrder maps exactly the resting        *)
(* orders.  Breaking it takes a sequence of adds, matches and cancels      *)
(* through AddOrdersAtPrice, RemoveOrdersAtPrice, RemoveOrder and Match.   *)
BookWellFormed ==
    /\ \A side \in {BUY, SELL} :
         LET r == SideLevels(side) IN
         r # <<>> =>
           /\ IsRing(r, LevelNext, LevelPrev)
           /\ \A i \in DOMAIN r : r[i] \in LiveLevels /\ L(book, r[i]).side = side
           /\ \A i \in 1 .. Len(r) - 1 :
                side * L(book, r[i]).price > side * L(book, r[i + 1]).price
    /\ \A l \in LiveLevels : \E side \in {BUY, SELL} :
         \E i \in DOMAIN SideLevels(side) : SideLevels(side)[i] = l
    /\ \A i \in DOMAIN book.pidx :
         book.pidx[i] # NULL <=> \E l \in LiveLevels : PriceToIndex(L(book, l).price) = i
    /\ \A l \in LiveLevels : book.pidx[PriceToIndex(L(book, l).price)] = l
    /\ \A l \in LiveLevels :
         LET r == LevelOrders(l) IN
         /\ r # <<>>
         /\ IsRing(r, OrderNext, OrderPrev)
         /\ \A i \in DOMAIN r : /\ r[i] \in LiveOrders
                                /\ O(book, r[i]).side = L(book, l).side
                                /\ O(book, r[i]).price = L(book, l).price
                                /\ O(book, r[i]).qty > 0
         /\ \A i \in 1 .. Len(r) - 1 : O(book, r[i]).prio < O(book, r[i + 1]).prio
    /\ \A o \in LiveOrders : \E l \in LiveLevels :
         \E i \in DOMAIN LevelOrders(l) : LevelOrders(l)[i] = o
    /\ \A c \in Clients, k \in OrderIdSet :
         book.cidOid[c][k] # NULL =>
           book.cidOid[c][k] \in LiveOrders /\ O(book, book.cidOid[c][k]).cid = c
                                            /\ O(book, book.cidOid[c][k]).coid = k
    /\ \A o \in LiveOrders : book.cidOid[O(book, o).cid][O(book, o).coid] = o

(* Quantity is conserved per order across the whole response stream: the  *)
(* qty ACCEPTED for market order id m equals the exec qty of all FILLED    *)
(* responses naming m (as aggressor and later as resting order), plus the  *)
(* qty still resting under m, plus the leaves of its CANCELED response.   *)
(* It spans AddOrder, CheckForMatch, Match and CancelOrder over several    *)
(* requests, and the ids the responses carry.                              *)
QtyConserved ==
    \A i \in DOMAIN book.resp :
      book.resp[i].type = "ACCEPTED" =>
        LET m      == book.resp[i].moid
            Named(t) == {j \in DOMAIN book.resp : book.resp[j].type = t /\ book.resp[j].moid = m}
            filled   == MapThenSumSet(LAMBDA j : book.resp[j].exec, Named("FILLED"))
            canceled == MapThenSumSet(LAMBDA j : book.resp[j].leaves, Named("CANCELED"))
            rest     == MapThenSumSet(LAMBDA o : O(book, o).qty, {o \in LiveOrders : O(book, o).moid = m})
        IN  book.resp[i].leaves = filled + canceled + rest

(* The engine never aborts: no ASSERT of CMemoryPool fires and no .at()   *)
(* of the book throws, for requests within the configured sizes (spec     *)
(* section 3: N is the number of distinct live price levels a book holds). *)
NoFatal == ~Crashed(book)
=============================================================================
