------------------------------ MODULE ClientBook ------------------------------
(***************************************************************************)
(* The exchange book and its mirror on the trading side.  The matching    *)
(* engine of MatchingEngine writes its market updates (book.mdu); the     *)
(* trade engine thread (CTradeEngine::Run) takes them one at a time from  *)
(* m_pIncomingMdUpdates and applies each with                              *)
(* CMarketOrderBook::OnMarketUpdate.  In steady state the market-data     *)
(* consumer forwards the incrementals in order, so the queue is a cursor  *)
(* mdRead into book.mdu.  A recovery of the consumer is a Resync: the     *)
(* queue receives a snapshot cycle's body (CLEAR, then one ADD per        *)
(* resting order by ascending market order id, as PublishSnapshot writes *)
(* it) and the incrementals it covers are skipped.  That the consumer's   *)
(* splices deliver exactly this is what MarketData checks                  *)
(* (ConsumerInSync).                                                       *)
(***************************************************************************)
EXTENDS MatchingEngine
LOCAL INSTANCE SequencesExt

CONSTANTS
    MktOrderIds,    \* ME_MAX_ORDER_IDS: entries of m_oidToOrder on the client
    MaxResyncs      \* bound on the recoveries of the consumer in a behaviour

VARIABLES
    cbook,      \* the client's CMarketOrderBook, as in MarketOrderBook
    mdRead,     \* updates of book.mdu the trade engine has taken
    snap,       \* snapshot updates queued for the trade engine
    resyncs     \* recoveries so far

MOB == INSTANCE MarketOrderBook

mirrorVars == <<cbook, mdRead, snap, resyncs>>
allVars    == <<vars, mirrorVars>>

MirrorInit ==
    /\ Init
    /\ cbook = MOB!NewMarketOrderBook(MktOrderIds, OrderPoolSize)
    /\ mdRead = 0
    /\ snap = <<>>
    /\ resyncs = 0

(* The matching engine and its clients, as in MatchingEngine.              *)
EngineStep == Next /\ UNCHANGED mirrorVars

(* OnMarketUpdate over a sequence of updates, in order.                  *)
RECURSIVE ApplyAll(_, _)
ApplyAll(b, us) ==
    IF us = <<>> \/ MOB!Crashed(b) THEN b ELSE ApplyAll(MOB!OnMarketUpdate(b, Head(us)), Tail(us))

(* Mutant of TradeEngineRun: the read index is advanced once too often.   *)
TradeEngineRun_ExtraReadIndex ==
    /\ ~MOB!Crashed(cbook)
    /\ snap # <<>> \/ mdRead < Len(book.mdu)
    /\ cbook' = ApplyAll(cbook, snap \o SubSeq(book.mdu, mdRead + 1, Len(book.mdu)))
    /\ snap' = <<>>
    /\ mdRead' = Len(book.mdu) + 1
    /\ UNCHANGED <<vars, resyncs>>

(* One pass of the market-update loop of CTradeEngine::Run: while          *)
(* GetNextToRead finds an update, OnMarketUpdate on the ticker's book and *)
(* UpdateReadIndex.  Queued snapshot entries come first, then the         *)
(* incrementals after them.  The pass is one step: the trade engine's     *)
(* steps touch only its own book and commute with the engine's, which    *)
(* only append, so taking the loop at once loses no state of the client  *)
(* book at the points the properties look at.                             *)
TradeEngineRun ==
    /\ ~MOB!Crashed(cbook)
    /\ snap # <<>> \/ mdRead < Len(book.mdu)
    /\ cbook' = ApplyAll(cbook, snap \o SubSeq(book.mdu, mdRead + 1, Len(book.mdu)))
    /\ snap' = <<>>
    /\ mdRead' = Len(book.mdu)
    /\ UNCHANGED <<vars, resyncs>>

(* The body of a snapshot cycle of the current book: CLEAR, then an ADD   *)
(* per resting order (with its current qty and its priority) in           *)
(* ascending market order id.                                              *)
SnapshotBody ==
    LET rs == SetToSortSeq(RestingOrders, LAMBDA x, y : x.moid < y.moid)
    IN  << Update("CLEAR", INVALID, NOSIDE, INVALID, INVALID, INVALID) >>
        \o [i \in DOMAIN rs |-> Update("ADD", rs[i].moid, rs[i].side, rs[i].price,
                                       rs[i].qty, rs[i].prio)]

(* A recovery of the consumer, once the trade engine has taken what was   *)
(* forwarded before the gap: the snapshot of the book as it stands is     *)
(* queued, and the incrementals it covers are never delivered.            *)
Resync ==
    /\ resyncs < MaxResyncs
    /\ snap = <<>>
    /\ ~MOB!Crashed(cbook)
    /\ snap' = SnapshotBody
    /\ mdRead' = Len(book.mdu)
    /\ resyncs' = resyncs + 1
    /\ UNCHANGED <<vars, cbook>>

MirrorNext ==
    \/ EngineStep
    \/ TradeEngineRun
    \/ Resync

(* The trade engine thread spins on its queue, so it has weak fairness.  *)
MirrorSpec == MirrorInit /\ [][MirrorNext]_allVars /\ WF_allVars(TradeEngineRun)

-----------------------------------------------------------------------------
(* Views of the client book.                                               *)

CLiveOrders == Pool!InUse(cbook.opool)
CLevelNext  == [l \in Pool!Slots(cbook.lpool) |-> cbook.lpool.obj[l].next]
COrderNext  == [o \in Pool!Slots(cbook.opool) |-> cbook.opool.obj[o].next]

CSideLevels(side) ==
    LET best == IF side = BUY THEN cbook.bids ELSE cbook.asks
    IN  IF best = NULL THEN <<>> ELSE RingOf(CLevelNext, best)

(* A side as the strategy reads it: per level from the best, its price    *)
(* and its FIFO of [moid, qty, prio].                                      *)
CSideView(side) ==
    LET r == CSideLevels(side) IN
    [i \in DOMAIN r |->
       LET fifo == RingOf(COrderNext, cbook.lpool.obj[r[i]].first) IN
       [price  |-> cbook.lpool.obj[r[i]].price,
        orders |-> [j \in DOMAIN fifo |-> [moid |-> cbook.opool.obj[fifo[j]].moid,
                                           qty  |-> cbook.opool.obj[fifo[j]].qty,
                                           prio |-> cbook.opool.obj[fifo[j]].prio]]]]

ESideView(side) ==
    LET r == SideLevels(side) IN
    [i \in DOMAIN r |->
       LET fifo == LevelOrders(r[i]) IN
       [price  |-> L(book, r[i]).price,
        orders |-> [j \in DOMAIN fifo |-> [moid |-> O(book, fifo[j]).moid,
                                           qty  |-> O(book, fifo[j]).qty,
                                           prio |-> O(book, fifo[j]).prio]]]]

CaughtUp == snap = <<>> /\ mdRead = Len(book.mdu)

-----------------------------------------------------------------------------
(* Properties.                                                             *)

MirrorTypeOK ==
    /\ mdRead \in 0 .. Len(book.mdu)
    /\ resyncs \in 0 .. MaxResyncs
    /\ cbook.bids \in Pool!Slots(cbook.lpool) \cup {NULL}
    /\ cbook.asks \in Pool!Slots(cbook.lpool) \cup {NULL}
    /\ cbook.oidToOrder \in [0 .. MktOrderIds - 1 -> Pool!Slots(cbook.opool) \cup {NULL}]

(* The client book never crashes, and whenever the trade engine has       *)
(* applied every update the exchange has published, each side of it reads *)
(* level by level exactly like the exchange book (same prices from the   *)
(* best, same orders in the same FIFO order with the same qty and         *)
(* priority), and m_oidToOrder indexes exactly the resting orders.  It    *)
(* takes OnMarketUpdate's ADD, MODIFY and CANCEL handling, the copied      *)
(* level-list code and, after a recovery, CLEAR and the snapshot ADDs.    *)
SidesMirror == \A side \in {BUY, SELL} : CSideView(side) = ESideView(side)

ClientBookMirrors ==
    /\ ~MOB!Crashed(cbook)
    /\ CaughtUp =>
         /\ SidesMirror
         /\ {m \in DOMAIN cbook.oidToOrder : cbook.oidToOrder[m] # NULL}
              = {O(book, o).moid : o \in LiveOrders}

(* The same on the incremental path: until the consumer's first recovery, *)
(* whenever the trade engine has applied every update, both sides of the *)
(* client book read level by level and order by order like the exchange *)
(* book.  It takes ADD, MODIFY and CANCEL through OnMarketUpdate and the  *)
(* level-list code over sequences of adds, matches and cancels.           *)
MirrorBeforeRecovery == resyncs = 0 /\ CaughtUp => SidesMirror

(* Until the consumer's first recovery, the client book never crashes,   *)
(* and whenever the trade engine has applied every update published, each *)
(* resting order of the exchange is indexed in m_oidToOrder under its     *)
(* market order id by a live order with the exchange's qty, and nothing   *)
(* else is indexed.  It takes AddOrder and RemoveOrder keeping the index  *)
(* in step with the FIFOs over adds, fills and cancels.                   *)
ClientIndexMirrors ==
    resyncs = 0 =>
      /\ ~MOB!Crashed(cbook)
      /\ CaughtUp =>
           /\ {m \in DOMAIN cbook.oidToOrder : cbook.oidToOrder[m] # NULL}
                = {O(book, o).moid : o \in LiveOrders}
           /\ \A o \in LiveOrders :
                /\ cbook.oidToOrder[O(book, o).moid] \in CLiveOrders
                /\ cbook.opool.obj[cbook.oidToOrder[O(book, o).moid]].qty = O(book, o).qty
====
