# TLA+ models of UltraLowLatency

This directory holds TLA+ models of the exchange and trading stack in `src/`.
It also holds the TLC configurations that check them.
`PROJECT.json` lists the components, the runs, the mutants, the source lines
each definition translates (`map`), the findings, and the hazards of the code.

## 1. The system

| Part | Source | State | Operations | Interacts with |
|---|---|---|---|---|
| SPSC queue | `common/LockFreeQueue.h` | ring `m_store`, write/read indices, atomic count | `GetNextToWriteTo`/`UpdateWriteIndex` (producer), `GetNextToRead`/`UpdateReadIndex` (consumer) | every thread pair |
| Object pool | `common/MemoryPool.h` | slots with `isFree`, cursor `m_nextFreeIndex` | `Allocate`, `Deallocate`, `UpdateNextFreeIndex` | order book, synthesizer, client books |
| Order book | `exchange/matcher/MatchingEngineOrderBook.{h,cpp}` | order and level pools, best bid/ask, `m_priceOrdersAtPrice[price % 256]`, `m_cidOidToOrder`, next market order id | `AddOrder`, `CancelOrder`, and the list helpers `CheckForMatch`, `Match`, `AddOrdersAtPrice`, `RemoveOrdersAtPrice`, `RemoveOrder`, `AddOrder(SMEOrder*)` | matching engine |
| Matching engine | `exchange/matcher/MatchingEngine.{h,cpp}` | one book per ticker, three queues | `Run` loop, `ProcessClientRequest`, `SendClientResponse`, `SendMarketUpdate` | order server, market data publisher |
| Order server and FIFO sequencer | `exchange/order_server/*` | per-client sequence numbers, pending requests with receive time | receive callback, `AddClientRequest`, `SequenceAndPublish`, response send | TCP clients, matching engine |
| Market data publisher | `exchange/market_data/MarketDataPublisher.*` | incremental sequence number | `Run`: stamp and multicast each update, forward it to the synthesizer | matching engine, synthesizer, consumers |
| Snapshot synthesizer | `exchange/market_data/SnapshotSynthesizer.*` | image of live orders, last incremental seq | `AddToSnapshot`, `PublishSnapshot` every 60 s | publisher, consumers |
| Market data consumer | `trading/market_data/MarketDataConsumer.*` | expected seq, recovery flag, queued snapshot and incremental messages | `RecvCallback`, `QueueMessage`, `CheckSnapshotSync`, `StartSnapshotSync` | multicast, trade engine |
| Client order book | `trading/strategy/MarketOrderBook.*` | a mirror of the exchange book by market order id | `OnMarketUpdate` (ADD, MODIFY, CANCEL, TRADE, CLEAR), `UpdateBBO` | consumer, strategies |
| Order manager | `trading/strategy/OrderManager.*` | per ticker and side: one order with state | `newOrder`, `cancelOrder`, `OnOrderUpdate`, `MoveOrder(s)` | trade engine, order gateway |
| Order gateway | `trading/order_gw/OrderGateway.*` | TCP socket, next outgoing and expected seq | `Run`, `RecvCallback` | order server, trade engine |
| Risk, positions, strategies | `trading/strategy/RiskManager.*`, `PositionKeeper.h`, `TradeEngine.*`, `FeatureEngine.h`, `MarketMaker.*`, `LiquidityTaker.*` | positions, PnL, features | pre-trade check, fill accounting, quoting | order manager |
| Infrastructure | `common/Logging.h`, `TcpSocket.*`, `TcpServer.*`, `MultiCastSocket.*`, `ThreadUtils.h`, `*Main.cpp`, examples, benchmarks | buffers and file descriptors | I/O | all |

The exchange runs three threads: order server, matching engine and
market data publisher.  They are joined by SPSC queues.  The matching engine
is single-threaded: each request runs one book handler to completion.  The
hard behaviours are these:
- the intrusive circular lists of the book and their index tables;
- the market-data recovery protocol over a lossy, reordering multicast;
- the unchecked queue and pool bounds;
- the order in which requests from many connections are sequenced.

## 2. What is modelled now

| Module | Models |
|---|---|
| `MemoryPool.tla` | `CMemoryPool<T>` as a record `[obj, free, cur, fatal]` with operators `NewPool`, `Allocate`, `Deallocate` and `UpdateNextFreeIndex` (the recursive `Probe` is its while loop).  A failed `ASSERT` sets `fatal`. |
| `MEOrderBook.tla` | `CMEOrderBook` at pointer level.  Pool slots play the pointers, `NULL = -1`.  The book is a record `b`, and each member function is an operator from book to book of the same name.  `AddOrderNode` is the private `AddOrder(SMEOrder*)`.  The book also records the responses and market updates the engine writes (`resp`, `mdu`). |
| `MatchingEngine.tla` | `CMatchingEngine::Run`/`ProcessClientRequest` over one book.  The ingress queue is a sequence.  The clients' `COrderManager` issues NEW with ids from 1 that are never reused, and CANCEL of ids it has issued. |
| `PriceTimeBook.tla` | The abstract book of spec section 4.3: resting orders are a set; the best opposing order is the best price, then the earliest; the emission order is the one section 4.3 fixes. |
| `MC_MatchingEngine.tla` | Instantiates `PriceTimeBook` with the refinement mapping below. |
| `SPSCQueue.tla` | `CLockFreeQueue<T>` with one step per atomic access.  The producer steps are `GetNextToWriteTo`, `AdvanceWriteIndex` and `CommitWrite`.  The consumer steps are `GetNextToRead`, `UseRecord`, `AdvanceReadIndex` and `ReleaseRead`, the last holding the `ASSERT`.  The producer writes 1, 2, 3, ... so that loss or reordering is visible. |
| `FifoSequencer.tla` | The exchange ingress, covering both sides of the connection. |
| `MC_FifoSequencer.tla` | Model values for clients and sockets, and the `Owner` and `RecvOrder` maps. |
| `SnapshotSynthesizer.tla` | `CSnapshotSynthesizer` for one ticker as a record `[orders, pool, last, fatal]`.  `AddToSnapshot` (the switch over ADD, MODIFY and CANCEL with its `ASSERT`s, the `orders->at` range check and the pool calls) and `PublishSnapshot` (the datagrams of one cycle) are operators. |
| `MarketDataConsumer.tla` | `CMarketDataConsumer` as a record `[nextExp, inRec, sub, snapQ, incQ, out]`.  `RecvCallback`, `queueMessage`, `startSnapshotSync` and `checkSnapshotSync` are operators that keep the code's order of checks and early returns. |
| `MarketData.tla` | The market-data path composed: the matching engine's updates (add, a match giving TRADE then CANCEL or MODIFY, cancel), the publisher thread, the synthesizer thread, the consumer, and two multicast channels.  A channel may lose datagrams (`Lose`, at most `MaxLosses`) and, with `Reorder`, deliver them out of order.  A ghost `log` holds every published incremental; `Replay` is the reference book of spec section 8. |
| `MC_MarketData.tla` | Sizes the synthesizer's table so that the passing run never reaches its end. |
| `MarketOrderBook.tla` | The client's `CMarketOrderBook` at pointer level, as a record `[opool, lpool, bids, asks, pidx, oidToOrder, bbo, fatal]`.  Its level-list code is a copy of the exchange's, so `AddOrdersAtPrice` and `RemoveOrdersAtPrice` are those of `MEOrderBook` (`INSTANCE`).  `AddOrder`, `RemoveOrder`, `UpdateBBO` (its FIFO walk is the recursive `RingQty`), the `CLEAR` loops (`FreeOrders`, `FreeSide`) and `OnMarketUpdate` with every case are operators. |
| `PositionKeeper.tla` | `SPositionInfo` for one ticker.  `AddFill` and `UpdateBBO` are `addFill` and `UpdateBBO` with every branch (increase, decrease realising the smaller of `execQty` and the old position, flip, flat reset, the mid mark when both BBO sides are valid).  The doubles are exact rationals `[num, den]` reduced by the recursive `Gcd`.  `Fill` and `BBOChange` are `EPositionKeeper`'s delegations, called by the trade engine from its two queues in any order.  `cash` and `mark` are a reference: the cash of the fills and the last price the position is valued at. |
| `ClientBook.tla` | Composes `MatchingEngine` with the trading side's book.  The engine's `book.mdu` is what the consumer forwards.  `TradeEngineRun` is one pass of the market-update loop of `CTradeEngine::Run`, and `Resync` is a consumer recovery: the queue receives `CLEAR` and one ADD per resting order in ascending market order id, as `PublishSnapshot` writes a cycle, and the incrementals it covers are skipped. |
| `MC_ClientBook.tla` | Instantiates `ClientBook` for TLC. |
| `TradingClient.tla` | One trading client, `TC`, against `MatchingEngine`.  `TC` quotes through `COrderManager`: `MoveOrders` is `moveOrders` (BUY, then SELL, through `MoveOrder`, `NewOrder`, `CancelOrder_` and `CheckPreTradeRisk`).  `TradeEngineOnResponse` is `CTradeEngine::onOrderUpdate`: `addFill`'s position, then `OMOnOrderUpdate`.  `om` is `m_tickerSideOrder` for the one ticker, indexed by side as `SideToIndex` does.  The strategy's prices come from doubles, so `StrategyMove` chooses them among the limit prices and `Price_INVALID`.  The loss check reads a double PnL, so its outcome is a free boolean.  The other clients are `MatchingEngine`'s abstract participants.  `TC`'s responses travel the real path: `OrderServerDrain` is the response loop of `COrderServer::Run` (each of `TC`'s responses, numbered by `m_cidNextOutgoingSeqNum`, into the socket's send buffer `sbuf`); `OrderServerFlush` is `CTCPSocket::SendAndRecv` on `TC`'s socket, which either puts the whole buffer on the `wire` or, on EWOULDBLOCK, loses it (bounded by `MaxSendBlocks`), and resets the buffer either way; `GatewayRecv` is `COrderGateway::RecvCallback`, which skips a response whose `seqNum` is not `m_nextExpSeqNum` (`gwExp`) and writes the others to the trade engine's queue `gwq`, from which `TradeEngineOnResponse` reads. |

`FifoSequencer.tla` models these steps:
- **Gateway side:** the gateway's buffered `Send` (`GatewaySend`), and its one-`send()` flush, which may be lost on EWOULDBLOCK (`GatewayFlush`, `GatewayFlushBlocked`).
- **TCP:** delivery of segments stamped with the kernel receive time (`Arrive`).
- **Order server round:** one `recvmsg` per socket in `m_receiveSockets` order (`SocketRecv`, `SocketNoData`), with `RecvCallback` folded over the records of the read.  `RecvCallback` does the socket binding check, the sequence check and `AddClientRequest`.  The round ends with `RecvFinishedCallback` and `SequenceAndPublish` (`RoundEnd`).
- **Sort:** `std::sort` is modelled by the orders it may produce (`SortOutcomes`).  Up to libstdc++'s insertion-sort threshold (16 elements) the sort is stable.  Above it, equal receive times may come out in any order.

In `MarketData.tla` each thread's step is the whole of one loop pass:
- `PublisherRun` is one pass of `CMarketDataPublisher::Run`.  Every queued
  update is numbered, sent in one datagram and forwarded to the synthesizer.
- `SynthAdd` is one `AddToSnapshot`.  `SynthSnapshot` is `PublishSnapshot`
  when the timer fires.  The model fires it only once the synthesizer has
  drained its queue and the previous cycle has left the channel, because the
  code's 60-second period is far longer than one cycle.
- `ConsumerRecvInc` and `ConsumerRecvSnap` are `RecvCallback` on one
  datagram.  `SnapNotJoined` is a snapshot datagram that arrives while the
  consumer is out of the group.

In `ClientBook.tla` the trade engine's pass applies every pending update at
once (`ApplyAll`).  Its steps touch only the client book, and the engine's
steps only append to `book.mdu`, so the two commute.  Taking the loop as one
step therefore loses no client-book state at the points the properties look
at, which are the states where the trade engine has caught up.

The constructor never initialises the client's `m_oidToOrder` and
`m_priceOrdersAtPrice`.  The book is created with `new` and the arrays are
megabytes large, so they come from fresh zeroed pages, and the model starts
them as null.

### Correspondence

- Book state is the tuple `opool, lpool, bids, asks, pidx, cidOid, nextMoid`.
  These are `m_orderPool`, `m_ordersAtPricePool`, `m_pBidsByPrice`,
  `m_pAsksByPrice`, `m_priceOrdersAtPrice`, `m_cidOidToOrder` and
  `m_nextMarketOrderId`.
- Each `ProcessClientRequest` step runs the whole of `AddOrder` or
  `CancelOrder`: crossing, every `Match`, list updates, pool calls and every
  send.
- `Spin` is the `Run` loop finding the queue empty (`MatchingEngine.h:84-98`).
  The engine never stops, so deadlock is checked.
- A crash ends the process.  The code crashes on an `ASSERT` in the pool, on a
  null dereference, or on `.at()` throwing inside `noexcept`.  A crashed
  state disables every engine step.

### Abstractions

- One ticker; books of different tickers share nothing.
- Field `tickerId` and all timing and logging are left out.
- `QtyModulus` is 2^32 in the code (`Qty` is `uint32_t`).  TLC integers are
  32-bit, so passing runs use 65536, which no id in them reaches.
- Output queues are unbounded sequences here.  Their bound is a separate
  hazard, and the `SPSCQueue` module covers it.
- `MaxInFlight = 1` limits the environment: a client sends only when the
  ingress queue is empty.  The engine's outputs depend only on the order of
  the requests, and every order of up to `MaxRequests` requests is still
  generated.  So only redundant interleavings of sending against processing
  are cut.

### Refinement mapping

`resting <- {order records of the in-use slots of opool}`,
`resp <- book.resp`, `mdu <- book.mdu`, `nextMoid <- book.nextMoid`.
A client send step is a stutter of the abstract book.

## 3. Runs

| Run | Config | Result | What it shows |
|---|---|---|---|
| `me_structure` | `MC_MatchingEngine.cfg` | pass | One client trading with itself, three prices, quantities 1 and 2, four requests.  The list structure (`BookWellFormed`), per-order quantity conservation over all responses (`QtyConserved`) and the absence of crashes (`NoFatal`) hold in every reachable state, and the pointer book implements `PriceTimeBook` (`AbsSpec`): every response, update and resting order is what price-time matching prescribes.  There are 69 K distinct states. |
| `me_collision` | `MC_MatchingEngine_collision.cfg` | violation | Prices 1 and 5 with `ME_MAX_PRICE_LEVELS` = 4: a SELL at 5 is appended to the BUY level at 1. |
| `spsc_fifo` | `SPSCQueue.cfg` | pass | A ring of 3 and 7 records, so both indices wrap twice.  Every interleaving of the producer's and consumer's atomic steps delivers each record once, in order (`FifoDelivery`), and every committed record is eventually used (`AllConsumed`). |
| `fifo_client_order` | `MC_FifoSequencer.cfg` | pass | Two clients, with c1 on two connections, and four requests.  Gateway sends may be lost.  Each client's requests reach the engine from one connection, numbered 1, 2, ... in order, each once (`ClientFifo`). |
| `fifo_unstable` | `MC_FifoSequencer_unstable.cfg` | violation | The stable threshold is scaled to 1.  Two requests of one client that arrived in one segment share a receive time, and the unstable sort publishes seq 2 before seq 1. |
| `fifo_block` | `MC_FifoSequencer_block.cfg` | violation | One send lost on EWOULDBLOCK leaves a gap in the client's sequence numbers.  The order server never moves its expected number past the gap, so every later request of that client is dropped. |
| `md_splice` | `MC_MarketData.cfg` | pass | Three engine updates, and one lost datagram on either channel.  After every recovery, the consumer's output replays to the same book as the incrementals it has passed (`ConsumerInSync`).  The synthesizer's image is the replay of what it has applied (`SynthConsistent`).  Recovery always ends (`Recovers`). |
| `md_mixed` | `MC_MarketData_mixed.cfg` | violation | Three losses: the consumer loses the tail of one snapshot cycle and the head of the next.  Every cycle numbers from 0, so the queue holds START..END made of two cycles.  `checkSnapshotSync` accepts it, and the consumer resumes with a wrong book.  Reordering alone, with no loss, gives the same splice. |
| `mob_mirror` | `MC_ClientBook.cfg` | pass | One client, prices {1, 2, 3}, three requests and one consumer recovery at any point.  The client book never crashes before a recovery.  Whenever the trade engine has caught up, `m_oidToOrder` indexes exactly the exchange's resting orders with their qty (`ClientIndexMirrors`), and both sides read level by level and FIFO by FIFO like the exchange book (`MirrorBeforeRecovery`).  There are 93 K distinct states. |
| `mob_clear` | `MC_ClientBook_clear.cfg` | violation | The same bounds with `ClientBookMirrors`, which also covers the states after a recovery.  `CLEAR` frees the levels but leaves `m_priceOrdersAtPrice` pointing at them.  In TLC's trace one SELL rests at price 1; after `CLEAR` the snapshot's ADD of it finds the freed level through the stale price index, is linked behind the freed order, and the level is never put back into the ask ring: the client sees an empty ask side while the exchange has an ask.  Every snapshot ADD here takes a pool slot never used before, so the stale FIFO head still has valid links and nothing crashes; a crash would need the pool to hand out the stale head's slot again. |
| `om_quotes` | `MC_TradingClient.cfg` | pass | `TC` quotes with clip 1 and position limit 1 against one other participant trading 1 or 2, with prices {1, 2}, three requests in all, and one send of the order server that may be lost.  The exposure the exchange has filled stays within the limit (`ExposureWithinLimit`).  This holds even though the risk check reads a position that lags the exchange by the responses not yet read.  No order of `TC` rests untracked (`NoOrphanOrder`).  Once its responses are in and nothing is queued, the order manager agrees with the exchange (`OMTracksExchange`).  The gateway's check keeps the trade engine's queue a prefix of `TC`'s responses, even after a lost send (`ResponsesInOrder`).  Under fair scheduling of the engine, order server, gateway and trade engine, every pending order becomes LIVE or DEAD unless a send was lost (`PendingResolves`).  Without that exception the property fails: one lost ACCEPTED leaves the side `PENDING_NEW` for ever, because the gateway skips every later response and `moveOrder` never touches a pending order.  This is the response direction of the EWOULDBLOCK defect of `fifo_block`.  There are 55 K distinct states. |
| `pk_pnl` | `PositionKeeper.cfg` | pass | Five fills (qty 1 or 2, prices 1 to 3) and BBO changes (either side possibly `Price_INVALID`) in any order.  The `totalPnL` that `addFill` and `UpdateBBO` keep equals the cash of all fills plus the open position valued at the last fill price or mid (`PnLMarkToMarket`).  This covers partial closes, flips through zero, flat periods and one-sided books.  There are 23 K distinct states. |

Three defects are kept in the models but have no run of their own.  They are
listed as hazards in `PROJECT.json`:
- **SPSC overrun.** `SPSCQueue` with `ProducerWaits = FALSE` lets the producer
  overwrite an unread record, and `FifoDelivery` fails with a ring of two.
- **Synthesizer table.** `SnapshotSynthesizer` with a table of three ids
  throws on the fourth ADD, and `SynthConsistent` fails.
- **Market order id truncation.** `MEOrderBook` with `QtyModulus = 2`
  truncates the market order id in aggressor fills, and `QtyConserved` fails
  after two requests.

The order server never releases a client id's socket binding
(`OrderServer.h:73-78`; `m_disconnectedSockets` is never filled).  So a
client that reconnects, which spec section 7 leaves retries to, has every
request on its new connection dropped.  `fifo_client_order` reaches this with
`s3`, c1's second connection, but no property states that a reconnected
client is served; it is listed as a hazard.

The client book has one more defect, which no run covers.  `bid_updated` and
`ask_updated` (`MarketOrderBook.cpp:25-26`) need a non-null best pointer
before the update.  So the first ADD on an empty side does not set the BBO,
and after `CLEAR` the BBO keeps its pre-recovery values.

### Fairness

- **SPSC queue:** the consumer thread spins on a pinned core, so it has weak fairness.  The producer finishes a write it has begun.
- **Ingress:** the order server loop and the gateway loop spin forever, so their steps have weak fairness.  Delivery of what TCP accepted is a weak-fairness assumption on `Arrive`, which is TCP's own guarantee.
- **Market data:** the publisher, synthesizer and consumer loops spin forever, so their steps have weak fairness.  `Lose` has no fairness and is bounded by `MaxLosses`.  So a datagram that is not lost is eventually delivered.  Without that bound the network could lose every snapshot, and no recovery could end.
- **Trading client:** the matching engine, the order server, the gateway and the trade engine each spin on a pinned thread, so each has weak fairness.  The engine's is stated on `EngineTakesRequest`, the step that takes the head of the request queue.  This is exactly `ProcessClientRequest` as the queue sees it, and it keeps TLC from evaluating the engine's whole step under ENABLED.  The strategy and the other participants have no fairness.  The order server's flush is fair as a whole; its EWOULDBLOCK outcome is bounded by `MaxSendBlocks`.
- **Position keeper:** `PositionKeeper` checks a safety property only, so it assumes no fairness.
- **Trade engine:** `CTradeEngine::Run` spins on its queues, so `TradeEngineRun` has weak fairness.  `Resync` has none: recoveries come from the network and are bounded by `MaxResyncs`.

### Bounds

- Four requests are enough for each of these:
  - three levels on one side, so the middle insertion of `AddOrdersAtPrice`
    and the wrap of its walk happen;
  - a NEW that crosses two levels;
  - a cancel of the head of a two-order FIFO;
  - the death and rebirth of a level with priority reset to 1.
- Quantities {1, 2} give partial and full fills.
- One client that trades with itself reaches every match the book can make;
  `me_collision` uses the same one client, with prices 1 and 5.
- The position keeper uses five events: open, add, partial close, flip and
  flat all happen, with BBO changes between them.
- Ingress runs use four requests over two or three connections.  This is enough for two segments of one client in one read, reads of several sockets in one round, requests split across rounds, a lost flush followed by a delivered one, and a second connection of the same client id.
- Market data uses three updates with quantities {1, 2}.  That is enough
  for an add, a partial match (TRADE then MODIFY) and a cancel, so each
  update type appears in a snapshot and in an incremental.  One loss on
  either channel starts a recovery.  The mixed-cycle splice needs three.
- The client book uses prices {1, 2, 3}, so a side holds three levels, and
  three requests.  So an add, a partial fill (TRADE then MODIFY) or a cancel
  can each come before or after the recovery.  One recovery is enough to
  reach `CLEAR` with orders resting.  Four requests give 0.5 M states, which
  take over five minutes under TLC's coverage profiling.
- The trading client uses clip 1 against a limit of 1.  So its risk check
  rejects a second order on the side it was filled on.  An opposing order
  of qty 2 that fills `TC` and rests with 1 lets a second fill happen
  within three requests.  One lost send is enough to reach the gateway's
  gap.  Four requests give 0.15 M states, and the liveness check then
  nears the time limit under TLC's coverage profiling.  With clip 1 every
  fill of `TC`'s order is a full fill, so the partial-fill branch of
  `onOrderUpdate` is not exercised.  Clip 2 with a limit of 2 exercises it,
  but then a breach of the limit needs a fourth request, and the missing
  side value in the risk check is no longer caught within three.
- `CMemoryPool` never hands out its last slot (N-1 capacity).  This is
  listed as a hazard, and the passing runs size pools above it.
- Pools are sized so that the passing runs cannot exhaust them: the level pool
  holds 4 for 3 prices.  The violation runs then show what happens at the
  bounds.

## 4. Plan for the remaining parts

Module order:
1. Done: `SPSCQueue` and `FifoSequencer`; the response half of
   `COrderServer::Run` is in `TradingClient`.
2. Done: market data (`MarketData` and its components).  Still open: the
   synthesizer's pool shared by several tickers.
3. Done: `MarketOrderBook` and `ClientBook`.  Still open: the TRADE and
   book-update callbacks into the strategies.
4. Done: `TradingClient` (`COrderManager` and the risk check against the
   engine), composed with the response path through the order server and
   `OrderGateway`'s sequence check.

Fairness for the later modules follows the same rule as section 3: a loop
that spins forever on a pinned thread gets weak fairness, and network
delivery is fair only where a bound limits losses.

## 5. Not modelled

- Strategy arithmetic (FeatureEngine, MarketMaker, LiquidityTaker) uses
  doubles and has no control interest.  PositionKeeper's PnL is modelled
  with exact rationals; its floating-point rounding is not.
- `openVWAP` in `SPositionInfo` has no initialiser.  The model starts it at
  0, which is what fresh heap memory holds; leftover bytes would skew the
  first unrealised PnL (listed as a hazard).
- Logging, socket system calls, threads and `main` functions are pure I/O.
- Examples and benchmarks are not part of the system.
- `OptMemoryPool.h` is only used by a benchmark.
