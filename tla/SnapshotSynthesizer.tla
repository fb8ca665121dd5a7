------------------------- MODULE SnapshotSynthesizer -------------------------
(***************************************************************************)
(* CSnapshotSynthesizer (src/exchange/market_data/SnapshotSynthesizer),  *)
(* one ticker.  The synthesizer is a record                                *)
(*   [orders |-> moid -> pool slot or NULL   (m_tickerOrders[ticker])      *)
(*    pool   |-> CMemoryPool<SMEMarketUpdate> (m_orderPool)                *)
(*    last   |-> m_lastIncSeqNum                                           *)
(*    fatal  |-> "none" or why the thread died]                            *)
(* and AddToSnapshot and PublishSnapshot are operators on it.  A market    *)
(* update is [type, moid, qty]; side, price and priority are carried       *)
(* unchanged by every component and are left out.  A wire record is       *)
(* [seq, u].                                                                *)
(***************************************************************************)
EXTENDS Integers, Sequences, FiniteSets
Pool == INSTANCE MemoryPool

NULL == -1

(* The constructor: an empty table of numIds entries and a pool of        *)
(* poolSize blocks.                                                        *)
NewSynth(numIds, poolSize) ==
    [orders |-> [m \in 0 .. numIds - 1 |-> NULL],
     pool   |-> Pool!NewPool(poolSize, [type |-> "INVALID", moid |-> NULL, qty |-> 0]),
     last   |-> 0,
     fatal  |-> "none"]

SynthCrashed(s) == s.fatal # "none" \/ s.pool.fatal # "none"

(* orders->at(orderId): std::out_of_range past the table ends the thread. *)
InTable(s, m) == m \in DOMAIN s.orders

(* Mutant of ApplyToImage: MODIFY leaves the stored quantity as it was.   *)
ApplyToImage_ModifyKeepsQty(s, u) ==
    CASE u.type = "ADD" ->
           IF ~InTable(s, u.moid) THEN [s EXCEPT !.fatal = "orders.at out of range"]
           ELSE IF s.orders[u.moid] # NULL THEN [s EXCEPT !.fatal = "order already exists"]
           ELSE [s EXCEPT !.orders[u.moid] = Pool!AllocSlot(s.pool),
                          !.pool = Pool!Allocate(@, u)]
      [] u.type = "MODIFY" ->
           IF ~InTable(s, u.moid) THEN [s EXCEPT !.fatal = "orders.at out of range"]
           ELSE IF s.orders[u.moid] = NULL THEN [s EXCEPT !.fatal = "order does not exist"]
           ELSE s
      [] u.type = "CANCEL" ->
           IF ~InTable(s, u.moid) THEN [s EXCEPT !.fatal = "orders.at out of range"]
           ELSE IF s.orders[u.moid] = NULL THEN [s EXCEPT !.fatal = "order does not exist"]
           ELSE [s EXCEPT !.pool = Pool!Deallocate(@, s.orders[u.moid]),
                          !.orders[u.moid] = NULL]
      [] OTHER -> s

(* AddToSnapshot, the switch on the update type.                           *)
ApplyToImage(s, u) ==
    CASE u.type = "ADD" ->
           IF ~InTable(s, u.moid) THEN [s EXCEPT !.fatal = "orders.at out of range"]
           ELSE IF s.orders[u.moid] # NULL THEN [s EXCEPT !.fatal = "order already exists"]
           ELSE [s EXCEPT !.orders[u.moid] = Pool!AllocSlot(s.pool),
                          !.pool = Pool!Allocate(@, u)]
      [] u.type = "MODIFY" ->
           IF ~InTable(s, u.moid) THEN [s EXCEPT !.fatal = "orders.at out of range"]
           ELSE IF s.orders[u.moid] = NULL THEN [s EXCEPT !.fatal = "order does not exist"]
           ELSE [s EXCEPT !.pool.obj[s.orders[u.moid]].qty = u.qty]
      [] u.type = "CANCEL" ->
           IF ~InTable(s, u.moid) THEN [s EXCEPT !.fatal = "orders.at out of range"]
           ELSE IF s.orders[u.moid] = NULL THEN [s EXCEPT !.fatal = "order does not exist"]
           ELSE [s EXCEPT !.pool = Pool!Deallocate(@, s.orders[u.moid]),
                          !.orders[u.moid] = NULL]
      [] OTHER -> s

(* AddToSnapshot: apply the update, then ASSERT that its sequence number  *)
(* follows the last one and record it.                                     *)
AddToSnapshot(s, r) ==
    LET s1 == ApplyToImage(s, r.u) IN
    IF SynthCrashed(s1) THEN s1
    ELSE IF r.seq # s.last + 1 THEN [s1 EXCEPT !.fatal = "incremental seq gap"]
    ELSE [s1 EXCEPT !.last = r.seq]

(* The live orders of the image, by ascending market order id, as the     *)
(* loop over m_tickerOrders visits them.                                   *)
LiveImage(s) ==
    LET ids == SelectSeq([i \in 1 .. Cardinality(DOMAIN s.orders) |-> i - 1], LAMBDA m : s.orders[m] # NULL)
    IN  [i \in DOMAIN ids |-> s.pool.obj[s.orders[ids[i]]]]

(* PublishSnapshot: the datagrams of one cycle, in sending order.          *)
(* SNAPSHOT_START (seq 0, moid = last) and CLEAR (seq 1) are buffered and *)
(* go out with the first order, each order sends a datagram, and           *)
(* SNAPSHOT_END (moid = last) goes out alone; with no orders START, CLEAR  *)
(* and END share one datagram.                                             *)
PublishSnapshot(s) ==
    LET img   == LiveImage(s)
        n     == Len(img)
        start == [seq |-> 0, u |-> [type |-> "SNAPSHOT_START", moid |-> s.last, qty |-> 0]]
        clear == [seq |-> 1, u |-> [type |-> "CLEAR", moid |-> NULL, qty |-> 0]]
        end   == [seq |-> n + 2, u |-> [type |-> "SNAPSHOT_END", moid |-> s.last, qty |-> 0]]
        ord(i) == [seq |-> i + 1, u |-> img[i]]
    IN  IF n = 0 THEN << <<start, clear, end>> >>
        ELSE << <<start, clear, ord(1)>> >> \o [i \in 1 .. n - 1 |-> <<ord(i + 1)>>] \o << <<end>> >>
====
