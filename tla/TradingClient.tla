---------------------------- MODULE TradingClient ----------------------------
(***************************************************************************)
(* One trading client against the exchange of MatchingEngine.  Client TC  *)
(* is a CTradeEngine whose strategy quotes through COrderManager          *)
(* (src/trading/strategy/OrderManager.{h,cpp}): moveOrders keeps at most   *)
(* one SOMOrder per side, gated by CRiskManager::checkPreTradeRisk, and    *)
(* onOrderUpdate moves the SOMOrder of the response's side.  The other    *)
(* clients are the exchange's other participants, as in MatchingEngine.   *)
(* The requests TC sends join the engine's queue in order (that transport  *)
(* is FifoSequencer's subject).  TC's responses (book.resp for cid TC)     *)
(* travel as COrderServer::Run sends them: numbered per client into the   *)
(* socket's send buffer, flushed by CTCPSocket::SendAndRecv, which loses  *)
(* the buffer when send() would block, and checked by                       *)
(* COrderGateway::RecvCallback before they reach the trade engine's queue. *)
(* The strategy's prices come from floating-point features, so they are   *)
(* any limit price or Price_INVALID; the loss check reads a double PnL, so *)
(* it may fail at any time.                                                *)
(***************************************************************************)
EXTENDS MatchingEngine

CONSTANTS
    TC,             \* the trading client's id, in Clients
    Clip,           \* the strategy's clip (order size)
    MaxOrderSize,   \* riskCfg.max_order_size_
    MaxPosition,    \* riskCfg.max_position_
    MaxSendBlocks   \* bound on the order server's sends lost on EWOULDBLOCK

VARIABLES
    om,         \* m_tickerSideOrder[ticker]: SOMOrder per SideToIndex(side)
    position,   \* SPositionInfo::position of the ticker
    respRead,   \* responses of TC the trade engine has taken from gwq
    osSent,     \* TC's responses the order server has read off its queue
    sbuf,       \* TC's socket send buffer at the order server: [seq, r]
    wire,       \* bytes in TCP between the order server and TC's gateway
    gwExp,      \* the gateway's m_nextExpSeqNum
    gwq,        \* responses the gateway wrote to the trade engine's queue
    sendBlocks  \* sends of TC's buffer that failed with EWOULDBLOCK

omVars == <<om, position, respRead>>
netVars == <<osSent, sbuf, wire, gwExp, gwq, sendBlocks>>
tcVars == <<vars, omVars, netVars>>

(* SideToIndex ranges over SELL, INVALID and BUY.                          *)
OMSides == {SELL, NOSIDE, BUY}

NoOMOrder == [orderId |-> INVALID, side |-> NOSIDE, price |-> INVALID, qty |-> INVALID,
              state |-> "INVALID"]

TCInit ==
    /\ Init
    /\ om = [s \in OMSides |-> NoOMOrder]
    /\ position = 0
    /\ respRead = 0
    /\ osSent = 0
    /\ sbuf = <<>>
    /\ wire = <<>>
    /\ gwExp = 1
    /\ gwq = <<>>
    /\ sendBlocks = 0

AbsVal(x) == IF x < 0 THEN -x ELSE x

(* The responses the gateway forwards to TC's trade engine.                *)
TCResponses == SelectSeq(book.resp, LAMBDA r : r.cid = TC)

-----------------------------------------------------------------------------
(* COrderManager and CRiskManager.  A step of the strategy runs on a      *)
(* record [om, reqs, nextId]: the SOMOrders, the requests sent so far and *)
(* m_nextOrderId.                                                          *)

(* Mutant of CheckPreTradeRisk: the order's qty is added whatever its     *)
(* side.                                                                    *)
CheckPreTradeRisk_NoSideValue(side, qty, lossTooLarge) ==
    IF qty > MaxOrderSize THEN "ORDER_TOO_LARGE"
    ELSE IF AbsVal(position + qty) > MaxPosition THEN "POSITION_TOO_LARGE"
    ELSE IF lossTooLarge THEN "LOSS_TOO_LARGE"
    ELSE "ALLOWED"

(* SRiskInfo::checkPreTradeRisk, in its order of checks.                   *)
CheckPreTradeRisk(side, qty, lossTooLarge) ==
    IF qty > MaxOrderSize THEN "ORDER_TOO_LARGE"
    ELSE IF AbsVal(position + side * qty) > MaxPosition THEN "POSITION_TOO_LARGE"
    ELSE IF lossTooLarge THEN "LOSS_TOO_LARGE"
    ELSE "ALLOWED"

(* newOrder: send NEW with m_nextOrderId, overwrite the SOMOrder with it  *)
(* in PENDING_NEW, advance m_nextOrderId.                                  *)
NewOrder(st, side, price, qty) ==
    [st EXCEPT !.reqs   = Append(@, [type |-> "NEW", cid |-> TC, coid |-> st.nextId,
                                     side |-> side, price |-> price, qty |-> qty]),
               !.om[side] = [orderId |-> st.nextId, side |-> side, price |-> price,
                             qty |-> qty, state |-> "PENDING_NEW"],
               !.nextId = @ + 1]

(* cancelOrder: send CANCEL with the SOMOrder's fields; PENDING_CANCEL.   *)
CancelOrder_(st, side) ==
    LET o == st.om[side] IN
    [st EXCEPT !.reqs = Append(@, [type |-> "CANCEL", cid |-> TC, coid |-> o.orderId,
                                   side |-> o.side, price |-> o.price, qty |-> o.qty]),
               !.om[side].state = "PENDING_CANCEL"]

(* Mutant of MoveOrder: an order being cancelled is treated as gone.      *)
MoveOrder_NewWhilePendingCancel(st, side, price, qty, lossTooLarge) ==
    LET o == st.om[side] IN
    CASE o.state = "LIVE" ->
           IF o.price # price THEN CancelOrder_(st, side) ELSE st
      [] o.state \in {"INVALID", "DEAD", "PENDING_CANCEL"} ->
           IF price # INVALID /\ CheckPreTradeRisk(side, qty, lossTooLarge) = "ALLOWED"
           THEN NewOrder(st, side, price, qty) ELSE st
      [] OTHER -> st

(* moveOrder: a LIVE order at another price is cancelled; with no order   *)
(* (INVALID or DEAD) a wanted price is sent as NEW if the risk check      *)
(* allows it; a pending order is left alone.                               *)
MoveOrder(st, side, price, qty, lossTooLarge) ==
    LET o == st.om[side] IN
    CASE o.state = "LIVE" ->
           IF o.price # price THEN CancelOrder_(st, side) ELSE st
      [] o.state \in {"INVALID", "DEAD"} ->
           IF price # INVALID /\ CheckPreTradeRisk(side, qty, lossTooLarge) = "ALLOWED"
           THEN NewOrder(st, side, price, qty) ELSE st
      [] OTHER -> st

(* The strategy's moveOrders(ticker, bid, ask, clip): the BUY side, then  *)
(* the SELL side, each request written to the outgoing queue at once.    *)
(* The step is taken when it sends something and stays within the bound  *)
(* on requests; otherwise it changes nothing.                               *)
MoveOrders(bid, ask, lossTooLarge) ==
    LET st0 == [om |-> om, reqs |-> <<>>, nextId |-> nextCoid[TC]]
        st1 == MoveOrder(st0, BUY, bid, Clip, lossTooLarge)
        st2 == MoveOrder(st1, SELL, ask, Clip, lossTooLarge)
    IN  /\ st2.reqs # <<>>
        /\ sent + Len(st2.reqs) <= MaxRequests
        /\ requests' = requests \o st2.reqs
        /\ om' = st2.om
        /\ nextCoid' = [nextCoid EXCEPT ![TC] = st2.nextId]
        /\ sent' = sent + Len(st2.reqs)
        /\ UNCHANGED <<book, position, respRead, netVars>>

(* Mutant of OMOnOrderUpdate: a fill leaving nothing keeps the state.     *)
OMOnOrderUpdate_FilledKeepsState(o, r) ==
    CASE r.type = "ACCEPTED" -> [o EXCEPT !.state = "LIVE"]
      [] r.type = "CANCELED" -> [o EXCEPT !.state = "DEAD"]
      [] r.type = "FILLED"   -> [o EXCEPT !.qty = r.leaves]
      [] OTHER               -> o

(* COrderManager::onOrderUpdate on the SOMOrder of the response's side.    *)
OMOnOrderUpdate(o, r) ==
    CASE r.type = "ACCEPTED" -> [o EXCEPT !.state = "LIVE"]
      [] r.type = "CANCELED" -> [o EXCEPT !.state = "DEAD"]
      [] r.type = "FILLED"   -> [o EXCEPT !.qty = r.leaves,
                                          !.state = IF r.leaves = 0 THEN "DEAD" ELSE @]
      [] OTHER               -> o

(* CTradeEngine::Run takes the next response off the gateway's queue and  *)
(* calls onOrderUpdate: a FILLED goes to PositionKeeper::addFill          *)
(* (position += execQty * side), then the strategy passes every response  *)
(* to the order manager.                                                    *)
TradeEngineOnResponse ==
    /\ respRead < Len(gwq)
    /\ LET r == gwq[respRead + 1] IN
       /\ position' = IF r.type = "FILLED" THEN position + r.exec * r.side ELSE position
       /\ om' = [om EXCEPT ![r.side] = OMOnOrderUpdate(@, r)]
    /\ respRead' = respRead + 1
    /\ UNCHANGED <<vars, netVars>>

-----------------------------------------------------------------------------
(* The response path.                                                      *)

(* COrderServer::Run, the loop over the engine's response queue: each of  *)
(* TC's responses is written to TC's socket with m_cidNextOutgoingSeqNum,  *)
(* which then advances.  The loop reads what the engine has written so     *)
(* far; the engine writes concurrently, so it may stop after any k.        *)
OrderServerDrain ==
    /\ osSent < Len(TCResponses)
    /\ \E k \in 1 .. Len(TCResponses) - osSent :
          /\ sbuf' = sbuf \o [i \in 1 .. k |-> [seq |-> osSent + i,
                                               r   |-> TCResponses[osSent + i]]]
          /\ osSent' = osSent + k
    /\ UNCHANGED <<vars, omVars, wire, gwExp, gwq, sendBlocks>>

(* CTCPSocket::SendAndRecv on TC's socket, from CTCPServer::SendAndRecv:   *)
(* send() either takes the whole buffer or fails with EWOULDBLOCK, and     *)
(* m_nextSendValidIndex is reset to 0 either way.                          *)
OrderServerFlush ==
    /\ sbuf # <<>>
    /\ \/ /\ wire' = wire \o sbuf
          /\ UNCHANGED sendBlocks
       \/ /\ sendBlocks < MaxSendBlocks
          /\ sendBlocks' = sendBlocks + 1
          /\ UNCHANGED wire
    /\ sbuf' = <<>>
    /\ UNCHANGED <<vars, omVars, osSent, gwExp, gwq>>

(* Mutant of GatewayRecv: on a gap the gateway resynchronises to the      *)
(* received sequence number and forwards the response.                      *)
GatewayRecv_ResyncOnGap ==
    /\ wire # <<>>
    /\ LET m == Head(wire) IN
       /\ gwq' = Append(gwq, m.r)
       /\ gwExp' = m.seq + 1
    /\ wire' = Tail(wire)
    /\ UNCHANGED <<vars, omVars, osSent, sbuf, sendBlocks>>

(* Mutant of GatewayRecv: ++m_nextExpSeqNum is missing.                    *)
GatewayRecv_NoAdvance ==
    /\ wire # <<>>
    /\ LET m == Head(wire) IN
       /\ gwq' = IF m.seq = gwExp THEN Append(gwq, m.r) ELSE gwq
       /\ UNCHANGED gwExp
    /\ wire' = Tail(wire)
    /\ UNCHANGED <<vars, omVars, osSent, sbuf, sendBlocks>>

(* COrderGateway::RecvCallback on the next response read: one whose seqNum *)
(* is not m_nextExpSeqNum is logged and skipped; otherwise the expected    *)
(* number advances and the response is written to the trade engine's      *)
(* queue.  Every response on TC's connection carries TC's client id, so   *)
(* the client id check passes.                                              *)
GatewayRecv ==
    /\ wire # <<>>
    /\ LET m == Head(wire) IN
       IF m.seq = gwExp
       THEN /\ gwq' = Append(gwq, m.r)
            /\ gwExp' = gwExp + 1
       ELSE UNCHANGED <<gwq, gwExp>>
    /\ wire' = Tail(wire)
    /\ UNCHANGED <<vars, omVars, osSent, sbuf, sendBlocks>>

StrategyMove ==
    \E bid, ask \in Prices \cup {INVALID}, lossTooLarge \in BOOLEAN :
        MoveOrders(bid, ask, lossTooLarge)

(* The other participants and the engine, as in MatchingEngine.           *)
OthersNew ==
    /\ \E c \in Clients \ {TC}, side \in {BUY, SELL}, price \in Prices, qty \in Qtys :
          ClientNew(c, side, price, qty)
    /\ UNCHANGED <<omVars, netVars>>
OthersCancel ==
    /\ \E c \in Clients \ {TC} : \E coid \in 1 .. nextCoid[c] - 1 : ClientCancel(c, coid)
    /\ UNCHANGED <<omVars, netVars>>
EngineStep == (ProcessClientRequest \/ Spin) /\ UNCHANGED <<omVars, netVars>>

TCNext ==
    \/ OthersNew
    \/ OthersCancel
    \/ EngineStep
    \/ StrategyMove
    \/ TradeEngineOnResponse
    \/ OrderServerDrain
    \/ OrderServerFlush
    \/ GatewayRecv

TCSpec == TCInit /\ [][TCNext]_tcVars

(* ProcessClientRequest as the request queue sees it: the only step that  *)
(* removes the queue's head, enabled exactly when ProcessClientRequest is. *)
EngineTakesRequest ==
    /\ requests # <<>>
    /\ ~Crashed(book)
    /\ requests' = Tail(requests)

(* Each of the engine, the order server, the gateway and the trade engine *)
(* is a thread spinning on its loop, so each step that stays enabled is   *)
(* eventually taken.  The strategy and the other participants need not    *)
(* act.                                                                     *)
TCFairSpec ==
    /\ TCSpec
    /\ WF_requests(EngineTakesRequest)
    /\ WF_tcVars(OrderServerDrain)
    /\ WF_tcVars(OrderServerFlush)
    /\ WF_tcVars(GatewayRecv)
    /\ WF_tcVars(TradeEngineOnResponse)

-----------------------------------------------------------------------------
(* Views and properties.                                                   *)

(* TC's orders resting at the exchange on a side, by client order id.     *)
TCResting(side) == {r \in RestingOrders : r.cid = TC /\ r.side = side}

(* TC's net position as the exchange has filled it, read or not.           *)
RECURSIVE NetFilled(_)
NetFilled(rs) ==
    IF rs = <<>> THEN 0
    ELSE (IF Head(rs).type = "FILLED" THEN Head(rs).exec * Head(rs).side ELSE 0)
         + NetFilled(Tail(rs))

Quiescent ==
    /\ respRead = Len(TCResponses)
    /\ \A i \in DOMAIN requests : requests[i].cid # TC

(* The risk limit holds for the exposure the exchange has actually given  *)
(* TC, fills not yet seen by the trade engine included: checkPreTradeRisk *)
(* reads a position that lags the exchange, and only the rule of one      *)
(* order per side, replaced once its last response is in, keeps the       *)
(* unread fills on the side that moves the position back.                 *)
ExposureWithinLimit == AbsVal(NetFilled(TCResponses)) <= MaxPosition

(* TC never leaves an order behind at the exchange: each side has at most *)
(* one resting order of TC, and it is the one the order manager's SOMOrder *)
(* for that side names.  moveOrder overwrites the SOMOrder on NEW, and     *)
(* onOrderUpdate finds it by side, not by order id.                         *)
NoOrphanOrder ==
    \A s \in {BUY, SELL} :
        \A r \in TCResting(s) : r.coid = om[s].orderId

(* The gateway's sequence check keeps the trade engine's queue a prefix   *)
(* of the responses the exchange produced for TC: a response lost on the  *)
(* order server's EWOULDBLOCK is never papered over by forwarding a later *)
(* one, which the order manager, keyed by side, would apply to the wrong  *)
(* SOMOrder state.                                                          *)
ResponsesInOrder ==
    /\ Len(gwq) <= Len(TCResponses)
    /\ gwq = SubSeq(TCResponses, 1, Len(gwq))

(* Every SOMOrder pending at TC (a NEW or CANCEL sent, no answer yet) is   *)
(* eventually LIVE or DEAD, unless the order server lost a send of TC's   *)
(* responses: after such a loss the gateway skips every later response,   *)
(* and the side stays pending forever, so moveOrder never quotes it again. *)
Pending(s) == om[s].state \in {"PENDING_NEW", "PENDING_CANCEL"}
PendingResolves ==
    \A s \in {BUY, SELL} : Pending(s) ~> (~Pending(s) \/ sendBlocks > 0)

(* Whenever TC's trade engine has taken every response and no request of  *)
(* TC is queued, the order manager agrees with the exchange: a LIVE       *)
(* SOMOrder rests there with its qty, a DEAD or INVALID one has nothing    *)
(* resting on its side, and nothing is pending.                            *)
OMTracksExchange ==
    Quiescent =>
      \A s \in {BUY, SELL} :
        CASE om[s].state = "LIVE" ->
               \E r \in TCResting(s) : r.coid = om[s].orderId /\ r.qty = om[s].qty
          [] om[s].state \in {"INVALID", "DEAD"} -> TCResting(s) = {}
          [] OTHER -> FALSE
====
