---------------------------- MODULE PriceTimeBook ----------------------------
(***************************************************************************)
(* What an order book promises (spec.md section 4.3), with no pointers:   *)
(* the resting orders are a set, an aggressive order crosses the best     *)
(* opposing order first (best price, then earliest arrival), and each     *)
(* request appends its client responses and market updates in the order  *)
(* section 4.3 fixes.  MEOrderBook/MatchingEngine are checked to          *)
(* implement this module.                                                  *)
(***************************************************************************)
EXTENDS Integers, Sequences

CONSTANTS Clients, OrderIds, Prices, Qtys

VARIABLES resting,   \* set of [cid, coid, moid, side, price, qty, prio]
          resp,      \* client responses emitted so far
          mdu,       \* market updates emitted so far
          nextMoid   \* next market order id

vars == <<resting, resp, mdu, nextMoid>>

INVALID == -1
BUY     == 1
SELL    == -1
NOSIDE  == 0

Response(type, cid, coid, moid, side, price, exec, leaves) ==
    [type |-> type, cid |-> cid, coid |-> coid, moid |-> moid, side |-> side,
     price |-> price, exec |-> exec, leaves |-> leaves]
Update(type, moid, side, price, qty, prio) ==
    [type |-> type, moid |-> moid, side |-> side, price |-> price, qty |-> qty, prio |-> prio]

Lesser(x, y) == IF x < y THEN x ELSE y

(* A limit at price reaches resting order o of the other side.            *)
Reaches(side, price, o) ==
    /\ o.side = -side
    /\ IF side = BUY THEN o.price <= price ELSE o.price >= price

(* o is matched no later than x: better price, or same price and earlier. *)
Ahead(o, x) ==
    \/ o.side = SELL /\ o.price < x.price
    \/ o.side = BUY  /\ o.price > x.price
    \/ o.price = x.price /\ o.moid <= x.moid

(* Cross the aggressor against the book; s is [resting, resp, mdu].       *)
RECURSIVE Cross(_, _, _, _, _, _, _)
Cross(s, cid, coid, side, price, leaves, moid) ==
    LET eligible == {o \in s.resting : Reaches(side, price, o)} IN
    IF leaves = 0 \/ eligible = {} THEN <<s, leaves>>
    ELSE
      LET o    == CHOOSE o \in eligible : \A x \in eligible : Ahead(o, x)
          fill == Lesser(leaves, o.qty)
          rest == o.qty - fill
          s1   == [s EXCEPT
                    !.resp = @ \o <<Response("FILLED", cid, coid, moid, side, o.price, fill, leaves - fill),
                                    Response("FILLED", o.cid, o.coid, o.moid, o.side, o.price, fill, rest)>>,
                    !.mdu  = @ \o <<Update("TRADE", INVALID, side, o.price, fill, INVALID),
                                    IF rest = 0 THEN Update("CANCEL", o.moid, o.side, o.price, o.qty, INVALID)
                                    ELSE Update("MODIFY", o.moid, o.side, o.price, rest, o.prio)>>,
                    !.resting = (@ \ {o}) \cup (IF rest = 0 THEN {} ELSE {[o EXCEPT !.qty = rest]})]
      IN  Cross(s1, cid, coid, side, price, leaves - fill, moid)

(* One past the last priority at price among the orders rest, 1 when no  *)
(* order rests there.                                                      *)
NextPriority(rest, price) ==
    LET at == {o.prio : o \in {x \in rest : x.price = price}} IN
    IF at = {} THEN 1 ELSE (CHOOSE p \in at : \A q \in at : q <= p) + 1

Init ==
    /\ resting = {}
    /\ resp = <<>>
    /\ mdu = <<>>
    /\ nextMoid = 1

AddOrder(cid, coid, side, price, qty) ==
    LET moid == nextMoid
        c    == Cross([resting |-> resting,
                       resp |-> Append(resp, Response("ACCEPTED", cid, coid, moid, side, price, 0, qty)),
                       mdu |-> mdu],
                      cid, coid, side, price, qty, moid)
        s    == c[1]
        left == c[2]
        prio == NextPriority(s.resting, price)
        new  == [cid |-> cid, coid |-> coid, moid |-> moid, side |-> side,
                 price |-> price, qty |-> left, prio |-> prio]
    IN
    /\ nextMoid' = nextMoid + 1
    /\ resp' = s.resp
    /\ IF left = 0
       THEN resting' = s.resting /\ mdu' = s.mdu
       ELSE /\ resting' = s.resting \cup {new}
            /\ mdu' = Append(s.mdu, Update("ADD", moid, side, price, left, prio))

CancelOrder(cid, coid) ==
    LET mine == {o \in resting : o.cid = cid /\ o.coid = coid} IN
    /\ nextMoid' = nextMoid
    /\ IF mine = {}
       THEN /\ resp' = Append(resp, Response("CANCEL_REJECTED", cid, coid, INVALID, NOSIDE, INVALID, INVALID, INVALID))
            /\ UNCHANGED <<resting, mdu>>
       ELSE LET o == CHOOSE o \in mine : TRUE IN
            /\ resting' = resting \ {o}
            /\ mdu' = Append(mdu, Update("CANCEL", o.moid, o.side, o.price, 0, o.prio))
            /\ resp' = Append(resp, Response("CANCELED", cid, coid, o.moid, o.side, o.price, INVALID, o.qty))

Next ==
    \/ \E cid \in Clients, coid \in OrderIds, side \in {BUY, SELL}, price \in Prices, qty \in Qtys :
          AddOrder(cid, coid, side, price, qty)
    \/ \E cid \in Clients, coid \in OrderIds : CancelOrder(cid, coid)

Spec == Init /\ [][Next]_vars
====
