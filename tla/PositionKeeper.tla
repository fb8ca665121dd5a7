---------------------------- MODULE PositionKeeper ----------------------------
(***************************************************************************)
(* SPositionInfo of src/trading/strategy/PositionKeeper.h for one ticker:  *)
(* addFill on each FILLED response the trade engine reads, and UpdateBBO  *)
(* on each book change.  The code keeps openVWAP and the PnLs in doubles;  *)
(* here they are exact rationals, so what is checked is the bookkeeping   *)
(* (average cost, realised on close, flips, flat resets, the mid mark),   *)
(* not floating-point rounding.  The fills and book changes reach the     *)
(* trade engine from two queues in any interleaving, so each step chooses *)
(* one of either.                                                          *)
(***************************************************************************)
EXTENDS Integers

CONSTANTS
    Prices,     \* fill and BBO prices
    Qtys,       \* execQty of a fill
    MaxEvents   \* bound on fills and BBO changes

INVALID == -1   \* Price_INVALID: the max Price, a value no price in Prices takes
BUY     == 1
SELL    == -1
Sides   == {BUY, SELL}

AbsVal(x) == IF x < 0 THEN -x ELSE x
MinOf(a, b) == IF a < b THEN a ELSE b

-----------------------------------------------------------------------------
(* Exact rationals as reduced [num, den] with den > 0.                     *)

RECURSIVE Gcd(_, _)
Gcd(a, b) == IF b = 0 THEN a ELSE Gcd(b, a % b)

Rat(n, d) == LET g == Gcd(AbsVal(n), d) IN [num |-> n \div g, den |-> d \div g]
RInt(n) == [num |-> n, den |-> 1]
Zero == RInt(0)
RAdd(p, q) == Rat(p.num * q.den + q.num * p.den, p.den * q.den)
RSub(p, q) == Rat(p.num * q.den - q.num * p.den, p.den * q.den)
RMulInt(p, k) == Rat(p.num * k, p.den)
RDivInt(p, k) == Rat(p.num, p.den * k)     \* k > 0

-----------------------------------------------------------------------------
VARIABLES
    pi,       \* the SPositionInfo of the ticker
    cash,     \* reference: -sum of side * execQty * price over the fills
    mark,     \* reference: the price the open position is valued at
    events    \* fills and BBO changes so far

vars == <<pi, cash, mark, events>>

Init ==
    /\ pi = [position |-> 0, volume |-> 0, openVWAP |-> [s \in Sides |-> Zero],
             realPnL |-> Zero, unrealPnL |-> Zero, totalPnL |-> Zero]
    /\ cash = 0
    /\ mark = Zero
    /\ events = 0

(* unrealPnL of a non-flat position valued at price px.                    *)
UnrealAt(vwap, position, px) ==
    IF position > 0
    THEN RMulInt(RSub(px, RDivInt(vwap[BUY], AbsVal(position))), AbsVal(position))
    ELSE RMulInt(RSub(RDivInt(vwap[SELL], AbsVal(position)), px), AbsVal(position))

(* Mutant of AddFill: a closing fill realises its whole execQty, also the *)
(* part that opens the opposite position.                                  *)
AddFill_NoMinOnClose(p, side, price, execQty) ==
    LET old      == p.position
        position == old + execQty * side
        oppVwap  == RDivInt(p.openVWAP[-side], AbsVal(old))
        vwap1    == IF old * side >= 0
                    THEN [p.openVWAP EXCEPT ![side] = RAdd(@, RInt(price * execQty))]
                    ELSE IF position * old < 0
                    THEN [s \in Sides |-> IF s = side THEN RInt(price * AbsVal(position)) ELSE Zero]
                    ELSE [p.openVWAP EXCEPT ![-side] = RMulInt(oppVwap, AbsVal(position))]
        real     == IF old * side >= 0 THEN p.realPnL
                    ELSE RAdd(p.realPnL, RMulInt(RSub(oppVwap, RInt(price)), execQty * side))
        vwap     == IF position = 0 THEN [s \in Sides |-> Zero] ELSE vwap1
        unreal   == IF position = 0 THEN Zero ELSE UnrealAt(vwap, position, RInt(price))
    IN  [position |-> position, volume |-> p.volume + execQty, openVWAP |-> vwap,
         realPnL |-> real, unrealPnL |-> unreal, totalPnL |-> RAdd(unreal, real)]

(* SPositionInfo::addFill.  A fill on the side of the position (or from   *)
(* flat) adds price * execQty to that side's open cost; a fill against it *)
(* realises min(execQty, |old|) at the average open price and rescales    *)
(* the open cost, and on a flip the rest opens at the fill price.  Flat  *)
(* clears both costs and unrealPnL; otherwise unrealPnL is valued at the  *)
(* fill price.                                                             *)
AddFill(p, side, price, execQty) ==
    LET old      == p.position
        position == old + execQty * side
        oppVwap  == RDivInt(p.openVWAP[-side], AbsVal(old))
        vwap1    == IF old * side >= 0
                    THEN [p.openVWAP EXCEPT ![side] = RAdd(@, RInt(price * execQty))]
                    ELSE IF position * old < 0
                    THEN [s \in Sides |-> IF s = side THEN RInt(price * AbsVal(position)) ELSE Zero]
                    ELSE [p.openVWAP EXCEPT ![-side] = RMulInt(oppVwap, AbsVal(position))]
        real     == IF old * side >= 0 THEN p.realPnL
                    ELSE RAdd(p.realPnL,
                              RMulInt(RSub(oppVwap, RInt(price)), MinOf(execQty, AbsVal(old)) * side))
        vwap     == IF position = 0 THEN [s \in Sides |-> Zero] ELSE vwap1
        unreal   == IF position = 0 THEN Zero ELSE UnrealAt(vwap, position, RInt(price))
    IN  [position |-> position, volume |-> p.volume + execQty, openVWAP |-> vwap,
         realPnL |-> real, unrealPnL |-> unreal, totalPnL |-> RAdd(unreal, real)]

(* SPositionInfo::UpdateBBO: with a position and both sides of the BBO    *)
(* valid, unrealPnL is valued at the mid and totalPnL recomputed;         *)
(* otherwise nothing changes.                                              *)
UpdateBBO(p, bid, ask) ==
    IF p.position # 0 /\ bid # INVALID /\ ask # INVALID
    THEN LET unreal == UnrealAt(p.openVWAP, p.position, Rat(bid + ask, 2))
         IN  [p EXCEPT !.unrealPnL = unreal, !.totalPnL = RAdd(unreal, p.realPnL)]
    ELSE p

(* CTradeEngine::onOrderUpdate on a FILLED: EPositionKeeper::addFill.      *)
Fill ==
    /\ events < MaxEvents
    /\ \E side \in Sides, price \in Prices, q \in Qtys :
          /\ pi' = AddFill(pi, side, price, q)
          /\ cash' = cash - side * q * price
          /\ mark' = RInt(price)
    /\ events' = events + 1

(* CTradeEngine::onOrderBookUpdate: EPositionKeeper::UpdateBBO with the   *)
(* book's BBO, either side of which may be Price_INVALID.                  *)
BBOChange ==
    /\ events < MaxEvents
    /\ \E bid, ask \in Prices \cup {INVALID} :
          /\ pi' = UpdateBBO(pi, bid, ask)
          /\ mark' = IF bid # INVALID /\ ask # INVALID THEN Rat(bid + ask, 2) ELSE mark
    /\ events' = events + 1
    /\ UNCHANGED cash

Next == Fill \/ BBOChange

Spec == Init /\ [][Next]_vars

-----------------------------------------------------------------------------
(* The PnL the position keeper reports, which the risk check compares with *)
(* max_loss, is the mark-to-market value of the trading: the cash of every *)
(* fill plus the open position at the last fill price or BBO mid.  It has  *)
(* to survive closes, partial closes, flips through zero and BBO changes   *)
(* while flat, in any order.                                               *)
PnLMarkToMarket ==
    pi.totalPnL = RAdd(RInt(cash), RMulInt(mark, pi.position))
====
