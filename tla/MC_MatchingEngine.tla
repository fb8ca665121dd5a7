------------------------- MODULE MC_MatchingEngine -------------------------
(* Model-checking instance of MatchingEngine: two clients, prices and     *)
(* quantities small enough to enumerate, every other size as in Types.h   *)
(* scaled down so that no pool or table is exhausted.                      *)
EXTENDS MatchingEngine, TLC

CONSTANTS c1, c2

(* Clients are interchangeable: the book treats client ids only as keys.  *)
ClientSymmetry == Permutations({c1, c2})

Abs == INSTANCE PriceTimeBook
         WITH resting <- RestingOrders, resp <- book.resp, mdu <- book.mdu,
              nextMoid <- book.nextMoid, OrderIds <- OrderIdSet

(* The engine implements the price-time book of spec section 4.3: every   *)
(* request handled by the pointer-level CMEOrderBook emits exactly the     *)
(* responses and updates, and leaves exactly the resting orders, that     *)
(* best-price-then-earliest matching prescribes.                          *)
AbsSpec == Abs!Spec
=============================================================================
