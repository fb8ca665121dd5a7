---------------------------- MODULE MC_ClientBook ----------------------------
(* Model-checking instance of ClientBook: the exchange book checked       *)
(* against the price-time book while its mirror follows its updates.     *)
EXTENDS ClientBook, TLC

Abs == INSTANCE PriceTimeBook
         WITH resting <- RestingOrders, resp <- book.resp, mdu <- book.mdu,
              nextMoid <- book.nextMoid, OrderIds <- OrderIdSet

(* The engine implements the price-time book of spec section 4.3: every   *)
(* request handled by the pointer-level CMEOrderBook emits exactly the     *)
(* responses and updates, and leaves exactly the resting orders, that     *)
(* best-price-then-earliest matching prescribes; the client's steps are   *)
(* stutters of it.                                                         *)
AbsSpec == Abs!Spec
====
