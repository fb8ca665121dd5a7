---------------------------- MODULE MC_MarketData ----------------------------
(* Instances of MarketData for TLC.                                        *)
EXTENDS MarketData

(* Total order ids: every update may consume one, and the pool keeps one   *)
(* block spare.                                                            *)
MCNumOrderIds == MaxUpdates + 2
====
