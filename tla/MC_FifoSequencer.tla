-------------------------- MODULE MC_FifoSequencer --------------------------
(* Model values and constant definitions for checking FifoSequencer.      *)
EXTENDS FifoSequencer, TLC

CONSTANTS c1, c2, s1, s2, s3

(* Two clients; c1 has a second connection s3 (the same client id started *)
(* twice), so the socket binding check has work to do.                     *)
MCOwner == (s1 :> c1) @@ (s2 :> c2) @@ (s3 :> c1)
MCOwnerTwo == (s1 :> c1) @@ (s2 :> c2)

(* m_receiveSockets in accept order.                                        *)
MCRecvOrder == <<s1, s2, s3>>
MCRecvOrderTwo == <<s1, s2>>
====
