---------------------------- MODULE MCDshInbound ----------------------------
(* Three messages are enough for a claim to be evicted while another wake is  *)
(* in flight and a third one overflows the queue; a fourth is there for the   *)
(* overflow to remove one that was never attempted.                           *)
EXTENDS DshInboundProps
CONSTANTS w1, w2, w3, w4
=============================================================================
