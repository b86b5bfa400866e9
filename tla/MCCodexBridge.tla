--------------------------- MODULE MCCodexBridge ---------------------------
(* An ordinary message, and one loop tick seen under two message ids. *)
EXTENDS CodexBridgeProps
CONSTANTS m1, t1, t2, noTick, loopTick
MCMsgs == {m1, t1, t2}
MCTick == [m \in MCMsgs |-> IF m \in {t1, t2} THEN loopTick ELSE noTick]
=============================================================================
