----------------------------- MODULE MCMcpSlot -----------------------------
(* One channel. *)
EXTENDS McpSlotProps
CONSTANTS a, r1
OneChannel == [m \in Msgs |-> a]
=============================================================================
