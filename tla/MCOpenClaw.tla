----------------------------- MODULE MCOpenClaw -----------------------------
(* Three starts: one that fails or is stopped, one beside it, one too many.  *)
EXTENDS OpenClawGatewayProps, FiniteSets
CONSTANTS s1, s2, s3

\* The starts are alike, and are taken in one order.
Fresh == CHOOSE s \in Starts : call[s] = "none"
Busy  == {s \in Starts : sock[s] # "none" \/ timer[s]}

\* Bound: a start begins when one client at most is left of those before.
Bounded == \A s \in Starts :
  call[s] = "none" /\ call'[s] # "none" => s = Fresh /\ Cardinality(Busy) < 2
=============================================================================
