---------------------------- MODULE MCCodexInbox ----------------------------
(* Up to three messages in one or two channels. *)
EXTENDS CodexInboxProps
CONSTANTS a, b, m1, m2, m3
OneChannel  == [m \in {m1, m2, m3} |-> a]
TwoChannels == [m \in {m1, m2} |-> IF m = m1 THEN a ELSE b]
=============================================================================
