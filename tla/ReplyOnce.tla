----------------------------- MODULE ReplyOnce -----------------------------
(***************************************************************************)
(* What a headless AgentsChat bot promises about the messages it takes in: *)
(* each accepted message is answered by at most one attempt to post, the   *)
(* hub receives at most that one reply, and the fate the bot finally       *)
(* records is never a lie -- "replied" only of a message whose reply the   *)
(* hub has, "none" only of one no reply was ever tried for.  A message     *)
(* whose attempt has an unknown outcome is closed as "unknown" and never   *)
(* tried again.                                                            *)
(***************************************************************************)
EXTENDS Naturals

CONSTANT Msgs              \* messages addressed to the bot

VARIABLES fate,            \* what the bot has on record for each message
          tries,           \* replies handed to the network, per message
          deliveries       \* replies the hub has posted, per message

vars == <<fate, tries, deliveries>>

Closed == {"replied", "unknown", "none"}
Fates  == {"unseen", "open"} \cup Closed

Init == /\ fate = [m \in Msgs |-> "unseen"]
        /\ tries = [m \in Msgs |-> 0]
        /\ deliveries = [m \in Msgs |-> 0]

\* The bot takes responsibility for a message.
Take(m) == /\ fate[m] = "unseen"
           /\ fate' = [fate EXCEPT ![m] = "open"]
           /\ UNCHANGED <<tries, deliveries>>

\* It hands its only reply to the network.
Try(m) == /\ fate[m] = "open"
          /\ tries[m] = 0
          /\ tries' = [tries EXCEPT ![m] = 1]
          /\ UNCHANGED <<fate, deliveries>>

\* The hub posts a reply in flight; it may also never do so.
Deliver(m) == /\ deliveries[m] < tries[m]
              /\ deliveries' = [deliveries EXCEPT ![m] = @ + 1]
              /\ UNCHANGED <<fate, tries>>

\* The bot closes the message with a truthful record.
Close(m, f) == /\ fate[m] = "open"
               /\ f = "replied" => deliveries[m] = 1
               /\ f = "none" => tries[m] = 0
               /\ fate' = [fate EXCEPT ![m] = f]
               /\ UNCHANGED <<tries, deliveries>>

Next == \E m \in Msgs : \/ Take(m) \/ Try(m) \/ Deliver(m)
                        \/ \E f \in Closed : Close(m, f)

Spec == Init /\ [][Next]_vars
=============================================================================
