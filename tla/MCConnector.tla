----------------------------- MODULE MCConnector -----------------------------
(* Two identities in a group channel, the first also invited to a direct one. *)
EXTENDS ConnectorProps
CONSTANTS b1, b2, x, y, grp, dm, p, q, l

TheTables  == {[b \in Bots |-> IF b = b1 THEN x ELSE y],
               [b \in Bots |-> IF b = b1 THEN x ELSE None]}
TheMembers == {<<b1, grp>>, <<b2, grp>>}
TheInvites == {<<b1, dm>>}
TheKinds   == {[ch |-> grp, by |-> None, tick |-> FALSE],
               [ch |-> dm, by |-> b1, tick |-> TRUE]}
\* An ordinary message to both, and one tick under two ids.
TheMsgs    == {[id |-> p, at |-> 1, ch |-> grp, by |-> b1, to |-> {b1, b2}, tick |-> None],
               [id |-> p, at |-> 1, ch |-> dm, by |-> None, to |-> {}, tick |-> None],
               [id |-> p, at |-> 2, ch |-> grp, by |-> b2, to |-> {}, tick |-> l],
               [id |-> q, at |-> 3, ch |-> grp, by |-> b2, to |-> {}, tick |-> l]}
=============================================================================
