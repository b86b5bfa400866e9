-------------------------- MODULE MCSessionRouting --------------------------
(* Two sessions, a default profile and a second one; one process that starts again.*)
EXTENDS SessionRoutingProps, TLC
CONSTANTS p1, s1, s2, dflt, second, agA, agB

Plain == [select |-> None, create |-> FALSE, grok |-> None, env |-> None,
          pin |-> None, host |-> FALSE, expect |-> None, tool |-> FALSE]
TheLaunches ==
  {[Plain EXCEPT !.host = TRUE], [Plain EXCEPT !.pin = s1],
   [Plain EXCEPT !.select = second, !.create = TRUE, !.expect = agA],
   [Plain EXCEPT !.tool = TRUE], [Plain EXCEPT !.grok = second, !.tool = TRUE]}
PinnedLaunches == {[Plain EXCEPT !.pin = s1], [Plain EXCEPT !.select = second]}
TheFiles == {[x \in Profiles |-> IF x = dflt THEN agB ELSE agA]}
TheEdits == {<<second, "missing">>, <<second, "placeholder">>, <<second, agA>>, <<dflt, "missing">>}
=============================================================================
