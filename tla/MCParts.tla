------------------------------ MODULE MCParts ------------------------------
(* Small instances of the eight parts: one of two channels is on the command   *)
(* line, one of two documents is a personal skill.                            *)
EXTENDS PartsProps
CONSTANTS c1, d2, g, dm
TheWanted == {c1}
ThePersonal == {d2}
TheAsked == {g}
TheDirect == {dm}
ThePosts == {[ch |-> c, addr |-> TRUE] : c \in Chans} \cup {[ch |-> g, addr |-> FALSE]}
=============================================================================
