------------------------------- MODULE Intake -------------------------------
(***************************************************************************)
(* A bot's inbox as the code that fills it sees it: a message is taken     *)
(* once and for ever, at most Cap taken messages are unfinished, and an    *)
(* unfinished one is finished at some later point.  CodexBridge implements *)
(* it; CodexInbox, which decides what to offer to the inbox, is built on it.*)
(***************************************************************************)
EXTENDS Naturals, FiniteSets

CONSTANTS Msgs, Cap
VARIABLES taken, open

vars == <<taken, open>>

Init == taken = {} /\ open = {}

\* The inbox has room for n more.
Room(n) == Cardinality(open) + n <= Cap

Take(S) == /\ S \subseteq Msgs \ taken
           /\ Room(Cardinality(S))
           /\ taken' = taken \cup S /\ open' = open \cup S

\* A restart can settle several at once.
Finish(S) == /\ S \subseteq open
             /\ open' = open \ S /\ taken' = taken

Next == \E S \in SUBSET Msgs : Take(S) \/ Finish(S)
Spec == Init /\ [][Next]_vars
=============================================================================
