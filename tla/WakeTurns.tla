----------------------------- MODULE WakeTurns -----------------------------
(***************************************************************************)
(* How the MCP plugin wakes a host that shows no channel notification       *)
(* (mcp-plugin/src/wake.ts and the end of the message handler in server.ts):  *)
(* a POST with one retry, a prompt to a Grok gateway, a call to each port of  *)
(* an Antigravity server until one takes it, or a turn of a ZCode session,    *)
(* of which one runs at a time.  A message of the table of a running game is   *)
(* heard without a mention.  Handlers of several messages are under way at     *)
(* once: each awaits its context and its notification before it wakes.        *)
(***************************************************************************)
EXTENDS Naturals, Sequences

CONSTANTS Sessions, Games, None,
          Ports,       \* candidate addresses of the Antigravity server
          MaxWakes     \* bound: messages

WakeAssumption ==
  /\ None \notin Sessions \cup Games
  /\ Ports \in Nat \ {0} /\ MaxWakes \in Nat

VARIABLES by,       \* the host's kind: how it is woken
          wakes,    \* the messages heard, and where each one's wake is
          tail,     \* zcodeSessionQueues: the newest turn of each session
          fired,    \* history: the turns queued of each session
          begun,    \* history: the turns begun of each session
          games     \* activeHiddenIdentityGames

wakeup == <<by, wakes, tail, fired, begun, games>>

\* at: the step awaited; session and after: of a turn; try: of a POST.
Wake == [at : {"handled", "resolve", "post", "queued", "running", "over"},
         session : Sessions \cup {None}, after : 0..MaxWakes, try : Nat]
At(w, where) == wakes' = [wakes EXCEPT ![w].at = where]

-----------------------------------------------------------------------------
\* A direct message, a mention and an own loop tick are heard; anything in the channel
\* of an active game is as well.
Heard(kind) == kind = "addressed" \/ games # {}
Arrive(kind) ==
  /\ Len(wakes) < MaxWakes /\ Heard(kind)
  /\ wakes' = Append(wakes, [at |-> "handled", session |-> None, after |-> 0, try |-> 1])
  /\ UNCHANGED <<by, tail, fired, begun, games>>

\* A game joined through the tool, and its hour.
GameJoined(g) == games' = games \cup {g} /\ UNCHANGED <<by, wakes, tail, fired, begun>>
GameExpires(g) == /\ g \in games /\ games' = games \ {g}
                  /\ UNCHANGED <<by, wakes, tail, fired, begun>>

\* The handler has awaited the context and the notification, fires the wake and, when the
\* message tells the end of an active game, ends that.
Handled(w) ==
  /\ wakes[w].at = "handled" /\ \E over \in SUBSET games : games' = games \ over
  /\ UNCHANGED <<by, begun>>

\* fireWake, to a URL or a DSH bridge; without a host or its token nothing is sent.
Post(w) ==
  /\ Handled(w) /\ by \in {"url", "antigravity"}
  /\ \E where \in {"post", "over"} : At(w, where)
  /\ UNCHANGED <<tail, fired>>

\* The Grok agent is bound, or looked for by its name, and the gateway's file is read.
Grok(w) ==
  /\ by = "grok" /\ Handled(w)
  /\ \E where \in {"resolve", "post", "over"} : At(w, where)
  /\ UNCHANGED <<tail, fired>>
Resolved(w) ==
  /\ wakes[w].at = "resolve" /\ \E where \in {"post", "over"} : At(w, where)
  /\ UNCHANGED <<by, tail, fired, begun, games>>

\* A failed attempt is repeated: a POST once, and only when no answer came; a call to
\* Antigravity at the next address, whatever the answer was.
Tries == IF by = "antigravity" THEN Ports ELSE 2
Fails(w, answered) ==
  /\ wakes[w].at = "post"
  /\ wakes' = IF wakes[w].try < Tries /\ (answered => by = "antigravity")
              THEN [wakes EXCEPT ![w].try = @ + 1] ELSE [wakes EXCEPT ![w].at = "over"]
  /\ UNCHANGED <<by, tail, fired, begun, games>>
Accepted(w) ==
  /\ wakes[w].at = "post" /\ At(w, "over")
  /\ UNCHANGED <<by, tail, fired, begun, games>>

\* Mutation of Behind: read after the turn has become the newest itself.
BehindItself(w, s) == w
\* What a turn waits for: the newest of its session so far.
Behind(w, s) == tail[s]

\* fireZcodeWake: a turn waits for the newest of its session.
Queue(w, s) ==
  /\ Handled(w) /\ by = "zcode"
  /\ IF s = None THEN At(w, "over") /\ UNCHANGED <<tail, fired>>
     ELSE /\ wakes' = [wakes EXCEPT ![w].at = "queued", ![w].session = s, ![w].after = Behind(w, s)]
          /\ tail' = [tail EXCEPT ![s] = w]
          /\ fired' = [fired EXCEPT ![s] = Append(@, w)]

Finished(w) == w # 0 => wakes[w].at = "over"
BeginTurn(w) ==
  /\ wakes[w].at = "queued" /\ Finished(wakes[w].after) /\ At(w, "running")
  /\ begun' = [begun EXCEPT ![wakes[w].session] = Append(@, w)]
  /\ UNCHANGED <<by, tail, fired, games>>

\* Mutation of Dequeued: the session has no turn although a newer one waits.
DequeuedAlways(w) == [tail EXCEPT ![wakes[w].session] = 0]
\* The newest turn of its session is the last.
Dequeued(w) ==
  LET s == wakes[w].session IN IF tail[s] = w THEN [tail EXCEPT ![s] = 0] ELSE tail

\* The process of the turn closes, or could not be spawned; the SIGTERM after three
\* minutes does not end the wait for it.
EndTurn(w) ==
  /\ wakes[w].at = "running" /\ At(w, "over") /\ tail' = Dequeued(w)
  /\ UNCHANGED <<by, fired, begun, games>>

Init ==
  /\ by \in {"url", "grok", "antigravity", "zcode"} /\ wakes = <<>> /\ games = {}
  /\ tail = [s \in Sessions |-> 0]
  /\ fired = [s \in Sessions |-> <<>>] /\ begun = [s \in Sessions |-> <<>>]

Next ==
  \/ \E kind \in {"addressed", "plain"} : Arrive(kind)
  \/ \E g \in Games : GameJoined(g) \/ GameExpires(g)
  \/ \E w \in DOMAIN wakes :
       \/ Post(w) \/ Grok(w) \/ Resolved(w) \/ Accepted(w) \/ BeginTurn(w) \/ EndTurn(w)
       \/ \E answered \in BOOLEAN : Fails(w, answered)
       \/ \E s \in Sessions \cup {None} : Queue(w, s)
=============================================================================
