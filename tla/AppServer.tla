----------------------------- MODULE AppServer -----------------------------
(***************************************************************************)
(* The bridge's client of the Codex app-server (mcp-plugin/codex/           *)
(* app-server.ts): requests and notifications share one pipe, and a turn's   *)
(* notifications are matched to the one call of generate that waits.  Lines  *)
(* that came in one chunk are received before the answer among them is       *)
(* resumed, so a step is one line or one continuation.  The bridge awaits    *)
(* each request, so one is pending at most.                                  *)
(***************************************************************************)
EXTENDS Naturals, Sequences

CONSTANTS Threads, Modes, Items, None,
          MaxTurns,   \* bound: turns of the app-server
          MaxWire     \* bound: lines on their way

AppAssumption ==
  None \notin Threads \cup Modes /\ MaxTurns \in Nat /\ MaxWire \in Nat

VARIABLES life,     \* closed and initialized, and the child
          call,     \* what the bridge awaits, and its answer once it is there
          active,   \* active, kept until generate has returned its outcome
          perms,    \* threadPermissions
          wire,     \* the child's stdout
          turns,    \* external: the turns of the app-server
          told      \* history: the replies generate returned

app == <<life, call, active, perms, wire, turns, told>>

Requests == {"init", "account", "config", "open", "read", "name", "turn"}
Outcomes == {"ok", "bad", "busy", "refused"}
\* stage: the request awaited, or "run"; turn: what the app-server began for it.
Idle == [stage |-> "idle", thread |-> None, mode |-> None, turn |-> 0, answer |-> "none"]
NoTurn == [thread |-> None, turn |-> 0, said |-> {}, early |-> <<>>, end |-> "none"]
Line(kind, thread, turn, what) == [kind |-> kind, thread |-> thread, turn |-> turn, what |-> what]

Pending == call.stage \in Requests /\ call.answer = "none"

-----------------------------------------------------------------------------
(* The client.                                                             *)

\* request: rejected at once when the pipe is closed.
Ask(stage, thread, mode) ==
  call' = [Idle EXCEPT !.stage = stage, !.thread = thread, !.mode = mode,
                       !.answer = IF life = "closed" THEN "rejected" ELSE "none"]

\* start: the child is spawned and initialize sent.
Start ==
  /\ life = "off" /\ life' = "starting" /\ Ask("init", None, None)
  /\ UNCHANGED <<active, perms, wire, turns, told>>

Free == call = Idle /\ life \in {"ready", "closed"}

\* authenticationStatus, readThread and nameThread: one request each.
Simple(stage) ==
  /\ Free /\ Ask(stage, None, None)
  /\ UNCHANGED <<life, active, perms, wire, turns, told>>

\* thread: a loaded thread keeps its permissions; None asks for a new one.
Thread(t, mode) ==
  /\ Free /\ (t # None => perms[t] \in {None, mode})
  /\ Ask("config", t, mode)
  /\ UNCHANGED <<life, active, perms, wire, turns, told>>

\* generate: the turn is awaited before it is asked for.
Generate(t) ==
  /\ Free /\ perms[t] # None
  /\ active' = [NoTurn EXCEPT !.thread = t, !.end = "open"]
  /\ Ask("turn", t, perms[t])
  /\ UNCHANGED <<life, perms, wire, turns, told>>

\* Mutation of Hears: of whichever turn.
HearsAnyTurn(a, l) ==
  IF a.end # "open" \/ l.thread # a.thread THEN a
  ELSE IF a.turn = 0 THEN [a EXCEPT !.early = Append(@, l)]
  ELSE CASE l.kind = "item"    -> [a EXCEPT !.said = @ \cup {<<l.turn, l.what>>}]
         [] l.kind = "end"     -> [a EXCEPT !.said = @ \cup {<<l.turn, i>> : i \in l.what},
                                            !.end = "completed"]
         [] l.kind = "aborted" -> [a EXCEPT !.end = "failed"]
         [] OTHER -> a   \* commentary
\* receive, of a notification: what comes before the turn is known is kept.
Hears(a, l) ==
  IF a.end # "open" \/ l.thread # a.thread THEN a
  ELSE IF a.turn = 0 THEN [a EXCEPT !.early = Append(@, l)]
  ELSE IF l.turn # a.turn THEN a
  ELSE CASE l.kind = "item"    -> [a EXCEPT !.said = @ \cup {<<l.turn, l.what>>}]
         [] l.kind = "end"     -> [a EXCEPT !.said = @ \cup {<<l.turn, i>> : i \in l.what},
                                            !.end = "completed"]
         [] l.kind = "aborted" -> [a EXCEPT !.end = "failed"]
         [] OTHER -> a   \* commentary

\* fail: the pending request and the awaited turn are rejected.
Failed ==
  /\ call' = IF Pending THEN [call EXCEPT !.answer = "rejected"] ELSE call
  /\ active' = IF active.end = "open" THEN [active EXCEPT !.end = "failed"] ELSE active

\* fatal, of an exit, a broken pipe or a line that is no JSON; close, of the bridge's stop.
Closes ==
  /\ life \in {"starting", "ready"} /\ life' = "closed" /\ Failed /\ wire' = <<>>
  /\ UNCHANGED <<perms, turns, told>>

\* receive: an answer resolves its request, a question is refused, the rest is heard.
Receive ==
  /\ wire # <<>> /\ wire' = Tail(wire)
  /\ LET l == Head(wire) IN
     \/ /\ l.kind = "answer"
        /\ call' = [call EXCEPT !.answer = l.what, !.thread = l.thread]
        /\ UNCHANGED <<active, turns>>
     \/ /\ l.kind = "question" /\ turns' = [turns EXCEPT ![l.turn].asks = FALSE]
        /\ UNCHANGED <<call, active>>
     \/ /\ l.kind \notin {"answer", "question"} /\ active' = Hears(active, l)
        /\ UNCHANGED <<call, turns>>
  /\ UNCHANGED <<life, perms, told>>

Answered(stage) == call.stage = stage /\ call.answer # "none"
Ok == call.answer = "ok"

\* initialized, unless the child failed in between.
Started ==
  /\ Answered("init") /\ call' = Idle
  /\ life' = IF Ok /\ life # "closed" THEN "ready" ELSE life
  /\ UNCHANGED <<active, perms, wire, turns, told>>

\* thread: config/read, then thread/start or thread/resume.
Configured ==
  /\ Answered("config")
  /\ IF Ok THEN Ask("open", call.thread, call.mode) ELSE call' = Idle
  /\ UNCHANGED <<life, active, perms, wire, turns, told>>
Opened ==
  /\ Answered("open") /\ call' = Idle
  /\ perms' = IF Ok THEN [perms EXCEPT ![call.thread] = call.mode] ELSE perms
  /\ UNCHANGED <<life, active, wire, turns, told>>
Returned ==
  /\ \E s \in {"account", "read", "name"} : Answered(s)
  /\ call' = Idle
  /\ UNCHANGED <<life, active, perms, wire, turns, told>>

\* generate, its turn answered: what came early is heard again, now with the turn known.
Replay(a) ==
  LET upto[k \in 0..Len(a.early)] ==
        IF k = 0 THEN [a EXCEPT !.turn = call.turn, !.early = <<>>]
        ELSE Hears(upto[k - 1], a.early[k])
  IN  upto[Len(a.early)]
Begun ==
  /\ Answered("turn")
  /\ IF Ok \/ active.end # "open"
     THEN /\ call' = [call EXCEPT !.stage = "run"]
          /\ active' = IF active.end = "open" THEN Replay(active) ELSE active
     ELSE call' = Idle /\ active' = NoTurn
  /\ UNCHANGED <<life, perms, wire, turns, told>>

\* generate returns the final items, or fails without one.
Done ==
  /\ call.stage = "run" /\ active.end # "open"
  /\ told' = IF active.end = "completed" /\ active.said # {}
             THEN Append(told, [turn |-> active.turn, said |-> active.said]) ELSE told
  /\ call' = Idle /\ active' = NoTurn
  /\ UNCHANGED <<life, perms, wire, turns>>

-----------------------------------------------------------------------------
(* External: the app-server, which other clients use as well.              *)

Emits(l) == Len(wire) < MaxWire /\ life # "closed" /\ wire' = Append(wire, l)
Outstanding == Pending /\ life # "closed" /\ \A i \in DOMAIN wire : wire[i].kind # "answer"

\* A turn begins: the bridge's, or another client's in the same thread.
TurnBegins(t, own) ==
  /\ Len(turns) < MaxTurns
  /\ own => Outstanding /\ call.stage = "turn" /\ call.turn = 0 /\ call.thread = t
  /\ turns' = Append(turns, [thread |-> t, own |-> own, on |-> TRUE, asks |-> FALSE, said |-> {}])
  /\ call' = IF own THEN [call EXCEPT !.turn = Len(turns')] ELSE call
  /\ UNCHANGED <<life, active, perms, wire, told>>

TurnEmits(n) ==
  /\ turns[n].on /\ ~turns[n].asks
  /\ LET t == turns[n].thread said == turns[n].said IN
     \/ \E i \in Items \ said : /\ Emits(Line("item", t, n, i))
                                /\ turns' = [turns EXCEPT ![n].said = @ \cup {i}]
     \/ Emits(Line("question", t, n, None)) /\ turns' = [turns EXCEPT ![n].asks = TRUE]
     \/ \* The completed turn lists its items, or none.
        /\ \E is \in {{}, said} : Emits(Line("end", t, n, is))
        /\ turns' = [turns EXCEPT ![n].on = FALSE]
     \/ Emits(Line("aborted", t, n, None)) /\ turns' = [turns EXCEPT ![n].on = FALSE]
  /\ UNCHANGED <<life, call, active, perms, told>>

Answers(what) ==
  /\ Outstanding
  /\ call.stage = "turn" /\ what = "ok" => call.turn # 0
  /\ what = "busy" => call.stage = "open" /\ call.thread # None
  /\ \E t \in IF call.stage = "open" /\ call.thread = None /\ what = "ok"
              THEN {x \in Threads : perms[x] = None} ELSE {call.thread} :
       Emits(Line("answer", t, call.turn, what))
  /\ UNCHANGED <<life, call, active, perms, turns, told>>

Init ==
  /\ life = "off" /\ call = Idle /\ active = NoTurn /\ perms = [t \in Threads |-> None]
  /\ wire = <<>> /\ turns = <<>> /\ told = <<>>

Client == Start \/ Receive \/ Started \/ Configured \/ Opened \/ Returned \/ Begun \/ Done
Next ==
  \/ Client \/ Closes
  \/ \E s \in {"account", "read", "name"} : Simple(s)
  \/ \E m \in Modes : \E t \in Threads \cup {None} : Thread(t, m)
  \/ \E t \in Threads : Generate(t) \/ \E own \in BOOLEAN : TurnBegins(t, own)
  \/ \E n \in DOMAIN turns : TurnEmits(n)
  \/ \E what \in Outcomes : Answers(what)
=============================================================================
