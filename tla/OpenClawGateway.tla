-------------------------- MODULE OpenClawGateway --------------------------
(***************************************************************************)
(* One account of the OpenClaw plugin: the start and stop of its gateway   *)
(* (openclaw-plugin/src/gateway.ts), which keeps the current client in a   *)
(* map, and the clients (agentchat-client.ts), which reconnect on their    *)
(* own.  Every call of startAccount that gets past its early returns has a *)
(* client of its own.  The status shown to the host is left out.           *)
(*                                                                         *)
(* Sockets follow the ws library: a connection that cannot be opened and   *)
(* one that is given up report an error and close in one go, and frames    *)
(* may still arrive on a socket whose close was requested.                 *)
(***************************************************************************)
EXTENDS Naturals

CONSTANTS Starts,       \* calls of startAccount, and their clients
          NoStart,
          BadFrames     \* the clients the hub may send frames that the ws library rejects

ASSUME GatewayAssumption == NoStart \notin Starts /\ BadFrames \subseteq Starts

VARIABLES call,     \* the start: "none", "connecting" (connect is awaited),
                    \* "waiting" (waitUntilClosed is awaited), "stopping" (the
                    \* promise it waits for is resolved), "done"
          state,    \* gatewayStates: the start whose client is in use
          pending,  \* pendingStarts: the start under way
          sock,     \* the client's socket: "none", "connecting", "open",
                    \* "refused" (the hub sent an error), "closing" (close was
                    \* requested, an answer may still come), "broken" (nothing
                    \* but its close will come)
          session,  \* sessionId is set
          again,    \* isReconnecting
          timer,    \* the reconnect timer is armed
          off,      \* explicitlyDisconnected
          joined,   \* the default channel was joined on this socket
          older,    \* history: the starts that had not settled when s began,
                    \* each with off as it was then
          rejected  \* history: ws rejected a frame of a session of this client

gateway == <<call, state, pending>>
client  == <<sock, session, again, timer, off, joined>>
history == <<older, rejected>>
vars    == <<gateway, client, history>>

Unsettled(s) == call[s] \in {"connecting", "waiting", "stopping"}

\* The start settles: its last lines, and the same in its catch block.
Ends(s) == /\ call' = [call EXCEPT ![s] = "done"]
           /\ state' = NoStart /\ pending' = NoStart

\* disconnect.
Disconnects(s) ==
  /\ off' = [off EXCEPT ![s] = TRUE]
  /\ timer' = [timer EXCEPT ![s] = FALSE]
  /\ session' = [session EXCEPT ![s] = FALSE]
  /\ sock' = [sock EXCEPT ![s] = IF @ = "open" /\ ~session[s] THEN "closing"
                                 ELSE IF @ = "none" THEN "none" ELSE "broken"]
  /\ UNCHANGED <<again, joined>>

-----------------------------------------------------------------------------

\* startAccount, up to its first await, at any time: its early returns look at the
\* two maps only, and an abort clears both before the start it stops has settled.
Start(s) ==
  /\ call[s] = "none" /\ state = NoStart /\ pending = NoStart
  /\ call' = [call EXCEPT ![s] = "connecting"] /\ pending' = s
  /\ sock' = [sock EXCEPT ![s] = "connecting"]
  /\ older' = [older EXCEPT ![s] = {<<r, off[r]>> : r \in {r \in Starts : Unsettled(r)}}]
  /\ UNCHANGED <<state, session, again, timer, off, joined, rejected>>

\* The abort signal of a start under way.
Abort(s) ==
  /\ Unsettled(s) /\ ~off[s]
  /\ Disconnects(s)
  /\ call' = [call EXCEPT ![s] = IF @ = "waiting" THEN "stopping" ELSE @]
  /\ state' = NoStart /\ pending' = NoStart
  /\ UNCHANGED history

\* stopAccount.  The pending entry stays until the start settles.
StopAccount ==
  /\ state # NoStart /\ Disconnects(state)
  /\ call' = [call EXCEPT ![state] = "stopping"]
  /\ state' = NoStart
  /\ UNCHANGED <<pending, history>>

\* The lines after waitUntilClosed.
Settles(s) == call[s] = "stopping" /\ Ends(s) /\ UNCHANGED <<client, history>>

-----------------------------------------------------------------------------
\* handleOpen sends the credentials.
Open(s) == /\ sock[s] = "connecting" /\ sock' = [sock EXCEPT ![s] = "open"]
           /\ UNCHANGED <<gateway, session, again, timer, off, joined, history>>

\* Mutation of ConnectFails: a reconnect is tried once.
ConnectFailsForGood(s) ==
  /\ sock[s] = "connecting" /\ sock' = [sock EXCEPT ![s] = "none"]
  /\ IF again[s] THEN UNCHANGED gateway ELSE Ends(s)
  /\ UNCHANGED <<session, again, timer, off, joined, history>>

\* handleError and handleClose of a socket that never opened.
ConnectFails(s) ==
  /\ sock[s] = "connecting" /\ sock' = [sock EXCEPT ![s] = "none"]
  /\ timer' = [timer EXCEPT ![s] = again[s]]
  /\ IF again[s] THEN UNCHANGED gateway ELSE Ends(s)
  /\ UNCHANGED <<session, again, off, joined, history>>

\* Mutation of Established: the lifecycle promise is made after the connection.
EstablishedAnyway(s) == /\ call' = [call EXCEPT ![s] = "waiting"]
                        /\ state' = s /\ UNCHANGED pending

\* auth_ok of a first connection: the start goes on, and settles at once if its
\* client was disconnected meanwhile.
Established(s) == IF off[s] THEN Ends(s)
                  ELSE /\ call' = [call EXCEPT ![s] = "waiting"]
                       /\ state' = s /\ UNCHANGED pending

\* Mutation of AuthOk: only a start joins the channel.
AuthOkUnjoined(s) ==
  /\ sock[s] \in {"open", "closing"} /\ ~session[s]
  /\ session' = [session EXCEPT ![s] = TRUE]
  /\ again'   = [again EXCEPT ![s] = FALSE]
  /\ joined'  = [joined EXCEPT ![s] = ~again[s] /\ sock[s] = "open"]
  /\ IF again[s] THEN UNCHANGED gateway ELSE Established(s)
  /\ UNCHANGED <<sock, timer, off, history>>

\* handleMessage: auth_ok.
AuthOk(s) ==
  /\ sock[s] \in {"open", "closing"} /\ ~session[s]
  /\ session' = [session EXCEPT ![s] = TRUE]
  /\ again'   = [again EXCEPT ![s] = FALSE]
  /\ joined'  = [joined EXCEPT ![s] = sock[s] = "open"]
  /\ IF again[s] THEN UNCHANGED gateway ELSE Established(s)
  /\ UNCHANGED <<sock, timer, off, history>>

\* handleMessage: error, in answer to the credentials.
AuthFails(s) ==
  /\ sock[s] \in {"open", "closing"} /\ ~session[s]
  /\ sock' = [sock EXCEPT ![s] = "refused"]
  /\ IF call[s] = "connecting" THEN Ends(s) ELSE UNCHANGED gateway
  /\ UNCHANGED <<session, again, timer, off, joined, history>>

\* handleError on an open socket: a frame the ws library rejects.
BadFrame(s) ==
  /\ s \in BadFrames /\ sock[s] \in {"open", "refused", "closing"}
  /\ sock' = [sock EXCEPT ![s] = "broken"]
  /\ IF ~again[s] /\ call[s] \in {"connecting", "waiting"} THEN Ends(s) ELSE UNCHANGED gateway
  /\ rejected' = IF session[s] THEN rejected \cup {s} ELSE rejected
  /\ UNCHANGED <<session, again, timer, off, joined, older>>

\* Mutation of Closed: explicitlyDisconnected is not looked at.
ClosedRegardless(s) ==
  LET retry == session[s] \/ again[s] IN
  /\ sock[s] \in {"open", "refused", "closing", "broken"}
  /\ sock' = [sock EXCEPT ![s] = "none"]
  /\ session' = [session EXCEPT ![s] = FALSE] /\ joined' = [joined EXCEPT ![s] = FALSE]
  /\ again' = [again EXCEPT ![s] = retry] /\ timer' = [timer EXCEPT ![s] = retry]
  /\ IF ~retry /\ call[s] = "connecting" THEN Ends(s) ELSE UNCHANGED gateway
  /\ UNCHANGED <<off, history>>

\* handleClose: a client that had a session, or is reconnecting, tries again.
Closed(s) ==
  LET retry == session[s] \/ again[s] IN
  /\ sock[s] \in {"open", "refused", "closing", "broken"}
  /\ sock' = [sock EXCEPT ![s] = "none"]
  /\ session' = [session EXCEPT ![s] = FALSE] /\ joined' = [joined EXCEPT ![s] = FALSE]
  /\ again' = [again EXCEPT ![s] = IF off[s] THEN @ ELSE retry]
  /\ timer' = [timer EXCEPT ![s] = ~off[s] /\ retry]
  /\ IF ~retry /\ call[s] = "connecting" THEN Ends(s) ELSE UNCHANGED gateway
  /\ UNCHANGED <<off, history>>

\* scheduleReconnect's timer.
TimerFires(s) ==
  /\ timer[s] /\ timer' = [timer EXCEPT ![s] = FALSE]
  /\ sock' = [sock EXCEPT ![s] = IF off[s] THEN @ ELSE "connecting"]
  /\ UNCHANGED <<gateway, session, again, off, joined, history>>

Init == /\ call = [s \in Starts |-> "none"] /\ sock = [s \in Starts |-> "none"]
        /\ state = NoStart /\ pending = NoStart
        /\ session = [s \in Starts |-> FALSE] /\ again = [s \in Starts |-> FALSE]
        /\ timer = [s \in Starts |-> FALSE] /\ off = [s \in Starts |-> FALSE]
        /\ joined = [s \in Starts |-> FALSE]
        /\ older = [s \in Starts |-> {}] /\ rejected = {}

Next == \/ StopAccount
        \/ \E s \in Starts :
             \/ Start(s) \/ Abort(s) \/ Settles(s) \/ Open(s) \/ ConnectFails(s) \/ AuthOk(s)
             \/ AuthFails(s) \/ BadFrame(s) \/ Closed(s) \/ TimerFires(s)

Spec == Init /\ [][Next]_vars

\* Promise continuations run, timers fire, connections open or fail, a socket given
\* up is closed (ws does so after 30 s), and a hub that is asked for ever accepts in
\* the end.
Fairness ==
  \A s \in Starts : /\ WF_vars(Settles(s))
                    /\ WF_vars(Open(s) \/ ConnectFails(s)) /\ WF_vars(TimerFires(s))
                    /\ WF_vars(sock[s] # "open" /\ Closed(s))
                    /\ SF_vars(Open(s)) /\ SF_vars(sock[s] = "open" /\ AuthOk(s))

FairSpec == Spec /\ Fairness
=============================================================================
