------------------------ MODULE OpenClawGatewayProps ------------------------
(***************************************************************************)
(* Correctness of the OpenClaw gateway and its clients.                    *)
(***************************************************************************)
EXTENDS OpenClawGateway

\* Shape of the state; a reconnect timer belongs to a client without a socket that
\* was not disconnected.
TypeOK ==
  /\ call \in [Starts -> {"none", "connecting", "waiting", "stopping", "done"}]
  /\ state \in Starts \cup {NoStart} /\ pending \in Starts \cup {NoStart}
  /\ sock \in [Starts -> {"none", "connecting", "open", "refused", "closing", "broken"}]
  /\ session \in [Starts -> BOOLEAN] /\ again \in [Starts -> BOOLEAN]
  /\ timer \in [Starts -> BOOLEAN] /\ off \in [Starts -> BOOLEAN]
  /\ joined \in [Starts -> BOOLEAN]
  /\ older \in [Starts -> SUBSET (Starts \X BOOLEAN)] /\ rejected \in SUBSET Starts
  /\ \A s \in Starts : timer[s] => sock[s] = "none" /\ ~off[s]

\* s has a session with the hub, or is about to get one again.
Alive(s) == \/ timer[s]
            \/ sock[s] = "open" /\ session[s]
            \/ sock[s] \in {"connecting", "open"} /\ again[s]

\* s began beside a stopped start that has settled since and deleted the entries of
\* the account, whosever they were, or beside one that had lost its entries so.
Robbed(s) == \E o \in older[s] : call[o[1]] = "done" \/ ~o[2]

\* A client and its start: a client that is neither disconnected nor left behind by
\* a rejected frame has a start that waits for it.
ClientInv(s) ==
  /\ call[s] = "waiting" => ~off[s] /\ (session[s] \/ again[s])
  /\ call[s] = "stopping" => off[s] /\ (session[s] \/ again[s] \/ sock[s] \in {"none", "broken"})
  /\ session[s] \/ again[s] => call[s] = "waiting" \/ off[s] \/ s \in rejected
  /\ call[s] = "none" => sock[s] = "none" /\ ~off[s] /\ s \notin rejected
  /\ session[s] => ~again[s] /\ sock[s] \in {"open", "closing", "broken"}
  /\ sock[s] = "connecting" => ~session[s]
  /\ sock[s] \in {"connecting", "open"} => ~off[s] /\ (Unsettled(s) \/ session[s] \/ again[s])
  /\ sock[s] = "closing" => off[s] /\ (session[s] \/ again[s] \/ call[s] = "connecting")
  /\ timer[s] => again[s]
  /\ off[s] => call[s] \in {"connecting", "stopping", "done"}

\* A start and the entries of the account: they are its own unless it was stopped
\* or robbed, and every other start under way then began before it.
AccountInv(s) ==
  /\ Unsettled(s) /\ ~off[s] /\ ~Robbed(s)
       => /\ pending = s
          /\ \A r \in Starts : Unsettled(r) => r = s \/ <<r, off[r]>> \in older[s]
  /\ pending = s => Unsettled(s)
  /\ state = s => call[s] = "waiting"
  /\ call[s] = "waiting" /\ ~Robbed(s) => state = s
  /\ \A o \in older[s] : o[1] # s /\ call[o[1]] # "none"

\* What every step of the gateway keeps (startAccount, abortHandler, handleClose).
GatewayInv == \A s \in Starts : ClientInv(s) /\ AccountInv(s)

\* A client that is connected, or reconnects, belongs to a start that waits for it
\* and can still be aborted, and it is the one in gatewayStates, which stopAccount
\* and sendText use, so that there is one at most.  Two events take that from it: a
\* rejected frame settles its start, and a start that was stopped before s began, but
\* settles after, deletes the entries (startAccount, stopAccount, handleError).
OneClient ==
  \A s \in Starts : Alive(s) =>
    s \in rejected \/ (call[s] = "waiting" /\ ~off[s] /\ (state = s \/ Robbed(s)))

\* A session is subscribed to the account's channel, after a reconnect too
\* (onReconnect: "we'd be auth'd but not subscribed to any channel").
Subscribed == \A s \in Starts : session[s] /\ sock[s] = "open" => joined[s]

\* A start that waits has a session again, unless it settles.
Reconnects == \A s \in Starts : (call[s] = "waiting") ~> (session[s] \/ call[s] = "done")

\* A disconnected client is gone in the end, and its start settles.
StopCompletes == \A s \in Starts : off[s] ~> (call[s] = "done" /\ sock[s] = "none")
=============================================================================
