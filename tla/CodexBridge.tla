---------------------------- MODULE CodexBridge ----------------------------
(***************************************************************************)
(* The durable inbox of the Codex bridge (mcp-plugin/codex/bridge.ts).     *)
(* Messages are accepted into state.json, a single drain loop runs one     *)
(* model turn per message and posts one reply, and the process may crash   *)
(* or be stopped at any point and be started again.                        *)
(*                                                                         *)
(* A step of the model is one run-to-completion segment of the JavaScript  *)
(* event loop, cut where the code writes state.json so that a crash can    *)
(* fall between two writes.  While the drain loop stands at one of the     *)
(* places in Sync it is inside a segment and no other handler can run.     *)
(* Every change of entries is followed by save() in the same segment, so   *)
(* entries is both the memory and the file.                                *)
(***************************************************************************)
EXTENDS Naturals, Sequences, FiniteSets

CONSTANTS Msgs,        \* addressed messages, one value per (id, channel) pair
          NoTick,      \* Tick[m] of an ordinary message
          Tick,        \* Tick[m]: the (loop_id, next_tick_ms) of a loop tick
          Cap,         \* unfinished messages the inbox holds (100 in the code)
          MaxStarts    \* bound: how often the bridge process is started

ASSUME CodexBridgeAssumption ==
  /\ Cap \in Nat \ {0}
  /\ MaxStarts \in Nat

VARIABLES entries,     \* the journal: what was accepted, in order, and its status
          permits,     \* messages the allowlists and loop grants now allow
          phase,       \* life of the process
          at,          \* where the drain loop stands; "idle" = no loop runs
          cur,         \* index of the entry the loop works on, 0 outside an iteration
          retry,       \* the 5 s timer after a busy thread is armed
          starts,      \* process starts so far
          turns,       \* model turns started, per message
          written,     \* replies handed to the network, per message
          posted       \* replies the hub has posted, per message

vars == <<entries, permits, phase, at, cur, retry, starts, turns, written, posted>>
net  == <<written, posted>>

Ticks    == {m \in Msgs : Tick[m] # NoTick}
Active   == {"pending", "running", "ready", "sending"}
Settled  == {"sent", "failed", "uncertain", "blocked", "skipped"}
Status   == Active \cup Settled
Entry    == [msg : Msgs, status : Status]
Sync     == {"pick", "toSend", "write"}
Awaiting == {"verify", "prepare", "turn", "send"}

Free     == at \notin Sync                    \* the event loop can run a handler
Stopped  == phase # "up"
With(S)  == {i \in DOMAIN entries : entries[i].status \in S}
Runnable == With({"pending", "ready"})
\* Mutation of First: the newest entry is taken.
Newest(S) == CHOOSE i \in S : \A j \in S : j <= i
First(S) == CHOOSE i \in S : \A j \in S : i <= j
Mark(i, s) == entries' = [entries EXCEPT ![i].status = s]

-----------------------------------------------------------------------------
\* accept and recover: the same message, or the same tick under another id.
SameWork(m, n) == m = n \/ (m \in Ticks /\ Tick[m] = Tick[n])
\* Mutation of Known: a tick is recognised by its message id only.
KnownById(m) == \E i \in DOMAIN entries : entries[i].msg = m
Known(m)   == \E i \in DOMAIN entries : SameWork(m, entries[i].msg)
Accepts(m) == /\ ~Stopped /\ m \in permits /\ ~Known(m)
              /\ Cardinality(With(Active)) < Cap

Accept(m) ==
  /\ Free /\ Accepts(m)
  /\ entries' = Append(entries, [msg |-> m, status |-> "pending"])
  /\ at' = IF at = "idle" /\ ~retry THEN "pick" ELSE at
  /\ UNCHANGED <<permits, phase, cur, retry, starts, turns, net>>

-----------------------------------------------------------------------------
\* run: the head of the loop.
RunEnds ==
  /\ at = "pick" /\ (Stopped \/ Runnable = {})
  /\ at' = "idle"
  /\ UNCHANGED <<entries, permits, phase, cur, retry, starts, turns, net>>

Pick ==
  /\ at = "pick" /\ ~Stopped /\ Runnable # {}
  /\ LET i == First(Runnable) IN
       \/ /\ entries[i].msg \notin permits
          /\ Mark(i, "blocked")
          /\ UNCHANGED <<at, cur>>
       \/ /\ entries[i].msg \in permits /\ entries[i].status = "pending"
          /\ Mark(i, "running") /\ cur' = i
          /\ at' = IF entries[i].msg \in Ticks THEN "verify" ELSE "prepare"
       \/ /\ entries[i].msg \in permits /\ entries[i].status = "ready"
          /\ cur' = i /\ at' = "toSend"
          /\ UNCHANGED entries
  /\ UNCHANGED <<permits, phase, retry, starts, turns, net>>

\* A loop tick: owner lookup and verifyLoopTick, which reads the grant again last.
Verify ==
  /\ at = "verify"
  /\ \/ /\ entries[cur].msg \in permits
        /\ at' = "prepare" /\ UNCHANGED <<entries, cur>>
     \/ Mark(cur, "blocked") /\ at' = "pick" /\ cur' = 0
  /\ UNCHANGED <<permits, phase, retry, starts, turns, net>>

\* prepareChannel has the thread; generate hands the prompt to the app-server.
Prepared ==
  /\ at = "prepare"
  /\ at' = "turn"
  /\ turns' = [turns EXCEPT ![entries[cur].msg] = @ + 1]
  /\ UNCHANGED <<entries, permits, phase, cur, retry, starts, net>>

\* thread/resume finds another writer: the entry waits for the retry timer.
ThreadBusy ==
  /\ at = "prepare"
  /\ Mark(cur, "pending") /\ at' = "idle" /\ cur' = 0
  /\ retry' = ~Stopped
  /\ UNCHANGED <<permits, phase, starts, turns, net>>

\* No thread, no turn, an empty reply, or the app-server is gone.
Fails ==
  /\ at \in {"prepare", "turn"}
  /\ Mark(cur, "failed") /\ at' = "pick" /\ cur' = 0
  /\ UNCHANGED <<permits, phase, retry, starts, turns, net>>

\* The turn's answer is saved; a scheduled skill may have nothing to report.
Answered ==
  /\ at = "turn"
  /\ \/ Mark(cur, "ready") /\ Stopped /\ at' = "idle" /\ cur' = 0
     \/ Mark(cur, "ready") /\ ~Stopped /\ at' = "toSend" /\ cur' = cur
     \/ entries[cur].msg \in Ticks /\ Mark(cur, "skipped") /\ at' = "pick" /\ cur' = 0
  /\ UNCHANGED <<permits, phase, retry, starts, turns, net>>

-----------------------------------------------------------------------------
\* Mutation of MarkSending: the journal is not written before the reply.
SendUnmarked ==
  /\ at = "toSend" /\ at' = "write"
  /\ UNCHANGED <<entries, permits, phase, cur, retry, starts, turns, net>>
\* The reply: saved as "sending" before a byte of it can leave the process.
MarkSending ==
  /\ at = "toSend"
  /\ Mark(cur, "sending") /\ at' = "write"
  /\ UNCHANGED <<permits, phase, cur, retry, starts, turns, net>>

WriteReply ==
  /\ at = "write"
  /\ written' = [written EXCEPT ![entries[cur].msg] = @ + 1] /\ at' = "send"
  /\ UNCHANGED <<entries, permits, phase, cur, retry, starts, turns, posted>>

\* The hub posts a reply in flight, however late; a lost one is never posted.
HubPosts(m) ==
  /\ posted[m] < written[m]
  /\ posted' = [posted EXCEPT ![m] = @ + 1]
  /\ UNCHANGED <<entries, permits, phase, at, cur, retry, starts, turns, written>>

\* Mutation of SendReturns: an unacknowledged send counts as not sent.
SendFailedFlat ==
  /\ at = "send" /\ at' = "pick" /\ cur' = 0
  /\ \/ posted[entries[cur].msg] = written[entries[cur].msg] /\ Mark(cur, "sent")
     \/ Mark(cur, "failed")
  /\ UNCHANGED <<permits, phase, retry, starts, turns, net>>
\* Acknowledged; or timed out, refused, or the socket closed.
SendReturns ==
  /\ at = "send"
  /\ at' = "pick" /\ cur' = 0
  /\ \/ posted[entries[cur].msg] = written[entries[cur].msg] /\ Mark(cur, "sent")
     \/ Mark(cur, "uncertain")
  /\ UNCHANGED <<permits, phase, retry, starts, turns, net>>

-----------------------------------------------------------------------------
\* Mutation of RetryFires: the timer fires but does not drain.
RetryForgets ==
  /\ retry /\ Free /\ retry' = FALSE
  /\ UNCHANGED <<entries, permits, phase, at, cur, starts, turns, net>>

RetryFires ==
  /\ retry /\ Free
  /\ retry' = FALSE
  /\ at' = IF at = "idle" THEN "pick" ELSE at
  /\ UNCHANGED <<entries, permits, phase, cur, starts, turns, net>>

\* Mutations of Reloaded: an interrupted send, or what failed, is tried again.
ReloadedResends(s) == IF s = "sending" THEN "ready" ELSE s
ReloadedRetries(s) == CASE s = "sending" -> "uncertain" [] s \in {"running", "failed"} -> "pending" [] OTHER -> s
\* The constructor: load the journal, and settle what the last process left open.
Reloaded(s) == CASE s = "sending" -> "uncertain" [] s = "running" -> "failed" [] OTHER -> s
Boot ==
  /\ phase = "down" /\ starts < MaxStarts
  /\ phase' = "boot" /\ starts' = starts + 1
  /\ entries' = [i \in 1..Len(entries) |->
                   [msg |-> entries[i].msg, status |-> Reloaded(entries[i].status)]]
  /\ UNCHANGED <<permits, at, cur, retry, turns, net>>

\* The app-server is up: the first drain.
Start ==
  /\ phase = "boot"
  /\ phase' = "up" /\ at' = "pick"
  /\ UNCHANGED <<entries, permits, cur, retry, starts, turns, net>>

\* SIGTERM, a lost parent or a dead app-server: pause, then wait for the loop.
Stop ==
  /\ phase \in {"boot", "up"} /\ Free /\ starts < MaxStarts
  /\ phase' = "stopping" /\ retry' = FALSE
  /\ UNCHANGED <<entries, permits, at, cur, starts, turns, net>>

Exit ==
  /\ phase = "stopping" /\ at = "idle"
  /\ phase' = "down"
  /\ UNCHANGED <<entries, permits, at, cur, retry, starts, turns, net>>

Crash ==
  /\ phase # "down" /\ starts < MaxStarts
  /\ phase' = "down" /\ at' = "idle" /\ cur' = 0 /\ retry' = FALSE
  /\ UNCHANGED <<entries, permits, starts, turns, net>>

\* permits stands for what authorizedLoopTick, verifyLoopTick and addressed let
\* through. Another process edits loop-grants.json at any moment; the allowlists
\* of ordinary messages are read once per process.
EditGrants(S) ==
  /\ permits' = (permits \ Ticks) \cup S
  /\ UNCHANGED <<entries, phase, at, cur, retry, starts, turns, net>>

Reconfigure(S) ==
  /\ phase = "down"
  /\ permits' = (permits \cap Ticks) \cup S
  /\ UNCHANGED <<entries, phase, at, cur, retry, starts, turns, net>>

-----------------------------------------------------------------------------
Init ==
  /\ entries = <<>> /\ permits = Msgs
  /\ phase = "down" /\ at = "idle" /\ cur = 0 /\ retry = FALSE /\ starts = 0
  /\ turns = [m \in Msgs |-> 0]
  /\ written = [m \in Msgs |-> 0]
  /\ posted = [m \in Msgs |-> 0]

Loop == \/ RunEnds \/ Pick \/ Verify \/ Prepared \/ ThreadBusy \/ Fails
        \/ Answered \/ MarkSending \/ WriteReply \/ SendReturns

Process == Boot \/ Start \/ Stop \/ Exit \/ Crash

Next == \/ \E m \in Msgs : Accept(m) \/ HubPosts(m)
        \/ Loop \/ RetryFires \/ Process
        \/ \E S \in SUBSET Ticks : EditGrants(S)
        \/ \E S \in SUBSET (Msgs \ Ticks) : Reconfigure(S)

Spec == Init /\ [][Next]_vars

\* A supervisor restarts the bridge, the event loop runs what is queued, owner
\* lookup and send have 15 s limits, a turn ends (by a reply, an error or the
\* death of the app-server), and a thread is not held by another writer forever.
Fairness == /\ WF_vars(Loop) /\ WF_vars(RetryFires)
            /\ WF_vars(Boot) /\ WF_vars(Start) /\ WF_vars(Exit)
            /\ SF_vars(Prepared \/ (at = "prepare" /\ Fails))

FairSpec == Spec /\ Fairness
=============================================================================
