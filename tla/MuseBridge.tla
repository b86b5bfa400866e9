----------------------------- MODULE MuseBridge -----------------------------
(***************************************************************************)
(* The Muse bridge (mcp-plugin/muse/src): a client that owns one socket and  *)
(* its reconnects, and on top of it either a responder that answers in the    *)
(* process (--listen) or a daemon that queues wakes for a later turn          *)
(* (--wake).  A send on a socket that is not open throws: where nobody        *)
(* catches it, the process ends.                                             *)
(***************************************************************************)
EXTENDS Naturals, Sequences, FiniteSets

CONSTANTS Channels, Mail,
          Wanted,   \* the channels of the command line
          MaxTasks,     \* bound: responders at work
          MaxLosses     \* bound: faults of the socket

MuseAssumption == Wanted \subseteq Channels /\ MaxTasks \in Nat /\ MaxLosses \in Nat

VARIABLES daemon,       \* --wake rather than --listen
          link,         \* the socket: opening, open, authed, closing, or the timer
          settled,      \* connectSettled
          reconnecting, \* isReconnecting
          subscribed,   \* external: the channels the hub has joined on this socket
          tasks,        \* channels of the messages the responder works on
          pulsing,      \* TypingHeartbeat.timers
          queued,       \* the ids in the wake queue file
          posts,        \* wake POSTs under way, by attempt
          muse,         \* the process: running, stopped on purpose, or dead
          losses

bridge == <<daemon, link, settled, reconnecting, subscribed, tasks, pulsing, queued, posts,
            muse, losses>>

Running == muse = "running"
Usable == link \in {"open", "authed"}
\* main's catch and an unhandled rejection both end the process.
Die == muse' = "dead"
Fault == losses < MaxLosses /\ losses' = losses + 1

-----------------------------------------------------------------------------
(* The client.                                                             *)

\* openSocket: onopen sends auth and starts the heartbeat.
Opened ==
  /\ Running /\ link = "opening" /\ link' = "open"
  /\ UNCHANGED <<daemon, settled, reconnecting, subscribed, tasks, pulsing, queued, posts, muse, losses>>

\* start, after the first auth_ok, and onReconnect after the later ones join the channels.
Joins == IF ~settled \/ reconnecting THEN Wanted ELSE {}
AuthOk ==
  /\ Running /\ link = "open"
  /\ link' = "authed" /\ settled' = TRUE /\ reconnecting' = FALSE
  /\ subscribed' = subscribed \cup Joins
  /\ UNCHANGED <<daemon, tasks, pulsing, queued, posts, muse, losses>>

\* onerror, or an error frame: before the first auth_ok it rejects connect.
Refused ==
  /\ Running /\ Fault /\ link \in {"opening", "open", "authed"}
  /\ muse' = IF settled THEN muse ELSE "dead"
  /\ link' = "closing"
  /\ UNCHANGED <<daemon, settled, reconnecting, subscribed, tasks, pulsing, queued, posts>>

\* The hub or the network ends the connection.
Lost ==
  /\ Running /\ Fault /\ link \in {"opening", "open", "authed"} /\ link' = "closing"
  /\ UNCHANGED <<daemon, settled, reconnecting, subscribed, tasks, pulsing, queued, posts, muse>>

\* The heartbeat sends in the moment before onclose clears it.
PingThrows ==
  /\ Running /\ Fault /\ link = "closing" /\ Die
  /\ UNCHANGED <<daemon, link, settled, reconnecting, subscribed, tasks, pulsing, queued, posts>>

\* Mutation of Closed: the reconnect is not marked as one.
ClosedQuietly ==
  /\ Running /\ link = "closing"
  /\ link' = "timer" /\ reconnecting' = FALSE /\ subscribed' = {}
  /\ UNCHANGED <<daemon, settled, tasks, pulsing, queued, posts, muse, losses>>
\* onclose: a timer with backoff, unless disconnect was called.
Closed ==
  /\ Running /\ link = "closing"
  /\ link' = "timer" /\ reconnecting' = TRUE /\ subscribed' = {}
  /\ UNCHANGED <<daemon, settled, tasks, pulsing, queued, posts, muse, losses>>
Timer ==
  /\ Running /\ link = "timer" /\ link' = "opening"
  /\ UNCHANGED <<daemon, settled, reconnecting, subscribed, tasks, pulsing, queued, posts, muse, losses>>

\* disconnect, of a host or after --send.
Disconnect ==
  /\ Running /\ muse' = "stopped" /\ link' = "timer" /\ subscribed' = {}
  /\ UNCHANGED <<daemon, settled, reconnecting, tasks, pulsing, queued, posts, losses>>

\* channel_created is joined on this socket only.
Invited(c) ==
  /\ Running /\ link = "authed" /\ subscribed' = subscribed \cup {c}
  /\ UNCHANGED <<daemon, link, settled, reconnecting, tasks, pulsing, queued, posts, muse, losses>>

-----------------------------------------------------------------------------
(* The two modes.                                                          *)

\* handleMessage: a message that is dispatched starts the pulse and the responder.
Dispatch(c) ==
  /\ Running /\ link = "authed" /\ ~daemon /\ c \in subscribed
  /\ Len(tasks) < MaxTasks
  /\ tasks' = Append(tasks, c) /\ pulsing' = pulsing \cup {c}
  /\ UNCHANGED <<daemon, link, settled, reconnecting, subscribed, queued, posts, muse, losses>>

\* The reply is sent; a closed socket makes it throw before the pulse is stopped.
Reply(i) ==
  /\ Running /\ \E says \in BOOLEAN :
       IF says /\ ~Usable THEN Die /\ UNCHANGED <<tasks, pulsing>>
       ELSE /\ pulsing' = pulsing \ {tasks[i]}
            /\ tasks' = SubSeq(tasks, 1, i - 1) \o SubSeq(tasks, i + 1, Len(tasks))
            /\ UNCHANGED muse
  /\ UNCHANGED <<daemon, link, settled, reconnecting, subscribed, queued, posts, losses>>

\* The pulse ends at its cap.
Capped(c) ==
  /\ c \in pulsing /\ pulsing' = pulsing \ {c}
  /\ UNCHANGED <<daemon, link, settled, reconnecting, subscribed, tasks, queued, posts, muse, losses>>

\* The daemon queues a message once, and posts each delivery of it.
WakeUp(c, id) ==
  /\ Running /\ link = "authed" /\ daemon /\ c \in subscribed
  /\ pulsing' = pulsing \cup {c} /\ queued' = queued \cup {id}
  /\ Len(posts) < MaxTasks /\ posts' = Append(posts, 1)
  /\ UNCHANGED <<daemon, link, settled, reconnecting, subscribed, tasks, muse, losses>>
OwnSeen(c) ==
  /\ Running /\ link = "authed" /\ daemon /\ c \in subscribed /\ pulsing' = pulsing \ {c}
  /\ UNCHANGED <<daemon, link, settled, reconnecting, subscribed, tasks, queued, posts, muse, losses>>

\* fireWake: one retry when no answer comes, then it is dropped.
Posted(again) ==
  /\ Running /\ posts # <<>> /\ (again => Head(posts) = 1)
  /\ posts' = IF again THEN <<2>> \o Tail(posts) ELSE Tail(posts)
  /\ UNCHANGED <<daemon, link, settled, reconnecting, subscribed, tasks, pulsing, queued, muse, losses>>

Init ==
  /\ daemon \in BOOLEAN /\ link = "opening" /\ settled = FALSE /\ reconnecting = FALSE
  /\ subscribed = {} /\ tasks = <<>> /\ pulsing = {} /\ queued = {} /\ posts = <<>>
  /\ muse = "running" /\ losses = 0

Client == Opened \/ AuthOk \/ Closed \/ Timer
Next ==
  \/ Client \/ Refused \/ Lost \/ PingThrows \/ Disconnect
  \/ \E c \in Channels : Invited(c) \/ Dispatch(c) \/ Capped(c) \/ OwnSeen(c)
                         \/ \E id \in Mail : WakeUp(c, id)
  \/ \E i \in DOMAIN tasks : Reply(i)
  \/ \E again \in BOOLEAN : Posted(again)
=============================================================================
