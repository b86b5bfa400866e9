------------------------------ MODULE McpSlot ------------------------------
(***************************************************************************)
(* One identity of the MCP server (mcp-plugin/src/server.ts, ProfileSlot): *)
(* its socket, the heartbeat that watches it (heartbeat.ts), the reconnect *)
(* and backfill timers, the read cursor and its file (read-cursor.ts), the *)
(* ids already delivered (dedup.ts) and the notifications to the model     *)
(* host.  An action is one segment of the event loop.  The socket is       *)
(* "none" while slot.ws is null or closed.  A message is its number in the  *)
(* order the hub stored them, which is also its timestamp; every message   *)
(* is from somebody else and addresses the agent.                          *)
(***************************************************************************)
EXTENDS Naturals, Sequences, FiniteSets

CONSTANTS Chans,       \* channels the agent is a member of
          MaxPosts,    \* bound: messages others post
          Chan,        \* Chan[m]: the channel m is posted in
          PageSize,    \* rows of one history page (50)
          Runs,        \* bound: backfills under way at one time
          MaxStarts    \* bound: process starts

Msgs == 1..MaxPosts

ASSUME McpSlotAssumption ==
  /\ MaxPosts \in Nat /\ Chans # {} /\ Chan \in [Msgs -> Chans]
  /\ PageSize \in Nat \ {0} /\ MaxStarts \in Nat

VARIABLES clock,                   \* the hub: messages stored so far
          up, starts, lost,        \* the process; ends that left the cursor file behind
          sock, link, wire,        \* slot.ws; is the hub behind it; frames on their way
          timer, late, guard,      \* reconnectTimer; HeartbeatMonitor: pong overdue, reconnecting
          fillDue, fills,          \* backfillTimer; the backfills under way
          known, seen, busy, told, \* knownChannels; messageDedup; handlers awaiting; notifications
          cursor, save, disk,      \* lastSeenMessageTs (0 = none); dirty flag and timer; the file
          settled, reseeded        \* history: handled or never owed; channels with a cursor overwritten

proc    == <<up, starts, lost>>
conn    == <<sock, link, wire>>
beat    == <<timer, late, guard>>
fetches == <<fillDue, fills>>
heard   == <<seen, busy, told>>
marks   == <<cursor, save, disk>>
history == <<settled, reseeded>>
vars    == <<clock, proc, conn, beat, fetches, known, heard, marks, history>>

Idle == [at |-> "idle", chan |-> CHOOSE c \in Chans : TRUE, after |-> 0,
         done |-> {}, rows |-> {}, cur |-> {}]
Fill == [at : {"idle", "asked", "rows"}, chan : Chans, after : Nat,
         done : SUBSET Chans, rows : SUBSET Msgs, cur : SUBSET Msgs]

Posted(c) == {m \in 1..clock : Chan[m] = c}
NoCursor  == [c \in Chans |-> 0]
Listens   == up /\ sock = "ready" /\ link      \* the hub's frames reach this process

-----------------------------------------------------------------------------
\* The hub stores a message and sends it to the authenticated socket it knows.
Post ==
  /\ clock < MaxPosts
  /\ clock' = clock + 1
  /\ wire' = IF Listens THEN Append(wire, clock') ELSE wire
  /\ UNCHANGED <<proc, sock, link, beat, fetches, known, heard, marks, history>>

\* The socket goes; w: the reconnect timer is armed, g: the heartbeat's guard.
Unhook(w, g) == /\ sock' = "none" /\ link' = FALSE /\ wire' = <<>>
                /\ timer' = w /\ guard' = g

-----------------------------------------------------------------------------
\* connectWS from the reconnect timer.
Connect ==
  /\ up /\ timer
  /\ timer' = FALSE /\ sock' = "connecting"
  /\ UNCHANGED <<clock, proc, link, wire, late, guard, fetches, known, heard, marks, history>>

\* onopen: the credentials are sent.
Open ==
  /\ up /\ sock = "connecting"
  /\ sock' = "open" /\ link' = TRUE
  /\ UNCHANGED <<clock, proc, wire, beat, fetches, known, heard, marks, history>>

\* Mutation of AuthOk: the pong of auth_ok is forgotten.
AuthOkNoPong ==
  /\ up /\ sock = "open" /\ link
  /\ sock' = "ready" /\ fillDue' = TRUE
  /\ UNCHANGED <<clock, proc, link, wire, beat, fills, known, heard, marks, history>>
\* auth_ok: alive, and the backfill timer is set anew.
AuthOk ==
  /\ up /\ sock = "open" /\ link
  /\ sock' = "ready" /\ late' = FALSE /\ guard' = FALSE /\ fillDue' = TRUE
  /\ UNCHANGED <<clock, proc, link, wire, timer, fills, known, heard, marks, history>>

\* onclose: a connect that failed, or a close that the client notices.
Closed ==
  /\ up /\ sock # "none"
  /\ Unhook(TRUE, FALSE)
  /\ UNCHANGED <<clock, proc, late, fetches, known, heard, marks, history>>

\* Mutation of ShardMoved: nobody reconnects.
ShardMovedForgets ==
  /\ Listens
  /\ Unhook(FALSE, guard)
  /\ UNCHANGED <<clock, proc, late, fetches, known, heard, marks, history>>
\* shard_moved.
ShardMoved ==
  /\ Listens
  /\ Unhook(TRUE, guard)
  /\ UNCHANGED <<clock, proc, late, fetches, known, heard, marks, history>>

\* The network or the hub goes silent; the client is not told.
GoesSilent ==
  /\ link
  /\ link' = FALSE /\ wire' = <<>>
  /\ UNCHANGED <<clock, proc, sock, beat, fetches, known, heard, marks, history>>

\* The next tick will find that nothing counted as a pong for pongTimeout.
Overdue ==
  /\ up /\ ~late
  /\ late' = TRUE
  /\ UNCHANGED <<clock, proc, conn, timer, guard, fetches, known, heard, marks, history>>

\* HeartbeatMonitor.tick: a ping that the hub answers.
Ping ==
  /\ up /\ sock \in {"open", "ready"} /\ link /\ ~late /\ guard
  /\ guard' = FALSE
  /\ UNCHANGED <<clock, proc, conn, timer, late, fetches, known, heard, marks, history>>

\* HeartbeatMonitor.tick: pong overdue, connecting for too long, or closed; an
\* overlapping reconnect is suppressed.
SafeReconnect ==
  /\ up /\ ~guard
  /\ sock \in {"open", "ready"} => late
  /\ Unhook(TRUE, TRUE)
  /\ UNCHANGED <<clock, proc, late, fetches, known, heard, marks, history>>

\* channel_created, or a join tool that succeeds.
Join(c) ==
  /\ up /\ c \notin known
  /\ known' = known \cup {c}
  /\ UNCHANGED <<clock, proc, conn, beat, fetches, heard, marks, history>>

-----------------------------------------------------------------------------
Older(m)     == {n \in Posted(Chan[m]) : n < m}
Oldest(m, S) == m \in S /\ \A n \in S : m <= n

\* handleWSMessage for a message not delivered before, up to its first await:
\* remembered, and the cursor follows if it is newer.  A channel's first
\* message makes everything older something the agent is not owed.
Handle(m) ==
  /\ seen' = seen \cup {m} /\ busy' = busy \cup {m}
  /\ LET c == Chan[m] IN
       IF m > cursor[c]
       THEN /\ cursor' = [cursor EXCEPT ![c] = m] /\ save' = "due"
            /\ settled' = settled \cup {m} \cup (IF cursor[c] = 0 THEN Older(m) ELSE {})
       ELSE /\ UNCHANGED <<cursor, save>> /\ settled' = settled \cup {m}
  /\ UNCHANGED <<told, disk, reseeded>>

\* A live frame; a duplicate is skipped.
Receive ==
  /\ Listens /\ wire # <<>>
  /\ wire' = Tail(wire)
  /\ IF Head(wire) \in seen THEN UNCHANGED <<heard, marks, history>>
                           ELSE Handle(Head(wire))
  /\ UNCHANGED <<clock, proc, sock, link, beat, fetches, known>>

\* The rest of the handler: context fetched or not, the host is notified and
\* the wake-ups of other runtimes, abstracted here, are sent off unawaited.
Notify(m) ==
  /\ up /\ m \in busy
  /\ busy' = busy \ {m} /\ told' = [told EXCEPT ![m] = @ + 1]
  /\ UNCHANGED <<clock, proc, conn, beat, fetches, known, seen, marks, history>>

-----------------------------------------------------------------------------
\* backfillAllChannels, the channels of d being done: ask for the next one's
\* history behind the cursor it has now, or end.
Advance(f, d) ==
  \E n \in {[at |-> "asked", chan |-> c, after |-> cursor[c],
             done |-> d \cup {c}, rows |-> {}, cur |-> {}] : c \in known \ d}
          \cup (IF known \subseteq d THEN {Idle} ELSE {}) :
    fills' = [fills EXCEPT ![f] = n]

\* The timer, two seconds after auth_ok.
Backfill(f) ==
  /\ up /\ fillDue /\ fills[f].at = "idle"
  /\ fillDue' = FALSE /\ Advance(f, {})
  /\ UNCHANGED <<clock, proc, conn, beat, known, heard, marks, history>>

\* The hub: the oldest rows after a cursor, or the newest one where there is none.
Page(c, t) ==
  LET R == {m \in Posted(c) : m > t} IN
    {S \in SUBSET R :
       IF t = 0 THEN S = {m \in R : \A n \in R : n <= m}
       ELSE /\ \A m \in S, n \in R \ S : m < n
            /\ Cardinality(S) <= PageSize
            /\ S # R => Cardinality(S) = PageSize}

Serve(f) ==
  /\ up /\ fills[f].at = "asked"
  /\ \E S \in Page(fills[f].chan, fills[f].after) :
       fills' = [fills EXCEPT ![f].at = "rows", ![f].rows = S]
  /\ UNCHANGED <<clock, proc, conn, beat, fillDue, known, heard, marks, history>>

\* A request that fails or times out: on to the next channel.
NoPage(f) ==
  /\ up /\ fills[f].at = "asked"
  /\ Advance(f, fills[f].done)
  /\ UNCHANGED <<clock, proc, conn, beat, fillDue, known, heard, marks, history>>

\* No cursor when the page was asked for: the newest row becomes the cursor.
Seed(f) ==
  /\ up /\ fills[f].at = "rows" /\ fills[f].after = 0
  /\ LET c == fills[f].chan IN
       \/ fills[f].rows = {} /\ UNCHANGED <<marks, history>>
       \/ \E m \in fills[f].rows :
            /\ cursor' = [cursor EXCEPT ![c] = m] /\ save' = "due" /\ disk' = disk
            /\ IF cursor[c] = 0
               THEN settled' = settled \cup Older(m) \cup {m} /\ reseeded' = reseeded
               ELSE settled' = settled /\ reseeded' = reseeded \cup {c}
  /\ Advance(f, fills[f].done)
  /\ UNCHANGED <<clock, proc, conn, beat, fillDue, known, heard>>

\* Mutation of Replay: the rows are not sorted.
ReplayUnsorted(f) ==
  /\ up /\ fills[f].at = "rows" /\ fills[f].after > 0 /\ fills[f].cur \cap busy = {}
  /\ \E m \in fills[f].rows \ seen :
       Handle(m) /\ fills' = [fills EXCEPT ![f].cur = {m}]
  /\ UNCHANGED <<clock, proc, conn, beat, fillDue, known>>
\* The rows, oldest first; each handler is awaited before the next row.
Replay(f) ==
  /\ up /\ fills[f].at = "rows" /\ fills[f].after > 0 /\ fills[f].cur \cap busy = {}
  /\ \E m \in Msgs : /\ Oldest(m, fills[f].rows \ seen) /\ Handle(m)
                     /\ fills' = [fills EXCEPT ![f].cur = {m}]
  /\ UNCHANGED <<clock, proc, conn, beat, fillDue, known>>

\* Every row is handled: on to the next channel.
Replayed(f) ==
  /\ up /\ fills[f].at = "rows" /\ fills[f].after > 0 /\ fills[f].cur \cap busy = {}
  /\ fills[f].rows \subseteq seen
  /\ Advance(f, fills[f].done)
  /\ UNCHANGED <<clock, proc, conn, beat, fillDue, known, heard, marks, history>>

-----------------------------------------------------------------------------
\* What a write that failed or was cut off leaves: the old file, or one that
\* loadCursor cannot read.
Torn == {disk, NoCursor}

\* The cursor timer; a failed write stays dirty, and the next message rearms it.
Save ==
  /\ up /\ save = "due"
  /\ \/ disk' = cursor /\ save' = "clean"
     \/ disk' \in Torn /\ save' = "failed"
  /\ UNCHANGED <<clock, proc, conn, beat, fetches, known, heard, cursor, history>>

\* Everything in memory is gone; d is the file, and the next start loads it.
Gone(d) ==
  /\ up' = FALSE /\ starts < MaxStarts /\ starts' = starts
  /\ Unhook(FALSE, FALSE) /\ late' = FALSE
  /\ fillDue' = FALSE /\ fills' = [f \in Runs |-> Idle]
  /\ known' = {} /\ seen' = {} /\ busy' = {} /\ told' = told
  /\ disk' = d /\ cursor' = d /\ save' = "clean"
  /\ UNCHANGED <<clock, history>>

\* Mutation of Stop: the cursor is not flushed.
StopUnflushed == up /\ Gone(disk) /\ lost' = lost
\* shutdownFromStdio: the final flush, which may fail.
Stop == /\ up
        /\ \/ Gone(IF save = "clean" THEN disk ELSE cursor) /\ lost' = lost
           \/ save # "clean" /\ lost' = lost + 1 /\ \E d \in Torn : Gone(d)

\* The process is killed, perhaps within the write.
Crash == /\ up /\ lost' = lost + 1
         /\ \E d \in (IF save = "due" THEN Torn ELSE {disk}) : Gone(d)

\* createProfileSlot, heartbeat.start and connectWS.
Start ==
  /\ ~up /\ starts < MaxStarts
  /\ up' = TRUE /\ starts' = starts + 1 /\ lost' = lost
  /\ sock' = "connecting"
  /\ UNCHANGED <<clock, link, wire, beat, fetches, known, heard, marks, history>>

Init ==
  /\ clock = 0
  /\ up = FALSE /\ starts = 0 /\ lost = 0
  /\ sock = "none" /\ link = FALSE /\ wire = <<>>
  /\ timer = FALSE /\ late = FALSE /\ guard = FALSE
  /\ fillDue = FALSE /\ fills = [f \in Runs |-> Idle]
  /\ known = {} /\ seen = {} /\ busy = {} /\ told = [m \in Msgs |-> 0]
  /\ cursor = NoCursor /\ save = "clean" /\ disk = NoCursor
  /\ settled = {} /\ reseeded = {}

Beat == Overdue \/ Ping \/ SafeReconnect
Next == \/ Post \/ \E m \in Msgs : Notify(m)
        \/ Connect \/ Open \/ AuthOk \/ Closed \/ ShardMoved \/ GoesSilent \/ Beat
        \/ \E c \in Chans : Join(c)
        \/ Receive
        \/ \E f \in Runs : Backfill(f) \/ Serve(f) \/ NoPage(f) \/ Seed(f) \/ Replay(f) \/ Replayed(f)
        \/ Save \/ Stop \/ Crash \/ Start

Spec == Init /\ [][Next]_vars

\* Time passes, so silence makes the pong overdue, and the heartbeat's interval
\* and the timers fire.  Nothing is assumed of the network: it may stay silent
\* for ever.
Fairness == WF_vars(~link /\ Overdue) /\ WF_vars(SafeReconnect) /\ WF_vars(Connect)

FairSpec == Spec /\ Fairness
=============================================================================
