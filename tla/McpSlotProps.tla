---------------------------- MODULE McpSlotProps ----------------------------
(***************************************************************************)
(* Correctness of one identity of the MCP server.                          *)
(***************************************************************************)
EXTENDS McpSlot

\* Shape of the state; no cursor and no file is ahead of the hub.
TypeOK ==
  /\ clock \in 0..MaxPosts
  /\ up \in BOOLEAN /\ starts \in Nat /\ lost \in Nat
  /\ sock \in {"none", "connecting", "open", "ready"} /\ link \in BOOLEAN
  /\ wire \in Seq(1..clock)
  /\ timer \in BOOLEAN /\ late \in BOOLEAN /\ guard \in BOOLEAN
  /\ fillDue \in BOOLEAN /\ fills \in [Runs -> Fill]
  /\ known \subseteq Chans /\ busy \subseteq seen /\ seen \subseteq Msgs
  /\ told \in [Msgs -> Nat]
  /\ cursor \in [Chans -> 0..clock] /\ disk \in [Chans -> 0..clock]
  /\ save \in {"clean", "due", "failed"}
  /\ settled \subseteq Msgs /\ reseeded \subseteq Chans

\* A process without a socket has its reconnect timer armed, and only then: no
\* mix of close, shard_moved and heartbeat leaves it offline for good or opens
\* a second socket (server.ts connectWS, scheduleReconnect, createProfileSlot).
ConnectionKept == up => (timer <=> sock = "none")

\* The host is told of a message twice only across a crash or a final write
\* that failed: live frames, backfills, restarts and the cursor file together
\* deliver at most once, unless a late seed overwrote the channel's cursor.
ToldOnce ==
  \A m \in Msgs : Chan[m] \in reseeded \/ told[m] <= 1 + lost

\* The cursor is past m, and m was neither handled nor from before the
\* channel's first cursor: no later request will return it.
Passed(m) == m <= cursor[Chan[m]] /\ m \notin settled

\* Only a live frame can move the cursor over a message nobody handled; a
\* backfill, however it interleaves with others, with live frames and with a
\* crash between two rows, cannot, nor can a restart.
BackfillSkipsNothing ==
  [][\A m \in Msgs :
       Passed(m)' => Passed(m) \/ wire' # wire \/ Chan[m] \in reseeded']_vars

InWire(m) == \E i \in DOMAIN wire : wire[i] = m

\* ---- The inductive invariant behind ToldOnce and BackfillSkipsNothing. ----
\* The rows of a backfill are messages of its channel behind the cursor it read,
\* and no message of the channel between that cursor and a row is missing.
RowsInOrder ==
  \A f \in Runs :
    /\ \A n \in fills[f].rows : n <= clock /\ Chan[n] = fills[f].chan /\ fills[f].after < n
    /\ fills[f].after > 0 =>
         \A m \in Msgs \ fills[f].rows, n \in fills[f].rows :
           Chan[m] = fills[f].chan /\ fills[f].after < m => n < m

\* The cursor of a channel is not behind what was delivered, what a backfill
\* started from, or the file; and a clean cursor is on file.
CursorAhead ==
  /\ \A m \in seen : m \in settled /\ (Chan[m] \notin reseeded => m <= cursor[Chan[m]])
  /\ \A f \in Runs : fills[f].chan \notin reseeded => fills[f].after <= cursor[fills[f].chan]
  /\ \A c \in Chans \ reseeded : disk[c] <= cursor[c]
  /\ save = "clean" => disk = cursor

\* A message told as often as the lost cursors explain is not on its way again:
\* it is delivered in this life, or the cursor and every backfill are past it.
NotAgain ==
  \A m \in Msgs : Chan[m] \notin reseeded =>
    /\ told[m] <= 1 + lost
    /\ m \in busy => told[m] <= lost
    /\ m \notin seen /\ told[m] > lost =>
         /\ m <= cursor[Chan[m]] /\ ~InWire(m)
         /\ \A f \in Runs : fills[f].chan = Chan[m] /\ fills[f].after > 0 => m <= fills[f].after

\* With TypeOK: preserved by every step.
SlotInv == RowsInOrder /\ CursorAhead /\ NotAgain /\ (~up => ~timer)

\* An authenticated connection that goes silent is replaced (heartbeat.ts).
DeadIsReplaced == (sock = "ready" /\ ~link) ~> (sock # "ready")

\* server.ts:4927: "Backfill runs on every auth_ok whether first connect or
\* reconnect; if we missed anything, we find it": no message of a channel the
\* slot knows is passed for good.
MissedIsFound ==
  \A m \in Msgs : Passed(m) /\ Chan[m] \in known =>
    InWire(m) \/ (\E f \in Runs : m \in fills[f].rows) \/ Chan[m] \in reseeded
=============================================================================
