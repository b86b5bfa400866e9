---------------------------- MODULE ConnectorHub ----------------------------
(***************************************************************************)
(* The hub side of the relay connector (mcp-plugin/connector/run.ts): one   *)
(* hub socket per configured identity, its reconnect timer, heartbeat,      *)
(* channels and backfill, and the reload of the identity file.  A message   *)
(* read from a socket or replayed by a backfill advances that identity's    *)
(* cursor, is deduplicated over all identities (ingest.ts), and is handed   *)
(* to the relay (ConnectorRelay).  An action is one segment between two     *)
(* awaits.                                                                  *)
(***************************************************************************)
EXTENDS Naturals, Sequences, FiniteSets, MessageDedup

CONSTANTS Bots, Keys, Chans,
          Dms,           \* the direct channels
          None,
          Members,       \* who is in which channel at first: <<bot, channel>>
          Invites,       \* and who may be invited
          Kinds,         \* bound: the messages that are posted
          Tables,        \* the identity files: [Bots -> Keys \cup {None}], not empty
          PageSize,      \* the limit of one backfill request
          MaxSeen,       \* the keys a MessageDedup holds (5000)
          DropSeen,      \* and drops when it is past that (1000)
          MaxPosts,      \* bound: messages at the hub
          MaxFills,      \* bound: backfills of one identity at once
          MaxFaults      \* bound: losses of a socket, failed requests, reloads, deaths

Post == [ch : Chans, by : Bots \cup {None}, tick : BOOLEAN]
HubAssumption ==
  /\ None \notin Bots \cup Keys \cup Chans
  /\ Dms \subseteq Chans /\ Members \cup Invites \subseteq Bots \X Chans
  /\ Kinds \subseteq Post /\ Tables \subseteq [Bots -> Keys \cup {None}]
  /\ \A t \in Tables : \E b \in Bots : t[b] # None
  /\ MaxSeen \in Nat /\ DropSeen \in 1..MaxSeen
  /\ PageSize \in Nat \ {0} /\ MaxPosts \in Nat /\ MaxFills \in Nat /\ MaxFaults \in Nat

VARIABLES member,   \* the hub's memberships
          table,    \* identities: the credentials and the generation of each row
          sock,     \* socketsByBot: each identity's hub socket
          joined,   \* the channels that socket has joined
          inbox,    \* frames on their way to that socket
          due,      \* reconnectTimerByBot
          fillDue,  \* backfillTimerByBot: the channels its backfill will visit
          fills,    \* backfills under way
          cursor,   \* cursors
          seen,     \* MessageDedup
          handed,   \* history: what was broadcast: <<arrived for, message, the
                    \* number of its key among those recorded>>
          log,      \* the hub's messages, in order
          faults

hub      == <<sock, joined, inbox, due, fillDue>>
ingested == <<cursor, seen, handed>>
vars     == <<member, table, hub, fills, ingested, log, faults>>

Row  == [key : Keys \cup {None}, gen : Nat]
\* One run of backfillIdentity: the channels left, the one it asks for, the cursor
\* and the length of the log when it asked.
Fill == [bot : Bots, gen : Nat, rest : SUBSET Chans, at : Chans \cup {None},
         after : Nat, since : Nat]

In(b) == {c \in Chans : <<b, c>> \in member}
Known(b) == table[b].key # None
Fault == faults < MaxFaults /\ faults' = faults + 1

-----------------------------------------------------------------------------
(* Ingest: one message of the log, read on behalf of b.                     *)

Here == [cursor |-> cursor, seen |-> seen, handed |-> handed]
Leave(w) == cursor' = w.cursor /\ seen' = w.seen /\ handed' = w.handed

\* Mutation of DedupKey: every identity counts its own copies.
DedupKeyOwn(b, m, n) == <<b, n>>
\* Direct messages are deduplicated per identity, others once for all.
DedupKey(b, m, n) == <<IF m.ch \in Dms THEN b ELSE None, n>>

\* ingestAgentsChatFrame: the cursor first, whoever has seen the message before.
Ingest(w, b, n) ==
  LET m   == log[n]
      key == DedupKey(b, m, n)
      own == m.ch \in Dms /\ IF m.tick THEN m.by # b ELSE m.by = b
      w1  == [w EXCEPT !.cursor[b][m.ch] = IF n > @ THEN n ELSE @]
      w2  == [w1 EXCEPT !.seen = Record(@, key, MaxSeen, DropSeen)]
  IN  IF Remembers(w.seen, key) THEN w1
      ELSE IF own THEN w2
      ELSE [w2 EXCEPT !.handed = Append(@, <<b, n, Len(w2.seen.keys)>>)]

-----------------------------------------------------------------------------
(* The hub sockets.                                                        *)

\* connectIdentity for the identities S: a new socket, nothing left of the former one.
Connecting(S) ==
  /\ sock' = [b \in Bots |-> IF b \in S THEN "opening" ELSE sock[b]]
  /\ joined' = [b \in Bots |-> IF b \in S THEN {} ELSE joined[b]]
  /\ inbox' = [b \in Bots |-> IF b \in S THEN <<>> ELSE inbox[b]]
  /\ due' = due \ S
  /\ fillDue' = [b \in Bots |-> IF b \in S THEN {} ELSE fillDue[b]]

\* The reconnect timer.
Reconnect(b) ==
  /\ b \in due /\ Known(b)
  /\ Connecting({b})
  /\ UNCHANGED <<member, table, fills, ingested, log, faults>>

\* The socket opens and authenticates; the memberships are asked for.
AuthOk(b) ==
  /\ sock[b] = "opening"
  /\ sock' = [sock EXCEPT ![b] = "listing"]
  /\ UNCHANGED <<member, table, joined, inbox, due, fillDue, fills, ingested, log, faults>>

\* joinMemberships: the channels are joined; their backfill comes two seconds later.
Listed(b) ==
  /\ sock[b] = "listing"
  /\ sock' = [sock EXCEPT ![b] = "live"]
  /\ joined' = [joined EXCEPT ![b] = @ \cup In(b)]
  /\ fillDue' = [fillDue EXCEPT ![b] = In(b)]
  /\ UNCHANGED <<member, table, inbox, due, fills, ingested, log, faults>>

\* The list fails: the socket stays, without a channel.
ListFails(b) ==
  /\ sock[b] = "listing" /\ Fault
  /\ sock' = [sock EXCEPT ![b] = "live"]
  /\ UNCHANGED <<member, table, joined, inbox, due, fillDue, fills, ingested, log>>

\* The connection is lost; the client does not know it yet, and a list that was asked for
\* may still come.
Lose(b) ==
  /\ sock[b] \in {"opening", "listing", "live"} /\ Fault
  /\ sock' = [sock EXCEPT ![b] = "dead"]
  /\ joined' = [joined EXCEPT ![b] = {}] /\ inbox' = [inbox EXCEPT ![b] = <<>>]
  /\ \/ UNCHANGED fillDue
     \/ sock[b] = "listing" /\ fillDue' = [fillDue EXCEPT ![b] = In(b)]
  /\ UNCHANGED <<member, table, due, fills, ingested, log>>

\* Mutation of Closed: the close of a socket is only logged.
ClosedOnly(b) ==
  /\ sock[b] = "dead"
  /\ sock' = [sock EXCEPT ![b] = "closed"]
  /\ UNCHANGED <<member, table, joined, inbox, due, fillDue, fills, ingested, log, faults>>
\* ws.on("close").  The closed socket stays in socketsByBot until the reconnect.
Closed(b) ==
  /\ sock[b] = "dead"
  /\ sock' = [sock EXCEPT ![b] = "closed"]
  /\ due' = due \cup {b}
  /\ UNCHANGED <<member, table, joined, inbox, fillDue, fills, ingested, log, faults>>

\* HeartbeatMonitor's reconnect: the socket is forgotten at once, and its backfill timer
\* will find another one.
Timeout(b) ==
  /\ sock[b] = "dead"
  /\ sock' = [sock EXCEPT ![b] = "none"]
  /\ due' = due \cup {b} /\ fillDue' = [fillDue EXCEPT ![b] = {}]
  /\ UNCHANGED <<member, table, joined, inbox, fills, ingested, log, faults>>

\* ws.on("message").
Receive(b) ==
  /\ sock[b] = "live" /\ inbox[b] # <<>>
  /\ inbox' = [inbox EXCEPT ![b] = Tail(@)]
  /\ Leave(Ingest(Here, b, Head(inbox[b])))
  /\ UNCHANGED <<member, table, sock, joined, due, fillDue, fills, log, faults>>

-----------------------------------------------------------------------------
(* Backfill.                                                               *)

Current(f) == table[f.bot].gen = f.gen /\ Known(f.bot)

\* The timer of joinMemberships; a closed socket is not noticed.
FillStart(b) ==
  /\ fillDue[b] # {} /\ Known(b)
  /\ Cardinality({f \in fills : f.bot = b}) < MaxFills
  /\ fills' = fills \cup {[bot |-> b, gen |-> table[b].gen, rest |-> fillDue[b],
                           at |-> None, after |-> 0, since |-> 0]}
  /\ fillDue' = [fillDue EXCEPT ![b] = {}]
  /\ UNCHANGED <<member, table, sock, joined, inbox, due, ingested, log, faults>>

\* The run goes on with the channels that are left, as long as its row is current.
Answered(f) ==
  (fills \ {f}) \cup
    (IF f.rest = {} \/ ~Current(f) THEN {}
     ELSE {[f EXCEPT !.at = None, !.after = 0, !.since = 0]})

\* The next channel is asked for what came after its cursor.
FillAsk(f, c) ==
  /\ f \in fills /\ f.at = None /\ c \in f.rest
  /\ fills' = (fills \ {f}) \cup {[f EXCEPT !.at = c, !.rest = @ \ {c},
                                      !.after = cursor[f.bot][c], !.since = Len(log)]}
  /\ UNCHANGED <<member, table, hub, ingested, log, faults>>

\* The messages after the cursor, a page of the oldest.
Page(c, after, upto) ==
  LET S == {n \in (after + 1)..upto : log[n].ch = c} IN
  {n \in S : Cardinality({k \in S : k <= n}) <= PageSize}

\* planBackfill: what is replayed is not the identity's own, but for its ticks.
Replay(b, page) == {n \in page : log[n].by # b \/ log[n].tick}

\* What is replayed is ingested in the order of the log.
IngestAll(b, page) ==
  LET upto[n \in 0..Len(log)] ==
        IF n = 0 THEN Here
        ELSE IF n \in page THEN Ingest(upto[n - 1], b, n) ELSE upto[n - 1]
  IN  upto[Len(log)]

\* The newest message of a channel; 0 when there is none.
Newest(c, upto) ==
  LET S == {n \in 1..upto : log[n].ch = c} IN
  IF S = {} THEN 0 ELSE CHOOSE n \in S : \A k \in S : k <= n

\* An answer: without a cursor the newest message seeds it, else the page is ingested.
FillAnswer(f) ==
  /\ f \in fills /\ f.at # None
  /\ fills' = Answered(f)
  /\ \E upto \in f.since..Len(log) :
       IF ~Current(f) THEN UNCHANGED ingested
       ELSE IF f.after = 0
       THEN /\ cursor' = [cursor EXCEPT ![f.bot][f.at] =
                            IF Newest(f.at, upto) = 0 THEN @ ELSE Newest(f.at, upto)]
            /\ UNCHANGED <<seen, handed>>
       ELSE Leave(IngestAll(f.bot, Replay(f.bot, Page(f.at, f.after, upto))))
  /\ UNCHANGED <<member, table, hub, log, faults>>

\* A request that fails leaves its channel as it is.
FillFails(f) ==
  /\ f \in fills /\ f.at # None /\ Fault
  /\ fills' = Answered(f)
  /\ UNCHANGED <<member, table, hub, ingested, log>>

-----------------------------------------------------------------------------
(* The hub takes messages.                                                  *)

\* A message goes to every socket that joined its channel.
Posted(m) ==
  /\ Len(log) < MaxPosts
  /\ m.by # None => m.ch \in In(m.by)
  /\ log' = Append(log, m)
  /\ inbox' = [b \in Bots |-> IF m.ch \in joined[b] THEN Append(inbox[b], Len(log) + 1)
                                                   ELSE inbox[b]]
  /\ UNCHANGED <<member, table, sock, joined, due, fillDue, fills, ingested, faults>>

\* channel_created: an identity that is up joins.
Invite(b, c) ==
  /\ <<b, c>> \in Invites \ member
  /\ member' = member \cup {<<b, c>>}
  /\ joined' = [joined EXCEPT ![b] = IF sock[b] \in {"listing", "live"} THEN @ \cup {c} ELSE @]
  /\ UNCHANGED <<table, sock, inbox, due, fillDue, fills, ingested, log, faults>>

-----------------------------------------------------------------------------
(* Reload, death and restart.                                              *)

\* SIGHUP.  A row that did not change keeps its generation and its socket, a removed
\* identity loses its socket and timers, any other connects with its new credentials.
Reload(next) ==
  LET changed == {b \in Bots : next[b] # table[b].key}
      removed == {b \in changed : next[b] = None}
      fresh   == changed \ removed
  IN
  /\ changed # {} /\ Fault
  /\ table' = [b \in Bots |-> IF b \in changed THEN [key |-> next[b], gen |-> table[b].gen + 1]
                                              ELSE table[b]]
  /\ sock' = [b \in Bots |-> IF b \in removed THEN "none" ELSE IF b \in fresh THEN "opening" ELSE sock[b]]
  /\ joined' = [b \in Bots |-> IF b \in changed THEN {} ELSE joined[b]]
  /\ inbox' = [b \in Bots |-> IF b \in changed THEN <<>> ELSE inbox[b]]
  /\ due' = due \ changed
  /\ fillDue' = [b \in Bots |-> IF b \in changed THEN {} ELSE fillDue[b]]
  /\ UNCHANGED <<member, fills, ingested, log>>

\* main: every configured identity connects.
Boot == [b \in Bots |-> IF Known(b) THEN "opening" ELSE "none"]

\* SIGTERM, or a crash, and a new process.  It reads the cursors that were last saved:
\* those of now after SIGTERM, those of some earlier moment after a crash.
Restart(from) ==
  /\ Fault
  /\ \A b \in Bots, c \in Chans : from[b][c] <= cursor[b][c]
  /\ cursor' = from /\ seen' = NewDedup /\ handed' = <<>>
  /\ sock' = Boot /\ due' = {} /\ fills' = {}
  /\ joined' = [b \in Bots |-> {}] /\ inbox' = [b \in Bots |-> <<>>]
  /\ fillDue' = [b \in Bots |-> {}]
  /\ UNCHANGED <<member, table, log>>

Init ==
  /\ \E t \in Tables : table = [b \in Bots |-> [key |-> t[b], gen |-> 0]]
  /\ sock = Boot /\ due = {} /\ fills = {} /\ seen = NewDedup /\ handed = <<>>
  /\ joined = [b \in Bots |-> {}] /\ inbox = [b \in Bots |-> <<>>]
  /\ fillDue = [b \in Bots |-> {}]
  /\ cursor = [b \in Bots |-> [c \in Chans |-> 0]]
  /\ member = Members /\ log = <<>> /\ faults = 0

HubStep(b) ==
  \/ Reconnect(b) \/ AuthOk(b) \/ Listed(b) \/ ListFails(b) \/ Lose(b) \/ Closed(b)
  \/ Timeout(b) \/ Receive(b) \/ FillStart(b) \/ \E c \in Chans : Invite(b, c)
FillStep(f) == FillAnswer(f) \/ FillFails(f) \/ \E c \in Chans : FillAsk(f, c)

Next ==
  \/ \E b \in Bots : HubStep(b)
  \/ \E f \in fills : FillStep(f)
  \/ \E m \in Kinds : Posted(m)
  \/ \E t \in Tables : Reload(t)
  \/ \E from \in [Bots -> [Chans -> 0..Len(log)]] : Restart(from)
=============================================================================
