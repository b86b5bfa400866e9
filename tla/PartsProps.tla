----------------------------- MODULE PartsProps -----------------------------
(***************************************************************************)
(* Eight parts of the repository that meet the others only through a hub, a  *)
(* file or a child process, each with the promise that is hard to keep in it: *)
(* the client of the Codex app-server, the outbox of the Codex desktop, the   *)
(* supervisor of the Codex bots, the wakes of hosts, the Muse bridge, the      *)
(* shared documents and the tool calls of the MCP server, and the one-shot      *)
(* commands.  A behaviour runs one of them, the others stand still.           *)
(***************************************************************************)
EXTENDS Naturals, Sequences, FiniteSets

CONSTANTS None, Threads, Modes, Items, MaxTurns, MaxWire, Letters, Hosts, Pages,
          Bots, Entries, Pids, Sessions, Games, Ports, MaxWakes,
          Channels, Mail, Wanted, MaxTasks, MaxLosses,
          Procs, Docs, Personal, MaxVersion, MaxCalls,
          Chans, Asked, Direct, Posts, PageSize, FirstSize, MaxStreams, MaxPosts, MaxRuns
VARIABLES part,
          life, call, active, perms, wire, turns, told,
          letter, held, host, flying, accepted,
          boss, entries, valid, worker, kids, botLock,
          by, wakes, tail, fired, begun, games,
          daemon, link, settled, reconnecting, subscribed, tasks, pulsing, queued, posts,
          muse, losses,
          version, textV, metaV, doing, clash,
          open, loaded, known, calls,
          log, saved, mind, wait, poll, stream, events, finals, sending, runs, reported, lost

A == INSTANCE AppServer
G == INSTANCE GuiChannel
B == INSTANCE BotManager
W == INSTANCE WakeTurns
M == INSTANCE MuseBridge
D == INSTANCE SharedDocs
T == INSTANCE ToolCalls
O == INSTANCE WakeOnce

ASSUME PartsAssumption ==
  /\ A!AppAssumption /\ G!GuiAssumption /\ B!ManagerAssumption /\ W!WakeAssumption
  /\ M!MuseAssumption /\ D!DocsAssumption /\ T!ToolAssumption /\ O!OnceAssumption

app     == <<life, call, active, perms, wire, turns, told>>
gui     == <<letter, held, host, flying, accepted>>
manager == <<boss, entries, valid, worker, kids, botLock>>
wakeup  == <<by, wakes, tail, fired, begun, games>>
bridge  == <<daemon, link, settled, reconnecting, subscribed, tasks, pulsing, queued, posts,
             muse, losses>>
docs    == <<version, textV, metaV, doing, clash>>
tool    == <<open, loaded, known, calls>>
once    == <<log, saved, mind, wait, poll, stream, events, finals, sending, runs, reported, lost>>
all     == <<part, app, gui, manager, wakeup, bridge, docs, tool, once>>

\* The parts that stand still start in one state, whichever.
PartInit ==
  /\ part \in {"app", "gui", "manager", "wake", "muse", "docs", "tool", "once"}
  /\ A!Init /\ G!Init /\ B!Init /\ W!Init /\ M!Init /\ D!Init /\ T!Init
  /\ O!Init
  /\ part # "wake" => by = "url"
  /\ part # "muse" => daemon
  /\ part # "manager" => \A b \in Bots : entries[b] = None

\* A step of one part, in the behaviours that run it.
App(S)     == part = "app" /\ S
              /\ UNCHANGED <<part, gui, manager, wakeup, bridge, docs, tool, once>>
Gui(S)     == part = "gui" /\ S
              /\ UNCHANGED <<part, app, manager, wakeup, bridge, docs, tool, once>>
Manager(S) == part = "manager" /\ S
              /\ UNCHANGED <<part, app, gui, wakeup, bridge, docs, tool, once>>
Wake(S)    == part = "wake" /\ S
              /\ UNCHANGED <<part, app, gui, manager, bridge, docs, tool, once>>
Muse(S)    == part = "muse" /\ S
              /\ UNCHANGED <<part, app, gui, manager, wakeup, docs, tool, once>>
Documents(S) == part = "docs" /\ S
                /\ UNCHANGED <<part, app, gui, manager, wakeup, bridge, tool, once>>
Tools(S)   == part = "tool" /\ S
              /\ UNCHANGED <<part, app, gui, manager, wakeup, bridge, docs, once>>
Once(S)    == part = "once" /\ S
              /\ UNCHANGED <<part, app, gui, manager, wakeup, bridge, docs, tool>>

PartNext ==
  \/ App(A!Next) \/ Gui(G!Next) \/ Manager(B!Next) \/ Wake(W!Next) \/ Muse(M!Next)
  \/ Documents(D!Next) \/ Tools(T!Next) \/ Once(O!Next)

\* The socket's events come and its timer fires.
PartSpec == PartInit /\ [][PartNext]_all /\ WF_all(Muse(M!Client))

-----------------------------------------------------------------------------
\* The variables keep their types; a reply is of a turn there is, no wake waits for
\* itself, only a socket that was authorized has channels, the mirror never runs
\* ahead of the hub, and only the last call is under way.
PartTypes ==
  /\ life \in {"off", "starting", "ready", "closed"} /\ Len(turns) <= MaxTurns
  /\ \A i \in DOMAIN told : told[i].turn \in DOMAIN turns
  /\ letter \in [Letters -> G!Status \cup {None}] /\ held \in [Letters -> Hosts \cup {None}]
  /\ kids \subseteq B!Kid /\ botLock \in [Bots -> Pids \cup {0}]
  /\ wakes \in Seq(W!Wake) /\ \A i \in DOMAIN wakes : wakes[i].after # i
  /\ tail \in [Sessions -> 0..Len(wakes)] /\ games \subseteq Games
  /\ link \in {"opening", "open", "authed", "closing", "timer"}
  /\ subscribed \subseteq Channels /\ (subscribed # {} => link \in {"authed", "closing"})
  /\ pulsing \subseteq Channels /\ tasks \in Seq(Channels) /\ losses \in 0..MaxLosses
  /\ \A d \in Docs : metaV[d] <= version[d] /\ textV[d] <= version[d]
  /\ wait \in {"off", "joining", "waiting"} /\ saved \in O!Memory /\ mind \in O!Memory
  /\ wait = "off" => mind = O!Empty /\ finals = {} /\ poll = O!NoPoll
  /\ \A f \in finals : f.batch \subseteq mind.seen \cap O!Of(f.ch, Len(log))
  /\ calls \in Seq(T!Call) /\ \A i \in 1..(Len(calls) - 1) : calls[i].told # "none"

\* A call of generate returns what its own turn said, all of it and nothing else, whether
\* the turn's notifications came after the answer that names the turn, before it, or
\* among those of another turn, and after that turn has ended; no turn is returned to
\* two calls (app-server.ts, early and receive).
OwnAnswer ==
  \A i \in DOMAIN told :
    LET reply == told[i] IN
    /\ turns[reply.turn].own /\ ~turns[reply.turn].on
    /\ reply.said = {<<reply.turn, x>> : x \in turns[reply.turn].said}
    /\ \A j \in DOMAIN told : told[j].turn = reply.turn => i = j

\* The desktop takes a prompt once, though sends time out after it took them, processes
\* die in a dispatch and every host may try (gui-channel.ts); delivered is the truth.
SentOnce ==
  \A id \in Letters :
    /\ accepted[id] <= 1
    /\ letter[id] = "delivered" => accepted[id] = 1

\* A bot has one worker of its supervisor and one process that holds its lock, across
\* changes of the registry, failures and stops; a supervisor that has ended by itself
\* leaves only processes that know it is gone (manager.ts, Worker.stop).
OneWorker ==
  \A b \in Bots :
    LET mine == {k \in kids : k.bot = b} IN
    /\ Cardinality({k \in mine : ~k.orphan}) <= 1
    /\ Cardinality({k \in mine : k.owner}) <= 1
    /\ boss.at = "gone" => \A k \in mine : k.orphan

\* The turns of a ZCode session begin one at a time and in the order in which they were
\* queued, though the chain of a session is dropped when its newest turn ends and turns of
\* other sessions run beside them (wake.ts, zcodeSessionQueues).  A turn is queued after its
\* handler has awaited its context and its notification: two messages may change places
\* before that.
TurnsInOrder ==
  \A s \in Sessions :
    /\ Cardinality({w \in DOMAIN wakes : wakes[w].session = s /\ wakes[w].at = "running"}) <= 1
    /\ begun[s] = SubSeq(fired[s], 1, Len(begun[s]))

\* However often its socket is lost, the bridge ends up authorized again and in every
\* channel it was started with, unless it was stopped or has died (client.ts and
\* bridge.ts, onReconnect).
Joined == <>[](part = "muse" /\ muse = "running" =>
                 link = "authed" /\ Wanted \subseteq subscribed)

\* The mirror of a document never claims a version newer than its text: sync_skill would
\* take it for current from then on.  Processes that write a mirror at the same time
\* can break this, and do (server.ts, sync_skill).
CacheHonest ==
  ~clash /\ (\A p \in Procs : ~D!Between(p)) => \A d \in Docs : metaV[d] <= textV[d]

\* What the agent is told of a call, though the hub may serve a request after its deadline
\* and the socket comes and goes.  Sent: the hub did it.  Dispatched: a socket that was open
\* took it, but for an edit, which looks at the socket before it prepares its text.  Not
\* connected: nothing left.  Failed: the hub did not and will not, if it answered; when no
\* answer came it may have, or may yet, and the words do not tell these cases apart.  A join
\* is told failed though its frame may have been handed over.  Two copies leave only from
\* a join, and from a reply or leave that went to the socket because no answer came.  A
\* channel joined and not left is one the slot knows (server.ts, the handlers).
ToldTruth ==
  \A i \in DOMAIN calls :
    LET c == calls[i]
        unanswered == c.hub \in {"lost", "late"}
        copies == c.sent + (IF c.hub \in {"none", "declined"} THEN 0 ELSE 1) IN
    /\ c.told = "sent" => c.hub = "done"
    /\ c.told = "failed" => /\ c.hub \in {"none", "declined"} \/ unanswered
                            /\ c.sent = 0 \/ c.tool = "join_channel"
    /\ c.told = "dispatched" => c.sent = 1 \/ c.tool = "edit_message"
    /\ c.told = "offline" => copies = 0
    /\ copies = 2 => \/ c.tool = "join_channel"
                     \/ c.tool \in {"reply", "leave_channel"} /\ c.told = "dispatched" /\ unanswered
    /\ \/ c.tool # "join_channel" \/ c.told \notin {"sent", "member"} \/ known
       \/ \E j \in DOMAIN calls : j > i /\ calls[j].tool = "leave_channel"

\* No message is printed by two --wake-once, and one that was passed (its id remembered,
\* or its channel's cursor moved over it) was printed or its wake is on the way; except
\* for the losses the code accepts: a wake that was ready when its process ended or
\* printed another, and what a stream, a first look or a --send moved the cursor over
\* without having seen it.  A page never does (rest-cli.ts, finalizeWake).
WakesPrinted ==
  /\ \A n \in DOMAIN reported : reported[n] <= 1
  /\ saved.init # None =>
       \A n \in DOMAIN log :
         LET c == log[n].ch IN
         /\ log[n].addr /\ n > saved.init
         /\ n \in saved.seen \/ (saved.cur[c] # None /\ n <= saved.cur[c])
         => reported[n] = 1 \/ n \in lost \cup O!Batches
=============================================================================
