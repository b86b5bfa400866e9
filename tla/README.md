# A TLA+ model of the AgentsChat clients

The repository holds the client side of AgentsChat: the processes that sit
between a chat hub (a server that is not in the repository) and an AI agent, and
keep the agent reachable. All of them do the same job on different hosts: take
messages from the hub over a WebSocket and over REST, decide which of them
address the agent, hand each to a model exactly once, and post its answer at
most once, although sockets drop, processes are killed, hosts restart and
several processes share one home directory. This directory models that job.

Everything is translated from the code under `src/`. The hub, the model hosts
(codex app-server, OpenClaw, DSH, Hermes, ZCode) and the operating system are
outside the repository; the modules model them by what the code relies on.

## 1. Inventory

The clients are single-threaded event-loop programs (Node or Bun; Python for one
SDK). What interleaves is: handlers between two `await`s of each other, timers,
socket events, other processes that share files under `~/.agentschat`, and
process death at any point.

| Component | State it keeps | Operations | Interacts with |
|---|---|---|---|
| **Codex bridge inbox** `mcp-plugin/codex/bridge.ts` | `state.json`: entries with one of 12 statuses, channel threads, bootstrap histories; drain loop, 5 s retry timer | `accept`, `drain`/`run`, `prepareChannel`, `pause`, `stop`, `recover`, constructor (settles what a crash left) | transport (send), app-server (threads, turns), loop grants, REST recovery |
| **Codex inbox sync** `codex/inbox-sync.ts` | `inbound-cursors.json`: a checkpoint per channel; the watched channels; the pass in progress | `watch`, `memberships`, `sync` | hub history over REST; bridge `accept` |
| **Codex transport** `codex/transport.ts` | socket, pending acknowledgements, typing and sync timers, backoff | `start`, `send`, frame handlers, `stop` | hub, bridge, inbox sync, heartbeat |
| **Codex app-server client** `codex/app-server.ts` | child process, pending RPCs, the active turn, early notifications | `request`, `receive`, `thread`, `generate`, `fail`, `fatal`, `close` | `codex app-server` |
| **Codex loop grants and owner** `codex/loop-grants.ts`, `owner.ts` | `loop-grants.json` (edited by others) | grant check before and after the network reads | hub REST, bridge |
| **Codex process and supervisor** `codex/run.ts`, `manager.ts` | worker table, backoff, desired state file, locks | start order and shutdown; `tick`, `start`, `stop` | bridge, operating system |
| **Codex GUI channel** `codex/gui-channel.ts` | outbox entries `pending/sending/submitted/delivered/uncertain`, a lock directory | `enqueue`, `dispatch` | desktop app |
| **MCP server** `mcp-plugin/src/server.ts` | profile slots (socket, cursor, dedup, heartbeat, reconnect timer), the active identity globals, one tool-call tail | tool calls, slot activation and teardown, WebSocket handlers, backfill, shutdown | hub, session binds, agent locks, wake endpoints, MCP host |
| **Shared pieces** `src/dedup.ts`, `heartbeat.ts`, `reconnect.ts`, `read-cursor.ts`, `profile-store.ts`, `identity*.ts` | seen ids; ping/pong times; cursor files; profile and trust files | record-or-skip, tick, flush, write, decide | used by the MCP server, connector and Codex transport |
| **Agent locks and session binds** `src/session-bind.ts`, `grok-bind.ts`, `session-route.ts` | lock files per agent, `session-binds.json` | check, acquire, release; save, remove, find | every process on the machine |
| **Wake delivery** `src/wake.ts` | a queue per ZCode session | `fireWake`, `fireGrokWake`, `fireAntigravityWake`, `fireZcodeWake` | host endpoints and CLIs |
| **One-shot REST CLI** `src/rest-cli.ts` | cursor, seen-id and pid files | send, join, `wakeOnce` (poll and SSE) | hub |
| **Hermes connector** `mcp-plugin/connector` | relay sessions, fronted identities, per-identity hub connections, cursors, dedup | hello, outbound, inject, connect, backfill, reload, shutdown | Hermes gateways, hub |
| **DSH inbound plugin** `mcp-plugin/dsh/inbound-bridge` | wake queue (at most 100), claimed message ids (200), drain flag, retry timer, daemon supervision | `inject`, `drain`/`attempt`, retry, daemon restart, identity endpoints | wake daemon, DSH sessions |
| **DSH client and patcher** `mcp-plugin/dsh` (`client.js`, `src`) | browser UI state; profile patch file | UI actions; install, remove | DSH |
| **Muse bridge** `mcp-plugin/muse/src` | socket, reconnect state, channel histories, typing timers, wake queue file | connect, dispatch, reply, rejoin, wake | hub, Muse |
| **OpenClaw plugin** `openclaw-plugin/src` | per-account gateway state, pending starts, a client with lifecycle and reconnect state, mention cursors | `startAccount`, `stopAccount`, abort, socket handlers, dispatch | OpenClaw host, hub |
| **TypeScript SDK** `typescript/src`, **Python SDK** `python/agentchat` | socket, session id, handlers | connect, send, disconnect, REST calls | hub |
| **Tool handlers** (the rest of `server.ts`) | mirrored skills on disk, the known channels, the tool groups that are loaded | requests and frames, in the order of each handler; `sync_skill` | hub, other processes of the user |
| Formatting and redaction helpers, scripts, plug-in manifests, `dist/` | none | text conversion; packaging | all |

### What is hard, and what correct means

* **A reply at most once, a truthful journal** (bridge, GUI channel, wake). A
  reply whose acknowledgement was lost may have been posted; a process may die
  between deciding, writing and recording. Trying again may double-post; giving
  up may claim that nothing was sent.
* **Nothing is lost** (inbox sync, MCP server, connector). Live frames and
  history pages race; a cursor that follows the live stream can jump over what
  was lost before it; a page boundary can fall between messages with one timestamp.
* **Nothing is done twice** (dedup, claims, bridge). The same message arrives
  live, by history and by recovery, and the same loop tick under several ids.
* **No lost wake-up, no stuck queue** (bridge, DSH inbound, app-server). A drain
  loop is guarded by a flag and a timer; work that arrives while it stops must
  still be picked up.
* **One owner** (agent locks, session binds, OpenClaw gateway, worker supervisor).
  At most one live process or client speaks for an agent.
* **The right identity** (MCP server). Identity is process-global and swapped per
  tool call; every call must finish under the identity its session is bound to.
* **Liveness over a bad network** (transport, heartbeat). A half-open socket
  must be detected and replaced, a request must not wait forever.

## 2. The modules and the code

One module per component holds its state and actions; `<M>Props` states what makes
it correct; `<M>Proofs` holds the theorems (one such module for each of the eight
specifications); `MC<M>` and its `.cfg` files are the instances TLC checks. Two small
modules, `ReplyOnce` and `Intake`, are abstract specifications, and `MessageDedup` is the
bounded memory of seen keys (`dedup.ts`) that both halves of the connector keep.

    CodexBridge ──implements──> ReplyOnce      (what a bot promises per message)
    CodexBridge ──implements──> Intake <──INSTANCE── CodexInbox
    McpSlot   SessionRouting                   (two views of the MCP server)
    ConnectorProps = ConnectorHub | ConnectorRelay
    PartsProps = AppServer | GuiChannel | BotManager | WakeTurns | MuseBridge
                 | SharedDocs | ToolCalls | WakeOnce
    DshInbound   OpenClawGateway

`ConnectorProps` and `PartsProps` compose modules of which **one runs in each
behaviour** while the others stand still. This is sound for what they state, because
no property relates two of them and each module allows for everything its neighbours
could do: the relay takes any message at any time, whatever the hub side would have
handed over; the parts meet the rest only through the hub, a file or a child process,
and those are actions of each part.

**One action is one run-to-completion segment** of the event loop, from one `await`
(or from an event, or a timer) to the next. Every other handler may run between two
actions. Where the code writes a file inside a segment and a crash between two such
writes matters, the segment is cut there; at those places (`Sync` in `CodexBridge`,
`PageCut` in `CodexInbox`, `FirstWrite` and `SecondWrite` in `SharedDocs`) only a crash,
or another process, can come in between. What other processes do (the hub, the model
host, the user, the operating system) are actions of their own.

| Module | State and where it is in the code | Actions |
|---|---|---|
| `CodexBridge` | `entries` = `state.entries` and `state.json`; `at`, `cur` = where `run()` stands and with which entry (`at # "idle"` is `running`); `retry` = the 5 s timer; `phase` = the process; `permits` = allowlists and `loop-grants.json`; `turns`, `written`, `posted` count what was done for a message | `Accept` (`accept`, `recover`, `drain`), `RunEnds` and `Pick` (head of the loop), `Verify`, `Prepared`, `ThreadBusy`, `Fails`, `Answered`, `MarkSending`, `WriteReply`, `SendReturns`, `RetryFires`, `Boot` and `Start` (constructor, `main`), `Stop`, `Exit`, `Crash`, and the hub's `HubPosts` |
| `CodexInbox` | `mark` = `inbound-cursors.json`; `watched` = `channels`; `todo`, `asked`, `page` = the pass of `sync()`; `listing`, `listed` = the membership request; `link`, `news` = socket and frames; `taken`, `open` = the journal (`Intake`) | `Auth`, `Listed`, `Created`, `Live`, `Drop` (transport); `Sync`, `Fetch`, `NoPage`, `PageDone`, `PageDropped`, `PageCut`, `PassAborts` (pass); `Post`, `Invite`, `HubLists`, `Serve` (hub); `Settle`, `Boot`, `Crash` |
| `DshInbound` | `seen` = the claimed ids; `pending`, `draining`, `timer` = the queue, the flag and the retry timer; `flight` = whose flush is awaited | `Wake` and `Duplicate` (`inject`), `Drop`, `LandNow`, `Splice`, `SpliceFails`, `Defer`, `Throws` (outcomes of `attempt`), `FlushEnds`, `DrainEnds`, `TimerFires`, `Reload` |
| `OpenClawGateway` | `state`, `pending` = `gatewayStates`, `pendingStarts`; `call` = how far a `startAccount` is; per client `sock`, `session`, `again`, `timer`, `off` = `ws`, `sessionId`, `isReconnecting`, the timer, `explicitlyDisconnected`; `older` remembers which starts had not settled when a start began, `rejected` whose session got a frame that `ws` rejects | `Start`, `Abort`, `StopAccount`, `Settles` (the lines behind `waitUntilClosed`); `Open`, `ConnectFails`, `AuthOk`, `AuthFails`, `BadFrame`, `Closed`, `TimerFires` |
| `McpSlot` | `sock`, `link`, `wire` = `slot.ws`, the path behind it, frames on it; `timer` = `reconnectTimer`; `late`, `guard` = the heartbeat's overdue pong and `reconnecting`; `fillDue`, `fills` = `backfillTimer` and the backfills under way; `known`, `seen`, `cursor`, `save`, `disk` = `knownChannels`, `messageDedup`, `lastSeenMessageTs`, its dirty flag with its timer, and the file; `busy`, `told` = handlers between dedup and notification, notifications | `Connect`, `Open`, `AuthOk`, `Closed`, `ShardMoved`, `Overdue`, `Ping`, `SafeReconnect` (connection and `HeartbeatMonitor`); `Join`; `Receive`, `Notify` (live frames); `Backfill`, `NoPage`, `Seed`, `Replay`, `Replayed` (`backfillAllChannels`); `Save`, `Stop`, `Crash`, `Start`; `Post`, `Serve`, `GoesSilent` (outside) |
| `SessionRouting` | shared by the processes: `file` = profile files, `binds` = `session-binds.json`, `lock` = the agent locks, `trust` = `identity-guard.json`; of each process `slots`, `active`, `rsid` = `profileSlots`, the slot behind the identity globals, `runtimeSession`; `src`, `gate` = `profileSource`, `identityGateMessage`; `calls` = tool calls at an `await`; `alarm` remembers whom a boot gated | `BootCheck`, `BootTake`, `Main` (the top level of `server.ts` and `main`), `Sync` (`syncOpenBoundSessions` on a pong), `Start` and `Refuse` (`handleToolCall`: routing, heal, gate, pin), `Connect`, `ConnectNew`, `Register`, `DisconnectTool`, `WhoAmI`, `Finish`; `Stop`, `Crash`, `Edit` |
| `ConnectorHub` | `table` = identities with their generation; per identity `sock`, `joined`, `inbox` = its hub socket; `due`, `fillDue`, `fills` = reconnect timer, backfill timer, backfills under way; `cursor`, `seen` = cursors and `MessageDedup`; `handed` remembers what was broadcast, and after how many recorded keys | `Reconnect`, `AuthOk`, `Listed`, `ListFails`, `Closed`, `Timeout`, `Receive` (`connectIdentity`); `FillStart`, `FillAsk`, `FillAnswer`, `FillFails` (`backfillIdentity`); `Reload`, `Restart`; `Posted`, `Invite`, `Lose` (outside) |
| `ConnectorRelay` | `conns` = gateway connections with the identities they front; `queue`, `stage` = `inboundQueues` and what the oldest job awaits; `last`, `reserved` = `lastAddressed`, `delivered` (a `MessageDedup`); `place` = which of the reserved keys is that of the job under way; `got` remembers deliveries with that number | `Upgrade`, `Hello`, `GatewayGone`, `Outbound`; `Arrive` (`injectAgentsChatMessage`), `Begin`, `Verified`, `Context` (the queue); `Reload` |
| `AppServer` | `life`, `call` = the child and the request the bridge awaits; `active` = the turn with its early notifications; `perms` = `threadPermissions`; `wire` = lines on the pipe; `turns` = the app-server's turns | `Start`, `Started`, `Configured`, `Thread`, `Opened`, `Generate`, `Begun`, `Returned`, `Done`, `Receive`; the child's `TurnBegins`, `TurnEmits`, `Answers` and its death |
| `GuiChannel` | `letter` = the status of an outbox file; `held` = its lock directory; `host` = where a process is in `dispatch`; `flying`, `accepted` = the desktop | `Enqueue`, `Dispatch`, `Sent`, `SaveFails`, `Found` and the end of the read; death, late acceptance, removal of a lock by hand |
| `BotManager` | `boss` = the supervisor and its tick; `worker` = `workers`; `kids`, `botLock` = worker processes and `bridge.lock`; `entries`, `valid` = the registry | `Boot`, `Tick`, `Stopped`, `Configured`, `Present`, `Absent`, `Unknown`, `Swept`, `Due`, `Signal`, `ShutDown`, `Gone`, `Crash`; a worker's `Takes` and `Ends`; `Edit`, `Spoil` |
| `WakeTurns` | `wakes` = the handlers that wake a host, at the step each awaits; `tail` = `zcodeSessionQueues`; `games` = `activeHiddenIdentityGames` | `Arrive`, `Handled`, `Resolved`, `Fails`, `Accepted` (POST, Grok and Antigravity), `Queue`, `BeginTurn`, `EndTurn` (ZCode), `GameJoined`, `GameExpires` |
| `MuseBridge` | `link`, `settled`, `reconnecting` = the client; `tasks`, `pulsing` = responders and `TypingHeartbeat`; `queued`, `posts` = the wake queue file and POSTs; `subscribed` = the channels the hub joined | `Opened`, `AuthOk`, `Refused`, `Lost`, `PingThrows`, `ClosedQuietly`, `Closed`, `Timer`, `Disconnect`, `Invited`; `Dispatch`, `Reply`, `Capped`; `WakeUp`, `OwnSeen`, `Posted` |
| `SharedDocs` | `version` = the hub's; `textV`, `metaV` = the mirror's text and sidecar; `doing` = the call of each process | the skill, memory and document tools, each a sequence of awaited requests: `SyncSkill`, `Compare`, `FirstWrite`, `SecondWrite`, `UpsertDoc`, `SaveOver`, ...; `Serves`, `Fails`, `Dies` |
| `ToolCalls` | `open` = the socket of the active slot; `loaded`, `known` = tool groups and known channels; `calls` = each call with the rest of its script, what left, and what the agent was told | a script per tool, run by `Gate`, `Frame`, `Blind`, `Hint`, `Look`, `Need`, `Post`, `Answer`, `NoAnswer`, `Verify`, `Finish`; `SocketTurns`, `Serves` |
| `WakeOnce` | `saved` = `last-seen-msg-ts-*.json` and `wake-seen-ids-*.json`; `mind` = `cursor` and `seenSet` of the waiting process; `poll` = where `pollOnce` stands; `stream`, `events` = the SSE streams; `finals` = `finalizeWake` at its `await`; `sending` = a `--send` between its POST and its cursor; `reported`, `lost` remember what was printed and what was given up | `Start`, `Joined`, `Interval`, `Listed`, `AskPage`, `GotPage`, `PageRefused`, `PollEnds` (`pollOnce`), `StreamOpens`, `StreamEvent`, `StreamEnds` (`maybeStartSse`), `Finalized`, `Timeout`, `Killed`; `SendPosts`, `SendAdvances` (`sendRestMessage`); `SomebodyPosts` |

Messages, channels and starts are model values; their text, sender and format are not
modelled. Who is addressed (`Addressed`), what is allowed (`permits`) and how an
attempt ends are left open wherever the code takes them from outside.

### Assumptions the models make

* `save()` of the Codex bridge and of its checkpoints does not fail (the code throws,
  and the process ends: the same as `Crash` before the write).
* A promise continuation runs before the next timer or socket event, so the `.finally`
  of a finished run belongs to the segment in which the run ended.
* The hub's clock and the bot's are one where the code compares the two.
* The hub answers a history request behind a cursor with the oldest rows, at most
  a page, and one without a cursor with the newest; it answers credentials once per
  socket. `ws` reports a failed connection as error and close, and closes a socket
  30 s after its close was requested.
* In `CodexInbox` an orderly stop is a crash: both leave the same file behind.
* In `McpSlot` every message is from somebody else, addresses the agent and has a
  timestamp of its own, and the limit of 5000 remembered ids is not reached. A torn
  write leaves the old file or one that cannot be read.
* A dead process's lock counts as none wherever `SessionRouting` reads it, as
  `checkAgentLock` counts it; reads and writes of one segment are one step.
* A crash of the connector leaves cursors of some earlier moment; a hub answers a
  backfill from the log as it is at some moment between question and answer.
* Lines that reach the app-server client in one chunk are received before the answer
  among them is resumed; the bridge awaits each request before the next one.
* The Codex desktop takes a prompt at most once per send, but may take it after the
  send timed out, and a read of the thread finds what it took.
* One `--wake-once` of an agent waits at a time (the race for the pid file is described
  in 5); a `--send` may run beside it. A message's position is its timestamp, so the
  process's clock is the hub's and no two messages share a time; the files keep fewer
  than 200 ids. No MCP server of the agent runs beside it: it would write the same cursor
  file (see 5).
* A tool is a script of requests and frames (`ToolCalls`, first section). A request
  that was not answered may still be served at any later time, or never.

## 3. Plan

Written in this order, the most important behaviour first: `CodexBridge` with
`ReplyOnce` (replies), `CodexInbox` with `Intake` (nothing lost on the way there),
`DshInbound` (a queue with claims), `OpenClawGateway` (one client), `McpSlot` (live
stream against backfill, and the heartbeat), `SessionRouting` with the agent locks and
session binds (the right identity), `ConnectorHub` and `ConnectorRelay` (many identities
on one process), and the eight parts, `WakeOnce` the last of them.

Nothing of the plan's modules is left to write; what stays outside is listed in 7.
Every safety property that a passing run checks, the two refinements included, is also
a theorem. What is left is what the code does not give: `CallActsForItsSession` for
several processes, should `session-bind.ts` come to make check and acquisition one step.

## 4. What the runs check

| Run | Instance | Shows |
|---|---|---|
| `bridge` | one message, one loop tick; inbox of 2; 3 starts | a reply and a turn at most once, a truthful journal, no lost wake-up, order of arrival, every accepted message settles; refinement of `ReplyOnce` and of `Intake` |
| `inbox` | 3 messages, one of which addresses nobody; pages of 2, inbox of 1; bot invited later; 2 starts | the checkpoint passes nothing the journal does not hold, and what was lost is recovered |
| `inbox_ties` | two messages may share a timestamp | violation, see 5 |
| `dsh` | 3 wakes posted twice, queue and claims of 2, one reload | no wake queued or landed twice per claim, no stuck queue, each is served |
| `dsh_overflow` | 4 wakes | violation, see 5 |
| `openclaw` | 3 starts, each at any time the early returns allow, also beside stopped ones that have not settled; rejected frames for two of the clients | a client that is up, or comes up again, belongs to a start that can be aborted, and is the one in `gatewayStates` but for two named events; subscribed after reconnects; a waiting start recovers; a stop completes |
| `mcp_slot` | one channel, 3 messages, pages of 2, one backfill at a time; 2 starts | socket or timer, at-most-once notification, no backfill skips a message, a dead link is replaced |
| `mcp_missed` | as above | violation, see 5 |
| `identity` | 2 sessions, 2 profiles, 2 agents, five ways to start (two of them tool-only), edits of the files; one process at a time; the largest instance: some 400 000 states, 40 steps deep | a call keeps its identity and acts for its session, nothing is written under an alarm, a lock is served |
| `guard_learns` | started in a bound session or with a declared profile | violation, see 5 |
| `connector` | 2 identities, a group and a direct channel, pages of 1, one fault; 2 gateways, 2 arrivals; a memory of one seen and of two delivered keys, so that both evict | a message is handed over and delivered again only after as many other keys as `MessageDedup` always keeps, gateways front only what they are admitted for, identities come back online, queues drain |
| `parts` | see below | one promise per part, see `PartsProps` |

`parts` runs each of the eight with a small instance: two turns and two lines on the pipe
(a turn that is not the bridge's own and one that is); two letters and two desktop
hosts; one bot with two registry entries and two process ids; three wakes for two
sessions; two channels of which one is configured, with two losses of the socket; two
processes with a shared and a personal document of two versions; two tool calls; two
messages in a group and a direct channel for two listeners, one after the other, with
pages of one message and one stream (`Posts` names what may be posted or sent).

**Why the bounds are enough.** Each is the smallest that lets the hard case happen
and one step beyond it. Two pieces of work in an inbox of two make a full inbox and
an order; a third id makes a duplicate. Three messages with pages of two put a page
boundary between missed messages, with one that arrives live. Queue and claims of
two among three wakes evict a claim while its wake's successor is in flight. Three
starts of an account are one that is stopped and settles late, one beside it that loses
its entries to it, and one that the lost entries let in; the starts are alike and are taken
in one order, and one begins when at most one client of the earlier ones has a socket or a
timer left (`Bounded`, which cuts no other step; starts have no fairness). A memory of one or
two keys evicts at the second or third. Two process starts put one crash at every point, a third one a crash in the
recovery from the first. `MaxStarts`, `MaxPosts`, `MaxWakes`, `MaxReloads`, `MaxRuns`,
`Starts` and `Runs` bound only how often something happens; the theorems in 6 hold for all
values of them.

Deadlock is checked except in `dsh`, `openclaw`, `connector` and `parts`, which may
really come to rest: every wake was posted and served; every start has settled and
its socket is closed; all messages were handed over and all queues are empty; a part
has done what its bound allows.

**Fairness.** Safety runs use none. Where liveness is checked:

* `CodexBridge`: the event loop runs what is queued, a supervisor restarts, the reads
  of `verifyLoopTick` and `send` have limits of 15 s, a turn ends. Strong fairness is
  needed only for *prepare*: a thread held by another writer is tried every 5 s, and
  the assumption is that it is not held at each of these moments.
* `CodexInbox`: the network drops as often as it likes, but a request that is made
  again and again while the socket is up is answered in the end (strong fairness).
* `DshInbound`: timers and the flush's deadline; and a session that is retried for
  ever is at some attempt not busy (strong fairness of `Settles`).
* `OpenClawGateway`: promise continuations, timers, `ws` closes; a hub asked for ever lets
  the client in.
* `McpSlot`: only the process's own timers and the passage of time; the network may
  be silent for ever.
* Connector: timers fire, the hub answers credentials and the membership list or
  refuses them; a loop list is answered or fails, and the context of a message is
  raced against one second.
* `MuseBridge`: a socket's events come and the reconnect timer fires.

## 5. Where the code and its comments disagree

Each has a run that TLC must refute, with a shortest trace.

* **`mcp_missed`** (`server.ts:5304`). The comment at `server.ts:4927` promises that
  the backfill finds what was missed. It starts two seconds after `auth_ok` and reads
  behind the cursor as it is then; a live frame in these two seconds moves that same
  cursor, and messages lost before it are never asked for. `BackfillSkipsNothing`
  shows the other half: nothing but a live frame can do this.
* **`guard_learns`** (`server.ts:689`). `identity-guard.ts:27` says that a gated boot
  does not advance the trust record, so that repeated starts under the wrong identity
  keep alarming. The gated boot has already saved the bind of its session; the next
  start in that session finds the profile by this bind, which counts as declared, and
  the trust record learns it.
* **`inbox_ties`** (`inbox-sync.ts:74`). Checkpoints are bare timestamps: of two
  messages with one timestamp the second can be skipped at the end of a page.
* **`dsh_overflow`** (`inbound-bridge/index.js:371`). An overflow during the flush of
  the head removes the head; the `shift()` afterwards removes the next wake, which was
  never attempted.

### Seen while modelling, without a run

Replies and intake:

* A loop grant removed while `prepareChannel` waits (`bridge.ts:153`) does not stop
  the turn; `codex/README.md:181` says a revocation blocks it before model execution.
  Likewise a grant that changes after the read behind the loop list
  (`loop-grants.ts:64`).
* A membership answer older than a `channel_created` frame drops the new channel until
  the next authentication (`inbox-sync.ts:47`); `Recovered` therefore speaks of channels
  that are watched again and again, and the instance starts with a bot outside.
* Two starts of one bot, or of the supervisor, that both find a dead lock can both
  remove it, the second one the lock the first has just made (`bridge.ts:46`,
  `manager.ts` `removeDeadLock`).
* A lock directory of the GUI outbox left by a crash blocks that delivery until it is
  removed by hand.

Connections:

* After a forced reconnect of an MCP slot the heartbeat's guard stays set until a pong,
  `auth_ok` or `onclose`; a new socket that opens and is never answered is not pinged
  and not replaced (`heartbeat.ts:105`). `DeadIsReplaced` speaks of connections that were
  authenticated.
* `waitUntilClosed` of OpenClaw is to outlive network drops, but a socket error on a live
  session rejects it, and the client it belonged to goes on reconnecting out of the
  host's reach (`agentchat-client.ts:181`); `OneClient` excepts it (`rejected`). A late `auth_ok` while the socket is closing
  reports a stopped account as running (`gateway.ts:219`).
* An abort clears `gatewayStates` and `pendingStarts` at once (`gateway.ts:256`), so a start
  may begin while the aborted one has not settled. When that one settles, its last lines
  (`gateway.ts:290`, 301, 313) delete the entries of the account, which are those of the new
  start by then. The new client goes on, but `stopAccount` and `sendText` no longer find it,
  and a further start brings a second client beside it; each can still be ended by its
  own abort signal. `OneClient` excepts from the part about `gatewayStates` exactly the starts
  that began beside one that was to settle later (`Robbed`).
* `Seed` (`server.ts:5126`) sets the cursor of a channel that had none when the page was
  asked for, without looking at what a live frame stored in between, and may put it
  back. `ToldOnce` and `BackfillSkipsNothing` except such channels (`reseeded`). The
  connector does the same.
* A failed timed write of the MCP cursor is not tried again before the next message
  or the shutdown; after a restart a slot knows no channels, and so backfills none,
  until it joins one or one is created.
* A reload of the DSH plugin keeps the claims and loses the queue (`index.js:787`), so
  the daemon's repetition of a lost wake is taken for a duplicate.
* The connector has the window of `mcp_missed` too. It reads one page of 50 per channel
  and connection. A failed membership request leaves its socket up and deaf. A message is
  remembered and its cursor advanced before a gateway is there to take it. Its memories
  keep 5000 keys and drop the oldest 1000 (`dedup.ts:30`): a message whose key was dropped,
  brought again by a late backfill or by an identity that was removed and added with its
  old cursor (`run.ts:509`), is handed over and delivered again. `connector/README.md:179`
  says so; `HandedOnce` and `DeliveredOnce` say how many keys (4001) must have come between.
* In the Muse bridge a ping or a reply on a socket that is closing throws where nobody
  catches it, and the process ends, although a long-lived bot is to survive network
  blips (`client.ts:11`).
  Channels joined on invitation are not joined again after a reconnect. The first of two
  replies in a channel stops the typing pulse of the other.

Identity:

* When a caller's bound profile cannot be read, `handleToolCall` swallows the error and
  the call runs under the identity of the caller before it; `CallActsForItsSession`
  excepts it (`lost`).
* A pong during an anonymous call may give the process, and so the rest of the call, an
  identity; `CallKeepsIdentity` speaks of calls that had one.
* `acquireAgentLock` overwrites whatever is there, and the boot's check and its
  acquisition are apart. With two processes in the instance TLC refutes
  `CallActsForItsSession`: both pass the check, and the second one's acquisition binds to
  its session the profile the first one acts under; then two live processes serve one
  agent, which `session-bind.ts:12` ("at most ONE live process") rules out. The property
  is therefore checked, and proved, for one process at a time; the other three hold for
  any number. `releaseAgentLock` by the same session may remove another process's lock.
  Profile files are written through one shared temporary name.
* A tool-only process leaves the binds where they are, so a call in it may act as a
  profile that another session owns; `CallActsForItsSession` excepts it.

Documents, tools and wakes:

* Two processes that mirror a skill at the same time, or one that dies between its two
  writes after another mirrored a newer version, may leave the sidecar newer than the
  text: "up to date" from then on. `CacheHonest` excepts it (`clash`).
* `edit_message` looks at the socket before it prepares its text, and may say
  "dispatched" with nothing handed over; `ToldTruth` excepts it.
* When no answer came, the words do not tell whether the hub did it. Without a socket a
  `reply` says "Send failed" (`server.ts:3631`, the words of a refusal) and a `leave_channel`
  "Leave failed" (4098), other tools the text of the exception; the request may have been
  served, or may be yet. With a socket a `reply` is posted twice when the late request is
  served as well: the frame has an id of its own (3622), so nothing makes them one. A
  `join_channel` says "Join failed" (4053) of a refused request although the frame it sent
  first may still be served; without an answer it says that it could not verify.
  `ToldTruth` claims truth of "failed" only for what was answered, and allows a second copy
  only to a join and to this fallback.
* `apiFetch` clears its timer when the headers arrive, so a body that never ends blocks
  the tool, and as calls are queued all tools, although the comment at `server.ts:407`
  rules this out.
* A ZCode child that ignores `SIGTERM` blocks its session's queue. A wake by POST or to
  an Antigravity port that timed out may have been accepted and is made again. Wakes of
  two messages may leave in another order than the messages arrived.

One-shot commands:

* The comment at `rest-cli.ts:15` says that an addressed message after the first start is
  delivered at once and not swallowed by the seeding of a cold start. A first look reads
  the newest 20 rows, and moves the cursor past older ones that it did not get; an event
  of a stream moves it past what no page has brought yet, and the next page starts behind
  it. `WakesPrinted` excepts what was passed in these two ways; a page with a cursor
  passes nothing.
* `finalizeWake` saves the ids and the cursor and then awaits the context of the group: a
  wake that is ready is lost when the timeout, a newer listener or another channel's
  wake ends the process in that moment.
* The MCP server of the same agent writes the same cursor file (`rest-cli.ts:8`), each side
  from its own memory: what one stored the other may put back or pass over.
* `--send` sets the channel's cursor to its own clock, over messages that nobody has read
  (`rest-cli.ts:270`). A listener that is waiting keeps its cursors in memory and writes all
  of them back, over what `--send` wrote.
* Joins have no deadline and come before the timeout is armed, so a hub that does not
  answer one blocks the listener for ever. A stream that ends and is asked for again
  counts as connected meanwhile (`rest-cli.ts:633`), and its channel is not polled.
* Two listeners that start together both read the pid file before either writes it, and
  neither stops the other (`rest-cli.ts:363`).

## 6. What is proved

All theorems hold for every value of the constants that satisfies the module's named
assumption, and are checked by TLAPS from `Init`, `Next` and that assumption alone.

* **`CodexBridgeProofs`**: `TypeOK`, `AtMostOneReply`, `OneTurnPerTask`,
  `JournalTruthful`, `ArrivalOrder`, `NothingStranded`. None of the three named after `TypeOK` is
  inductive: that nothing was written for an entry can only be known together with
  where the loop stands and whose entry it holds. `InboxInv` says so in five parts:
  the loop's place and the status of its entry agree; no other entry is running or
  sending unless the process is down; a piece of work is journalled once; what was done
  agrees with status and place; nothing is done for what is not journalled. The
  settling in the constructor restores the second part from the other ones.

  The two refinements are theorems as well. `KeepsPromise`: under the mapping that
  reads a message's fate off the status of its entry, every step of the bridge is, for at
  most one message, a step of `ReplyOnce`. `FateRecorded` shows the mapping well defined
  (a message has one entry); the settling of a restart closes one message at most, because
  by `ArrivalOrder` one entry at most was in hand. `FillsIntake`: the journal's `Accept`
  is `Intake!Take` and has its room, since open messages are no more than open entries
  (`OpenBound`); every other step finishes work or does not show. So `PassedMeansTaken`, proved of the pass over any `Intake`,
  holds over the inbox there really is.
* **`CodexInboxProofs`**: `TypeOK`, and `PassedMeansTaken` if no two messages of a
  channel share a timestamp. `IntakeInv` carries it: a page is an initial part of what
  lies behind the checkpoint, so that its last row can become the checkpoint once all
  its rows were accepted. The hypothesis `~Ties` is needed, as `inbox_ties` shows.
* **`DshInboundProofs`**: `TypeOK`, `QueueIsClaimed`, `OneLandingPerClaim`,
  `NothingStranded`, for `MaxPending <= MaxSeen`: the queue is the youngest part of the
  claims, so that evicting the oldest claim never forgets a queued wake. The constants
  of the code, 100 and 200, satisfy it.
* **`OpenClawGatewayProofs`**: `TypeOK`, `OneClient`, `Subscribed`. `GatewayInv` has two
  parts, for every start: `ClientInv` ties the client's flags to how far its start is;
  `AccountInv` says whose the entries of the account are: a start under way that was
  neither stopped nor robbed has them, and whatever else is under way then began before
  it. Who is robbed is known from `older`, which a start fills when it begins.
* **`McpSlotProofs`**: `TypeOK`, `ConnectionKept`, `ToldOnce` and the action property
  `BackfillSkipsNothing`, also for overlapping backfills, which are too many states for
  TLC. `SlotInv`: the rows of a backfill have no gap (`RowsInOrder`); a cursor is not
  behind what was delivered, what a backfill started from, or the file
  (`CursorAhead`); a message told as often as the losses allow cannot come again,
  neither on the wire nor in a page (`NotAgain`).

* **`SessionRoutingProofs`**: for any number of processes, sessions, profiles and agents
  `TypeOK`, `LockIsServed`, `CallKeepsIdentity`, `NoWriteUnderAlarm`. The operators of the
  module take and return a *world* (what a process sees of files and slots), so each
  has one lemma that says what it does to a sound one (`ActivateSound`, `RoutedSound`,
  `DisconnectSound`, ...), and another that it takes no lock from another process
  (`Spares`); `RoutingInv` = types, every process finds a sound world (its locks are
  served, a profile has one slot), a process has one call at most. `CallsKeep` adds
  what a waiting call keeps: its agent and, of a write, that there was no gate.
  `CallActsForItsSession` needs `FitInv`: a profile is bound to one session and a slot
  with a session is of the profile bound to it. This holds where `Procs` has one member,
  and the theorem says so as a hypothesis: with two, TLC has the counterexample in 5.
* **`ConnectorProofs`**: `TypeOK`, `FrontedIsCurrent`, `DeliveredOnce`, `HandedOnce`.
  `FrontedIsCurrent` is inductive with the types. `QueueInv`: what has reached a gateway
  had its key reserved, at the place that was noted for it, what waits for its context
  has and has not been delivered, and the jobs of a queue are of its channel. `HubInv`: every
  message handed over had its key recorded at its place, for every set of overlapping
  backfills. Both rest on `Spaced`: in a `MessageDedup` two places of one key are further
  apart than its window, because it always keeps that many of the newest. A batch
  that a backfill brings is folded one message at a time by the recursive function
  `IngestAll`, by induction on its length.
* **`PartsProofs`**: all eight properties of the parts. As one part moves in a behaviour,
  and none reads another's variables, each has its own inductive invariant:
  - `GuiInv` (`SentOnce`): of a letter there is one copy, flying or accepted, and none
    before its status has left *pending*; after that no dispatch sends.
  - `ManagerInv` (`OneWorker`): the lock names the pid of its owner, a process that still
    has a supervisor is the child its worker names, and a supervisor that is gone has none.
  - `WakeInv` (`TurnsInOrder`): the turns begun are the first of those queued, all but
    the newest of them over; each turn waits for the one before it, unless that was over
    when it was queued; the table names the newest until it is over.
  - `MirrorInv` (`CacheHonest`): what was listed is not newer than the text that came
    after it, and outside a clash one process is between its two writes.
  - `ToolInv` (`ToldTruth`): what is left of a call's script fits what it has done, so that
    what is told at its end agrees with what was answered; what the hub does later changes
    only the fate of requests that nobody waits for, of which nothing was claimed.
  - `AppInv` (`OwnAnswer`): each line on the pipe and each early notice says what its turn
    said, an ended turn is followed by none of its lines, the pending answer names the
    request's own turn, and what this turn has said was heard, is early, or is on the pipe.
    Replaying the early notices is a recursive function, handled by induction over a set of
    numbers (`FromZero`).
  - `OnceInv` (`WakesPrinted`): whatever the cursors and the seen ids have passed was
    printed, was given up by a named loss, or is in a wake on its way; a page was asked for
    from the cursor or from before it. That the newest of a set of posts exists and bounds
    it (`NewestIs`) is by well-founded induction. The proof needs that `None` is no number,
    which `OnceAssumption` says.
  - `PartTypes` follows from these with four more: `HeldTyped`, `WakeBounds` (no wake waits
    for itself: the table never names a wake that is only handled), `NotAhead` and
    `MuseTypes`.

Each proof has one lemma or step per action and one case per conjunct it can disturb.

**Assumed.** Only the named assumption of each module: bounds are numbers, `None` is no
member of the sets it is added to, what is configured is among what there is. TLC
evaluates all of them in the runs.

**Only model-checked.** Liveness (`AcceptedSettles`, `Recovered`, `Served`,
`Reconnects`, `StopCompletes`, `DeadIsReplaced`, `Online`, `Drains`, `Joined`): fairness
and ENABLED are beyond the prover. No invariant and no action property of a passing run
is without its theorem. The four runs of 5 refute what a comment says, so there is nothing
to prove; the theorems nearest to them (`PassedMeansTaken` under `~Ties`,
`BackfillSkipsNothing`) say under which condition it would hold.

## 7. What is not modelled

* Components without a module: the configuration of the Codex bridge; backoff and timestamp
  helpers and the text helpers (formatting, redaction, mention parsing), which are pure
  functions of their input; the two SDKs, each a wrapper of one socket that does not
  reconnect, for programs of others; the DSH browser client, its patcher and identity
  chip; scripts, manifests and bundles.
* In modelled components: two one-shot listeners at a time, an MCP server that writes the
  cursor file of one, and the length of idle times;
  channel threads and their bootstrap in the Codex bridge;
  acknowledgement and typing timers of the transport; diagnosis fields; the
  supervision of the wake daemon; the inbound policy and reply pipeline of OpenClaw, and
  the status it shows to its host;
  in `McpSlot` the eviction of old ids and quiet messages; how a host and its open
  conversations are found (`session-bind.ts` from line 350); what a tool writes beyond
  its requests (`ToolCalls` has the requests, their order and what the agent is told);
  backoff delays everywhere (a timer may fire at any time); the redirect address of
  `shard_moved`, which the code only logs.
* Compositions: in one behaviour `SessionRouting` has one living process at a time in
  its run (the module allows several, see 5), and of the connector's halves and of the
  parts one moves. `McpSlot` and `SessionRouting` are two views of the MCP server: the
  first has one slot and no sessions, the second many slots and no sockets.
