----------------------------- MODULE BotManager -----------------------------
(***************************************************************************)
(* The supervisor of the Codex bots (mcp-plugin/codex/manager.ts): a tick    *)
(* reads the registry, stops the workers whose entry changed and starts the   *)
(* missing ones; a stop waits for the exit of the process.  Workers fail and  *)
(* are retried, signals and crashes of the supervisor come at any time, and   *)
(* a worker ends itself when its supervisor is gone (codex/run.ts).          *)
(***************************************************************************)
EXTENDS Naturals, FiniteSets

CONSTANTS Bots, Entries, Pids, None

ManagerAssumption == None \notin Entries \cup Bots /\ 0 \notin Pids

VARIABLES boss,       \* the supervisor: where its tick is, stopping, missing
          entries,    \* the registry file; None where a bot has no entry
          valid,      \* the registry file parses
          worker,     \* workers: entry, child and whether the backoff is over
          kids,       \* worker processes that run
          botLock     \* bridge.lock of each bot: a pid, or 0

manager == <<boss, entries, valid, worker, kids, botLock>>

NoWorker == [entry |-> None, child |-> 0, due |-> FALSE]
Off == [at |-> "off", stopping |-> FALSE, missing |-> 0, todo |-> {}, waits |-> None,
        read |-> [b \in Bots |-> None]]
\* A process: its bot, whether it owns bridge.lock, was told to stop, lost its parent.
Kid == [pid : Pids, bot : Bots, owner : BOOLEAN, told : BOOLEAN, orphan : BOOLEAN]
Lives(pid) == \E k \in kids : k.pid = pid
Told(pids) == {[k EXCEPT !.told = @ \/ k.pid \in pids] : k \in kids}

-----------------------------------------------------------------------------
(* The supervisor.                                                         *)

\* main: the lock of a dead supervisor is removed; a living one would be found.
Boot ==
  /\ boss.at \in {"off", "gone"} /\ boss' = [Off EXCEPT !.at = "idle"]
  /\ UNCHANGED <<entries, valid, worker, kids, botLock>>

Changed(b) == worker[b].entry # None /\ worker[b].entry # entries[b]

\* tick: an invalid registry keeps the last one.
Tick ==
  /\ boss.at = "idle" /\ ~boss.stopping
  /\ boss' = IF valid THEN [boss EXCEPT !.at = "config", !.read = entries,
                                        !.todo = {b \in Bots : Changed(b)}]
             ELSE [boss EXCEPT !.at = "detect"]
  /\ UNCHANGED <<entries, valid, worker, kids, botLock>>

\* stop: SIGTERM, and the exit is awaited; SIGKILL follows after 20 s.
Stop(b) ==
  /\ boss.at \in {"config", "sweep"} /\ boss.waits = None /\ b \in boss.todo
  /\ ~(boss.at = "sweep" /\ boss.stopping)
  /\ boss' = [boss EXCEPT !.waits = b]
  /\ kids' = Told({worker[b].child})
  /\ UNCHANGED <<entries, valid, worker, botLock>>
\* Mutation of Exited: the stop does not wait.
ExitedNow(b) == TRUE
\* A child that is not there any more has exited.
Exited(b) == worker[b].child = 0
Stopped ==
  /\ boss.waits # None /\ Exited(boss.waits)
  /\ boss' = [boss EXCEPT !.waits = None, !.todo = @ \ {boss.waits}]
  /\ worker' = [worker EXCEPT ![boss.waits] = IF boss.at = "config" THEN NoWorker
                                              ELSE [@ EXCEPT !.child = 0]]
  /\ UNCHANGED <<entries, valid, kids, botLock>>

\* New entries become workers; a shutdown ends the tick.
Configured ==
  /\ boss.at = "config" /\ boss.todo = {} /\ boss.waits = None
  /\ worker' = [b \in Bots |-> IF worker[b].entry = None /\ boss.read[b] # None
                               THEN [entry |-> boss.read[b], child |-> 0, due |-> TRUE]
                               ELSE worker[b]]
  /\ boss' = [boss EXCEPT !.at = IF boss.stopping THEN "idle" ELSE "detect"]
  /\ UNCHANGED <<entries, valid, kids, botLock>>

\* start: the dead owner's lock is removed and a process spawned, for each worker
\* without one whose backoff is over.
Startable == {b \in Bots : worker[b].entry # None /\ worker[b].child = 0 /\ worker[b].due}
Present ==
  /\ boss.at = "detect"
  /\ boss' = [boss EXCEPT !.at = "idle", !.missing = 0]
  /\ IF boss.stopping THEN UNCHANGED <<worker, kids, botLock>>
     ELSE \E pid \in [Startable -> {p \in Pids : ~Lives(p)}] :
            /\ \A a, b \in Startable : pid[a] = pid[b] => a = b
            /\ worker' = [b \in Bots |-> IF b \in Startable
                                         THEN [worker[b] EXCEPT !.child = pid[b]] ELSE worker[b]]
            /\ kids' = kids \cup {[pid |-> pid[b], bot |-> b, owner |-> FALSE, told |-> FALSE,
                                   orphan |-> FALSE] : b \in Startable}
            /\ botLock' = [b \in Bots |-> IF b \in Startable /\ ~Lives(botLock[b]) THEN 0
                                          ELSE botLock[b]]
  /\ UNCHANGED <<entries, valid>>

\* --watch-codex: without Codex twice, every worker is stopped; a failed ps ends the tick.
Absent ==
  /\ boss.at = "detect"
  /\ boss' = [boss EXCEPT !.missing = IF @ < 2 THEN @ + 1 ELSE @, !.at = "sweep",
                          !.todo = IF boss.missing >= 1
                                   THEN {b \in Bots : worker[b].child # 0} ELSE {}]
  /\ UNCHANGED <<entries, valid, worker, kids, botLock>>
Unknown ==
  /\ boss.at = "detect" /\ boss' = [boss EXCEPT !.at = "idle"]
  /\ UNCHANGED <<entries, valid, worker, kids, botLock>>
Swept ==
  /\ boss.at = "sweep" /\ boss.waits = None /\ (boss.todo = {} \/ boss.stopping)
  /\ boss' = [boss EXCEPT !.at = "idle", !.todo = {}]
  /\ UNCHANGED <<entries, valid, worker, kids, botLock>>

\* shutdown: the running tick is awaited, then every worker is stopped.
Signal ==
  /\ boss.at \in {"idle", "config", "detect", "sweep"} /\ ~boss.stopping
  /\ boss' = [boss EXCEPT !.stopping = TRUE]
  /\ UNCHANGED <<entries, valid, worker, kids, botLock>>
ShutDown ==
  /\ boss.at = "idle" /\ boss.stopping
  /\ boss' = [boss EXCEPT !.at = "down"]
  /\ kids' = Told({worker[b].child : b \in Bots})
  /\ UNCHANGED <<entries, valid, worker, botLock>>
Gone ==
  /\ boss.at = "down" /\ \A b \in Bots : Exited(b)
  /\ boss' = [Off EXCEPT !.at = "gone"] /\ worker' = [b \in Bots |-> NoWorker]
  /\ UNCHANGED <<entries, valid, kids, botLock>>

\* A crash of the supervisor: its workers lose the channel to it.
Crash ==
  /\ boss.at \notin {"off", "gone"}
  /\ boss' = Off /\ worker' = [b \in Bots |-> NoWorker]
  /\ kids' = {[k EXCEPT !.orphan = TRUE] : k \in kids}
  /\ UNCHANGED <<entries, valid, botLock>>

\* The backoff of a worker that failed is over.
Due(b) ==
  /\ worker[b].entry # None /\ worker[b].child = 0 /\ ~worker[b].due
  /\ worker' = [worker EXCEPT ![b].due = TRUE]
  /\ UNCHANGED <<boss, entries, valid, kids, botLock>>

-----------------------------------------------------------------------------
(* The worker processes, and the operator.                                 *)

\* A worker takes bridge.lock, of nobody that lives; it looks for its supervisor later,
\* and a signal before this ends it.
Takes(k) ==
  /\ ~k.owner /\ ~k.told /\ ~Lives(botLock[k.bot])
  /\ kids' = (kids \ {k}) \cup {[k EXCEPT !.owner = TRUE]}
  /\ botLock' = [botLock EXCEPT ![k.bot] = k.pid]
  /\ UNCHANGED <<boss, entries, valid, worker>>

\* A process ends: told to, without its supervisor, refused by the lock, or crashed; only
\* an orderly end removes its lock.  failed: its supervisor arms the backoff.
Ends(k, orderly) ==
  /\ kids' = kids \ {k}
  /\ botLock' = IF orderly /\ k.owner THEN [botLock EXCEPT ![k.bot] = 0] ELSE botLock
  /\ worker' = IF worker[k.bot].child = k.pid
               THEN [worker EXCEPT ![k.bot].child = 0, ![k.bot].due = FALSE] ELSE worker
  /\ UNCHANGED <<boss, entries, valid>>

\* The operator edits the registry.
Edit(b, e) ==
  /\ entries' = [entries EXCEPT ![b] = e]
  /\ UNCHANGED <<boss, valid, worker, kids, botLock>>
Spoil ==
  /\ valid' = ~valid
  /\ UNCHANGED <<boss, entries, worker, kids, botLock>>

Init ==
  /\ boss = Off /\ entries \in [Bots -> Entries \cup {None}] /\ valid = TRUE
  /\ worker = [b \in Bots |-> NoWorker] /\ kids = {} /\ botLock = [b \in Bots |-> 0]

Next ==
  \/ Boot \/ Tick \/ Stopped \/ Configured \/ Present \/ Absent \/ Unknown \/ Swept
  \/ Signal \/ ShutDown \/ Gone \/ Crash \/ Spoil
  \/ \E b \in Bots : Stop(b) \/ Due(b) \/ \E e \in Entries \cup {None} : Edit(b, e)
  \/ \E k \in kids : Takes(k) \/ \E orderly \in BOOLEAN : Ends(k, orderly)
=============================================================================
