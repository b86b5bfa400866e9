---------------------------- MODULE PartsProofs ----------------------------
(***************************************************************************)
(* Proofs about the parts that stand by themselves: the outbox of the Codex  *)
(* desktop, the supervisor of the Codex bots, the turns of a ZCode session,   *)
(* the mirror of shared documents, the tool calls of the MCP server, the      *)
(* client of the Codex app-server and the one-shot commands.  A step of one    *)
(* part leaves the others, so the invariant of each is inductive by itself;    *)
(* the types of all parts follow from them at the end.                       *)
(***************************************************************************)
EXTENDS PartsProps, FiniteSetTheorems, NaturalsInduction, SequenceTheorems,
        WellFoundedInduction, TLAPS

\* A set that has no two different members has at most one.
LEMMA AtMostOne ==
  ASSUME NEW S, \A x, y \in S : x = y
  PROVE  Cardinality(S) <= 1
<1>1. CASE S = {}
  BY <1>1, FS_EmptySet
<1>2. CASE S # {}
  <2>1. PICK x : x \in S
    BY <1>2
  <2>2. S = {x}
    BY <2>1
  <2>3. QED
    BY <2>2, FS_Singleton
<1>3. QED
  BY <1>1, <1>2

-----------------------------------------------------------------------------
(* The outbox of the Codex desktop (gui-channel.ts).                      *)

\* Of each prompt of the Codex desktop's outbox: the counts are counts.
GuiTypes ==
  /\ letter \in [Letters -> G!Status \cup {None}]
  /\ flying \in [Letters -> Nat] /\ accepted \in [Letters -> Nat]

\* One copy of it is ever made, none before it has left "pending", and a read of the
\* thread that finds it tells the truth.
OneCopy ==
  \A id \in Letters :
    /\ flying[id] + accepted[id] <= 1
    /\ letter[id] \in {None, "pending"} => flying[id] = 0 /\ accepted[id] = 0
    /\ letter[id] = "delivered" => accepted[id] = 1

GuiInv == GuiTypes /\ OneCopy

LEMMA GuiStep ==
  ASSUME PartsAssumption, GuiInv, G!Next
  PROVE  GuiInv'
<1> USE DEF GuiInv, GuiTypes
<1>a. None \notin {"pending", "sending", "submitted", "delivered", "uncertain"}
  BY DEF PartsAssumption, G!GuiAssumption, G!Status
<1>b. {"pending", "sending", "submitted", "delivered", "uncertain"} = G!Status
  BY DEF G!Status
<1>c. ASSUME NEW s \in G!Status, NEW id, s \notin {None, "pending", "delivered"},
             letter' = [letter EXCEPT ![id] = s], UNCHANGED <<flying, accepted>>
      PROVE  GuiInv'
  BY <1>c DEF OneCopy
<1>1. ASSUME NEW id \in Letters, G!Enqueue(id) PROVE GuiInv'
  BY <1>1, <1>a, <1>b DEF G!Enqueue, OneCopy
<1>2. ASSUME NEW id \in Letters, G!Accepts(id) PROVE GuiInv'
  BY <1>2 DEF G!Accepts, OneCopy
<1>3. ASSUME NEW h \in Hosts, NEW id \in Letters, G!Dispatch(h, id) PROVE GuiInv'
  <2>1. CASE letter[id] = "pending"
    BY <1>3, <1>a, <1>b, <2>1 DEF G!Dispatch, OneCopy
  <2>2. CASE letter[id] # "pending"
    BY <1>3, <1>a, <1>b, <2>2 DEF G!Dispatch, OneCopy
  <2>3. QED
    BY <2>1, <2>2
<1>4. ASSUME NEW h \in Hosts, NEW receipt \in BOOLEAN, G!Sent(h, receipt) PROVE GuiInv'
  BY <1>4, <1>a, <1>b DEF G!Sent, G!AfterError, OneCopy
<1>5. ASSUME NEW h \in Hosts, G!Found(h) PROVE GuiInv'
  <2> DEFINE id == host[h].id
  <2>1. letter' = [letter EXCEPT ![id] = "delivered"] /\ UNCHANGED <<flying, accepted>>
    BY <1>5 DEF G!Found
  <2>2. id \in Letters => accepted[id] = 1
    <3>1. accepted[id] > 0
      BY <1>5 DEF G!Found
    <3> HIDE DEF id
    <3>2. QED
      BY <3>1 DEF OneCopy
  <2> HIDE DEF id
  <2>3. GuiTypes'
    BY <2>1, <1>b
  <2>4. OneCopy'
    BY <2>1, <2>2, <1>a DEF OneCopy
  <2>5. QED
    BY <2>3, <2>4
<1>6. CASE UNCHANGED <<letter, flying, accepted>>
  BY <1>6 DEF OneCopy
<1>7. QED
  BY <1>1, <1>2, <1>3, <1>4, <1>5, <1>6
     DEF G!Next, G!LockRemoved, G!SaveFails, G!NextPage, G!NotFound, G!Dies

LEMMA GuiInvHolds == PartSpec => []GuiInv
<1>1. PartInit => GuiInv
  BY PartsAssumption DEF PartsAssumption, G!GuiAssumption, PartInit, G!Init, GuiInv, GuiTypes, OneCopy, G!Status
<1>2. GuiInv /\ [PartNext]_all => GuiInv'
  <2> SUFFICES ASSUME GuiInv, [PartNext]_all PROVE GuiInv'
    OBVIOUS
  <2>1. CASE Gui(G!Next)
    BY <2>1, PartsAssumption, GuiStep DEF Gui
  <2>2. CASE UNCHANGED gui
    BY <2>2 DEF gui, GuiInv, GuiTypes, OneCopy
  <2>3. QED
    BY <2>1, <2>2 DEF PartNext, App, Manager, Wake, Muse, Documents, Tools, Once, all
<1>3. QED
  BY <1>1, <1>2, PTL DEF PartSpec

\* The desktop takes a prompt once: no dispatch, retry, crash or late acceptance makes a
\* second copy, and "delivered" is only ever written of an accepted one.
THEOREM SentOnceHolds == PartSpec => []SentOnce
<1>1. GuiInv => SentOnce
  BY DEF GuiInv, GuiTypes, OneCopy, SentOnce
<1>2. QED
  BY <1>1, GuiInvHolds, PTL

-----------------------------------------------------------------------------
(* The supervisor of the Codex bots (manager.ts).                         *)

WorkerType == [entry : Entries \cup {None}, child : Pids \cup {0}, due : BOOLEAN]
\* The supervisor, its registry, its workers and their processes keep their types.
ManagerTypes ==
  /\ boss \in [at : {"off", "idle", "config", "detect", "sweep", "down", "gone"},
               stopping : BOOLEAN, missing : Nat, todo : SUBSET Bots, waits : Bots \cup {None},
               read : [Bots -> Entries \cup {None}]]
  /\ entries \in [Bots -> Entries \cup {None}]
  /\ worker \in [Bots -> WorkerType]
  /\ kids \subseteq B!Kid
  /\ botLock \in [Bots -> Pids \cup {0}]

\* A process id is one process; a process that owns the lock of its bot is named by it.
LockNamesOwner ==
  /\ \A j, k \in kids : j.pid = k.pid => j = k
  /\ \A k \in kids : k.owner => botLock[k.bot] = k.pid

\* A process whose supervisor lives is the child of its bot's worker; where there is no
\* worker there is no child, and a supervisor that has ended has none.
ChildOfWorker ==
  /\ \A k \in kids : ~k.orphan => worker[k.bot].child = k.pid
  /\ \A b \in Bots : worker[b].entry = None \/ boss.at = "gone" => worker[b].child = 0
  /\ boss.at = "gone" => boss.waits = None

ManagerInv == ManagerTypes /\ LockNamesOwner /\ ChildOfWorker

\* Being told to stop, losing its supervisor or taking the lock changes nothing else
\* of a process.
Tell(k, S) == [k EXCEPT !.told = @ \/ k.pid \in S]
Orphan(k) == [k EXCEPT !.orphan = TRUE]
Owner(k) == [k EXCEPT !.owner = TRUE]

LEMMA ToldFacts ==
  ASSUME NEW k \in B!Kid, NEW S
  PROVE  /\ Tell(k, S) \in B!Kid
         /\ Tell(k, S).pid = k.pid /\ Tell(k, S).bot = k.bot
         /\ Tell(k, S).owner = k.owner /\ Tell(k, S).orphan = k.orphan
<1>1. \A v \in BOOLEAN : [k EXCEPT !.told = v] \in B!Kid
  BY DEF B!Kid
<1>2. QED
  BY <1>1 DEF B!Kid, Tell

LEMMA OrphanFacts ==
  ASSUME NEW k \in B!Kid
  PROVE  /\ Orphan(k) \in B!Kid
         /\ Orphan(k).pid = k.pid /\ Orphan(k).bot = k.bot
         /\ Orphan(k).owner = k.owner /\ Orphan(k).orphan
  BY DEF B!Kid, Orphan

LEMMA OwnerFacts ==
  ASSUME NEW k \in B!Kid
  PROVE  /\ Owner(k) \in B!Kid
         /\ Owner(k).pid = k.pid /\ Owner(k).bot = k.bot
         /\ Owner(k).owner /\ Owner(k).orphan = k.orphan
  BY DEF B!Kid, Owner

\* A change of one field of a worker.
LEMMA WorkerFacts ==
  ASSUME NEW w \in WorkerType
  PROVE  /\ [w EXCEPT !.due = TRUE] \in WorkerType
         /\ [w EXCEPT !.due = TRUE].child = w.child /\ [w EXCEPT !.due = TRUE].entry = w.entry
         /\ [w EXCEPT !.child = 0] \in WorkerType
         /\ [w EXCEPT !.child = 0].child = 0
         /\ [w EXCEPT !.child = 0, !.due = FALSE] \in WorkerType
         /\ [w EXCEPT !.child = 0, !.due = FALSE].child = 0
  BY DEF WorkerType

LEMMA ManagerTypeStep ==
  ASSUME PartsAssumption, ManagerTypes, B!Next
  PROVE  ManagerTypes'
<1> USE DEF ManagerTypes
<1>a. \A k \in kids : k \in B!Kid
  OBVIOUS
<1>1. CASE B!Boot
  BY <1>1 DEF B!Boot, B!Off
<1>2. CASE B!Tick
  BY <1>2 DEF B!Tick
<1>3. CASE B!Stopped
  BY <1>3 DEF B!Stopped, B!NoWorker, WorkerType
<1>4. CASE B!Configured
  BY <1>4 DEF B!Configured, WorkerType
<1>5. CASE B!Present
  <2>1. boss' \in [at : {"off", "idle", "config", "detect", "sweep", "down", "gone"},
                   stopping : BOOLEAN, missing : Nat, todo : SUBSET Bots,
                   waits : Bots \cup {None}, read : [Bots -> Entries \cup {None}]]
    BY <1>5 DEF B!Present
  <2>2. CASE UNCHANGED <<worker, kids, botLock>>
    BY <1>5, <2>1, <2>2 DEF B!Present
  <2>3. CASE ~boss.stopping
    <3>1. PICK pid \in [B!Startable -> {p \in Pids : ~B!Lives(p)}] :
            /\ worker' = [b \in Bots |-> IF b \in B!Startable
                                         THEN [worker[b] EXCEPT !.child = pid[b]] ELSE worker[b]]
            /\ kids' = kids \cup {[pid |-> pid[b], bot |-> b, owner |-> FALSE, told |-> FALSE,
                                   orphan |-> FALSE] : b \in B!Startable}
            /\ botLock' = [b \in Bots |-> IF b \in B!Startable /\ ~B!Lives(botLock[b]) THEN 0
                                          ELSE botLock[b]]
      BY <1>5, <2>3 DEF B!Present
    <3>2. B!Startable \subseteq Bots /\ \A b \in B!Startable : pid[b] \in Pids
      BY DEF B!Startable
    <3> DEFINE Born(b) == [pid |-> pid[b], bot |-> b, owner |-> FALSE, told |-> FALSE, orphan |-> FALSE]
    <3>b. \A b \in B!Startable : Born(b) \in B!Kid
      BY <3>2 DEF B!Kid
    <3>c. kids' = kids \cup {Born(b) : b \in B!Startable}
      BY <3>1
    <3> HIDE DEF Born
    <3>3. kids' \subseteq B!Kid
      BY <3>b, <3>c
    <3>4. worker' \in [Bots -> WorkerType]
      BY <3>1, <3>2 DEF WorkerType
    <3>5. botLock' \in [Bots -> Pids \cup {0}]
      BY <3>1
    <3>6. QED
      BY <1>5, <2>1, <3>3, <3>4, <3>5 DEF B!Present
  <2>4. QED
    BY <1>5, <2>2, <2>3 DEF B!Present
<1>6. CASE B!Absent
  <2> DEFINE n == IF boss.missing < 2 THEN boss.missing + 1 ELSE boss.missing
             S == IF boss.missing >= 1 THEN {b \in Bots : worker[b].child # 0} ELSE {}
  <2>1. boss' = [boss EXCEPT !.missing = n, !.at = "sweep", !.todo = S]
    BY <1>6 DEF B!Absent
  <2>2. n \in Nat /\ S \in SUBSET Bots
    OBVIOUS
  <2> HIDE DEF n, S
  <2>3. QED
    BY <1>6, <2>1, <2>2 DEF B!Absent
<1>7. CASE B!Unknown
  BY <1>7 DEF B!Unknown
<1>8. CASE B!Swept
  BY <1>8 DEF B!Swept
<1>9. CASE B!Signal
  BY <1>9 DEF B!Signal
<1>10. CASE B!ShutDown
  <2> DEFINE S == {worker[b].child : b \in Bots}
  <2>1. kids' = {Tell(k, S) : k \in kids}
    BY <1>10 DEF B!ShutDown, B!Told, Tell
  <2> HIDE DEF S
  <2>2. kids' \subseteq B!Kid
    BY <1>a, <2>1, ToldFacts
  <2>3. QED
    BY <1>10, <2>2 DEF B!ShutDown
<1>11. CASE B!Gone
  BY <1>11 DEF B!Gone, B!Off, B!NoWorker, WorkerType
<1>12. CASE B!Crash
  <2>1. kids' \subseteq B!Kid
    <3>1. kids' = {Orphan(k) : k \in kids}
      BY <1>12 DEF B!Crash, Orphan
    <3>2. QED
      BY <1>a, <3>1, OrphanFacts
  <2>2. boss' = B!Off /\ worker' = [b \in Bots |-> B!NoWorker] /\ UNCHANGED <<entries, botLock>>
    BY <1>12 DEF B!Crash
  <2>3. QED
    BY <2>1, <2>2 DEF B!Off, B!NoWorker, WorkerType
<1>13. CASE B!Spoil
  BY <1>13 DEF B!Spoil
<1>14. ASSUME NEW b \in Bots, B!Stop(b) PROVE ManagerTypes'
  <2>1. kids' \subseteq B!Kid
    <3>1. kids' = {Tell(k, {worker[b].child}) : k \in kids}
      BY <1>14 DEF B!Stop, B!Told, Tell
    <3>2. QED
      BY <1>a, <3>1, ToldFacts
  <2>2. boss' = [boss EXCEPT !.waits = b] /\ UNCHANGED <<entries, worker, botLock>>
    BY <1>14 DEF B!Stop
  <2>3. QED
    BY <2>1, <2>2
<1>15. ASSUME NEW b \in Bots, B!Due(b) PROVE ManagerTypes'
  <2>1. worker' = [worker EXCEPT ![b] = [@ EXCEPT !.due = TRUE]]
    BY <1>15 DEF B!Due
  <2>2. [worker[b] EXCEPT !.due = TRUE] \in WorkerType
    BY WorkerFacts
  <2>3. QED
    BY <1>15, <2>1, <2>2 DEF B!Due
<1>16. ASSUME NEW b \in Bots, NEW e \in Entries \cup {None}, B!Edit(b, e) PROVE ManagerTypes'
  BY <1>16 DEF B!Edit
<1>17. ASSUME NEW k \in kids, B!Takes(k) PROVE ManagerTypes'
  <2>1. kids' = (kids \ {k}) \cup {Owner(k)}
    BY <1>17 DEF B!Takes, Owner
  <2>2. kids' \subseteq B!Kid /\ k.pid \in Pids
    BY <1>a, <2>1, OwnerFacts DEF B!Kid
  <2>3. QED
    BY <1>17, <2>2 DEF B!Takes
<1>18. ASSUME NEW k \in kids, NEW orderly \in BOOLEAN, B!Ends(k, orderly) PROVE ManagerTypes'
  BY <1>18, <1>a, WorkerFacts DEF B!Ends, B!Kid
<1>19. QED
  BY <1>1, <1>2, <1>3, <1>4, <1>5, <1>6, <1>7, <1>8, <1>9, <1>10, <1>11, <1>12, <1>13,
     <1>14, <1>15, <1>16, <1>17, <1>18 DEF B!Next

\* A step that tells processes to stop, or takes their supervisor from them, keeps
\* who owns which lock.
LEMMA RelabelledKids ==
  ASSUME ManagerTypes, LockNamesOwner, UNCHANGED botLock,
         \/ \E S : kids' = {Tell(k, S) : k \in kids}
         \/ kids' = {Orphan(k) : k \in kids}
         \/ UNCHANGED kids
  PROVE  LockNamesOwner'
<1>a. \A k \in kids : k \in B!Kid
  BY DEF ManagerTypes
<1>1. ASSUME NEW S, kids' = {Tell(k, S) : k \in kids} PROVE LockNamesOwner'
  <2>1. \A n \in kids' : \E k \in kids : n = Tell(k, S) /\ n.pid = k.pid /\ n.bot = k.bot /\ n.owner = k.owner
    BY <1>a, <1>1, ToldFacts
  <2>2. QED
    BY <2>1 DEF LockNamesOwner
<1>2. CASE kids' = {Orphan(k) : k \in kids}
  <2>1. \A n \in kids' : \E k \in kids : n = Orphan(k) /\ n.pid = k.pid /\ n.bot = k.bot /\ n.owner = k.owner
    BY <1>a, <1>2, OrphanFacts
  <2>2. QED
    BY <2>1 DEF LockNamesOwner
<1>3. CASE UNCHANGED kids
  BY <1>3 DEF LockNamesOwner
<1>4. QED
  BY <1>1, <1>2, <1>3

LEMMA ManagerLockStep ==
  ASSUME PartsAssumption, ManagerInv, B!Next
  PROVE  LockNamesOwner'
<1> USE DEF ManagerInv
<1>a. \A k \in kids : k \in B!Kid /\ k.pid \in Pids /\ k.bot \in Bots
  BY DEF ManagerTypes, B!Kid
<1>b. 0 \notin Pids
  BY DEF PartsAssumption, B!ManagerAssumption
<1>1. CASE B!Present
  <2>1. CASE boss.stopping
    BY <1>1, <2>1, RelabelledKids DEF B!Present
  <2>2. CASE ~boss.stopping
    <3>1. PICK pid \in [B!Startable -> {p \in Pids : ~B!Lives(p)}] :
            /\ \A a, b \in B!Startable : pid[a] = pid[b] => a = b
            /\ kids' = kids \cup {[pid |-> pid[b], bot |-> b, owner |-> FALSE, told |-> FALSE,
                                   orphan |-> FALSE] : b \in B!Startable}
            /\ botLock' = [b \in Bots |-> IF b \in B!Startable /\ ~B!Lives(botLock[b]) THEN 0
                                          ELSE botLock[b]]
      BY <1>1, <2>2 DEF B!Present
    <3>2. \A b \in B!Startable : pid[b] \in Pids /\ ~B!Lives(pid[b])
      BY DEF B!Startable
    <3> HIDE DEF B!Startable
    <3> DEFINE Born(b) == [pid |-> pid[b], bot |-> b, owner |-> FALSE, told |-> FALSE, orphan |-> FALSE]
    <3>3. kids' = kids \cup {Born(b) : b \in B!Startable}
      BY <3>1
    <3>4. \A b \in B!Startable : Born(b).pid = pid[b] /\ ~Born(b).owner
      OBVIOUS
    <3> HIDE DEF Born
    <3>5. \A j, k \in kids' : j.pid = k.pid => j = k
      BY <3>1, <3>2, <3>3, <3>4 DEF LockNamesOwner, B!Lives
    <3>6. ASSUME NEW k \in kids', k.owner PROVE botLock'[k.bot] = k.pid
      <4>1. k \in kids
        BY <3>3, <3>4, <3>6
      <4>2. botLock[k.bot] = k.pid /\ B!Lives(botLock[k.bot])
        BY <4>1, <3>6 DEF LockNamesOwner, B!Lives
      <4>3. QED
        BY <1>a, <3>1, <4>1, <4>2
    <3>7. QED
      BY <3>5, <3>6 DEF LockNamesOwner
  <2>3. QED
    BY <2>1, <2>2
<1>2. CASE B!ShutDown
  BY <1>2, RelabelledKids DEF B!ShutDown, B!Told, Tell
<1>3. CASE B!Crash
  BY <1>3, RelabelledKids DEF B!Crash, Orphan
<1>4. ASSUME NEW b \in Bots, B!Stop(b) PROVE LockNamesOwner'
  BY <1>4, RelabelledKids DEF B!Stop, B!Told, Tell
<1>5. ASSUME NEW k \in kids, B!Takes(k) PROVE LockNamesOwner'
  <2>1. kids' = (kids \ {k}) \cup {Owner(k)} /\ botLock' = [botLock EXCEPT ![k.bot] = k.pid]
    BY <1>5 DEF B!Takes, Owner
  <2>2. /\ Owner(k).pid = k.pid /\ Owner(k).bot = k.bot
        /\ botLock \in [Bots -> Pids \cup {0}]
    BY <1>a, OwnerFacts DEF ManagerTypes
  <2>3. \A j \in kids : j.bot = k.bot => ~j.owner
    BY <1>5 DEF B!Takes, B!Lives, LockNamesOwner
  <2>4. \A i, j \in kids' : i.pid = j.pid => i = j
    BY <2>1, <2>2 DEF LockNamesOwner
  <2>5. ASSUME NEW j \in kids', j.owner PROVE botLock'[j.bot] = j.pid
    BY <1>a, <2>1, <2>2, <2>3, <2>5 DEF LockNamesOwner
  <2>6. QED
    BY <2>4, <2>5 DEF LockNamesOwner
<1>6. ASSUME NEW k \in kids, NEW orderly \in BOOLEAN, B!Ends(k, orderly) PROVE LockNamesOwner'
  <2>1. /\ kids' = kids \ {k}
        /\ UNCHANGED botLock \/ (k.owner /\ botLock' = [botLock EXCEPT ![k.bot] = 0])
    BY <1>6 DEF B!Ends
  <2>2. botLock \in [Bots -> Pids \cup {0}]
    BY DEF ManagerTypes
  <2>3. ASSUME NEW j \in kids', j.owner PROVE botLock'[j.bot] = j.pid
    <3>1. j \in kids /\ j # k /\ botLock[j.bot] = j.pid
      BY <2>1, <2>3 DEF LockNamesOwner
    <3>2. k.owner => j.bot # k.bot
      BY <3>1 DEF LockNamesOwner
    <3>3. QED
      BY <1>a, <2>1, <2>2, <3>1, <3>2
  <2>4. QED
    BY <2>1, <2>3 DEF LockNamesOwner
<1>7. CASE UNCHANGED <<kids, botLock>>
  BY <1>7 DEF LockNamesOwner
<1>8. QED
  BY <1>1, <1>2, <1>3, <1>4, <1>5, <1>6, <1>7
     DEF B!Next, B!Boot, B!Tick, B!Stopped, B!Configured, B!Absent, B!Unknown, B!Swept,
         B!Signal, B!Gone, B!Spoil, B!Due, B!Edit

\* Steps that leave the workers and at most tell processes to stop.
LEMMA SameWorkers ==
  ASSUME ManagerTypes, ChildOfWorker, UNCHANGED worker,
         boss'.at = "gone" => boss.at = "gone" /\ UNCHANGED boss,
         UNCHANGED kids \/ \E S : kids' = {Tell(k, S) : k \in kids}
  PROVE  ChildOfWorker'
<1>1. \A k \in kids : k \in B!Kid
  BY DEF ManagerTypes
<1>2. ASSUME NEW S, kids' = {Tell(k, S) : k \in kids}
      PROVE  \A n \in kids' : \E k \in kids : n.pid = k.pid /\ n.bot = k.bot /\ n.orphan = k.orphan
  BY <1>1, <1>2, ToldFacts
<1>3. QED
  BY <1>2 DEF ChildOfWorker

LEMMA ManagerChildStep ==
  ASSUME PartsAssumption, ManagerInv, B!Next
  PROVE  ChildOfWorker'
<1> USE DEF ManagerInv
<1>a. \A k \in kids : k \in B!Kid /\ k.pid \in Pids /\ k.bot \in Bots
  BY DEF ManagerTypes, B!Kid
<1>b. 0 \notin Pids
  BY DEF PartsAssumption, B!ManagerAssumption
<1>c. worker \in [Bots -> WorkerType]
  BY DEF ManagerTypes
<1>1. CASE B!Boot \/ B!Tick \/ B!Absent \/ B!Unknown \/ B!Swept \/ B!Signal \/ B!Spoil
           \/ B!ShutDown
  <2>1. UNCHANGED worker /\ (UNCHANGED kids \/ \E S : kids' = {Tell(k, S) : k \in kids})
    BY <1>1 DEF B!Boot, B!Tick, B!Absent, B!Unknown, B!Swept, B!Signal, B!ShutDown, B!Spoil,
                B!Told, Tell
  <2>2. boss'.at = "gone" => boss.at = "gone" /\ UNCHANGED boss
    BY <1>1 DEF B!Boot, B!Tick, B!Absent, B!Unknown, B!Swept, B!Signal, B!ShutDown, B!Spoil,
                B!Off, ManagerTypes
  <2>3. QED
    BY <2>1, <2>2, SameWorkers
<1>2. ASSUME NEW b \in Bots, B!Stop(b) PROVE ChildOfWorker'
  <2>1. UNCHANGED worker /\ boss'.at = boss.at /\ boss.at # "gone"
    BY <1>2 DEF B!Stop, ManagerTypes
  <2>2. kids' = {Tell(k, {worker[b].child}) : k \in kids}
    BY <1>2 DEF B!Stop, B!Told, Tell
  <2>3. QED
    BY <2>1, <2>2, SameWorkers
<1>3. ASSUME NEW b \in Bots, NEW e \in Entries \cup {None}, B!Edit(b, e) PROVE ChildOfWorker'
  BY <1>3 DEF B!Edit, ChildOfWorker
<1>4. CASE B!Stopped
  <2> DEFINE b == boss.waits
  <2>1. /\ worker[b].child = 0 /\ UNCHANGED kids /\ boss'.at = boss.at /\ boss.at # "gone"
        /\ worker' = [worker EXCEPT ![b] = B!NoWorker]
           \/ worker' = [worker EXCEPT ![b] = [@ EXCEPT !.child = 0]]
    BY <1>4 DEF B!Stopped, B!Exited, ManagerTypes, ChildOfWorker
  <2> HIDE DEF b
  <2>2. B!NoWorker.child = 0
    BY DEF B!NoWorker
  <2>3. \A c \in Bots : worker'[c].child = worker[c].child
    <3>1. [worker[b] EXCEPT !.child = 0].child = 0 \/ b \notin Bots
      BY <1>c, WorkerFacts
    <3>2. b \in Bots => worker'[b].child = 0
      BY <1>c, <2>1, <2>2, <3>1
    <3>3. \A c \in Bots : c # b => worker'[c] = worker[c]
      BY <1>c, <2>1
    <3>4. QED
      BY <2>1, <3>2, <3>3
  <2>4. \A c \in Bots : worker'[c].entry = None => worker'[c].child = 0
    <3>1. b \in Bots => worker'[b].child = 0
      BY <2>1, <2>3
    <3>2. \A c \in Bots : c # b => worker'[c] = worker[c]
      BY <1>c, <2>1
    <3>3. QED
      BY <3>1, <3>2 DEF ChildOfWorker
  <2>5. QED
    BY <1>a, <2>1, <2>3, <2>4 DEF ChildOfWorker
<1>5. CASE B!Configured
  <2>1. /\ \A b \in Bots : worker'[b] = worker[b] \/ (worker[b].entry = None /\ worker'[b].child = 0)
        /\ UNCHANGED kids /\ boss'.at # "gone"
    BY <1>5 DEF B!Configured, ManagerTypes
  <2>2. \A b \in Bots : worker'[b].child = worker[b].child
    BY <2>1 DEF ChildOfWorker
  <2>3. QED
    BY <1>a, <2>1, <2>2 DEF ChildOfWorker
<1>6. CASE B!Present
  <2>0. boss'.at # "gone"
    BY <1>6 DEF B!Present, ManagerTypes
  <2>1. CASE boss.stopping
    BY <1>6, <2>0, <2>1 DEF B!Present, ChildOfWorker
  <2>2. CASE ~boss.stopping
    <3>1. PICK pid \in [B!Startable -> {p \in Pids : ~B!Lives(p)}] :
            /\ worker' = [b \in Bots |-> IF b \in B!Startable
                                         THEN [worker[b] EXCEPT !.child = pid[b]] ELSE worker[b]]
            /\ kids' = kids \cup {[pid |-> pid[b], bot |-> b, owner |-> FALSE, told |-> FALSE,
                                   orphan |-> FALSE] : b \in B!Startable}
      BY <1>6, <2>2 DEF B!Present
    <3>2. /\ \A b \in B!Startable : b \in Bots /\ worker[b].entry # None /\ worker[b].child = 0
      BY DEF B!Startable
    <3> HIDE DEF B!Startable
    <3>3. \A b \in Bots : IF b \in B!Startable THEN worker'[b].child = pid[b] /\ worker'[b].entry = worker[b].entry
                          ELSE worker'[b] = worker[b]
      BY <1>c, <3>1 DEF WorkerType
    <3> DEFINE Born(b) == [pid |-> pid[b], bot |-> b, owner |-> FALSE, told |-> FALSE, orphan |-> FALSE]
    <3>4. kids' = kids \cup {Born(b) : b \in B!Startable}
      BY <3>1
    <3>5. \A b \in B!Startable : Born(b).pid = pid[b] /\ Born(b).bot = b
      OBVIOUS
    <3> HIDE DEF Born
    <3>6. ASSUME NEW k \in kids', ~k.orphan PROVE worker'[k.bot].child = k.pid
      <4>1. CASE k \in kids
        <5>1. worker[k.bot].child = k.pid /\ k.pid # 0
          BY <1>a, <1>b, <3>6, <4>1 DEF ChildOfWorker
        <5>2. k.bot \notin B!Startable
          BY <3>2, <5>1
        <5>3. QED
          BY <1>a, <3>3, <4>1, <5>1, <5>2
      <4>2. CASE k \notin kids
        BY <3>2, <3>3, <3>4, <3>5, <4>2
      <4>3. QED
        BY <4>1, <4>2
    <3>7. \A b \in Bots : worker'[b].entry = None => worker'[b].child = 0
      BY <3>2, <3>3 DEF ChildOfWorker
    <3>8. QED
      BY <2>0, <3>6, <3>7 DEF ChildOfWorker
  <2>3. QED
    BY <2>1, <2>2
<1>7. CASE B!Gone
  <2>1. /\ \A b \in Bots : worker[b].child = 0 /\ worker'[b] = B!NoWorker
        /\ UNCHANGED kids /\ boss'.waits = None
    BY <1>7 DEF B!Gone, B!Exited, B!Off
  <2>2. \A k \in kids : k.orphan
    BY <1>a, <1>b, <2>1 DEF ChildOfWorker
  <2>3. QED
    BY <2>1, <2>2 DEF ChildOfWorker, B!NoWorker
<1>8. CASE B!Crash
  <2>1. \A k \in kids' : k.orphan
    BY <1>a, <1>8, OrphanFacts DEF B!Crash, Orphan
  <2>2. \A b \in Bots : worker'[b].child = 0
    BY <1>8 DEF B!Crash, B!NoWorker
  <2>3. boss'.waits = None
    BY <1>8 DEF B!Crash, B!Off
  <2>4. QED
    BY <2>1, <2>2, <2>3 DEF ChildOfWorker
<1>9. ASSUME NEW b \in Bots, B!Due(b) PROVE ChildOfWorker'
  <2>1. worker' = [worker EXCEPT ![b] = [@ EXCEPT !.due = TRUE]] /\ UNCHANGED <<kids, boss>>
    BY <1>9 DEF B!Due
  <2>2. \A c \in Bots : worker'[c].child = worker[c].child /\ worker'[c].entry = worker[c].entry
    BY <1>c, <2>1, WorkerFacts
  <2>3. QED
    BY <1>a, <2>1, <2>2 DEF ChildOfWorker
<1>10. ASSUME NEW k \in kids, B!Takes(k) PROVE ChildOfWorker'
  <2>1. kids' = (kids \ {k}) \cup {Owner(k)} /\ UNCHANGED <<worker, boss>>
    BY <1>10 DEF B!Takes, Owner
  <2>2. Owner(k).pid = k.pid /\ Owner(k).bot = k.bot /\ Owner(k).orphan = k.orphan
    BY <1>a, OwnerFacts
  <2>3. QED
    BY <2>1, <2>2 DEF ChildOfWorker
<1>11. ASSUME NEW k \in kids, NEW orderly \in BOOLEAN, B!Ends(k, orderly) PROVE ChildOfWorker'
  <2>1. /\ kids' = kids \ {k} /\ UNCHANGED boss
        /\ worker' = IF worker[k.bot].child = k.pid
                     THEN [worker EXCEPT ![k.bot] = [@ EXCEPT !.child = 0, !.due = FALSE]] ELSE worker
    BY <1>11 DEF B!Ends
  <2>2. \A b \in Bots : worker'[b] = worker[b] \/ (b = k.bot /\ worker[b].child = k.pid /\ worker'[b].child = 0)
    <3>1. [worker[k.bot] EXCEPT !.child = 0, !.due = FALSE].child = 0
      BY <1>a, <1>c, WorkerFacts
    <3>2. QED
      BY <1>a, <1>c, <2>1, <3>1
  <2>3. \A j \in kids' : j \in kids /\ j.pid # k.pid
    BY <2>1 DEF LockNamesOwner
  <2>4. QED
    BY <1>a, <2>1, <2>2, <2>3 DEF ChildOfWorker
<1>12. QED
  BY <1>1, <1>2, <1>3, <1>4, <1>5, <1>6, <1>7, <1>8, <1>9, <1>10, <1>11 DEF B!Next

LEMMA ManagerInvHolds == PartSpec => []ManagerInv
<1>1. PartInit => ManagerInv
  BY PartsAssumption DEF PartsAssumption, B!ManagerAssumption, PartInit, B!Init, B!Off,
     B!NoWorker, WorkerType, ManagerInv, ManagerTypes, LockNamesOwner, ChildOfWorker
<1>2. ManagerInv /\ [PartNext]_all => ManagerInv'
  <2> SUFFICES ASSUME ManagerInv, [PartNext]_all PROVE ManagerInv'
    OBVIOUS
  <2>1. CASE Manager(B!Next)
    <3>1. B!Next /\ ManagerTypes
      BY <2>1 DEF Manager, ManagerInv
    <3>2. QED
      BY <3>1, PartsAssumption, ManagerTypeStep, ManagerLockStep, ManagerChildStep DEF ManagerInv
  <2>2. CASE UNCHANGED manager
    BY <2>2 DEF manager, ManagerInv, ManagerTypes, LockNamesOwner, ChildOfWorker
  <2>3. QED
    BY <2>1, <2>2 DEF PartNext, App, Gui, Wake, Muse, Documents, Tools, Once, all
<1>3. QED
  BY <1>1, <1>2, PTL DEF PartSpec

\* A bot has one supervised worker and one owner of its lock, whatever the registry,
\* the signals and the crashes of the supervisor and of the workers are.
THEOREM OneWorkerHolds == PartSpec => []OneWorker
<1>1. ManagerInv => OneWorker
  <2> SUFFICES ASSUME ManagerInv, NEW b \in Bots
               PROVE  LET mine == {k \in kids : k.bot = b} IN
                        /\ Cardinality({k \in mine : ~k.orphan}) <= 1
                        /\ Cardinality({k \in mine : k.owner}) <= 1
                        /\ boss.at = "gone" => \A k \in mine : k.orphan
    BY DEF OneWorker
  <2> DEFINE mine == {k \in kids : k.bot = b}
  <2> USE DEF ManagerInv, LockNamesOwner, ChildOfWorker
  <2>1. \A j, k \in {k \in mine : ~k.orphan} : j = k
    OBVIOUS
  <2>2. \A j, k \in {k \in mine : k.owner} : j = k
    OBVIOUS
  <2>3. boss.at = "gone" => \A k \in mine : k.orphan
    <3>1. \A k \in kids : k.pid \in Pids /\ k.bot \in Bots
      BY DEF ManagerTypes, B!Kid
    <3>2. 0 \notin Pids
      BY PartsAssumption DEF PartsAssumption, B!ManagerAssumption
    <3>3. QED
      BY <3>1, <3>2
  <2>4. QED
    BY <2>1, <2>2, <2>3, AtMostOne
<1>2. QED
  BY <1>1, ManagerInvHolds, PTL

-----------------------------------------------------------------------------
(* The turns of a ZCode session (wake.ts).                                *)

WakeType == [at : {"handled", "resolve", "post", "queued", "running", "over"},
             session : Sessions \cup {None}, after : Nat, try : Nat]
\* The wakes, and the turns queued and begun of each session, keep their types.
WakeTypes ==
  /\ wakes \in Seq(WakeType) /\ tail \in [Sessions -> Nat]
  /\ fired \in [Sessions -> Seq(Nat)] /\ begun \in [Sessions -> Seq(Nat)]

\* The turns of a session are different wakes of it, and those begun are the first: all of
\* them but the newest are over, and the others wait.
InOrder(s) ==
  /\ Len(begun[s]) <= Len(fired[s])
  /\ \A i \in 1..Len(begun[s]) : begun[s][i] = fired[s][i]
  /\ \A i, j \in 1..Len(fired[s]) : fired[s][i] = fired[s][j] => i = j
  /\ \A i \in 1..Len(fired[s]) :
       LET w == fired[s][i] IN
       /\ w \in DOMAIN wakes /\ wakes[w].session = s
       /\ i < Len(begun[s]) => wakes[w].at = "over"
       /\ i = Len(begun[s]) => wakes[w].at \in {"running", "over"}
       /\ i > Len(begun[s]) => wakes[w].at = "queued"
QueueOrder == \A s \in Sessions : InOrder(s)

\* A turn waits for the one before it, unless that was over when it was queued; the
\* newest turn of a session is in the table until it is over.
BehindPrevious ==
  \A s \in Sessions :
    /\ \A i \in 2..Len(fired[s]) :
         wakes[fired[s][i]].after = fired[s][i - 1] \/ wakes[fired[s][i - 1]].at = "over"
    /\ Len(fired[s]) > 0 =>
         LET last == fired[s][Len(fired[s])] IN
         tail[s] = last \/ (tail[s] = 0 /\ wakes[last].at = "over")
    /\ Len(fired[s]) = 0 => tail[s] = 0

\* A wake that waits for its turn, or has it, is a turn of its session.
TurnsAreFired ==
  \A w \in DOMAIN wakes :
    wakes[w].at \in {"queued", "running"} =>
      /\ wakes[w].session \in Sessions
      /\ \E i \in 1..Len(fired[wakes[w].session]) : fired[wakes[w].session][i] = w

WakeInv == WakeTypes /\ QueueOrder /\ BehindPrevious /\ TurnsAreFired

\* A step of one wake changes no other.
LEMMA OneWake ==
  ASSUME wakes \in Seq(WakeType), NEW w \in DOMAIN wakes, NEW v \in WakeType,
         wakes' = [wakes EXCEPT ![w] = v]
  PROVE  /\ wakes' \in Seq(WakeType) /\ DOMAIN wakes' = DOMAIN wakes /\ wakes'[w] = v
         /\ \A u \in DOMAIN wakes : u # w => wakes'[u] = wakes[u]
OBVIOUS

\* Where a turn of a session may be, by its place in the queue.
LEMMA TurnFacts ==
  ASSUME WakeInv, NEW s \in Sessions
  PROVE  /\ fired[s] \in Seq(Nat) /\ begun[s] \in Seq(Nat) /\ tail[s] \in Nat
         /\ Len(fired[s]) \in Nat /\ Len(begun[s]) \in Nat /\ Len(begun[s]) <= Len(fired[s])
         /\ \A i \in 1..Len(fired[s]) :
              LET w == fired[s][i] IN
              /\ w \in DOMAIN wakes /\ w \in Nat \ {0} /\ wakes[w] \in WakeType
              /\ wakes[w].session = s /\ wakes[w].at \in {"queued", "running", "over"}
              /\ i < Len(begun[s]) => wakes[w].at = "over"
              /\ i = Len(begun[s]) => wakes[w].at \in {"running", "over"}
              /\ i > Len(begun[s]) => wakes[w].at = "queued"
<1>1. fired[s] \in Seq(Nat) /\ begun[s] \in Seq(Nat) /\ tail[s] \in Nat
      /\ Len(begun[s]) <= Len(fired[s]) /\ Len(fired[s]) \in Nat /\ Len(begun[s]) \in Nat
  BY DEF WakeInv, WakeTypes, QueueOrder, InOrder
<1>2. ASSUME NEW i \in 1..Len(fired[s])
      PROVE  LET w == fired[s][i] IN
             /\ w \in DOMAIN wakes /\ wakes[w].session = s
             /\ i < Len(begun[s]) => wakes[w].at = "over"
             /\ i = Len(begun[s]) => wakes[w].at \in {"running", "over"}
             /\ i > Len(begun[s]) => wakes[w].at = "queued"
  BY DEF WakeInv, QueueOrder, InOrder
<1>3. \A w \in DOMAIN wakes : w \in Nat \ {0} /\ wakes[w] \in WakeType
  BY DEF WakeInv, WakeTypes
<1>4. ASSUME NEW i \in 1..Len(fired[s])
      PROVE  wakes[fired[s][i]].at \in {"queued", "running", "over"}
  BY <1>1, <1>2
<1>5. QED
  BY <1>1, <1>2, <1>3, <1>4

\* A step of wakes that are no turns leaves the queues in order.
LEMMA QueuesRest ==
  ASSUME WakeInv, UNCHANGED <<tail, fired, begun>>, wakes' \in Seq(WakeType),
         DOMAIN wakes \subseteq DOMAIN wakes',
         \A v \in DOMAIN wakes : wakes[v].at \in {"queued", "running", "over"} => wakes'[v] = wakes[v],
         \A v \in DOMAIN wakes' : wakes'[v].at \in {"queued", "running"} =>
           v \in DOMAIN wakes /\ wakes'[v] = wakes[v]
  PROVE  WakeInv'
<1>1. ASSUME NEW s \in Sessions, NEW i \in 1..Len(fired[s])
      PROVE  fired[s][i] \in DOMAIN wakes' /\ wakes'[fired[s][i]] = wakes[fired[s][i]]
  <2>1. fired[s][i] \in DOMAIN wakes /\ wakes[fired[s][i]].at \in {"queued", "running", "over"}
    BY DEF WakeInv, QueueOrder, InOrder, WakeTypes
  <2>2. QED
    BY <2>1
<1>2. WakeTypes'
  BY DEF WakeInv, WakeTypes
<1>3. QueueOrder'
  BY <1>1 DEF WakeInv, QueueOrder, InOrder
<1>4. BehindPrevious'
  <2>1. ASSUME NEW s \in Sessions, NEW i \in 2..Len(fired[s])
        PROVE  wakes'[fired[s][i]].after = fired[s][i - 1] \/ wakes'[fired[s][i - 1]].at = "over"
    <3>1. i \in 1..Len(fired[s]) /\ i - 1 \in 1..Len(fired[s])
      BY TurnFacts
    <3>2. wakes'[fired[s][i]] = wakes[fired[s][i]] /\ wakes'[fired[s][i - 1]] = wakes[fired[s][i - 1]]
      BY <1>1, <3>1
    <3>3. QED
      BY <3>2 DEF WakeInv, BehindPrevious
  <2>2. ASSUME NEW s \in Sessions, Len(fired[s]) > 0
        PROVE  LET last == fired[s][Len(fired[s])] IN
               tail[s] = last \/ (tail[s] = 0 /\ wakes'[last].at = "over")
    <3>1. Len(fired[s]) \in 1..Len(fired[s])
      BY <2>2 DEF WakeInv, WakeTypes
    <3>2. QED
      BY <1>1, <2>2, <3>1 DEF WakeInv, BehindPrevious
  <2>3. QED
    BY <2>1, <2>2 DEF WakeInv, BehindPrevious
<1>5. TurnsAreFired'
  BY DEF WakeInv, TurnsAreFired
<1>6. QED
  BY <1>2, <1>3, <1>4, <1>5 DEF WakeInv

\* A wake that is no turn goes to a step that is none.
LEMMA WakeMoves ==
  ASSUME WakeInv, UNCHANGED <<tail, fired, begun>>, NEW w \in DOMAIN wakes, NEW v \in WakeType,
         wakes' = [wakes EXCEPT ![w] = v],
         wakes[w].at \notin {"queued", "running", "over"}, v.at \notin {"queued", "running"}
  PROVE  WakeInv'
<1>1. wakes' \in Seq(WakeType) /\ DOMAIN wakes' = DOMAIN wakes /\ wakes'[w] = v
      /\ \A u \in DOMAIN wakes : u # w => wakes'[u] = wakes[u]
  BY DEF WakeInv, WakeTypes
<1>2. QED
  BY <1>1, QueuesRest

LEMMA AtMoves ==
  ASSUME WakeInv, UNCHANGED <<tail, fired, begun>>, NEW w \in DOMAIN wakes,
         NEW where \in {"resolve", "post", "over"}, W!At(w, where),
         wakes[w].at \notin {"queued", "running", "over"}
  PROVE  WakeInv'
<1> DEFINE v == [wakes[w] EXCEPT !.at = where]
<1>1. wakes[w] \in WakeType
  BY DEF WakeInv, WakeTypes
<1>2. v \in WakeType /\ v.at = where
  BY <1>1 DEF WakeType
<1>3. wakes' = [wakes EXCEPT ![w] = v]
  BY DEF W!At
<1> HIDE DEF v
<1>4. QED
  BY <1>2, <1>3, WakeMoves

LEMMA QueueKeeps ==
  ASSUME WakeInv, NEW w \in DOMAIN wakes, NEW s \in Sessions, wakes[w].at = "handled", UNCHANGED begun,
         wakes' = [wakes EXCEPT ![w].at = "queued", ![w].session = s, ![w].after = tail[s]],
         tail' = [tail EXCEPT ![s] = w], fired' = [fired EXCEPT ![s] = Append(@, w)]
  PROVE  WakeInv'
<1> DEFINE n == Len(fired[s])
           v == [wakes[w] EXCEPT !.at = "queued", !.session = s, !.after = tail[s]]
<1>0. /\ wakes[w] \in WakeType /\ tail[s] \in Nat /\ w \in Nat \ {0} /\ n \in Nat
      /\ fired[s] \in Seq(Nat) /\ begun[s] \in Seq(Nat) /\ n = Len(fired[s])
  BY DEF WakeInv, WakeTypes
<1>1. /\ v \in WakeType /\ v.at = "queued" /\ v.session = s /\ v.after = tail[s]
  BY <1>0 DEF WakeType
<1>2. wakes' = [wakes EXCEPT ![w] = v]
  BY DEF WakeInv, WakeTypes
<1> HIDE DEF v, n
<1>3. wakes' \in Seq(WakeType) /\ DOMAIN wakes' = DOMAIN wakes /\ wakes'[w] = v
      /\ \A u \in DOMAIN wakes : u # w => wakes'[u] = wakes[u]
  BY <1>1, <1>2, OneWake DEF WakeInv, WakeTypes
<1>4. /\ fired' \in [Sessions -> Seq(Nat)] /\ tail' \in [Sessions -> Nat] /\ tail'[s] = w
      /\ Len(fired'[s]) = n + 1 /\ fired'[s][n + 1] = w
      /\ \A i \in 1..n : fired'[s][i] = fired[s][i]
      /\ \A r \in Sessions : r # s => fired'[r] = fired[r] /\ tail'[r] = tail[r]
  BY <1>0 DEF WakeInv, WakeTypes
<1>5. ASSUME NEW r \in Sessions, NEW i \in 1..Len(fired[r])
      PROVE  fired[r][i] \in DOMAIN wakes /\ fired[r][i] # w /\ wakes'[fired[r][i]] = wakes[fired[r][i]]
  <2>1. fired[r][i] \in DOMAIN wakes /\ wakes[fired[r][i]].at \in {"queued", "running", "over"}
    BY DEF WakeInv, QueueOrder, InOrder, WakeTypes
  <2>2. QED
    BY <1>3, <2>1
<1>6. QueueOrder'
  <2>1. ASSUME NEW r \in Sessions, r # s
        PROVE  InOrder(r)'
    BY <1>3, <1>4, <1>5, <2>1 DEF WakeInv, QueueOrder, InOrder
  <2>2. Len(begun'[s]) <= Len(fired'[s]) /\ Len(begun[s]) <= n /\ Len(begun[s]) \in Nat
    BY <1>0, <1>4 DEF WakeInv, QueueOrder, InOrder
  <2>3. \A i \in 1..Len(begun'[s]) : begun'[s][i] = fired'[s][i]
    BY <1>0, <1>4, <2>2 DEF WakeInv, QueueOrder, InOrder
  <2>4. \A i \in 1..(n + 1) : i # n + 1 => i \in 1..n
    BY <1>0
  <2>5. \A i, j \in 1..Len(fired'[s]) : fired'[s][i] = fired'[s][j] => i = j
    BY <1>4, <1>5, <2>4 DEF WakeInv, QueueOrder, InOrder
  <2>6. ASSUME NEW i \in 1..Len(fired'[s])
        PROVE  LET u == fired'[s][i] IN
               /\ u \in DOMAIN wakes' /\ wakes'[u].session = s
               /\ i < Len(begun'[s]) => wakes'[u].at = "over"
               /\ i = Len(begun'[s]) => wakes'[u].at \in {"running", "over"}
               /\ i > Len(begun'[s]) => wakes'[u].at = "queued"
    <3>1. CASE i = n + 1
      BY <1>0, <1>1, <1>3, <1>4, <2>2, <3>1
    <3>2. CASE i # n + 1
      BY <1>3, <1>4, <1>5, <2>4, <2>6, <3>2 DEF WakeInv, QueueOrder, InOrder
    <3>3. QED
      BY <3>1, <3>2
  <2>7. QED
    BY <2>1, <2>2, <2>3, <2>5, <2>6 DEF QueueOrder, InOrder
<1>7. BehindPrevious'
  <2>1. ASSUME NEW r \in Sessions, NEW i \in 2..Len(fired'[r])
        PROVE  wakes'[fired'[r][i]].after = fired'[r][i - 1] \/ wakes'[fired'[r][i - 1]].at = "over"
    <3>1. CASE r = s /\ i = n + 1
      <4>1. n > 0 /\ n \in 1..n
        BY <1>0, <1>4, <2>1, <3>1
      <4>2. tail[s] = fired[s][n] \/ wakes[fired[s][n]].at = "over"
        BY <1>0, <4>1 DEF WakeInv, BehindPrevious
      <4>3. fired'[s][n] = fired[s][n] /\ wakes'[fired[s][n]] = wakes[fired[s][n]] /\ i - 1 = n
        <5>1. wakes'[fired[s][n]] = wakes[fired[s][n]]
          BY <1>0, <1>5, <4>1
        <5>2. QED
          BY <1>0, <1>4, <3>1, <4>1, <5>1
      <4>4. wakes'[fired'[s][i]].after = tail[s]
        BY <1>1, <1>3, <1>4, <3>1
      <4>5. QED
        BY <3>1, <4>2, <4>3, <4>4
    <3>2. CASE ~(r = s /\ i = n + 1)
      <4>1. i \in 2..Len(fired[r]) /\ i \in 1..Len(fired[r]) /\ i - 1 \in 1..Len(fired[r])
        <5>1. Len(fired[r]) \in Nat /\ (r # s => fired'[r] = fired[r])
          BY <1>4, TurnFacts
        <5>2. i \in 2..Len(fired[r])
          BY <1>0, <1>4, <2>1, <3>2, <5>1
        <5>3. QED
          BY <5>1, <5>2
      <4>2. fired'[r][i] = fired[r][i] /\ fired'[r][i - 1] = fired[r][i - 1]
        BY <1>4, <4>1
      <4>3. wakes'[fired[r][i]] = wakes[fired[r][i]] /\ wakes'[fired[r][i - 1]] = wakes[fired[r][i - 1]]
        BY <1>5, <4>1
      <4>4. wakes[fired[r][i]].after = fired[r][i - 1] \/ wakes[fired[r][i - 1]].at = "over"
        BY <4>1 DEF WakeInv, BehindPrevious
      <4>5. QED
        BY <4>2, <4>3, <4>4
    <3>3. QED
      BY <3>1, <3>2
  <2>2. ASSUME NEW r \in Sessions, r # s, Len(fired'[r]) > 0
        PROVE  LET last == fired'[r][Len(fired'[r])] IN
               tail'[r] = last \/ (tail'[r] = 0 /\ wakes'[last].at = "over")
    <3>1. Len(fired[r]) \in 1..Len(fired[r])
      BY <1>4, <2>2 DEF WakeInv, WakeTypes
    <3>2. QED
      BY <1>4, <1>5, <2>2, <3>1 DEF WakeInv, BehindPrevious
  <2>3. \A r \in Sessions : Len(fired'[r]) = 0 => tail'[r] = 0
    BY <1>0, <1>4 DEF WakeInv, BehindPrevious
  <2>4. QED
    BY <1>4, <2>1, <2>2, <2>3 DEF BehindPrevious
<1>8. TurnsAreFired'
  <2> SUFFICES ASSUME NEW u \in DOMAIN wakes', wakes'[u].at \in {"queued", "running"}
               PROVE  /\ wakes'[u].session \in Sessions
                      /\ \E i \in 1..Len(fired'[wakes'[u].session]) : fired'[wakes'[u].session][i] = u
    BY DEF TurnsAreFired
  <2>1. CASE u = w
    <3>1. wakes'[u].session = s /\ n + 1 \in 1..Len(fired'[s]) /\ fired'[s][n + 1] = u
      BY <1>0, <1>1, <1>3, <1>4, <2>1
    <3>2. QED
      BY <3>1
  <2>2. CASE u # w
    <3>1. wakes'[u] = wakes[u] /\ u \in DOMAIN wakes
      BY <1>3, <2>2
    <3>2. PICK i \in 1..Len(fired[wakes[u].session]) : fired[wakes[u].session][i] = u
      BY <3>1 DEF WakeInv, TurnsAreFired
    <3>3. wakes[u].session \in Sessions
      BY <3>1 DEF WakeInv, TurnsAreFired
    <3>4. i \in 1..Len(fired'[wakes[u].session]) /\ fired'[wakes[u].session][i] = u
      BY <1>0, <1>4, <3>2, <3>3
    <3>5. QED
      BY <3>1, <3>3, <3>4
  <2>3. QED
    BY <2>1, <2>2
<1>9. QED
  BY <1>3, <1>4, <1>6, <1>7, <1>8 DEF WakeInv, WakeTypes

\* A turn that goes on to its next step: what every turn but it keeps.
LEMMA BeginKeeps ==
  ASSUME WakeInv, NEW w \in DOMAIN wakes, W!BeginTurn(w)
  PROVE  WakeInv'
<1> DEFINE s == wakes[w].session
           k == Len(begun[s])
           v == [wakes[w] EXCEPT !.at = "running"]
<1>0. /\ wakes[w] \in WakeType /\ wakes[w].at = "queued" /\ s \in Sessions /\ k \in Nat
      /\ w \in Nat /\ fired[s] \in Seq(Nat) /\ begun[s] \in Seq(Nat) /\ UNCHANGED <<tail, fired>>
      /\ wakes[w].session = s /\ k = Len(begun[s]) /\ Len(fired[s]) \in Nat
      /\ begun' = [begun EXCEPT ![s] = Append(@, w)] /\ W!Finished(wakes[w].after)
  <2>1. /\ wakes[w].at = "queued" /\ UNCHANGED <<tail, fired>>
        /\ begun' = [begun EXCEPT ![s] = Append(@, w)] /\ W!Finished(wakes[w].after)
    BY DEF W!BeginTurn
  <2>2. wakes[w] \in WakeType /\ w \in Nat
    BY DEF WakeInv, WakeTypes
  <2>3. s \in Sessions
    BY <2>1 DEF WakeInv, TurnsAreFired
  <2>4. fired[s] \in Seq(Nat) /\ begun[s] \in Seq(Nat)
    BY <2>3 DEF WakeInv, WakeTypes
  <2>5. k \in Nat /\ Len(fired[s]) \in Nat
    BY <2>4
  <2>6. QED
    BY <2>1, <2>2, <2>3, <2>4, <2>5
<1>1. v \in WakeType /\ v.at = "running" /\ v.session = s /\ v.after = wakes[w].after
  BY <1>0 DEF WakeType
<1>2. wakes' = [wakes EXCEPT ![w] = v]
  BY DEF W!BeginTurn, W!At
<1> HIDE DEF v, s, k
<1>3. wakes' \in Seq(WakeType) /\ DOMAIN wakes' = DOMAIN wakes /\ wakes'[w] = v
      /\ \A u \in DOMAIN wakes : u # w => wakes'[u] = wakes[u]
  BY <1>1, <1>2, OneWake DEF WakeInv, WakeTypes
<1>4. PICK i \in 1..Len(fired[s]) : fired[s][i] = w
  BY <1>0 DEF WakeInv, TurnsAreFired
<1>5. /\ i = k + 1 /\ Len(fired[s]) >= k + 1
      /\ k > 0 => wakes[fired[s][k]].at = "over"
  <2>1. i > k /\ i \in Nat /\ Len(fired[s]) \in Nat
    <3>1. i \in Nat /\ wakes[fired[s][i]].at = "queued"
      BY <1>0, <1>4
    <3>2. /\ i < k => wakes[fired[s][i]].at = "over"
          /\ i = k => wakes[fired[s][i]].at \in {"running", "over"}
      BY <1>0, TurnFacts
    <3>3. QED
      BY <1>0, <3>1, <3>2
  <2>2. CASE i = 1
    BY <1>0, <2>1, <2>2
  <2>3. CASE i # 1
    <3>1. i \in 2..Len(fired[s]) /\ i - 1 \in 1..Len(fired[s])
      BY <1>4, <2>1, <2>3
    <3>2. fired[s][i - 1] \in DOMAIN wakes /\ fired[s][i - 1] # 0
      BY <1>0, <3>1, TurnFacts
    <3>3. wakes[w].after = fired[s][i - 1] \/ wakes[fired[s][i - 1]].at = "over"
      BY <1>0, <1>4, <3>1 DEF WakeInv, BehindPrevious
    <3>4. wakes[fired[s][i - 1]].at = "over"
      BY <1>0, <3>2, <3>3 DEF W!Finished
    <3>5. ~(i - 1 > k)
      BY <1>0, <3>1, <3>4, TurnFacts
    <3>6. i = k + 1
      BY <1>0, <2>1, <3>5
    <3>7. QED
      BY <1>0, <1>4, <2>1, <3>4, <3>6
  <2>4. QED
    BY <2>2, <2>3
<1>6. /\ begun' \in [Sessions -> Seq(Nat)] /\ Len(begun'[s]) = k + 1 /\ begun'[s][k + 1] = w
      /\ \A j \in 1..k : begun'[s][j] = begun[s][j]
      /\ \A r \in Sessions : r # s => begun'[r] = begun[r]
  BY <1>0 DEF WakeInv, WakeTypes
<1>7. ASSUME NEW r \in Sessions, NEW j \in 1..Len(fired[r]), ~(r = s /\ j = k + 1)
      PROVE  fired[r][j] \in DOMAIN wakes /\ fired[r][j] # w /\ wakes'[fired[r][j]] = wakes[fired[r][j]]
  <2>1. fired[r][j] \in DOMAIN wakes /\ wakes[fired[r][j]].session = r
    BY DEF WakeInv, QueueOrder, InOrder
  <2>2. fired[r][j] # w
    <3>1. CASE r # s
      BY <1>0, <2>1, <3>1
    <3>2. CASE r = s
      <4>1. j # i
        BY <1>5, <1>7, <3>2
      <4>2. QED
        BY <1>0, <1>4, <3>2, <4>1 DEF WakeInv, QueueOrder, InOrder
    <3>3. QED
      BY <3>1, <3>2
  <2>3. QED
    BY <1>3, <2>1, <2>2
<1>8. QueueOrder'
  <2>1. ASSUME NEW r \in Sessions, r # s
        PROVE  InOrder(r)'
    <3>1. \A j \in 1..Len(fired[r]) : wakes'[fired[r][j]] = wakes[fired[r][j]]
      BY <1>7, <2>1
    <3>2. begun'[r] = begun[r] /\ fired'[r] = fired[r] /\ DOMAIN wakes' = DOMAIN wakes
      BY <1>0, <1>3, <1>6, <2>1
    <3>3. \A j \in 1..Len(fired[r]) :
            LET u == fired[r][j] IN
            /\ u \in DOMAIN wakes /\ wakes[u].session = r
            /\ j < Len(begun[r]) => wakes[u].at = "over"
            /\ j = Len(begun[r]) => wakes[u].at \in {"running", "over"}
            /\ j > Len(begun[r]) => wakes[u].at = "queued"
      BY TurnFacts
    <3>4. QED
      BY <3>1, <3>2, <3>3 DEF WakeInv, QueueOrder, InOrder
  <2>2. \A j \in 1..(k + 1) : j # k + 1 => j \in 1..k
    BY <1>0
  <2>3. \A j \in 1..Len(begun'[s]) : begun'[s][j] = fired'[s][j]
    <3>1. \A j \in 1..k : begun[s][j] = fired[s][j]
      BY <1>0 DEF WakeInv, QueueOrder, InOrder
    <3>2. QED
      BY <1>0, <1>4, <1>5, <1>6, <2>2, <3>1
  <2>4. ASSUME NEW j \in 1..Len(fired[s])
        PROVE  LET u == fired[s][j] IN
               /\ u \in DOMAIN wakes' /\ wakes'[u].session = s
               /\ j < k + 1 => wakes'[u].at = "over"
               /\ j = k + 1 => wakes'[u].at \in {"running", "over"}
               /\ j > k + 1 => wakes'[u].at = "queued"
    <3>1. CASE j = k + 1
      <4>1. fired[s][j] = w /\ ~(k + 1 < k + 1) /\ ~(k + 1 > k + 1)
        BY <1>0, <1>4, <1>5, <3>1
      <4>2. QED
        BY <1>1, <1>3, <3>1, <4>1
    <3>2. CASE j # k + 1
      <4>1. /\ wakes'[fired[s][j]] = wakes[fired[s][j]] /\ fired[s][j] \in DOMAIN wakes'
            /\ wakes[fired[s][j]].session = s
        BY <1>0, <1>3, <1>7, <3>2, TurnFacts
      <4>2. /\ j < Len(begun[s]) => wakes[fired[s][j]].at = "over"
            /\ j > Len(begun[s]) => wakes[fired[s][j]].at = "queued"
        BY <1>0 DEF WakeInv, QueueOrder, InOrder
      <4>3. j = k => wakes[fired[s][j]].at = "over"
        BY <1>0, <1>5
      <4>4. QED
        BY <1>0, <3>2, <4>1, <4>2, <4>3
    <3>3. QED
      BY <3>1, <3>2
  <2>5. QED
    <3>1. fired'[s] = fired[s] /\ Len(begun'[s]) <= Len(fired[s])
          /\ \A j, h \in 1..Len(fired[s]) : fired[s][j] = fired[s][h] => j = h
      BY <1>0, <1>5, <1>6 DEF WakeInv, QueueOrder, InOrder
    <3>2. ASSUME NEW r \in Sessions, r = s PROVE InOrder(r)'
      BY <1>6, <2>3, <2>4, <3>1, <3>2 DEF InOrder
    <3>3. QED
      BY <2>1, <3>2 DEF QueueOrder
<1>9. BehindPrevious'
  <2>0. ASSUME NEW r \in Sessions, NEW j \in 1..Len(fired[r])
        PROVE  /\ wakes'[fired[r][j]].after = wakes[fired[r][j]].after
               /\ wakes[fired[r][j]].at = "over" => wakes'[fired[r][j]].at = "over"
    BY <1>0, <1>1, <1>3, <1>4, <1>5, <1>7
  <2>1. ASSUME NEW r \in Sessions, NEW j \in 2..Len(fired[r])
        PROVE  wakes'[fired[r][j]].after = fired[r][j - 1] \/ wakes'[fired[r][j - 1]].at = "over"
    <3>1. j \in 1..Len(fired[r]) /\ j - 1 \in 1..Len(fired[r])
      BY DEF WakeInv, WakeTypes
    <3>2. QED
      BY <2>0, <3>1 DEF WakeInv, BehindPrevious
  <2>2. ASSUME NEW r \in Sessions, Len(fired[r]) > 0
        PROVE  LET last == fired[r][Len(fired[r])] IN
               tail[r] = last \/ (tail[r] = 0 /\ wakes'[last].at = "over")
    <3>1. Len(fired[r]) \in 1..Len(fired[r])
      BY <2>2 DEF WakeInv, WakeTypes
    <3>2. QED
      BY <2>0, <2>2, <3>1 DEF WakeInv, BehindPrevious
  <2>3. QED
    BY <1>0, <2>1, <2>2 DEF WakeInv, BehindPrevious
<1>10. TurnsAreFired'
  <2>1. \A u \in DOMAIN wakes' : /\ u \in DOMAIN wakes /\ wakes'[u].session = wakes[u].session
                                 /\ wakes'[u].at \in {"queued", "running"} => wakes[u].at \in {"queued", "running"}
    BY <1>0, <1>1, <1>3
  <2>2. QED
    <3> SUFFICES ASSUME NEW u \in DOMAIN wakes', wakes'[u].at \in {"queued", "running"}
                 PROVE  /\ wakes'[u].session \in Sessions
                        /\ \E j \in 1..Len(fired'[wakes'[u].session]) : fired'[wakes'[u].session][j] = u
      BY DEF TurnsAreFired
    <3>1. wakes[u].session \in Sessions /\ \E j \in 1..Len(fired[wakes[u].session]) : fired[wakes[u].session][j] = u
      BY <2>1 DEF WakeInv, TurnsAreFired
    <3>2. QED
      BY <1>0, <2>1, <3>1
<1>11. QED
  BY <1>0, <1>3, <1>6, <1>8, <1>9, <1>10 DEF WakeInv, WakeTypes

LEMMA EndTurnKeeps ==
  ASSUME WakeInv, NEW w \in DOMAIN wakes, W!EndTurn(w)
  PROVE  WakeInv'
<1> DEFINE s == wakes[w].session
           v == [wakes[w] EXCEPT !.at = "over"]
<1>0. /\ wakes[w] \in WakeType /\ wakes[w].at = "running" /\ s \in Sessions
      /\ w \in Nat /\ w # 0 /\ UNCHANGED <<begun, fired>>
      /\ \A r \in Sessions : fired[r] \in Seq(Nat)
  BY DEF WakeInv, WakeTypes, TurnsAreFired, W!EndTurn
<1>1. v \in WakeType /\ v.at = "over" /\ v.session = s /\ v.after = wakes[w].after
  BY <1>0 DEF WakeType
<1>2. wakes' = [wakes EXCEPT ![w] = v]
  BY DEF W!EndTurn, W!At
<1> HIDE DEF v
<1>3. wakes' \in Seq(WakeType) /\ DOMAIN wakes' = DOMAIN wakes /\ wakes'[w] = v
      /\ \A u \in DOMAIN wakes : u # w => wakes'[u] = wakes[u]
  BY <1>1, <1>2, OneWake DEF WakeInv, WakeTypes
<1>4. /\ tail' \in [Sessions -> Nat]
      /\ \A r \in Sessions : tail'[r] = tail[r] \/ (r = s /\ tail[r] = w /\ tail'[r] = 0)
  BY <1>0 DEF W!EndTurn, W!Dequeued, WakeInv, WakeTypes
<1>5. \A u \in DOMAIN wakes :
        /\ wakes'[u].session = wakes[u].session /\ wakes'[u].after = wakes[u].after
        /\ wakes[u].at = "over" => wakes'[u].at = "over"
        /\ wakes[u].at = "queued" => wakes'[u].at = "queued"
        /\ wakes[u].at = "running" => wakes'[u].at \in {"running", "over"}
        /\ wakes'[u].at \in {"queued", "running"} => wakes'[u] = wakes[u]
  BY <1>0, <1>1, <1>3
<1>6. QueueOrder'
  <2>1. \A r \in Sessions : \A i \in 1..Len(fired[r]) : fired[r][i] \in DOMAIN wakes
    BY DEF WakeInv, QueueOrder, InOrder
  <2>2. ASSUME NEW r \in Sessions, NEW i \in 1..Len(fired[r])
        PROVE  LET u == fired[r][i] IN
               /\ u \in DOMAIN wakes' /\ wakes'[u].session = r
               /\ i < Len(begun[r]) => wakes'[u].at = "over"
               /\ i = Len(begun[r]) => wakes'[u].at \in {"running", "over"}
               /\ i > Len(begun[r]) => wakes'[u].at = "queued"
    BY <1>3, <1>5, <2>1 DEF WakeInv, QueueOrder, InOrder
  <2>3. QED
    BY <1>0, <2>2 DEF WakeInv, QueueOrder, InOrder
<1>7. BehindPrevious'
  <2>1. ASSUME NEW r \in Sessions, NEW i \in 2..Len(fired[r])
        PROVE  wakes'[fired[r][i]].after = fired[r][i - 1] \/ wakes'[fired[r][i - 1]].at = "over"
    <3>1. i \in 1..Len(fired[r]) /\ i - 1 \in 1..Len(fired[r])
      BY <1>0
    <3>2. fired[r][i] \in DOMAIN wakes /\ fired[r][i - 1] \in DOMAIN wakes
      BY <3>1 DEF WakeInv, QueueOrder, InOrder
    <3>3. QED
      BY <1>5, <3>2 DEF WakeInv, BehindPrevious
  <2>2. ASSUME NEW r \in Sessions, Len(fired[r]) > 0
        PROVE  LET last == fired[r][Len(fired[r])] IN
               tail'[r] = last \/ (tail'[r] = 0 /\ wakes'[last].at = "over")
    <3>1. fired[r][Len(fired[r])] \in DOMAIN wakes
      <4>1. Len(fired[r]) \in 1..Len(fired[r])
        BY <1>0, <2>2
      <4>2. QED
        BY <4>1 DEF WakeInv, QueueOrder, InOrder
    <3>2. tail[r] = fired[r][Len(fired[r])] \/ (tail[r] = 0 /\ wakes[fired[r][Len(fired[r])]].at = "over")
      BY <2>2 DEF WakeInv, BehindPrevious
    <3>3. CASE tail'[r] = tail[r]
      BY <1>5, <3>1, <3>2, <3>3
    <3>4. CASE tail[r] = w /\ tail'[r] = 0
      BY <1>0, <1>1, <1>3, <3>2, <3>4
    <3>5. QED
      BY <1>4, <3>3, <3>4
  <2>3. QED
    BY <1>0, <1>4, <2>1, <2>2 DEF WakeInv, BehindPrevious
<1>8. TurnsAreFired'
  BY <1>0, <1>3, <1>5 DEF WakeInv, TurnsAreFired
<1>9. QED
  BY <1>0, <1>3, <1>4, <1>6, <1>7, <1>8 DEF WakeInv, WakeTypes

LEMMA WakeStep ==
  ASSUME PartsAssumption, WakeInv, W!Next
  PROVE  WakeInv'
<1>0. ASSUME NEW w \in DOMAIN wakes
      PROVE  wakes[w] \in WakeType
  BY DEF WakeInv, WakeTypes
<1>1. ASSUME NEW kind, W!Arrive(kind) PROVE WakeInv'
  <2> DEFINE v == [at |-> "handled", session |-> None, after |-> 0, try |-> 1]
  <2>1. v \in WakeType /\ v.at = "handled"
    BY DEF WakeType
  <2>2. wakes' = Append(wakes, v) /\ UNCHANGED <<tail, fired, begun>>
    BY <1>1 DEF W!Arrive
  <2> HIDE DEF v
  <2>3. /\ wakes' \in Seq(WakeType) /\ DOMAIN wakes \subseteq DOMAIN wakes'
        /\ \A u \in DOMAIN wakes : wakes'[u] = wakes[u]
        /\ \A u \in DOMAIN wakes' : u \in DOMAIN wakes \/ wakes'[u] = v
    BY <2>1, <2>2 DEF WakeInv, WakeTypes
  <2>4. QED
    BY <2>1, <2>2, <2>3, QueuesRest
<1>2. ASSUME NEW g, W!GameJoined(g) \/ W!GameExpires(g) PROVE WakeInv'
  <2>1. UNCHANGED <<wakes, tail, fired, begun>>
    BY <1>2 DEF W!GameJoined, W!GameExpires
  <2>2. QED
    BY <2>1, QueuesRest DEF WakeInv, WakeTypes
<1>3. ASSUME NEW w \in DOMAIN wakes, W!Post(w) \/ W!Grok(w) \/ W!Resolved(w) \/ W!Accepted(w) PROVE WakeInv'
  BY <1>3, AtMoves DEF W!Post, W!Grok, W!Resolved, W!Accepted, W!Handled
<1>4. ASSUME NEW w \in DOMAIN wakes, NEW answered \in BOOLEAN, W!Fails(w, answered) PROVE WakeInv'
  <2> DEFINE v == [wakes[w] EXCEPT !.try = @ + 1]
  <2>1. wakes[w].at = "post" /\ UNCHANGED <<tail, fired, begun>>
        /\ (wakes' = [wakes EXCEPT ![w] = v] \/ W!At(w, "over"))
    BY <1>4 DEF W!Fails, W!At
  <2>2. v \in WakeType /\ v.at = "post"
    BY <1>0, <2>1 DEF WakeType
  <2> HIDE DEF v
  <2>3. QED
    BY <2>1, <2>2, WakeMoves, AtMoves
<1>5. ASSUME NEW w \in DOMAIN wakes, NEW s \in Sessions \cup {None}, W!Queue(w, s) PROVE WakeInv'
  <2>1. None \notin Sessions
    BY DEF PartsAssumption, W!WakeAssumption
  <2>2. wakes[w].at = "handled" /\ UNCHANGED begun
    BY <1>5 DEF W!Queue, W!Handled
  <2>3. CASE s = None
    BY <1>5, <2>2, <2>3, AtMoves DEF W!Queue
  <2>4. CASE s # None
    BY <1>5, <2>2, <2>4, QueueKeeps DEF W!Queue, W!Behind
  <2>5. QED
    BY <2>3, <2>4
<1>6. ASSUME NEW w \in DOMAIN wakes, W!BeginTurn(w) PROVE WakeInv'
  BY <1>6, BeginKeeps
<1>7. ASSUME NEW w \in DOMAIN wakes, W!EndTurn(w) PROVE WakeInv'
  BY <1>7, EndTurnKeeps
<1>8. QED
  BY <1>1, <1>2, <1>3, <1>4, <1>5, <1>6, <1>7 DEF W!Next

LEMMA WakeInvHolds == PartSpec => []WakeInv
<1>1. PartInit => WakeInv
  BY DEF PartInit, W!Init, WakeInv, WakeTypes, QueueOrder, InOrder, BehindPrevious, TurnsAreFired
<1>2. WakeInv /\ [PartNext]_all => WakeInv'
  <2> SUFFICES ASSUME WakeInv, [PartNext]_all PROVE WakeInv'
    OBVIOUS
  <2>1. CASE Wake(W!Next)
    BY <2>1, PartsAssumption, WakeStep DEF Wake
  <2>2. CASE UNCHANGED wakeup
    BY <2>2, QueuesRest DEF wakeup, WakeInv, WakeTypes
  <2>3. QED
    BY <2>1, <2>2 DEF PartNext, App, Gui, Manager, Muse, Documents, Tools, Once, all
<1>3. QED
  BY <1>1, <1>2, PTL DEF PartSpec

\* The turns of a ZCode session begin one at a time and in the order in which they were
\* queued.
THEOREM TurnsInOrderHolds == PartSpec => []TurnsInOrder
<1>1. WakeInv => TurnsInOrder
  <2> SUFFICES ASSUME WakeInv, NEW s \in Sessions
               PROVE  /\ Cardinality({w \in DOMAIN wakes : wakes[w].session = s /\ wakes[w].at = "running"}) <= 1
                      /\ begun[s] = SubSeq(fired[s], 1, Len(begun[s]))
    BY DEF TurnsInOrder
  <2>0. fired[s] \in Seq(Nat) /\ begun[s] \in Seq(Nat) /\ Len(begun[s]) <= Len(fired[s])
    BY DEF WakeInv, WakeTypes, QueueOrder, InOrder
  <2>1. \A w \in DOMAIN wakes : wakes[w].session = s /\ wakes[w].at = "running" =>
          Len(begun[s]) \in 1..Len(fired[s]) /\ w = fired[s][Len(begun[s])]
    <3> SUFFICES ASSUME NEW w \in DOMAIN wakes, wakes[w].session = s, wakes[w].at = "running"
                 PROVE  Len(begun[s]) \in 1..Len(fired[s]) /\ w = fired[s][Len(begun[s])]
      OBVIOUS
    <3>1. PICK i \in 1..Len(fired[s]) : fired[s][i] = w
      BY DEF WakeInv, TurnsAreFired
    <3>2. ~(i < Len(begun[s])) /\ ~(i > Len(begun[s]))
      BY <2>0, <3>1 DEF WakeInv, QueueOrder, InOrder
    <3>3. QED
      BY <2>0, <3>1, <3>2
  <2>2. Cardinality({w \in DOMAIN wakes : wakes[w].session = s /\ wakes[w].at = "running"}) <= 1
    <3>1. \A u, w \in {w \in DOMAIN wakes : wakes[w].session = s /\ wakes[w].at = "running"} : u = w
      BY <2>1
    <3>2. QED
      BY <3>1, AtMostOne
  <2>3. begun[s] = SubSeq(fired[s], 1, Len(begun[s]))
    <3>1. \A i \in 1..Len(begun[s]) : begun[s][i] = fired[s][i]
      BY DEF WakeInv, QueueOrder, InOrder
    <3>2. QED
      BY <2>0, <3>1
  <2>4. QED
    BY <2>2, <2>3
<1>2. QED
  BY <1>1, WakeInvHolds, PTL

-----------------------------------------------------------------------------
(* The mirror of shared documents (server.ts, sync_skill).                *)

Call == [at : {"none", "look", "put", "read", "list", "text", "between"},
         doc : Docs \cup {None}, seen : Nat, got : Nat, served : BOOLEAN]
\* The hub's versions, the mirror and the calls under way keep their types.
DocTypes ==
  /\ version \in [Docs -> Nat] /\ textV \in [Docs -> Nat] /\ metaV \in [Docs -> Nat]
  /\ doing \in [Procs -> Call] /\ clash \in BOOLEAN
  /\ \A p \in Procs : doing[p].at # "none" => doing[p].doc \in Docs

\* What the hub has answered it had, and the version that sync_skill listed is not newer
\* than the hub's, nor than the text that it got afterwards.
ListedThenFetched ==
  \A p \in Procs :
    LET c == doing[p] IN
    /\ c.at = "list" /\ c.served => c.got <= version[c.doc]
    /\ c.at = "text" => c.seen <= IF c.served THEN c.got ELSE version[c.doc]
    /\ c.at = "between" => c.seen <= c.got

\* One process at a time is between the two writes of a mirror, whose text is then its
\* own; a mirror nobody writes does not claim more than it has.
OneWriter ==
  ~clash =>
    /\ \A p, q \in Procs : D!Between(p) /\ D!Between(q) /\ doing[p].doc = doing[q].doc => p = q
    /\ \A p \in Procs : D!Between(p) => textV[doing[p].doc] = doing[p].got
    /\ \A d \in Docs : (\A p \in Procs : D!Between(p) => doing[p].doc # d) => metaV[d] <= textV[d]

MirrorInv == DocTypes /\ ListedThenFetched /\ OneWriter

\* A step of one call writes no other.
LEMMA OneCall ==
  ASSUME NEW p \in Procs, NEW c \in Call, doing \in [Procs -> Call], doing' = [doing EXCEPT ![p] = c]
  PROVE  /\ doing' \in [Procs -> Call] /\ doing'[p] = c
         /\ \A q \in Procs : q # p => doing'[q] = doing[q]
OBVIOUS

LEMMA NoCallFacts ==
  /\ D!NoCall \in Call /\ D!NoCall.at = "none" /\ ~D!NoCall.served
BY DEF D!NoCall, Call

\* A step that leaves the mirror, and puts a process neither between its writes nor out of
\* them, keeps the one writer.
LEMMA MirrorRests ==
  ASSUME DocTypes, OneWriter, NEW p \in Procs, NEW c \in Call,
         UNCHANGED <<textV, metaV, clash>>, doing' = [doing EXCEPT ![p] = c],
         ~D!Between(p), c.at # "between"
  PROVE  OneWriter'
<1>1. \A q \in Procs : q # p => doing'[q] = doing[q]
  BY OneCall DEF DocTypes
<1>2. doing'[p].at # "between"
  BY OneCall DEF DocTypes
<1>3. QED
  BY <1>1, <1>2 DEF OneWriter, D!Between, DocTypes

\* What the calls that have not changed have been told stays true of a growing hub.
LEMMA OthersListed ==
  ASSUME DocTypes, ListedThenFetched, NEW p \in Procs, NEW c \in Call,
         doing' = [doing EXCEPT ![p] = c], \A d \in Docs : version'[d] >= version[d],
         version' \in [Docs -> Nat],
         /\ c.at = "list" /\ c.served => c.got <= version'[c.doc]
         /\ c.at = "text" => c.seen <= IF c.served THEN c.got ELSE version'[c.doc]
         /\ c.at = "between" => c.seen <= c.got
  PROVE  ListedThenFetched'
<1>1. doing'[p] = c /\ \A q \in Procs : q # p => doing'[q] = doing[q]
  BY OneCall DEF DocTypes
<1>2. ASSUME NEW q \in Procs
      PROVE  LET e == doing'[q] IN
             /\ e.at = "list" /\ e.served => e.got <= version'[e.doc]
             /\ e.at = "text" => e.seen <= IF e.served THEN e.got ELSE version'[e.doc]
             /\ e.at = "between" => e.seen <= e.got
  <2>1. CASE q = p
    BY <1>1, <2>1
  <2>2. CASE q # p
    <3>1. doing'[q] = doing[q] /\ doing[q] \in Call
      BY <1>1, <2>2 DEF DocTypes
    <3>2. doing[q].at # "none" => version'[doing[q].doc] >= version[doing[q].doc]
                                  /\ version[doing[q].doc] \in Nat /\ version'[doing[q].doc] \in Nat
      BY DEF DocTypes
    <3>3. /\ doing[q].at = "list" /\ doing[q].served => doing[q].got <= version'[doing[q].doc]
          /\ doing[q].at = "text" => doing[q].seen <= IF doing[q].served THEN doing[q].got ELSE version'[doing[q].doc]
          /\ doing[q].at = "between" => doing[q].seen <= doing[q].got
      BY <3>1, <3>2 DEF ListedThenFetched, Call
    <3>4. QED
      BY <3>1, <3>3
  <2>3. QED
    BY <2>1, <2>2
<1>3. QED
  BY <1>2 DEF ListedThenFetched

\* A step that changes one call and leaves the mirror.
LEMMA CallMoves ==
  ASSUME MirrorInv, NEW p \in Procs, NEW c \in Call,
         doing' = [doing EXCEPT ![p] = c], c.at # "none" => c.doc \in Docs,
         UNCHANGED <<version, textV, metaV, clash>>, ~D!Between(p), c.at # "between",
         /\ c.at = "list" /\ c.served => c.got <= version[c.doc]
         /\ c.at = "text" => c.seen <= IF c.served THEN c.got ELSE version[c.doc]
  PROVE  MirrorInv'
<1>1. DocTypes'
  <2>1. doing' \in [Procs -> Call] /\ doing'[p] = c /\ \A q \in Procs : q # p => doing'[q] = doing[q]
    BY OneCall DEF MirrorInv, DocTypes
  <2>2. \A q \in Procs : doing'[q].at # "none" => doing'[q].doc \in Docs
    BY <2>1 DEF MirrorInv, DocTypes
  <2>3. QED
    BY <2>1, <2>2 DEF MirrorInv, DocTypes
<1>2. ListedThenFetched'
  <2>1. version' \in [Docs -> Nat] /\ version' = version /\ \A d \in Docs : version'[d] >= version[d]
    BY DEF MirrorInv, DocTypes
  <2>2. /\ c.at = "list" /\ c.served => c.got <= version'[c.doc]
        /\ c.at = "text" => c.seen <= IF c.served THEN c.got ELSE version'[c.doc]
    BY <2>1
  <2>3. QED
    BY <2>1, <2>2, OthersListed DEF MirrorInv
<1>3. OneWriter'
  BY MirrorRests DEF MirrorInv
<1>4. QED
  BY <1>1, <1>2, <1>3 DEF MirrorInv

LEMMA EnterKeeps ==
  ASSUME MirrorInv, NEW p \in Procs, NEW d \in Docs, NEW seen \in Nat,
         NEW at \in {"look", "put", "read", "list"}, D!Enter(p, at, d, seen)
  PROVE  MirrorInv'
<1> DEFINE c == [D!NoCall EXCEPT !.at = at, !.doc = d, !.seen = seen]
<1>1. doing' = [doing EXCEPT ![p] = c] /\ UNCHANGED <<version, textV, metaV, clash>>
  BY DEF D!Enter
<1>2. c \in Call /\ c.at = at /\ ~c.served /\ c.doc = d
  BY NoCallFacts DEF Call
<1>3. ~D!Between(p)
  BY DEF D!Enter, D!NoCall, D!Between
<1> HIDE DEF c
<1>4. QED
  BY <1>1, <1>2, <1>3, CallMoves

\* A call that ends, otherwise than by its second write.
LEMMA EndKeeps ==
  ASSUME MirrorInv, NEW p \in Procs, D!Ends(p), ~D!Between(p), UNCHANGED <<version, textV, metaV, clash>>
  PROVE  MirrorInv'
<1>1. doing' = [doing EXCEPT ![p] = D!NoCall]
  BY DEF D!Ends
<1>2. QED
  BY <1>1, NoCallFacts, CallMoves

\* A call that goes on to its next request.
LEMMA StepKeeps ==
  ASSUME MirrorInv, NEW p \in Procs, NEW seen \in Nat, NEW at \in {"put", "text"},
         D!Step(p, at, seen), ~D!Between(p), doing[p].at # "none",
         at = "text" => seen <= version[doing[p].doc],
         UNCHANGED <<version, textV, metaV, clash>>
  PROVE  MirrorInv'
<1> DEFINE c == [doing[p] EXCEPT !.at = at, !.seen = seen, !.got = 0, !.served = FALSE]
<1>0. doing[p] \in Call /\ doing[p].doc \in Docs
  BY DEF MirrorInv, DocTypes
<1>1. doing' = [doing EXCEPT ![p] = c]
  BY DEF D!Step
<1>2. c \in Call /\ c.at = at /\ c.seen = seen /\ c.served = FALSE /\ c.doc = doing[p].doc
  BY <1>0 DEF Call
<1> HIDE DEF c
<1>3. QED
  BY <1>0, <1>1, <1>2, CallMoves

LEMMA FirstWriteKeeps ==
  ASSUME MirrorInv, NEW p \in Procs, D!FirstWrite(p)
  PROVE  MirrorInv'
<1> DEFINE d == doing[p].doc
           c == [doing[p] EXCEPT !.at = "between"]
<1>0. doing[p] \in Call /\ d \in Docs /\ doing[p].at = "text" /\ doing[p].served
  BY DEF MirrorInv, DocTypes, D!FirstWrite, D!Awaits
<1>1. doing' = [doing EXCEPT ![p] = c] /\ UNCHANGED <<version, metaV>>
      /\ textV' = [textV EXCEPT ![d] = doing[p].got]
      /\ clash' = (clash \/ \E q \in Procs : D!Between(q) /\ doing[q].doc = doing[p].doc)
  BY DEF D!FirstWrite, D!Writes
<1>2. /\ c \in Call /\ c.at = "between" /\ c.doc = d /\ c.seen = doing[p].seen
      /\ c.got = doing[p].got /\ doing[p].seen <= doing[p].got /\ doing[p].got \in Nat
  BY <1>0 DEF Call, MirrorInv, ListedThenFetched
<1> HIDE DEF c
<1>3. doing' \in [Procs -> Call] /\ doing'[p] = c /\ \A q \in Procs : q # p => doing'[q] = doing[q]
  BY <1>1, <1>2, OneCall DEF MirrorInv, DocTypes
<1>4. DocTypes'
  <2>1. \A q \in Procs : doing'[q].at # "none" => doing'[q].doc \in Docs
    BY <1>0, <1>2, <1>3 DEF MirrorInv, DocTypes
  <2>2. textV' \in [Docs -> Nat] /\ clash' \in BOOLEAN
    BY <1>0, <1>1, <1>2 DEF MirrorInv, DocTypes
  <2>3. QED
    BY <1>1, <1>3, <2>1, <2>2 DEF MirrorInv, DocTypes
<1>5. ListedThenFetched'
  <2>1. version' \in [Docs -> Nat] /\ \A e \in Docs : version'[e] >= version[e]
    BY <1>1 DEF MirrorInv, DocTypes
  <2>2. QED
    BY <1>1, <1>2, <2>1, OthersListed DEF MirrorInv
<1>6. OneWriter'
  <2> SUFFICES ASSUME ~clash' PROVE OneWriter'
    BY DEF OneWriter
  <2>1. ~clash /\ \A q \in Procs : D!Between(q) => doing[q].doc # d
    BY <1>1 DEF MirrorInv, DocTypes
  <2>2. \A q \in Procs : q # p => (doing'[q].at = "between" => doing[q].at = "between" /\ doing'[q].doc = doing[q].doc
                                   /\ doing'[q].got = doing[q].got /\ doing[q].doc # d /\ doing[q].doc \in Docs)
    BY <1>3, <2>1 DEF D!Between, MirrorInv, DocTypes
  <2>3. textV'[d] = doing[p].got /\ \A e \in Docs : e # d => textV'[e] = textV[e] /\ metaV'[e] = metaV[e]
    BY <1>0, <1>1 DEF MirrorInv, DocTypes
  <2>4. ASSUME NEW q \in Procs, NEW r \in Procs, doing'[q].at = "between", doing'[r].at = "between",
               doing'[q].doc = doing'[r].doc
        PROVE  q = r
    BY <1>2, <1>3, <2>1, <2>2, <2>4 DEF OneWriter, MirrorInv, D!Between
  <2>5. ASSUME NEW q \in Procs, doing'[q].at = "between" PROVE textV'[doing'[q].doc] = doing'[q].got
    BY <1>2, <1>3, <2>1, <2>2, <2>3, <2>5 DEF OneWriter, MirrorInv, D!Between
  <2>6. ASSUME NEW e \in Docs, \A q \in Procs : doing'[q].at = "between" => doing'[q].doc # e
        PROVE  metaV'[e] <= textV'[e]
    <3>1. e # d
      BY <1>2, <1>3, <2>6
    <3>2. \A q \in Procs : doing[q].at = "between" => doing[q].doc # e
      BY <1>0, <1>3, <2>6
    <3>3. QED
      BY <2>1, <2>3, <3>1, <3>2 DEF OneWriter, MirrorInv, D!Between
  <2>7. QED
    BY <2>4, <2>5, <2>6 DEF OneWriter, D!Between
<1>7. QED
  BY <1>4, <1>5, <1>6 DEF MirrorInv

\* A process that leaves its two writes, the second done or never.
LEMMA WriterLeaves ==
  ASSUME MirrorInv, NEW p \in Procs, D!Between(p), D!Ends(p), UNCHANGED <<version, textV>>,
         metaV' \in [Docs -> Nat], \A e \in Docs : e # doing[p].doc => metaV'[e] = metaV[e],
         clash' \in BOOLEAN, ~clash' => ~clash /\ metaV'[doing[p].doc] <= doing[p].got
  PROVE  MirrorInv'
<1> DEFINE d == doing[p].doc
<1>0. doing[p] \in Call /\ d \in Docs
  BY DEF MirrorInv, DocTypes, D!Between
<1>1. doing' = [doing EXCEPT ![p] = D!NoCall]
  BY DEF D!Ends
<1>3. /\ doing' \in [Procs -> Call] /\ doing'[p].at = "none"
      /\ \A q \in Procs : q # p => doing'[q] = doing[q]
  BY <1>1, NoCallFacts, OneCall DEF MirrorInv, DocTypes
<1>4. DocTypes'
  BY <1>3 DEF MirrorInv, DocTypes
<1>5. ListedThenFetched'
  <2>1. version' \in [Docs -> Nat] /\ \A e \in Docs : version'[e] >= version[e]
    BY DEF MirrorInv, DocTypes
  <2>2. QED
    BY <1>1, <2>1, NoCallFacts, OthersListed DEF MirrorInv
<1>6. OneWriter'
  <2> SUFFICES ASSUME ~clash' PROVE OneWriter'
    BY DEF OneWriter
  <2>1. ~clash /\ metaV'[d] <= textV[d]
    BY DEF MirrorInv, OneWriter
  <2>2. \A q \in Procs : doing'[q].at = "between" => q # p /\ doing'[q] = doing[q] /\ doing[q].doc # d
                                                      /\ doing[q].at = "between"
    BY <1>3, <2>1 DEF D!Between, MirrorInv, OneWriter
  <2>3. ASSUME NEW e \in Docs, \A q \in Procs : doing'[q].at = "between" => doing'[q].doc # e
        PROVE  metaV'[e] <= textV'[e]
    <3>1. CASE e = d
      BY <2>1, <3>1
    <3>2. CASE e # d
      <4>1. \A q \in Procs : doing[q].at = "between" => doing[q].doc # e
        BY <1>3, <2>3, <3>2
      <4>2. QED
        BY <2>1, <3>2, <4>1 DEF OneWriter, MirrorInv, D!Between
    <3>3. QED
      BY <3>1, <3>2
  <2>4. QED
    BY <2>1, <2>2, <2>3 DEF OneWriter, MirrorInv, D!Between
<1>7. QED
  BY <1>4, <1>5, <1>6 DEF MirrorInv

LEMMA ServesKeeps ==
  ASSUME MirrorInv, NEW p \in Procs, D!Serves(p)
  PROVE  MirrorInv'
<1> DEFINE d == doing[p].doc
           c == [doing[p] EXCEPT !.served = TRUE, !.got = version[d]]
<1>0. /\ doing[p] \in Call /\ doing[p].at \in {"look", "read", "list", "text", "put"} /\ d \in Docs
      /\ ~doing[p].served /\ version[d] \in Nat
  BY DEF MirrorInv, DocTypes, D!Serves
<1>1. /\ doing' = [doing EXCEPT ![p] = c] /\ UNCHANGED <<textV, metaV, clash>>
      /\ version' = [version EXCEPT ![d] = @ + 1] \/ version' = version
  BY DEF D!Serves
<1>2. /\ c \in Call /\ c.at = doing[p].at /\ c.doc = d /\ c.seen = doing[p].seen
      /\ c.got = version[d] /\ c.served
  BY <1>0 DEF Call
<1> HIDE DEF c
<1>3. version' \in [Docs -> Nat] /\ \A e \in Docs : version'[e] >= version[e]
  BY <1>0, <1>1 DEF MirrorInv, DocTypes
<1>4. DocTypes'
  <2>1. doing' \in [Procs -> Call] /\ doing'[p] = c /\ \A q \in Procs : q # p => doing'[q] = doing[q]
    BY <1>1, <1>2, OneCall DEF MirrorInv, DocTypes
  <2>2. \A q \in Procs : doing'[q].at # "none" => doing'[q].doc \in Docs
    BY <1>0, <1>2, <2>1 DEF MirrorInv, DocTypes
  <2>3. QED
    BY <1>1, <1>3, <2>1, <2>2 DEF MirrorInv, DocTypes
<1>5. ListedThenFetched'
  <2>1. c.at = "text" => c.seen <= c.got
    BY <1>0, <1>2 DEF MirrorInv, ListedThenFetched
  <2>2. QED
    BY <1>0, <1>1, <1>2, <1>3, <2>1, OthersListed DEF MirrorInv
<1>6. OneWriter'
  BY <1>0, <1>1, <1>2, MirrorRests DEF MirrorInv, D!Between
<1>7. QED
  BY <1>4, <1>5, <1>6 DEF MirrorInv

LEMMA MirrorStep ==
  ASSUME PartsAssumption, MirrorInv, D!Next
  PROVE  MirrorInv'
<1>0. ASSUME NEW p \in Procs
      PROVE  doing[p] \in Call /\ (doing[p].at # "none" => doing[p].doc \in Docs)
  BY DEF MirrorInv, DocTypes
<1>1. ASSUME NEW p \in Procs, D!SaveOver(p) PROVE MirrorInv'
  BY <1>0, <1>1, StepKeeps DEF D!SaveOver, D!Awaits, D!Between, Call
<1>2. ASSUME NEW p \in Procs, D!Compare(p) PROVE MirrorInv'
  <2>1. doing[p].at = "list" /\ doing[p].served /\ doing[p].got <= version[doing[p].doc]
    BY <1>2 DEF D!Compare, D!Awaits, MirrorInv, ListedThenFetched
  <2>2. CASE D!Ends(p)
    BY <1>2, <2>1, <2>2, EndKeeps DEF D!Compare, D!Between
  <2>3. CASE D!Step(p, "text", doing[p].got)
    <3>1. doing[p].got \in Nat
      BY <1>0 DEF Call
    <3>2. QED
      BY <1>2, <2>1, <2>3, <3>1, StepKeeps DEF D!Compare, D!Between
  <2>4. QED
    BY <1>2, <2>2, <2>3 DEF D!Compare
<1>3. ASSUME NEW p \in Procs, D!FirstWrite(p) PROVE MirrorInv'
  BY <1>3, FirstWriteKeeps
<1>4. ASSUME NEW p \in Procs, D!SecondWrite(p) PROVE MirrorInv'
  <2>1. /\ D!Between(p) /\ D!Ends(p) /\ UNCHANGED <<version, textV, clash>>
        /\ metaV' = [metaV EXCEPT ![doing[p].doc] = doing[p].seen]
    BY <1>4 DEF D!SecondWrite, D!Writes
  <2>2. /\ doing[p].doc \in Docs /\ doing[p].seen \in Nat /\ doing[p].seen <= doing[p].got
        /\ metaV \in [Docs -> Nat] /\ clash \in BOOLEAN
    BY <2>1 DEF MirrorInv, DocTypes, ListedThenFetched, Call, D!Between
  <2>3. /\ metaV' \in [Docs -> Nat] /\ metaV'[doing[p].doc] = doing[p].seen
        /\ \A e \in Docs : e # doing[p].doc => metaV'[e] = metaV[e]
    BY <2>1, <2>2
  <2>4. QED
    BY <2>1, <2>2, <2>3, WriterLeaves
<1>5. ASSUME NEW p \in Procs, D!Answered(p) PROVE MirrorInv'
  BY <1>5, EndKeeps DEF D!Answered, D!Awaits, D!Between
<1>6. ASSUME NEW p \in Procs, D!Fails(p) PROVE MirrorInv'
  <2>1. doing[p].at \in {"look", "put", "read", "list", "text"} /\ UNCHANGED <<version, textV, metaV, clash>>
    BY <1>6 DEF D!Fails
  <2>2. CASE D!Ends(p)
    BY <2>1, <2>2, EndKeeps DEF D!Between
  <2>3. CASE D!Step(p, "put", 0)
    BY <2>1, <2>3, StepKeeps DEF D!Between
  <2>4. QED
    BY <1>6, <2>2, <2>3 DEF D!Fails
<1>7. ASSUME NEW p \in Procs, D!Dies(p) PROVE MirrorInv'
  <2>1. /\ D!Ends(p) /\ UNCHANGED <<version, textV, metaV>>
        /\ clash' = (clash \/ (D!Between(p) /\ textV[doing[p].doc] = doing[p].got
                                            /\ metaV[doing[p].doc] > doing[p].got))
    BY <1>7 DEF D!Dies
  <2>2. CASE D!Between(p)
    <3>1. doing[p].doc \in Docs /\ doing[p].got \in Nat /\ metaV \in [Docs -> Nat]
          /\ metaV[doing[p].doc] \in Nat
      BY <1>0, <2>2 DEF MirrorInv, DocTypes, Call, D!Between
    <3>2. ASSUME ~clash' PROVE ~clash /\ metaV[doing[p].doc] <= doing[p].got
      <4>1. ~clash /\ ~(textV[doing[p].doc] = doing[p].got /\ metaV[doing[p].doc] > doing[p].got)
        BY <2>1, <2>2, <3>2 DEF MirrorInv, DocTypes
      <4>2. textV[doing[p].doc] = doing[p].got
        BY <2>2, <4>1 DEF MirrorInv, OneWriter
      <4>3. QED
        BY <3>1, <4>1, <4>2
    <3>3. clash' \in BOOLEAN
      BY <2>1 DEF MirrorInv, DocTypes
    <3>4. QED
      BY <2>1, <2>2, <3>1, <3>2, <3>3, WriterLeaves
  <2>3. CASE ~D!Between(p)
    <3>1. UNCHANGED clash
      BY <2>1, <2>3 DEF MirrorInv, DocTypes
    <3>2. QED
      BY <2>1, <2>3, <3>1, EndKeeps
  <2>4. QED
    BY <2>2, <2>3
<1>8. ASSUME NEW p \in Procs, D!Serves(p) PROVE MirrorInv'
  BY <1>8, ServesKeeps
<1>9. ASSUME NEW p \in Procs, NEW d \in Docs,
             \/ D!ListSkills(p, d) \/ D!LoadSkill(p, d) \/ D!LoadMemory(p, d)
             \/ D!ListDocs(p, d) \/ D!GetDoc(p, d) \/ D!Revisions(p, d)
             \/ D!SaveMemory(p, d) \/ D!SaveSkill(p, d) \/ D!SyncSkill(p, d)
             \/ \E expected \in 0..MaxVersion : D!UpsertDoc(p, d, expected)
      PROVE  MirrorInv'
  <2>1. PICK at \in {"look", "put", "read", "list"}, seen \in Nat : D!Enter(p, at, d, seen)
    <3>1. MaxVersion \in Nat
      BY DEF PartsAssumption, D!DocsAssumption
    <3>2. QED
      BY <1>9, <3>1 DEF D!ListSkills, D!LoadSkill, D!LoadMemory, D!ListDocs, D!GetDoc, D!Revisions,
         D!SaveMemory, D!SaveSkill, D!SyncSkill, D!UpsertDoc
  <2>2. QED
    BY <2>1, EnterKeeps
<1>10. QED
  BY <1>1, <1>2, <1>3, <1>4, <1>5, <1>6, <1>7, <1>8, <1>9 DEF D!Next

LEMMA MirrorInvHolds == PartSpec => []MirrorInv
<1>1. PartInit => MirrorInv
  <2> SUFFICES ASSUME D!Init PROVE MirrorInv
    BY DEF PartInit
  <2>1. \A p \in Procs : doing[p] = D!NoCall
    BY DEF D!Init
  <2>2. DocTypes
    BY NoCallFacts DEF D!Init, DocTypes
  <2>3. QED
    BY <2>1, <2>2, NoCallFacts DEF D!Init, MirrorInv, ListedThenFetched, OneWriter, D!Between
<1>2. MirrorInv /\ [PartNext]_all => MirrorInv'
  <2> SUFFICES ASSUME MirrorInv, [PartNext]_all PROVE MirrorInv'
    OBVIOUS
  <2>1. CASE Documents(D!Next)
    BY <2>1, PartsAssumption, MirrorStep DEF Documents
  <2>2. CASE UNCHANGED docs
    BY <2>2 DEF docs, MirrorInv, DocTypes, ListedThenFetched, OneWriter, D!Between
  <2>3. QED
    BY <2>1, <2>2 DEF PartNext, App, Gui, Manager, Wake, Muse, Tools, Once, all
<1>3. QED
  BY <1>1, <1>2, PTL DEF PartSpec

\* The mirror of a document never claims a version newer than its text, unless processes
\* wrote it at once.
THEOREM CacheHonestHolds == PartSpec => []CacheHonest
<1>1. MirrorInv => CacheHonest
  BY DEF MirrorInv, OneWriter, CacheHonest
<1>2. QED
  BY <1>1, MirrorInvHolds, PTL

-----------------------------------------------------------------------------
(* The tool calls (server.ts, the handlers).                              *)

Step == {"gate", "frame", "blind", "hint", "look", "need", "post"}
Steps(script) == {script[k] : k \in DOMAIN script}

\* The calls have their types, and only the last one is under way.
ToolTypes ==
  /\ open \in BOOLEAN /\ loaded \in BOOLEAN /\ known \in BOOLEAN
  /\ calls \in Seq(T!Call)
  /\ \A i \in DOMAIN calls : calls[i].told \in {"none", "verify"} => i = Len(calls)

\* What is left to do of a call under way, and what it has done: a join hands over a
\* frame and posts; a request is posted by a call that has handed over nothing; an upload
\* comes before all else; a frame and a hint belong to calls that post nothing.
Plan(c) ==
  \/ c.tool = "join_channel" /\ Steps(c.todo) \subseteq {"hint", "post", "look"}
  \/ c.tool # "join_channel" /\ Steps(c.todo) \subseteq {"look", "post"} /\ c.sent = 0
  \/ c.hub = "none" /\ c.tool # "join_channel"
     /\ \/ c.todo # <<>> /\ Head(c.todo) = "need" /\ Steps(Tail(c.todo)) \subseteq {"look", "post"}
           /\ c.sent = 0
        \/ Steps(c.todo) \subseteq {"gate", "look", "frame"} /\ c.sent = 0
        \/ Steps(c.todo) \subseteq {"gate", "look", "blind"} /\ c.sent = 0 /\ c.tool = "edit_message"
        \/ Steps(c.todo) \subseteq {"hint"}

\* What the agent was told of one call agrees with what the hub and the socket got of it.
Verdict(c) ==
  LET posted == c.hub \notin {"none", "declined"}
      unanswered == c.hub \in {"lost", "late"} IN
  /\ c.told = "sent" => c.hub = "done"
  /\ c.told = "failed" => (~posted \/ unanswered) /\ (c.sent = 0 \/ c.tool = "join_channel")
  /\ c.told = "offline" => ~posted /\ c.sent = 0
  /\ c.told = "dispatched" => c.sent = 1 \/ c.tool = "edit_message"
  /\ c.told = "verify" => c.tool = "join_channel" /\ c.hub = "declined"
  /\ posted /\ c.sent = 1 => \/ c.tool = "join_channel"
                             \/ c.tool \in {"reply", "leave_channel"} /\ c.told = "dispatched" /\ unanswered

\* A channel whose join was answered is known until a later call leaves it.
JoinIsKnown ==
  \A i \in DOMAIN calls :
    /\ calls[i].tool = "join_channel"
    /\ \/ calls[i].told \in {"sent", "member"}
       \/ calls[i].told = "none" /\ "post" \notin Steps(calls[i].todo)
    => known \/ \E j \in DOMAIN calls : j > i /\ calls[j].tool = "leave_channel"

\* What is told is true, and what is under way keeps it so.
ToolInv ==
  /\ ToolTypes /\ JoinIsKnown
  /\ \A i \in DOMAIN calls : Verdict(calls[i]) /\ (calls[i].told = "none" => Plan(calls[i]))

\* The steps of a script, taken one by one or put together.
LEMMA StepsOf ==
  ASSUME NEW s \in Seq(Step)
  PROVE  /\ Steps(s) \subseteq Step
         /\ s # <<>> => /\ Head(s) \in Step /\ Tail(s) \in Seq(Step)
                        /\ Steps(s) = {Head(s)} \cup Steps(Tail(s))
<1>1. Steps(s) \subseteq Step
  BY DEF Steps
<1>2. ASSUME s # <<>>
      PROVE  Head(s) \in Step /\ Tail(s) \in Seq(Step) /\ Steps(s) = {Head(s)} \cup Steps(Tail(s))
  <2>1. /\ Head(s) \in Step /\ Tail(s) \in Seq(Step) /\ Head(s) = s[1]
        /\ Len(s) \in Nat \ {0} /\ Len(Tail(s)) = Len(s) - 1
        /\ \A k \in 1..Len(s) - 1 : Tail(s)[k] = s[k + 1]
    BY <1>2
  <2>2. ASSUME NEW x \in Steps(s) PROVE x \in {Head(s)} \cup Steps(Tail(s))
    <3>1. PICK k \in 1..Len(s) : x = s[k]
      BY DEF Steps
    <3>2. k = 1 \/ (k - 1 \in 1..Len(s) - 1 /\ Tail(s)[k - 1] = s[k])
      BY <2>1
    <3>3. CASE k = 1
      BY <2>1, <3>1, <3>3
    <3>4. CASE k - 1 \in 1..Len(s) - 1 /\ Tail(s)[k - 1] = s[k]
      <4>1. k - 1 \in DOMAIN Tail(s)
        BY <2>1, <3>4
      <4>2. QED
        BY <3>1, <3>4, <4>1 DEF Steps
    <3>5. QED
      BY <3>2, <3>3, <3>4
  <2>3. ASSUME NEW x \in Steps(Tail(s)) PROVE x \in Steps(s)
    <3>1. PICK k \in 1..Len(s) - 1 : x = Tail(s)[k]
      BY <2>1 DEF Steps
    <3>2. k + 1 \in DOMAIN s /\ x = s[k + 1]
      BY <2>1, <3>1
    <3>3. QED
      BY <3>2 DEF Steps
  <2>4. Head(s) \in Steps(s)
    BY <2>1 DEF Steps
  <2>5. QED
    BY <2>1, <2>2, <2>3, <2>4
<1>3. QED
  BY <1>1, <1>2

LEMMA StepsOfBoth ==
  ASSUME NEW s \in Seq(Step), NEW t \in Seq(Step)
  PROVE  s \o t \in Seq(Step) /\ Steps(s \o t) = Steps(s) \cup Steps(t)
<1>1. /\ s \o t \in Seq(Step) /\ Len(s \o t) = Len(s) + Len(t)
      /\ \A k \in 1..Len(s) : (s \o t)[k] = s[k]
      /\ \A k \in 1..Len(t) : (s \o t)[Len(s) + k] = t[k]
  OBVIOUS
<1>2. ASSUME NEW x \in Steps(s \o t) PROVE x \in Steps(s) \cup Steps(t)
  <2>1. PICK k \in 1..Len(s) + Len(t) : x = (s \o t)[k]
    BY <1>1 DEF Steps
  <2>2. k \in 1..Len(s) \/ (k - Len(s) \in 1..Len(t) /\ Len(s) + (k - Len(s)) = k)
    OBVIOUS
  <2>3. QED
    BY <1>1, <2>1, <2>2 DEF Steps
<1>3. ASSUME NEW x \in Steps(s) PROVE x \in Steps(s \o t)
  BY <1>1 DEF Steps
<1>4. ASSUME NEW x \in Steps(t) PROVE x \in Steps(s \o t)
  <2>1. PICK k \in 1..Len(t) : x = t[k]
    BY DEF Steps
  <2>2. Len(s) + k \in 1..Len(s \o t) /\ x = (s \o t)[Len(s) + k]
    BY <1>1, <2>1
  <2>3. QED
    BY <2>2 DEF Steps
<1>5. QED
  BY <1>1, <1>2, <1>3, <1>4

LEMMA TailOfBoth ==
  ASSUME NEW s \in Seq(Step), NEW t \in Seq(Step), s # <<>>
  PROVE  /\ s \o t # <<>> /\ Head(s \o t) = Head(s)
         /\ Steps(Tail(s \o t)) \subseteq Steps(Tail(s)) \cup Steps(t)
<1> DEFINE both == s \o t
<1>1. /\ both \in Seq(Step) /\ Len(both) = Len(s) + Len(t) /\ Len(s) \in Nat \ {0} /\ Len(t) \in Nat
      /\ \A k \in 1..Len(s) : both[k] = s[k]
      /\ \A k \in 1..Len(t) : both[Len(s) + k] = t[k]
  OBVIOUS
<1> HIDE DEF both
<1>2. both # <<>> /\ Head(both) = both[1] /\ Head(s) = s[1] /\ 1 \in 1..Len(s)
  BY <1>1
<1>6. Len(Tail(s)) = Len(s) - 1 /\ \A k \in 1..(Len(s) - 1) : Tail(s)[k] = s[k + 1]
  OBVIOUS
<1>7. DOMAIN Tail(s) = 1..(Len(s) - 1)
  BY <1>6
<1>3. ASSUME NEW x \in Steps(Tail(both)) PROVE x \in Steps(Tail(s)) \cup Steps(t)
  <2>1. PICK k \in DOMAIN Tail(both) : x = Tail(both)[k]
    BY DEF Steps
  <2>2. k \in 1..(Len(s) + Len(t) - 1) /\ x = both[k + 1]
    BY <1>1, <1>2, <2>1
  <2>3. CASE k \in 1..(Len(s) - 1)
    <3>1. k + 1 \in 1..Len(s)
      BY <1>1, <2>3
    <3>3. k \in DOMAIN Tail(s) /\ x = Tail(s)[k]
      BY <1>1, <1>6, <1>7, <2>2, <2>3, <3>1
    <3>2. QED
      BY <3>3 DEF Steps
  <2>4. CASE k \notin 1..(Len(s) - 1)
    <3>1. k + 1 - Len(s) \in 1..Len(t) /\ k + 1 = Len(s) + (k + 1 - Len(s))
      BY <1>1, <2>2, <2>4
    <3>2. x = t[k + 1 - Len(s)]
      BY <1>1, <2>2, <3>1
    <3>3. QED
      BY <3>1, <3>2 DEF Steps
  <2>5. QED
    BY <2>3, <2>4
<1>4. both # <<>> /\ Head(both) = Head(s)
  BY <1>1, <1>2
<1>5. QED
  BY <1>3, <1>4 DEF both

LEMMA StepsOfOne ==
  ASSUME NEW x \in Step
  PROVE  <<x>> \in Seq(Step) /\ Steps(<<x>>) = {x}
BY DEF Steps

\* A call that begins with a script.
Fresh(name, script) ==
  [tool |-> IF name \in T!Special THEN name ELSE "other",
   todo |-> script, hub |-> "none", sent |-> 0, told |-> "none"]
Begins(name, script) ==
  /\ script \in Seq(Step) /\ Plan(Fresh(name, script))
  /\ name = "join_channel" => "post" \in Steps(script)

LEMMA ScriptsOf ==
  /\ \A name \in DOMAIN T!Script : Begins(name, T!Script[name])
  /\ \A name \in DOMAIN T!Extended : Begins(name, T!Extended[name])
<1> DEFINE Asks == {s \in Seq(Step) : Steps(s) \subseteq {"look", "post"}}
           Hands == {s \in Seq(Step) : Steps(s) \subseteq {"look", "frame"}}
<1>1. /\ <<"look">> \in Asks /\ <<"post">> \in Asks
      /\ <<"look">> \in Hands /\ <<"frame">> \in Hands
  BY StepsOfOne DEF Step
<1>2. \A s, t \in Asks : s \o t \in Asks
  BY StepsOfBoth
<1>3. \A s, t \in Hands : s \o t \in Hands
  BY StepsOfBoth
<1>4. /\ T!Prepare \in Asks /\ T!Context \in Asks /\ T!Prepare \in Hands
  BY <1>1, <1>2, <1>3 DEF T!Prepare, T!Mentions, T!Redact, T!Context
<1>5. /\ <<"look", "look">> \in Asks /\ <<"post", "look">> \in Asks
  BY <1>1 DEF Steps, Step
<1>6. T!Brief \in Asks /\ T!Reply \in Asks /\ T!ListMembers \in Asks
  BY <1>1, <1>2, <1>4, <1>5 DEF T!Brief, T!Reply, T!ListMembers
<1>7. T!ThreadReply \in Hands
  BY <1>1, <1>3, <1>4 DEF T!ThreadReply
<1>8. Begins("edit_message", T!EditMessage)
  <2>1. T!EditMessage \in Seq(Step) /\ Steps(T!EditMessage) \subseteq {"gate", "look", "blind"}
    <3> DEFINE Edits == {s \in Seq(Step) : Steps(s) \subseteq {"gate", "look", "blind"}}
    <3>1. <<"gate">> \in Edits /\ <<"look">> \in Edits /\ <<"blind">> \in Edits
      BY StepsOfOne DEF Step
    <3>2. \A s, t \in Edits : s \o t \in Edits
      BY StepsOfBoth
    <3>3. T!EditMessage \in Edits
      <4> HIDE DEF Edits
      <4> QED
        BY <3>1, <3>2 DEF T!EditMessage, T!Prepare, T!Mentions, T!Redact
    <3>4. QED
      BY <3>3
  <2>2. QED
    BY <2>1 DEF Begins, Plan, Fresh, T!Special
<1>9. Begins("join_channel", T!Join)
  <2>1. /\ <<"hint", "post">> \in Seq(Step) /\ Steps(<<"hint", "post">>) = {"hint", "post"}
        /\ <<"look", "look">> \in Seq(Step) /\ Steps(<<"look", "look">>) = {"look"}
        /\ <<"look">> \in Seq(Step) /\ Steps(<<"look">>) = {"look"}
    BY DEF Steps, Step
  <2>2. T!Brief \in Seq(Step) /\ Steps(T!Brief) = {"look"}
    BY <2>1, StepsOfBoth DEF T!Brief, T!Context
  <2>3. T!Join \in Seq(Step) /\ Steps(T!Join) = {"hint", "post", "look"}
    <3>1. PICK s, t \in Seq(Step) : T!Join = s \o t /\ Steps(s) = {"hint", "post"} /\ Steps(t) = {"look"}
      BY <2>1, <2>2 DEF T!Join
    <3>2. QED
      BY <3>1, StepsOfBoth
  <2>4. QED
    BY <2>3 DEF Begins, Plan, Fresh, T!Special
<1>10. \A name : name \notin {"join_channel", "edit_message"} =>
         /\ \A s \in Asks \cup Hands : Begins(name, s)
         /\ Begins(name, <<"hint">>)
  <2> SUFFICES ASSUME NEW name, name \notin {"join_channel", "edit_message"}
               PROVE  /\ \A s \in Asks \cup Hands : Begins(name, s)
                      /\ Begins(name, <<"hint">>)
    OBVIOUS
  <2>1. \A s : Fresh(name, s).tool # "join_channel" /\ Fresh(name, s).hub = "none"
               /\ Fresh(name, s).sent = 0 /\ Fresh(name, s).todo = s
    BY DEF Fresh
  <2>2. <<"hint">> \in Seq(Step) /\ Steps(<<"hint">>) \subseteq {"hint"}
    BY StepsOfOne DEF Step
  <2>3. QED
    BY <2>1, <2>2 DEF Begins, Plan
<1>upload. Begins("send_image", T!SendMedia)
  <2>1. /\ <<"need">> \in Seq(Step) /\ <<"need">> # <<>> /\ Head(<<"need">>) = "need"
        /\ Steps(Tail(<<"need">>)) = {} /\ <<"post">> \in Seq(Step) /\ Steps(<<"post">>) = {"post"}
    BY StepsOfOne DEF Step, Steps
  <2>2. PICK u \in Seq(Step) : /\ u = <<"need">> \o T!Prepare /\ u # <<>> /\ Head(u) = "need"
                              /\ Steps(Tail(u)) \subseteq {"look", "post"}
    <3>1. T!Prepare \in Seq(Step) /\ Steps(T!Prepare) \subseteq {"look", "post"}
      BY <1>4
    <3> DEFINE v == <<"need">> \o T!Prepare
    <3>2. v \in Seq(Step) /\ v # <<>> /\ Head(v) = "need"
          /\ Steps(Tail(v)) \subseteq Steps(Tail(<<"need">>)) \cup Steps(T!Prepare)
      BY <2>1, <3>1, StepsOfBoth, TailOfBoth
    <3>3. QED
      BY <2>1, <3>1, <3>2
  <2>3. /\ T!SendMedia \in Seq(Step) /\ T!SendMedia # <<>> /\ Head(T!SendMedia) = "need"
        /\ Steps(Tail(T!SendMedia)) \subseteq {"look", "post"}
    <3>1. T!SendMedia = u \o <<"post">>
      BY <2>2 DEF T!SendMedia, T!UploadLocalFile
    <3>2. QED
      BY <2>1, <2>2, <3>1, StepsOfBoth, TailOfBoth
  <2>4. QED
    BY <2>3 DEF Begins, Plan, Fresh, T!Special
<1>11. ASSUME NEW name \in DOMAIN T!Script PROVE Begins(name, T!Script[name])
  <2> HIDE DEF Asks, Hands
  <2>1. CASE name = "join_channel"
    BY <1>9, <2>1 DEF T!Script
  <2>2. CASE name # "join_channel"
    <3>1. T!Script[name] \in Asks \cup Hands /\ name # "edit_message"
      BY <1>1, <1>4, <1>5, <1>6, <2>2
         DEF T!Script, T!ListMine, T!Leave, T!MarkRead, T!ListChannels, T!FindDm, T!ListLoops,
             T!Entitlements, T!History, T!OkrObjectives
    <3>2. QED
      BY <1>10, <2>2, <3>1
  <2>3. QED
    BY <2>1, <2>2
<1>12. ASSUME NEW name \in DOMAIN T!Extended PROVE Begins(name, T!Extended[name])
  <2> HIDE DEF Asks, Hands
  <2>1. CASE name = "edit_message"
    BY <1>8, <2>1 DEF T!Extended
  <2>upload. CASE name = "send_image"
    BY <1>upload, <2>upload DEF T!Extended
  <2>2. CASE name \notin {"edit_message", "send_image"}
    <3>1. T!Extended[name] \in Asks \cup Hands \cup {<<"hint">>} /\ name # "join_channel"
      BY <1>1, <1>5, <1>6, <1>7, <2>2
         DEF T!Extended, T!SendTyping, T!Reparent, T!ListVoices, T!SetVoice, T!Transcribe, T!React,
             T!Pin, T!DeleteMessage, T!SetStatus, T!ArchiveChannel, T!Report, T!Moderation,
             T!SetTopic, T!Forward, T!Search, T!Vote, T!Propose, T!HiddenJoin, T!HiddenSecret,
             T!HiddenMoves, T!OkrTasks, T!OkrThreads, T!OkrProgress, T!OkrLinks
    <3>2. QED
      BY <1>10, <2>2, <3>1
  <2>3. QED
    BY <2>1, <2>2, <2>upload
<1>13. QED
  BY <1>11, <1>12

\* A step of the call under way, and of nothing else.
LEMMA CallGoesOn ==
  ASSUME ToolInv, T!Busy, NEW c \in T!Call, T!Update(c), c.tool = T!Now.tool,
         open' \in BOOLEAN, loaded' \in BOOLEAN, known' \in BOOLEAN,
         Verdict(c), c.told = "none" => Plan(c),
         known /\ ~known' => c.tool = "leave_channel",
         /\ c.tool = "join_channel"
         /\ c.told \in {"sent", "member"} \/ (c.told = "none" /\ "post" \notin Steps(c.todo))
         => known'
  PROVE  ToolInv'
<1> DEFINE n == Len(calls)
<1>1. /\ calls \in Seq(T!Call) /\ n \in Nat \ {0} /\ n \in DOMAIN calls /\ DOMAIN calls = 1..n
      /\ T!Now = calls[n]
  BY DEF ToolInv, ToolTypes, T!Busy, T!Now
<1>2. calls' = [calls EXCEPT ![n] = c]
  BY DEF T!Update
<1>3. /\ calls' \in Seq(T!Call) /\ Len(calls') = n /\ DOMAIN calls' = 1..n /\ calls'[n] = c
      /\ \A i \in 1..n : i # n => calls'[i] = calls[i]
  <2>1. calls \in [1..n -> T!Call] /\ n \in Nat
    BY <1>1
  <2> HIDE DEF n
  <2>2. calls' \in [1..n -> T!Call] /\ calls'[n] = c /\ \A i \in 1..n : i # n => calls'[i] = calls[i]
    BY <1>1, <1>2, <2>1
  <2>3. calls' \in Seq(T!Call) /\ Len(calls') = n /\ DOMAIN calls' = 1..n
    BY <2>1, <2>2
  <2>4. QED
    BY <2>2, <2>3
<1>4. ToolTypes'
  BY <1>1, <1>3 DEF ToolInv, ToolTypes
<1>5. \A i \in DOMAIN calls' : Verdict(calls'[i]) /\ (calls'[i].told = "none" => Plan(calls'[i]))
  BY <1>1, <1>3 DEF ToolInv
<1>6. JoinIsKnown'
  <2> SUFFICES ASSUME NEW i \in 1..n, ~known', calls'[i].tool = "join_channel",
                      \/ calls'[i].told \in {"sent", "member"}
                      \/ calls'[i].told = "none" /\ "post" \notin Steps(calls'[i].todo)
               PROVE  \E j \in DOMAIN calls' : j > i /\ calls'[j].tool = "leave_channel"
    BY <1>3 DEF JoinIsKnown
  <2>1. i # n
    BY <1>3
  <2> HIDE DEF n
  <2>6. calls'[i] = calls[i] /\ i < n
    BY <1>1, <1>3, <2>1
  <2>2. known \/ \E j \in DOMAIN calls : j > i /\ calls[j].tool = "leave_channel"
    BY <1>1, <2>6 DEF ToolInv, JoinIsKnown
  <2>3. CASE known
    BY <1>1, <1>3, <2>6, <2>3 DEF n
  <2>4. CASE \E j \in DOMAIN calls : j > i /\ calls[j].tool = "leave_channel"
    BY <1>1, <1>3, <2>4
  <2>5. QED
    BY <2>2, <2>3, <2>4
<1>7. QED
  BY <1>4, <1>5, <1>6 DEF ToolInv

\* The call under way.
LEMMA CallNow ==
  ASSUME ToolInv, T!Busy
  PROVE  /\ T!Now \in T!Call /\ Verdict(T!Now)
         /\ T!Now.told = "none" => Plan(T!Now)
         /\ T!Now.told = "none" /\ T!Now.tool = "join_channel" /\ "post" \notin Steps(T!Now.todo)
            => known
         /\ open \in BOOLEAN /\ loaded \in BOOLEAN /\ known \in BOOLEAN
<1>1. /\ calls \in Seq(T!Call) /\ Len(calls) \in Nat \ {0} /\ Len(calls) \in DOMAIN calls
      /\ T!Now = calls[Len(calls)] /\ DOMAIN calls = 1..Len(calls)
  BY DEF ToolInv, ToolTypes, T!Busy, T!Now
<1>2. ~ \E j \in DOMAIN calls : j > Len(calls)
  BY <1>1
<1>3. QED
  BY <1>1, <1>2 DEF ToolInv, JoinIsKnown, ToolTypes

\* A step taken from the script of the call under way.
LEMMA StepNow ==
  ASSUME ToolInv, NEW step, T!At(step)
  PROVE  /\ T!Busy /\ T!Now.told = "none" /\ step \in Steps(T!Now.todo) /\ Plan(T!Now)
         /\ T!Onward \in T!Call /\ Steps(T!Now.todo) = {step} \cup Steps(T!Onward.todo)
         /\ T!Now.todo # <<>> /\ Head(T!Now.todo) = step /\ T!Onward.todo = Tail(T!Now.todo)
         /\ \A f \in {"tool", "hub", "sent", "told"} : T!Onward[f] = T!Now[f]
<1>1. T!Busy /\ T!Now.told = "none" /\ T!Now.todo # <<>> /\ Head(T!Now.todo) = step
  BY DEF T!At
<1>2. T!Now \in T!Call /\ Plan(T!Now)
  BY <1>1, CallNow
<1>3. T!Now.todo \in Seq(Step)
  BY <1>2 DEF T!Call, Step
<1>4. Tail(T!Now.todo) \in Seq(Step) /\ Steps(T!Now.todo) = {step} \cup Steps(Tail(T!Now.todo))
  BY <1>1, <1>3, StepsOf
<1>5. /\ T!Onward \in T!Call /\ T!Onward.todo = Tail(T!Now.todo)
      /\ \A f \in {"tool", "hub", "sent", "told"} : T!Onward[f] = T!Now[f]
  <2> DEFINE rest == Tail(T!Now.todo)
  <2>1. T!Onward = [T!Now EXCEPT !.todo = rest]
    BY DEF T!Onward
  <2>2. rest \in Seq(Step)
    BY <1>4
  <2> HIDE DEF rest
  <2>3. T!Onward \in T!Call /\ T!Onward.todo = rest
        /\ \A f \in {"tool", "hub", "sent", "told"} : T!Onward[f] = T!Now[f]
    BY <1>2, <2>1, <2>2 DEF T!Call, Step
  <2>4. QED
    BY <2>3 DEF rest
<1>6. QED
  BY <1>1, <1>2, <1>4, <1>5

\* What the agent is told ends its call.
LEMMA TellNow ==
  ASSUME ToolInv, T!Busy, NEW what,
         what \in {"sent", "unknown", "dispatched", "offline", "failed", "verify", "member", "shown"}
  PROVE  /\ T!Tell(what) \in T!Call /\ T!Tell(what).told = what /\ what # "none"
         /\ T!Tell(what).todo = <<>>
         /\ \A f \in {"tool", "hub", "sent"} : T!Tell(what)[f] = T!Now[f]
<1>1. T!Now \in T!Call
  BY CallNow
<1>2. <<>> \in Seq(Step)
  OBVIOUS
<1>3. QED
  BY <1>1, <1>2 DEF T!Tell, T!Call, Step

\* What is left of a plan is one.
LEMMA PlanShrinks ==
  ASSUME NEW c, NEW d, Plan(c), d.tool = c.tool, d.hub = c.hub, d.sent = c.sent,
         Steps(d.todo) \subseteq Steps(c.todo), d.todo = Tail(c.todo)
  PROVE  Plan(d)
BY DEF Plan

LEMMA GateKeeps == ASSUME ToolInv, T!Gate PROVE ToolInv'
<1>1. T!At("gate") /\ UNCHANGED <<open, loaded, known>>
  BY DEF T!Gate
<1>2. T!Busy /\ T!Now.told = "none" /\ Verdict(T!Now) /\ T!Now \in T!Call
      /\ open \in BOOLEAN /\ loaded \in BOOLEAN /\ known \in BOOLEAN
  BY <1>1, StepNow, CallNow
<1>3. CASE open
  <2>1. T!Update(T!Onward)
    BY <1>3 DEF T!Gate
  <2>2. Plan(T!Onward) /\ Verdict(T!Onward)
    BY <1>1, <1>2, StepNow, PlanShrinks DEF Verdict
  <2>3. QED
    BY <1>1, <1>2, <2>1, <2>2, StepNow, CallNow, CallGoesOn
<1>4. CASE ~open
  <2>1. T!Update(T!Tell("offline"))
    BY <1>4 DEF T!Gate
  <2>2. T!Now.hub = "none" /\ T!Now.sent = 0
    BY <1>1, StepNow DEF Plan
  <2>3. Verdict(T!Tell("offline"))
    BY <1>2, <2>2, TellNow DEF Verdict
  <2>4. QED
    BY <1>1, <1>2, <2>1, <2>3, TellNow, CallGoesOn
<1>5. QED
  BY <1>2, <1>3, <1>4

LEMMA FrameKeeps == ASSUME ToolInv, T!Frame PROVE ToolInv'
<1>1. T!At("frame") /\ UNCHANGED <<open, loaded, known>>
  BY DEF T!Frame
<1>2. T!Busy /\ T!Now.told = "none" /\ T!Now \in T!Call /\ T!Now.hub = "none" /\ T!Now.sent = 0
      /\ open \in BOOLEAN /\ loaded \in BOOLEAN /\ known \in BOOLEAN
  BY <1>1, StepNow, CallNow DEF Plan
<1>3. CASE open
  <2> DEFINE c == [T!Tell("dispatched") EXCEPT !.sent = 1]
  <2>1. T!Update(c)
    BY <1>3 DEF T!Frame
  <2>2. c \in T!Call /\ c.told = "dispatched" /\ c.tool = T!Now.tool /\ c.hub = "none" /\ c.sent = 1
    BY <1>2, TellNow DEF T!Call
  <2>3. Verdict(c)
    BY <2>2 DEF Verdict
  <2> HIDE DEF c
  <2>4. QED
    BY <1>1, <1>2, <2>1, <2>2, <2>3, CallGoesOn
<1>4. CASE ~open
  <2>1. T!Update(T!Tell("offline"))
    BY <1>4 DEF T!Frame
  <2>2. Verdict(T!Tell("offline"))
    BY <1>2, TellNow DEF Verdict
  <2>3. QED
    BY <1>1, <1>2, <2>1, <2>2, TellNow, CallGoesOn
<1>5. QED
  BY <1>2, <1>3, <1>4

LEMMA BlindKeeps == ASSUME ToolInv, T!Blind PROVE ToolInv'
<1>1. T!At("blind") /\ UNCHANGED <<open, loaded, known>>
  BY DEF T!Blind
<1>2. T!Busy /\ T!Now.told = "none" /\ T!Now \in T!Call /\ T!Now.hub = "none" /\ T!Now.sent = 0
      /\ T!Now.tool = "edit_message"
      /\ open \in BOOLEAN /\ loaded \in BOOLEAN /\ known \in BOOLEAN
  BY <1>1, StepNow, CallNow DEF Plan
<1>3. ASSUME NEW k \in 0..1, T!Update([T!Tell("dispatched") EXCEPT !.sent = k]) PROVE ToolInv'
  <2> DEFINE c == [T!Tell("dispatched") EXCEPT !.sent = k]
  <2>2. c \in T!Call /\ c.told = "dispatched" /\ c.tool = T!Now.tool /\ c.hub = "none"
    BY <1>2, TellNow DEF T!Call
  <2>3. Verdict(c)
    BY <1>2, <2>2 DEF Verdict
  <2>4. T!Update(c)
    BY <1>3
  <2> HIDE DEF c
  <2>5. QED
    BY <1>1, <1>2, <2>2, <2>3, <2>4, CallGoesOn
<1>4. ASSUME T!Update(T!Tell("failed")) PROVE ToolInv'
  <2>1. Verdict(T!Tell("failed"))
    BY <1>2, TellNow DEF Verdict
  <2>2. QED
    BY <1>1, <1>2, <1>4, <2>1, TellNow, CallGoesOn
<1>5. QED
  BY <1>3, <1>4 DEF T!Blind

LEMMA HintKeeps == ASSUME ToolInv, T!Hint PROVE ToolInv'
<1>1. T!At("hint") /\ UNCHANGED <<open, loaded, known>>
  BY DEF T!Hint
<1>2. T!Busy /\ T!Now.told = "none" /\ T!Now \in T!Call /\ Verdict(T!Now)
      /\ open \in BOOLEAN /\ loaded \in BOOLEAN /\ known \in BOOLEAN
  BY <1>1, StepNow, CallNow
<1>3. PICK k \in 0..1 : T!Update([T!Onward EXCEPT !.sent = k])
  BY DEF T!Hint
<1> DEFINE c == [T!Onward EXCEPT !.sent = k]
<1>4. /\ c \in T!Call /\ c.tool = T!Now.tool /\ c.hub = T!Now.hub /\ c.told = "none"
      /\ c.todo = T!Onward.todo
  BY <1>1, <1>2, StepNow DEF T!Call
<1>5. T!Update(c)
  BY <1>3
<1> HIDE DEF c
<1>6. Steps(T!Now.todo) = {"hint"} \cup Steps(c.todo)
  BY <1>1, <1>4, StepNow
<1>7. \/ c.tool = "join_channel" /\ Steps(c.todo) \subseteq {"hint", "post", "look"}
      \/ c.tool # "join_channel" /\ c.hub = "none" /\ Steps(c.todo) \subseteq {"hint"}
  BY <1>1, <1>4, <1>6, StepNow DEF Plan
<1>8. Plan(c) /\ Verdict(c)
  BY <1>4, <1>7 DEF Plan, Verdict
<1>9. c.tool = "join_channel" /\ "post" \notin Steps(c.todo) => known
  BY <1>1, <1>2, <1>4, <1>6, CallNow
<1>10. QED
  BY <1>1, <1>2, <1>4, <1>5, <1>8, <1>9, CallGoesOn

\* The script goes on after a step that asks for something the call does not need.
LEMMA OnwardKeeps ==
  ASSUME ToolInv, NEW step, T!At(step), step # "post", T!Update(T!Onward),
         UNCHANGED <<open, loaded, known>>
  PROVE  ToolInv'
<1>1. T!Busy /\ T!Now.told = "none" /\ T!Now \in T!Call /\ Verdict(T!Now)
      /\ open \in BOOLEAN /\ loaded \in BOOLEAN /\ known \in BOOLEAN
  BY StepNow, CallNow
<1>2. Plan(T!Onward) /\ Verdict(T!Onward)
  BY <1>1, StepNow, PlanShrinks DEF Verdict
<1>3. T!Onward.tool = "join_channel" /\ "post" \notin Steps(T!Onward.todo) => known
  BY <1>1, StepNow, CallNow
<1>4. QED
  BY <1>1, <1>2, <1>3, StepNow, CallGoesOn

LEMMA NeedKeeps == ASSUME ToolInv, T!Need PROVE ToolInv'
<1>1. T!At("need") /\ UNCHANGED <<open, loaded, known>>
  BY DEF T!Need
<1>2. T!Busy /\ T!Now.told = "none" /\ T!Now \in T!Call /\ Verdict(T!Now)
      /\ T!Now.sent = 0 /\ T!Now.hub = "none"
      /\ open \in BOOLEAN /\ loaded \in BOOLEAN /\ known \in BOOLEAN
  BY <1>1, StepNow, CallNow DEF Plan
<1>3. CASE T!Update(T!Tell("failed"))
  <2>1. Verdict(T!Tell("failed"))
    BY <1>2, TellNow DEF Verdict
  <2>2. QED
    BY <1>1, <1>2, <1>3, <2>1, TellNow, CallGoesOn
<1>4. QED
  BY <1>1, <1>3, OnwardKeeps DEF T!Need

LEMMA PostKeeps == ASSUME ToolInv, T!Post PROVE ToolInv'
<1>1. T!At("post") /\ UNCHANGED <<open, loaded, known>> /\ T!Now.hub = "none"
  BY DEF T!Post
<1>2. T!Busy /\ T!Now.told = "none" /\ T!Now \in T!Call /\ Verdict(T!Now)
      /\ open \in BOOLEAN /\ loaded \in BOOLEAN /\ known \in BOOLEAN
  BY <1>1, StepNow, CallNow
<1> DEFINE c == [T!Now EXCEPT !.hub = "asked"]
<1>3. /\ c \in T!Call /\ c.tool = T!Now.tool /\ c.hub = "asked" /\ c.told = "none"
      /\ c.todo = T!Now.todo /\ c.sent = T!Now.sent /\ T!Update(c)
  BY <1>2 DEF T!Call, T!Post
<1> HIDE DEF c
<1>4. "post" \in Steps(c.todo)
  BY <1>1, <1>3, StepNow
<1>5. \/ c.tool = "join_channel" /\ Steps(c.todo) \subseteq {"hint", "post", "look"}
      \/ c.tool # "join_channel" /\ Steps(c.todo) \subseteq {"look", "post"} /\ c.sent = 0
  BY <1>1, <1>3, <1>4, StepNow DEF Plan
<1>6. Plan(c) /\ Verdict(c)
  BY <1>3, <1>5 DEF Plan, Verdict
<1>7. QED
  BY <1>1, <1>2, <1>3, <1>4, <1>6, CallGoesOn

LEMMA AnswerKeeps == ASSUME ToolInv, T!Answer PROVE ToolInv'
<1>1. T!At("post") /\ UNCHANGED <<open, loaded>> /\ T!Now.hub \in {"done", "declined"}
  BY DEF T!Answer
<1>2. T!Busy /\ T!Now.told = "none" /\ T!Now \in T!Call /\ Verdict(T!Now)
      /\ open \in BOOLEAN /\ loaded \in BOOLEAN /\ known \in BOOLEAN
  BY <1>1, StepNow, CallNow
<1>3. T!Now.tool # "join_channel" => T!Now.sent = 0
  BY <1>1, StepNow DEF Plan
<1>4. CASE T!Now.hub = "done"
  <2>1. /\ T!Update(T!Onward)
        /\ known' = ((known /\ T!Now.tool # "leave_channel") \/ T!Now.tool = "join_channel")
    BY <1>4 DEF T!Answer, T!Joined
  <2>2. Plan(T!Onward) /\ Verdict(T!Onward)
    BY <1>1, <1>2, StepNow, PlanShrinks DEF Verdict
  <2>3. QED
    BY <1>1, <1>2, <2>1, <2>2, StepNow, CallGoesOn
<1>5. CASE T!Now.hub = "declined"
  <2>1. PICK what \in {"verify", "failed"} :
          /\ what = "failed" <=> T!Now.tool # "join_channel"
          /\ T!Update(T!Tell(what)) /\ known' = known
    BY <1>5 DEF T!Answer, T!Joined
  <2> DEFINE c == T!Tell(what)
  <2>2. /\ c \in T!Call /\ c.tool = T!Now.tool /\ c.hub = "declined" /\ c.told = what
        /\ c.sent = T!Now.sent /\ T!Update(c)
    BY <1>2, <1>5, <2>1, TellNow
  <2> HIDE DEF c
  <2>3. Verdict(c)
    BY <1>3, <2>1, <2>2 DEF Verdict
  <2>4. QED
    BY <1>1, <1>2, <2>1, <2>2, <2>3, CallGoesOn
<1>6. QED
  BY <1>1, <1>4, <1>5

LEMMA VerifyKeeps == ASSUME ToolInv, T!Verify PROVE ToolInv'
<1>1. T!Busy /\ T!Now.told = "verify" /\ UNCHANGED <<open, loaded>>
  BY DEF T!Verify
<1>2. /\ T!Now \in T!Call /\ Verdict(T!Now)
      /\ T!Now.tool = "join_channel" /\ T!Now.hub = "declined"
      /\ open \in BOOLEAN /\ loaded \in BOOLEAN /\ known \in BOOLEAN
  BY <1>1, CallNow DEF Verdict
<1>3. PICK what \in {"member", "failed", "unknown"} :
        T!Update(T!Tell(what)) /\ known' = (known \/ what = "member")
  BY DEF T!Verify
<1>4. Verdict(T!Tell(what))
  BY <1>1, <1>2, TellNow DEF Verdict
<1>5. QED
  BY <1>1, <1>2, <1>3, <1>4, TellNow, CallGoesOn

LEMMA NoAnswerKeeps == ASSUME ToolInv, T!NoAnswer PROVE ToolInv'
<1>1. T!At("post") /\ UNCHANGED <<open, loaded>> /\ T!Now.hub \in {"asked", "done", "declined"}
      /\ known' = (known /\ ~(T!Now.tool = "leave_channel" /\ open))
  BY DEF T!NoAnswer
<1>2. T!Busy /\ T!Now.told = "none" /\ T!Now \in T!Call /\ Verdict(T!Now)
      /\ open \in BOOLEAN /\ loaded \in BOOLEAN /\ known \in BOOLEAN
  BY <1>1, StepNow, CallNow
<1>3. T!Now.tool # "join_channel" => T!Now.sent = 0
  BY <1>1, StepNow DEF Plan
<1> DEFINE fate == CASE T!Now.hub = "asked" -> "lost" [] T!Now.hub = "done" -> "late" [] OTHER -> T!Now.hub
           gone == [T!Now EXCEPT !.hub = fate, !.todo = <<>>]
<1>4. <<>> \in Seq(Step) /\ fate \in {"lost", "late", "declined"}
  BY <1>1
<1>6. \/ T!Now.tool \in {"reply", "leave_channel"}
         /\ T!Update([gone EXCEPT !.sent = 1, !.told = "dispatched"])
      \/ T!Now.tool = "join_channel" /\ T!Update([gone EXCEPT !.told = "unknown"])
      \/ T!Now.tool # "join_channel" /\ T!Update([gone EXCEPT !.told = "failed"])
  BY DEF T!NoAnswer, T!Falls, T!Joined
<1> HIDE DEF fate
<1>5. gone \in T!Call /\ gone.tool = T!Now.tool /\ gone.sent = T!Now.sent /\ gone.hub = fate
  BY <1>2, <1>4 DEF T!Call, Step
<1> HIDE DEF gone
<1>7. CASE T!Now.tool \in {"reply", "leave_channel"}
           /\ T!Update([gone EXCEPT !.sent = 1, !.told = "dispatched"])
  <2> DEFINE c == [gone EXCEPT !.sent = 1, !.told = "dispatched"]
  <2>1. c \in T!Call /\ c.tool = T!Now.tool /\ c.sent = 1 /\ c.told = "dispatched" /\ c.hub = fate
    <3>1. [gone EXCEPT !.sent = 1] \in T!Call /\ 1 \in 0..1
      BY <1>5 DEF T!Call
    <3>2. QED
      BY <1>5, <3>1 DEF T!Call
  <2>4. T!Update(c)
    BY <1>7
  <2>2. Verdict(c)
    BY <1>4, <1>7, <2>1 DEF Verdict
  <2> HIDE DEF c
  <2>3. QED
    BY <1>1, <1>2, <2>1, <2>2, <2>4, CallGoesOn
<1>8. ASSUME NEW what \in {"unknown", "failed"}, what = "failed" => T!Now.tool # "join_channel",
             what = "unknown" => T!Now.tool = "join_channel", T!Update([gone EXCEPT !.told = what])
      PROVE  ToolInv'
  <2> DEFINE c == [gone EXCEPT !.told = what]
  <2>1. /\ c \in T!Call /\ c.tool = T!Now.tool /\ c.sent = T!Now.sent /\ c.told = what
        /\ c.hub = fate /\ T!Update(c)
    BY <1>5, <1>8 DEF T!Call
  <2>2. Verdict(c)
    BY <1>3, <1>4, <1>8, <2>1 DEF Verdict
  <2> HIDE DEF c
  <2>3. QED
    BY <1>1, <1>2, <2>1, <2>2, CallGoesOn
<1>9. QED
  BY <1>6, <1>7, <1>8

LEMMA FinishKeeps == ASSUME ToolInv, T!Finish PROVE ToolInv'
<1>1. T!Busy /\ T!Now.told = "none" /\ T!Now.todo = <<>> /\ UNCHANGED <<open, loaded, known>>
  BY DEF T!Finish
<1>2. /\ T!Now \in T!Call /\ Verdict(T!Now)
      /\ open \in BOOLEAN /\ loaded \in BOOLEAN /\ known \in BOOLEAN
  BY <1>1, CallNow
<1>3. T!Now.tool = "join_channel" => known
  <2>1. "post" \notin Steps(<<>>)
    BY DEF Steps
  <2>2. QED
    BY <1>1, <2>1, CallNow
<1>4. PICK what \in {"sent", "shown"} : T!Update(T!Tell(what)) /\ (what = "sent" => T!Now.hub = "done")
  BY DEF T!Finish
<1>5. Verdict(T!Tell(what))
  BY <1>1, <1>2, <1>4, TellNow DEF Verdict
<1>6. QED
  BY <1>1, <1>2, <1>3, <1>4, <1>5, TellNow, CallGoesOn

\* What the hub serves, in its time, makes no answer untrue.
LEMMA HubServesKeeps == ASSUME ToolInv, NEW i \in DOMAIN calls, T!Serves(i) PROVE ToolInv'
<1>1. calls \in Seq(T!Call) /\ calls[i] \in T!Call /\ Verdict(calls[i])
      /\ calls[i].hub \in {"asked", "lost"} /\ UNCHANGED <<open, loaded, known>>
  BY DEF ToolInv, ToolTypes, T!Serves
<1>2. PICK h \in {"declined", "late", "done"} :
        calls' = [calls EXCEPT ![i].hub = h] /\ (calls[i].hub = "lost" => h # "done")
  BY DEF T!Serves
<1> DEFINE c == [calls[i] EXCEPT !.hub = h]
<1>3. /\ c \in T!Call /\ c.hub = h
      /\ \A f \in {"tool", "todo", "sent", "told"} : c[f] = calls[i][f]
  BY <1>1 DEF T!Call
<1>4. calls' = [calls EXCEPT ![i] = c]
  BY <1>1, <1>2
<1> HIDE DEF c
<1>5. /\ calls' \in Seq(T!Call) /\ DOMAIN calls' = DOMAIN calls /\ Len(calls') = Len(calls)
      /\ calls'[i] = c /\ \A k \in DOMAIN calls : k # i => calls'[k] = calls[k]
  BY <1>1, <1>3, <1>4
<1>6. \A k \in DOMAIN calls : \A f \in {"tool", "todo", "sent", "told"} : calls'[k][f] = calls[k][f]
  BY <1>3, <1>5
<1>7. Verdict(c)
  BY <1>1, <1>2, <1>3 DEF Verdict
<1>8. calls[i].told = "none" => Plan(c)
  BY <1>1, <1>3 DEF ToolInv, Plan
<1>9. ToolTypes' /\ JoinIsKnown'
  BY <1>1, <1>5, <1>6 DEF ToolInv, ToolTypes, JoinIsKnown
<1>10. \A k \in DOMAIN calls' : Verdict(calls'[k]) /\ (calls'[k].told = "none" => Plan(calls'[k]))
  BY <1>3, <1>5, <1>7, <1>8 DEF ToolInv
<1>11. QED
  BY <1>9, <1>10 DEF ToolInv

\* A call begins when none is under way, with its whole script before it.
LEMMA CallBeginKeeps ==
  ASSUME ToolInv, NEW name, NEW script, Begins(name, script), T!Begin(name, script)
  PROVE  ToolInv'
<1> DEFINE c == Fresh(name, script)
<1>1. /\ calls \in Seq(T!Call) /\ calls' = Append(calls, c) /\ ~T!Busy
      /\ UNCHANGED <<open, loaded, known>>
  BY DEF ToolInv, ToolTypes, T!Begin, Fresh
<1>2. c \in T!Call /\ c.told = "none" /\ c.hub = "none" /\ c.sent = 0 /\ c.todo = script
      /\ (c.tool = "join_channel" => name = "join_channel")
  BY DEF Fresh, T!Call, T!Special, Begins, Step
<1>3. Plan(c) /\ Verdict(c)
  BY <1>2 DEF Begins, Verdict
<1>4. c.tool = "join_channel" => "post" \in Steps(c.todo)
  BY <1>2 DEF Begins
<1> HIDE DEF c
<1>5. /\ calls' \in Seq(T!Call) /\ Len(calls') = Len(calls) + 1 /\ DOMAIN calls' = 1..Len(calls) + 1
      /\ DOMAIN calls = 1..Len(calls) /\ Len(calls) \in Nat
      /\ calls'[Len(calls) + 1] = c /\ \A k \in 1..Len(calls) : calls'[k] = calls[k]
  BY <1>1, <1>2
<1>6. \A k \in 1..Len(calls) : calls[k].told \notin {"none", "verify"}
  <2>1. calls # <<>> => calls[Len(calls)].told \notin {"none", "verify"}
    BY <1>1 DEF T!Busy
  <2>2. QED
    BY <1>1, <1>5, <2>1 DEF ToolInv, ToolTypes
<1>7. ToolTypes'
  BY <1>1, <1>5, <1>6 DEF ToolInv, ToolTypes
<1>8. JoinIsKnown'
  <2> SUFFICES ASSUME NEW k \in 1..Len(calls) + 1, calls'[k].tool = "join_channel", ~known',
                      \/ calls'[k].told \in {"sent", "member"}
                      \/ calls'[k].told = "none" /\ "post" \notin Steps(calls'[k].todo)
               PROVE  \E j \in DOMAIN calls' : j > k /\ calls'[j].tool = "leave_channel"
    BY <1>5 DEF JoinIsKnown
  <2>1. k \in 1..Len(calls) /\ calls'[k] = calls[k]
    BY <1>2, <1>4, <1>5
  <2>2. \E j \in DOMAIN calls : j > k /\ calls[j].tool = "leave_channel"
    BY <1>1, <1>5, <2>1 DEF ToolInv, JoinIsKnown
  <2>3. QED
    BY <1>5, <2>2
<1>9. \A k \in DOMAIN calls' : Verdict(calls'[k]) /\ (calls'[k].told = "none" => Plan(calls'[k]))
  BY <1>3, <1>5 DEF ToolInv
<1>10. QED
  BY <1>7, <1>8, <1>9 DEF ToolInv

LEMMA ToolStep ==
  ASSUME ToolInv, T!Next
  PROVE  ToolInv'
<1>1. ASSUME NEW name \in DOMAIN T!Script, T!Begin(name, T!Script[name]) PROVE ToolInv'
  BY <1>1, ScriptsOf, CallBeginKeeps
<1>2. ASSUME NEW name \in DOMAIN T!Extended, T!Begin(name, T!Extended[name]) PROVE ToolInv'
  BY <1>2, ScriptsOf, CallBeginKeeps
<1>3. CASE T!LoadGroup \/ T!SocketTurns
  BY <1>3 DEF T!LoadGroup, T!SocketTurns, ToolInv, ToolTypes, JoinIsKnown
<1>4. CASE T!Look
  BY <1>4, OnwardKeeps DEF T!Look
<1>5. ASSUME NEW i \in DOMAIN calls, T!Serves(i) PROVE ToolInv'
  BY <1>5, HubServesKeeps
<1>6. QED
  BY <1>1, <1>2, <1>3, <1>4, <1>5, GateKeeps, FrameKeeps, BlindKeeps, HintKeeps, NeedKeeps,
     PostKeeps, AnswerKeeps, VerifyKeeps, NoAnswerKeeps, FinishKeeps DEF T!Next

LEMMA ToolInvHolds == PartSpec => []ToolInv
<1>1. PartInit => ToolInv
  <2> SUFFICES ASSUME T!Init PROVE ToolInv
    BY DEF PartInit
  <2>1. calls = <<>> /\ calls \in Seq(T!Call) /\ DOMAIN calls = {}
    BY DEF T!Init
  <2>2. QED
    BY <2>1 DEF T!Init, ToolInv, ToolTypes, JoinIsKnown
<1>2. ToolInv /\ [PartNext]_all => ToolInv'
  <2> SUFFICES ASSUME ToolInv, [PartNext]_all PROVE ToolInv'
    OBVIOUS
  <2>1. CASE Tools(T!Next)
    BY <2>1, ToolStep DEF Tools
  <2>2. CASE UNCHANGED tool
    BY <2>2 DEF tool, ToolInv, ToolTypes, JoinIsKnown
  <2>3. QED
    BY <2>1, <2>2 DEF PartNext, App, Gui, Manager, Wake, Muse, Documents, Once, all
<1>3. QED
  BY <1>1, <1>2, PTL DEF PartSpec

\* Of any number of calls, whatever the socket does and however late the hub serves: what
\* was told as sent was done, what was told as failed was not done unless no answer came,
\* and a second copy leaves only where ToldTruth names it.
THEOREM ToldTruthHolds == PartSpec => []ToldTruth
<1>1. ToolInv => ToldTruth
  <2> SUFFICES ASSUME ToolInv, NEW i \in DOMAIN calls
               PROVE  LET c == calls[i]
                          unanswered == c.hub \in {"lost", "late"}
                          copies == c.sent + (IF c.hub \in {"none", "declined"} THEN 0 ELSE 1) IN
                      /\ c.told = "sent" => c.hub = "done"
                      /\ c.told = "failed" => /\ c.hub \in {"none", "declined"} \/ unanswered
                                              /\ c.sent = 0 \/ c.tool = "join_channel"
                      /\ c.told = "dispatched" => c.sent = 1 \/ c.tool = "edit_message"
                      /\ c.told = "offline" => copies = 0
                      /\ copies = 2 => \/ c.tool = "join_channel"
                                       \/ /\ c.tool \in {"reply", "leave_channel"}
                                          /\ c.told = "dispatched" /\ unanswered
                      /\ \/ c.tool # "join_channel" \/ c.told \notin {"sent", "member"} \/ known
                         \/ \E j \in DOMAIN calls : j > i /\ calls[j].tool = "leave_channel"
    BY DEF ToldTruth
  <2>1. calls[i].sent \in 0..1 /\ Verdict(calls[i])
    <3>1. calls[i] \in T!Call /\ Verdict(calls[i])
      BY DEF ToolInv, ToolTypes
    <3>2. QED
      BY <3>1 DEF T!Call
  <2>2. QED
    BY <2>1 DEF ToolInv, Verdict, JoinIsKnown
<1>2. QED
  BY <1>1, ToolInvHolds, PTL

-----------------------------------------------------------------------------
(* The client of the app-server (app-server.ts).                          *)

Notices == {"item", "end", "aborted"}
Contents == Items \cup (SUBSET Items) \cup A!Outcomes \cup {None}
Lines == [kind : Notices \cup {"answer", "question"}, thread : Threads \cup {None}, turn : Nat,
          what : Contents]
Hearings == [thread : Threads \cup {None}, turn : Nat, said : SUBSET (Nat \X Items),
             early : Seq(Lines), end : {"none", "open", "completed", "failed"}]
Requests == [stage : A!Requests \cup {"idle", "run"}, thread : Threads \cup {None},
             mode : Modes \cup {None}, turn : Nat, answer : A!Outcomes \cup {"none", "rejected"}]
Replies == [turn : Nat, said : SUBSET (Nat \X Items)]
Turns == [thread : Threads, own : BOOLEAN, on : BOOLEAN, asks : BOOLEAN, said : SUBSET Items]

\* The request, the turn that is heard, the pipe and the turns keep their types.
AppTypes ==
  /\ life \in {"off", "starting", "ready", "closed"}
  /\ call \in Requests /\ active \in Hearings
  /\ perms \in [Threads -> Modes \cup {None}]
  /\ wire \in Seq(Lines) /\ turns \in Seq(Turns) /\ Len(turns) <= MaxTurns
  /\ told \in Seq(Replies)

\* A line says of its turn what is so, and nothing more is said of a turn that has ended.
Says(ts, l) ==
  LET t == ts[l.turn] IN
  /\ l.turn \in DOMAIN ts /\ l.thread = t.thread
  /\ l.kind = "item" => l.what \in t.said
  /\ l.kind = "end" => l.what \subseteq t.said
  /\ l.kind \in {"end", "aborted"} => ~t.on
Follows(l, m) == l.kind \in {"end", "aborted"} /\ m.kind # "answer" => m.turn # l.turn
LinesSay(ts, s) ==
  /\ \A k \in DOMAIN s : s[k].kind # "answer" => Says(ts, s[k])
  /\ \A j, k \in DOMAIN s : j < k => Follows(s[j], s[k])
PipeSays ==
  /\ LinesSay(turns, wire) /\ LinesSay(turns, active.early)
  /\ \A k \in DOMAIN active.early :
       /\ active.early[k].kind \in Notices
       /\ \A j \in DOMAIN wire : Follows(active.early[k], wire[j])

\* An answer on its way is that of the pending request, and names its turn.
OneRequest ==
  \A k \in DOMAIN wire : wire[k].kind = "answer" =>
    /\ A!Pending /\ \A j \in DOMAIN wire : wire[j].kind = "answer" => j = k
    /\ wire[k].what \in A!Outcomes
    /\ call.stage = "turn" /\ wire[k].what = "ok" => call.turn # 0

\* The turn that is heard is the one the pending or returned request began.
TurnOfCall ==
  /\ life = "off" => call = A!Idle
  /\ call.stage \notin {"turn", "run"} => active = A!NoTurn /\ call.turn = 0
  /\ call.stage = "turn" =>
       /\ active.turn = 0 /\ active.said = {} /\ active.end \in {"open", "failed"}
       /\ call.answer = "none" => active.thread = call.thread
       /\ call.answer = "ok" => call.turn # 0
  /\ call.stage = "run" /\ active.end \in {"open", "completed"} =>
       active.turn = call.turn /\ call.turn # 0 /\ active.early = <<>>
  /\ call.turn # 0 =>
       /\ call.turn \in DOMAIN turns /\ turns[call.turn].own /\ turns[call.turn].thread = active.thread
       /\ \A i \in DOMAIN told : told[i].turn # call.turn

\* What the turn has said was heard, or waits to be; what has ended was heard in full.
ItemOf(s, n, x) == \E k \in DOMAIN s : s[k].kind = "item" /\ s[k].turn = n /\ s[k].what = x
Heard ==
  call.turn # 0 =>
    LET n == call.turn said == turns[n].said IN
    /\ active.said \subseteq {<<n, x>> : x \in said}
    /\ active.end = "open" =>
         \A x \in said : <<n, x>> \in active.said \/ ItemOf(active.early, n, x) \/ ItemOf(wire, n, x)
    /\ active.end = "completed" => ~turns[n].on /\ \A x \in said : <<n, x>> \in active.said

\* What generate has returned.
AppInv == AppTypes /\ PipeSays /\ OneRequest /\ TurnOfCall /\ Heard /\ OwnAnswer
          /\ \A i \in DOMAIN told : told[i].turn \in DOMAIN turns

\* Induction over the numbers, of a set of them.
LEMMA FromZero ==
  ASSUME NEW S, 0 \in S, \A n \in Nat : n \in S => n + 1 \in S
  PROVE  Nat \subseteq S
<1> SUFFICES ASSUME Nat \ S # {} PROVE FALSE
  OBVIOUS
<1>1. IsWellFoundedOn(OpToRel(<, Nat), Nat)
  BY NatLessThanWellFounded
<1>2. PICK n \in Nat \ S : \A k \in Nat \ S : <<k, n>> \notin OpToRel(<, Nat)
  BY <1>1, WFMin
<1>3. \A k \in Nat : k < n => k \in S
  BY <1>2 DEF OpToRel
<1>4. CASE n = 0
  BY <1>4
<1>5. CASE n # 0
  <2>1. n - 1 \in Nat /\ n - 1 < n /\ (n - 1) + 1 = n
    BY <1>5
  <2>2. n - 1 \in S
    BY <1>3, <2>1
  <2>3. QED
    BY <1>2, <2>1, <2>2
<1>6. QED
  BY <1>4, <1>5

\* A turn that is heard, as far as it was.
Hearing(h, n) ==
  /\ h \in Hearings /\ h.turn = n /\ h.thread = turns[n].thread /\ h.end # "none"
  /\ h.said \subseteq {<<n, x>> : x \in turns[n].said}
  /\ h.end = "completed" => ~turns[n].on /\ \A x \in turns[n].said : <<n, x>> \in h.said
\* What one more line adds.
HeardMore(h, l, g, n) ==
  /\ Hearing(g, n) /\ g.early = h.early /\ h.said \subseteq g.said
  /\ g.end = "open" =>
       /\ h.end = "open"
       /\ l.turn = n => l.kind = "item" /\ <<n, l.what>> \in g.said

LEMMA HearsLine ==
  ASSUME AppTypes, NEW n \in DOMAIN turns, NEW h, Hearing(h, n),
         NEW l \in Lines, l.kind \in Notices, Says(turns, l),
         l.kind = "end" /\ l.turn = n /\ h.end = "open"
           => \A x \in turns[n].said : <<n, x>> \in h.said
  PROVE  HeardMore(h, l, A!Hears(h, l), n)
<1>1. n \in Nat /\ n # 0 /\ turns[n] \in Turns /\ turns[n].said \subseteq Items
  <2>1. turns \in Seq(Turns)
    BY DEF AppTypes
  <2>2. n \in Nat /\ n # 0 /\ turns[n] \in Turns
    BY <2>1
  <2>3. QED
    BY <2>2 DEF Turns
<1>2. h \in Hearings /\ h.turn = n /\ h.thread = turns[n].thread
  BY DEF Hearing
<1>3. CASE h.end # "open" \/ l.thread # h.thread \/ l.turn # n
  <2>1. A!Hears(h, l) = h
    BY <1>1, <1>2, <1>3 DEF A!Hears
  <2>2. l.turn = n => l.thread = h.thread
    BY <1>2 DEF Says
  <2>3. QED
    BY <1>3, <2>1, <2>2 DEF HeardMore
<1>4. CASE h.end = "open" /\ l.thread = h.thread /\ l.turn = n
  <2>1. A!Hears(h, l) = CASE l.kind = "item"    -> [h EXCEPT !.said = @ \cup {<<l.turn, l.what>>}]
         [] l.kind = "end"     -> [h EXCEPT !.said = @ \cup {<<l.turn, i>> : i \in l.what},
                                            !.end = "completed"]
         [] l.kind = "aborted" -> [h EXCEPT !.end = "failed"]
         [] OTHER -> h
    BY <1>1, <1>2, <1>4 DEF A!Hears
  <2>2. CASE l.kind = "item"
    <3> DEFINE more == h.said \cup {<<n, l.what>>}
    <3>1. A!Hears(h, l) = [h EXCEPT !.said = more]
      BY <1>4, <2>1, <2>2
    <3>2. l.what \in turns[n].said /\ l.what \in Items
      BY <1>1, <1>4, <2>2 DEF Says
    <3>3. more \subseteq {<<n, x>> : x \in turns[n].said} /\ more \in SUBSET (Nat \X Items)
          /\ <<n, l.what>> \in more /\ h.said \subseteq more
      BY <1>1, <3>2 DEF Hearing, Hearings
    <3> HIDE DEF more
    <3> DEFINE g == [h EXCEPT !.said = more]
    <3>4. /\ g \in Hearings /\ g.turn = n /\ g.thread = h.thread /\ g.end = "open"
          /\ g.said = more /\ g.early = h.early
      BY <1>2, <1>4, <3>3 DEF Hearings
    <3> HIDE DEF g
    <3>5. QED
      BY <1>2, <1>4, <2>2, <3>1, <3>3, <3>4 DEF HeardMore, Hearing, g
  <2>3. CASE l.kind = "end"
    <3> DEFINE more == h.said \cup {<<l.turn, i>> : i \in l.what}
    <3>1. A!Hears(h, l) = [h EXCEPT !.said = more, !.end = "completed"]
      BY <2>1, <2>3
    <3>2. l.what \subseteq turns[n].said /\ ~turns[n].on
      BY <1>4, <2>3 DEF Says
    <3>3. more \subseteq {<<n, x>> : x \in turns[n].said} /\ more \in SUBSET (Nat \X Items)
          /\ h.said \subseteq more
      BY <1>1, <1>4, <3>2 DEF Hearing, Hearings
    <3> HIDE DEF more
    <3> DEFINE g == [h EXCEPT !.said = more, !.end = "completed"]
    <3>4. /\ g \in Hearings /\ g.turn = n /\ g.thread = h.thread /\ g.end = "completed"
          /\ g.said = more /\ g.early = h.early
      BY <1>2, <1>4, <3>3 DEF Hearings
    <3>5. \A x \in turns[n].said : <<n, x>> \in more
      BY <1>4, <2>3, <3>3
    <3>6. A!Hears(h, l) = g
      BY <3>1
    <3> HIDE DEF g
    <3>7. QED
      BY <1>2, <3>2, <3>3, <3>4, <3>5, <3>6 DEF HeardMore, Hearing
  <2>4. CASE l.kind = "aborted"
    <3>1. A!Hears(h, l) = [h EXCEPT !.end = "failed"]
      BY <2>1, <2>4
    <3> DEFINE g == [h EXCEPT !.end = "failed"]
    <3>2. /\ g \in Hearings /\ g.turn = n /\ g.thread = h.thread /\ g.end = "failed"
          /\ g.said = h.said /\ g.early = h.early
      BY <1>2 DEF Hearings
    <3>3. A!Hears(h, l) = g
      BY <3>1
    <3> HIDE DEF g
    <3>4. QED
      BY <1>2, <3>2, <3>3 DEF HeardMore, Hearing
  <2>5. QED
    BY <2>2, <2>3, <2>4 DEF Notices
<1>5. QED
  BY <1>3, <1>4

\* What came before the turn was named, heard again up to its line k.
Replayed(v, n, k) ==
  /\ Hearing(v, n) /\ v.early = <<>>
  /\ v.end = "open" => \A j \in 1..k : active.early[j].turn = n =>
       active.early[j].kind = "item" /\ <<n, active.early[j].what>> \in v.said

LEMMA ReplayHears ==
  ASSUME AppTypes, PipeSays, Heard, NEW n \in DOMAIN turns, n = call.turn,
         active.end = "open", active.turn = 0, active.said = {}, active.thread = turns[n].thread
  PROVE  Replayed(A!Replay(active), n, Len(active.early))
<1> DEFINE e == active.early
           m == Len(active.early)
           F(g, k) == IF k = 0 THEN [active EXCEPT !.turn = call.turn, !.early = <<>>]
                      ELSE A!Hears(g[k - 1], active.early[k])
           Good(g, k) == /\ g = [i \in 0..k |-> F(g, i)]
                         /\ \A i \in 0..k : Replayed(g[i], n, i)
           U == {k \in Nat : k <= m => \E g : Good(g, k)}
           h[k \in 0..m] == F(h, k)
<1>1. /\ active \in Hearings /\ e \in Seq(Lines) /\ m \in Nat /\ DOMAIN e = 1..m
      /\ \A k \in 1..m : e[k] \in Lines /\ e[k].kind \in Notices /\ Says(turns, e[k])
      /\ n \in Nat /\ n # 0
  <2>1. active \in Hearings /\ turns \in Seq(Turns)
    BY DEF AppTypes
  <2>2. e \in Seq(Lines)
    BY <2>1 DEF Hearings
  <2>3. m \in Nat /\ DOMAIN e = 1..m /\ \A k \in 1..m : e[k] \in Lines
    BY <2>2
  <2>4. \A k \in 1..m : e[k].kind \in Notices /\ e[k].kind # "answer"
    BY <2>3 DEF PipeSays, Notices
  <2>5. QED
    BY <2>1, <2>2, <2>3, <2>4 DEF PipeSays, LinesSay
<1>2. Replayed([active EXCEPT !.turn = call.turn, !.early = <<>>], n, 0)
  <2> DEFINE named == [active EXCEPT !.turn = call.turn, !.early = <<>>]
  <2>1. <<>> \in Seq(Lines) /\ call.turn \in Nat
    BY <1>1
  <2>2. /\ named \in Hearings /\ named.turn = n /\ named.early = <<>> /\ named.end = "open"
        /\ named.said = {} /\ named.thread = active.thread
    BY <1>1, <2>1 DEF Hearings
  <2> HIDE DEF named
  <2>3. Replayed(named, n, 0)
    BY <2>2 DEF Replayed, Hearing
  <2>4. QED
    BY <2>3 DEF named
<1>3. ASSUME NEW v, NEW k \in 1..m, Replayed(v, n, k - 1)
      PROVE  Replayed(A!Hears(v, e[k]), n, k)
  <2>1. e[k] \in Lines /\ e[k].kind \in Notices /\ Says(turns, e[k]) /\ Hearing(v, n) /\ v.early = <<>>
    BY <1>1, <1>3 DEF Replayed
  <2>2. ASSUME e[k].kind = "end", e[k].turn = n, v.end = "open"
        PROVE  \A x \in turns[n].said : <<n, x>> \in v.said
    <3> SUFFICES ASSUME NEW x \in turns[n].said PROVE <<n, x>> \in v.said
      OBVIOUS
    <3>1. ItemOf(e, n, x) \/ ItemOf(wire, n, x)
      BY <1>1 DEF Heard
    <3>2. ~ItemOf(wire, n, x)
      <4>1. \A j \in DOMAIN wire : Follows(e[k], wire[j])
        BY <1>1 DEF PipeSays
      <4>2. QED
        BY <2>2, <4>1 DEF Follows, ItemOf
    <3>3. PICK j \in 1..m : e[j].kind = "item" /\ e[j].turn = n /\ e[j].what = x
      BY <1>1, <3>1, <3>2 DEF ItemOf
    <3>4. ~(k < j)
      <4>1. k < j => Follows(e[k], e[j])
        BY <1>1 DEF PipeSays, LinesSay
      <4>2. QED
        BY <2>2, <3>3, <4>1 DEF Follows
    <3>5. j # k
      BY <2>2, <3>3
    <3>6. j \in 1..(k - 1)
      BY <1>1, <3>4, <3>5
    <3>7. QED
      BY <1>3, <2>2, <3>3, <3>6 DEF Replayed
  <2> DEFINE g == A!Hears(v, e[k])
  <2>3. HeardMore(v, e[k], g, n)
    BY <2>1, <2>2, HearsLine
  <2> HIDE DEF g
  <2>4. Hearing(g, n) /\ g.early = <<>>
    BY <2>1, <2>3 DEF HeardMore
  <2>5. ASSUME g.end = "open", NEW j \in 1..k, e[j].turn = n
        PROVE  e[j].kind = "item" /\ <<n, e[j].what>> \in g.said
    <3>1. CASE j = k
      BY <2>3, <2>5, <3>1 DEF HeardMore
    <3>2. CASE j # k
      <4>1. j \in 1..(k - 1) /\ v.end = "open" /\ v.said \subseteq g.said
        BY <1>1, <2>3, <2>5, <3>2 DEF HeardMore
      <4>2. QED
        BY <1>3, <2>5, <4>1 DEF Replayed
    <3>3. QED
      BY <3>1, <3>2
  <2>6. Replayed(g, n, k)
    BY <2>4, <2>5 DEF Replayed
  <2>7. QED
    BY <2>6 DEF g
<1>4. 0 \in U
  <2> DEFINE g == [i \in 0..0 |-> [active EXCEPT !.turn = call.turn, !.early = <<>>]]
  <2>1. \A i \in 0..0 : i = 0
    OBVIOUS
  <2>2. g = [i \in 0..0 |-> F(g, i)]
    BY <2>1
  <2>3. \A i \in 0..0 : Replayed(g[i], n, i)
    BY <1>2, <2>1
  <2>4. Good(g, 0)
    BY <2>2, <2>3
  <2> HIDE DEF Good
  <2>5. QED
    BY <2>4
<1>5. ASSUME NEW k \in Nat, k \in U PROVE k + 1 \in U
  <2> HIDE DEF Good, m
  <2> SUFFICES ASSUME k + 1 <= m PROVE \E g : Good(g, k + 1)
    OBVIOUS
  <2> USE DEF Good
  <2>1. PICK g : Good(g, k)
    BY <1>1, <1>5
  <2> DEFINE c == [i \in 0..(k + 1) |-> IF i <= k THEN g[i] ELSE F(g, i)]
  <2>2. \A i \in 0..k : g[i] = F(g, i) /\ Replayed(g[i], n, i)
    BY <2>1
  <2>3. Replayed(F(g, k + 1), n, k + 1)
    <3>1. Replayed(g[k], n, k) /\ (k + 1) - 1 = k /\ k + 1 # 0 /\ k + 1 \in 1..m
      BY <1>1, <2>2
    <3>2. F(g, k + 1) = A!Hears(g[k], e[k + 1])
      BY <3>1
    <3> HIDE DEF F, e
    <3>3. QED
      BY <3>1, <3>2, <1>3
  <2>4. \A i \in 0..(k + 1) : c[i] = F(c, i) /\ Replayed(c[i], n, i)
    <3> SUFFICES ASSUME NEW i \in 0..(k + 1) PROVE c[i] = F(c, i) /\ Replayed(c[i], n, i)
      OBVIOUS
    <3>1. i # 0 => i - 1 \in 0..k /\ i - 1 \in 0..(k + 1) /\ i - 1 <= k
      OBVIOUS
    <3>2. i # 0 => c[i - 1] = g[i - 1]
      BY <3>1
    <3>3. F(c, i) = F(g, i)
      <4> HIDE DEF c
      <4>1. QED
        BY <3>2
    <3>4. CASE i <= k
      <4>1. i \in 0..k /\ c[i] = g[i]
        BY <3>4
      <4> HIDE DEF c, F
      <4>2. QED
        BY <4>1, <3>3, <2>2
    <3>5. CASE i = k + 1
      <4>1. c[i] = F(g, i)
        BY <3>5
      <4> HIDE DEF c, F
      <4>2. QED
        BY <4>1, <3>3, <3>5, <2>3
    <3>6. QED
      BY <3>4, <3>5
  <2>5. c = [i \in 0..(k + 1) |-> F(c, i)]
    <3>1. c = [i \in 0..(k + 1) |-> c[i]]
      OBVIOUS
    <3> HIDE DEF c, F
    <3>2. QED
      BY <3>1, <2>4
  <2>6. Good(c, k + 1)
    <3> HIDE DEF c, F
    <3>1. QED
      BY <2>4, <2>5
  <2>7. QED
    <3> HIDE DEF Good
    <3>1. QED
      BY <2>6
<1>6. m \in U
  <2> HIDE DEF U
  <2>1. QED
    BY <1>1, <1>4, <1>5, FromZero
<1>7. PICK g : Good(g, m)
  BY <1>1, <1>6
<1>8. h = [i \in 0..m |-> F(h, i)]
  <2>1. g = [i \in 0..m |-> F(g, i)]
    BY <1>7
  <2>2. QED
    BY <2>1
<1>9. Nat \subseteq {i \in Nat : i <= m => Replayed(h[i], n, i)}
  <2> DEFINE V == {i \in Nat : i <= m => Replayed(h[i], n, i)}
  <2> HIDE DEF h, m
  <2>1. 0 \in V
    <3>1. 0 \in 0..m
      BY <1>1
    <3>2. h[0] = F(h, 0)
      BY <3>1, <1>8
    <3>3. QED
      BY <3>2, <1>2
  <2>2. ASSUME NEW i \in Nat, i \in V PROVE i + 1 \in V
    <3> SUFFICES ASSUME i + 1 <= m PROVE Replayed(h[i + 1], n, i + 1)
      OBVIOUS
    <3>1. i + 1 \in 0..m /\ i <= m /\ (i + 1) - 1 = i /\ i + 1 # 0 /\ i + 1 \in 1..m
      BY <1>1
    <3>2. h[i + 1] = F(h, i + 1) /\ Replayed(h[i], n, (i + 1) - 1)
      BY <3>1, <1>8, <2>2
    <3>3. h[i + 1] = A!Hears(h[i], e[i + 1])
      BY <3>1, <3>2
    <3> HIDE DEF F, e
    <3>4. QED
      BY <3>1, <3>2, <3>3, <1>3
  <2> HIDE DEF V
  <2>3. Nat \subseteq V
    BY <2>1, <2>2, FromZero
  <2>4. QED
    BY <2>3 DEF V
<1>10. Replayed(h[m], n, m)
  <2> HIDE DEF h, m
  <2>1. QED
    BY <1>1, <1>9
<1>11. A!Replay(active) = h[m]
  BY DEF A!Replay
<1>12. QED
  BY <1>10, <1>11

-----------------------------------------------------------------------------
\* The first line taken off a pipe, and a line put on it.
LEMMA TailLines ==
  ASSUME NEW s \in Seq(Lines), s # <<>>
  PROVE  /\ Head(s) \in Lines /\ Head(s) = s[1] /\ 1 \in DOMAIN s /\ Tail(s) \in Seq(Lines)
         /\ \A k \in DOMAIN Tail(s) : k + 1 \in DOMAIN s /\ Tail(s)[k] = s[k + 1] /\ k \in Nat \ {0}
         /\ \A k \in DOMAIN s : k = 1 \/ (k - 1 \in DOMAIN Tail(s) /\ Tail(s)[k - 1] = s[k])
<1>1. /\ Head(s) \in Lines /\ Head(s) = s[1] /\ Tail(s) \in Seq(Lines)
      /\ Len(s) \in Nat \ {0} /\ Len(Tail(s)) = Len(s) - 1 /\ DOMAIN s = 1..Len(s)
      /\ \A k \in 1..Len(s) - 1 : Tail(s)[k] = s[k + 1]
  OBVIOUS
<1>2. DOMAIN Tail(s) = 1..Len(s) - 1
  BY <1>1
<1>3. \A k \in DOMAIN s : k = 1 \/ (k - 1 \in DOMAIN Tail(s) /\ (k - 1) + 1 = k)
  BY <1>1, <1>2
<1>4. QED
  BY <1>1, <1>2, <1>3

LEMMA MoreLines ==
  ASSUME NEW s \in Seq(Lines), NEW l \in Lines
  PROVE  /\ Append(s, l) \in Seq(Lines) /\ DOMAIN Append(s, l) = DOMAIN s \cup {Len(s) + 1}
         /\ Append(s, l)[Len(s) + 1] = l /\ Len(s) + 1 \notin DOMAIN s
         /\ \A k \in DOMAIN s : Append(s, l)[k] = s[k] /\ k < Len(s) + 1 /\ k \in Nat
         /\ Len(s) \in Nat
OBVIOUS

LEMMA TailSays ==
  ASSUME NEW s \in Seq(Lines), s # <<>>, LinesSay(turns, s)
  PROVE  /\ LinesSay(turns, Tail(s)) /\ (Head(s).kind # "answer" => Says(turns, Head(s)))
         /\ \A k \in DOMAIN Tail(s) : Follows(Head(s), Tail(s)[k])
<1>1. /\ Head(s) = s[1] /\ 1 \in DOMAIN s /\ DOMAIN s = 1..Len(s) /\ Len(s) \in Nat
      /\ \A k \in DOMAIN Tail(s) : k + 1 \in DOMAIN s /\ Tail(s)[k] = s[k + 1] /\ k \in Nat \ {0}
  BY TailLines
<1>2. \A k \in DOMAIN Tail(s) : Tail(s)[k].kind # "answer" => Says(turns, Tail(s)[k])
  BY <1>1 DEF LinesSay
<1>3. \A j, k \in DOMAIN Tail(s) : j < k => Follows(Tail(s)[j], Tail(s)[k])
  <2> SUFFICES ASSUME NEW j \in DOMAIN Tail(s), NEW k \in DOMAIN Tail(s), j < k
               PROVE  Follows(Tail(s)[j], Tail(s)[k])
    OBVIOUS
  <2>1. j + 1 \in DOMAIN s /\ k + 1 \in DOMAIN s /\ j + 1 < k + 1
    BY <1>1
  <2>2. QED
    BY <1>1, <2>1 DEF LinesSay
<1>4. \A k \in DOMAIN Tail(s) : 1 < k + 1 /\ Follows(Head(s), Tail(s)[k])
  BY <1>1 DEF LinesSay
<1>5. Head(s).kind # "answer" => Says(turns, Head(s))
  BY <1>1 DEF LinesSay
<1>6. QED
  BY <1>2, <1>3, <1>4, <1>5 DEF LinesSay

\* A line about a turn that goes on, or an answer, is put on the pipe.
LEMMA MoreSays ==
  ASSUME NEW ts, NEW s \in Seq(Lines), NEW l \in Lines, LinesSay(ts, s),
         l.kind # "answer" => Says(ts, l),
         \A k \in DOMAIN s : Follows(s[k], l)
  PROVE  LinesSay(ts, Append(s, l))
<1>1. \A k \in DOMAIN Append(s, l) : k \in DOMAIN s \/ k = Len(s) + 1
  BY MoreLines
<1>2. \A k \in DOMAIN Append(s, l) : Append(s, l)[k].kind # "answer" => Says(ts, Append(s, l)[k])
  BY <1>1, MoreLines DEF LinesSay
<1>3. \A j, k \in DOMAIN Append(s, l) : j < k => Follows(Append(s, l)[j], Append(s, l)[k])
  <2> SUFFICES ASSUME NEW j \in DOMAIN Append(s, l), NEW k \in DOMAIN Append(s, l), j < k
               PROVE  Follows(Append(s, l)[j], Append(s, l)[k])
    OBVIOUS
  <2>1. j \in DOMAIN s /\ Append(s, l)[j] = s[j]
    BY <1>1, MoreLines
  <2>2. CASE k \in DOMAIN s
    BY <2>1, <2>2, MoreLines DEF LinesSay
  <2>3. CASE k = Len(s) + 1
    BY <2>1, <2>3, MoreLines
  <2>4. QED
    BY <1>1, <2>2, <2>3
<1>4. QED
  BY <1>2, <1>3 DEF LinesSay

\* What is awaited next, when no turn is heard: the pipe holds no answer.
LEMMA RequestMoves ==
  ASSUME AppInv, ~A!Pending, call.stage \notin {"turn", "run"},
         NEW c \in Requests, call' = c, c.turn = 0, c.stage \notin {"turn", "run"},
         UNCHANGED <<active, wire, turns, told>>, perms' \in [Threads -> Modes \cup {None}],
         life' \in {"off", "starting", "ready", "closed"}, life' = "off" => c = A!Idle
  PROVE  AppInv'
<1>1. active = A!NoTurn
  BY DEF AppInv, TurnOfCall
<1>2. \A k \in DOMAIN wire : wire[k].kind # "answer"
  BY DEF AppInv, OneRequest
<1>3. AppTypes'
  BY DEF AppInv, AppTypes
<1>4. PipeSays' /\ OwnAnswer' /\ (\A i \in DOMAIN told : told[i].turn \in DOMAIN turns)'
  BY DEF AppInv, PipeSays, OwnAnswer
<1>5. OneRequest' /\ TurnOfCall' /\ Heard'
  BY <1>1, <1>2 DEF OneRequest, TurnOfCall, Heard
<1>6. QED
  BY <1>3, <1>4, <1>5 DEF AppInv

LEMMA GenerateKeeps == ASSUME AppInv, NEW t \in Threads, A!Generate(t) PROVE AppInv'
<1>1. /\ call = A!Idle /\ call' \in Requests /\ call'.stage = "turn" /\ call'.turn = 0
      /\ call'.thread = t /\ call'.answer \in {"none", "rejected"} /\ life # "off"
      /\ UNCHANGED <<life, perms, wire, turns, told>>
  <2>1. /\ call = A!Idle /\ life # "off" /\ perms[t] \in Modes \cup {None}
        /\ UNCHANGED <<life, perms, wire, turns, told>>
        /\ call' = [A!Idle EXCEPT !.stage = "turn", !.thread = t, !.mode = perms[t],
                                  !.answer = IF life = "closed" THEN "rejected" ELSE "none"]
    BY DEF A!Generate, A!Free, A!Ask, AppInv, AppTypes
  <2>2. call' \in Requests /\ call'.stage = "turn" /\ call'.turn = 0 /\ call'.thread = t
        /\ call'.answer \in {"none", "rejected"}
    BY <2>1 DEF A!Idle, Requests, A!Requests
  <2>3. QED
    BY <2>1, <2>2
<1>2. /\ active' \in Hearings /\ active'.thread = t /\ active'.turn = 0 /\ active'.said = {}
      /\ active'.early = <<>> /\ active'.end = "open"
  <2>1. <<>> \in Seq(Lines)
    OBVIOUS
  <2>2. QED
    BY <2>1 DEF A!Generate, A!NoTurn, Hearings
<1>3. \A k \in DOMAIN wire : wire[k].kind # "answer"
  BY <1>1 DEF AppInv, OneRequest, A!Pending, A!Idle, A!Requests
<1>4. AppTypes'
  BY <1>1, <1>2 DEF AppInv, AppTypes
<1>5. PipeSays'
  <2>1. LinesSay(turns', wire')
    BY <1>1 DEF AppInv, PipeSays
  <2>2. QED
    BY <1>2, <2>1 DEF PipeSays, LinesSay
<1>6. OneRequest' /\ TurnOfCall' /\ Heard'
  BY <1>1, <1>2, <1>3 DEF OneRequest, TurnOfCall, Heard
<1>7. OwnAnswer' /\ (\A i \in DOMAIN told : told[i].turn \in DOMAIN turns)'
  BY <1>1 DEF AppInv, OwnAnswer
<1>8. QED
  BY <1>4, <1>5, <1>6, <1>7 DEF AppInv

LEMMA ClosesKeeps == ASSUME AppInv, A!Closes PROVE AppInv'
<1>1. life' = "closed" /\ wire' = <<>> /\ UNCHANGED <<perms, turns, told>>
      /\ call \in Requests /\ active \in Hearings
  BY DEF A!Closes, AppInv, AppTypes
<1>2. /\ call' \in Requests /\ call'.stage = call.stage /\ call'.turn = call.turn
      /\ call'.thread = call.thread /\ call'.answer \in {call.answer, "rejected"}
      /\ A!Pending => call'.answer = "rejected"
  BY <1>1 DEF A!Closes, A!Failed, Requests
<1>3. /\ active' \in Hearings /\ active'.turn = active.turn /\ active'.said = active.said
      /\ active'.early = active.early /\ active'.thread = active.thread
      /\ active'.end = IF active.end = "open" THEN "failed" ELSE active.end
  <2>1. CASE active.end = "open"
    <3>1. active' = [active EXCEPT !.end = "failed"]
      BY <2>1 DEF A!Closes, A!Failed
    <3>2. QED
      BY <1>1, <2>1, <3>1 DEF Hearings
  <2>2. CASE active.end # "open"
    <3>1. active' = active
      BY <2>2 DEF A!Closes, A!Failed
    <3>2. QED
      BY <1>1, <2>2, <3>1
  <2>3. QED
    BY <2>1, <2>2
<1>4. active = A!NoTurn => active' = active
  BY DEF A!Closes, A!Failed, A!NoTurn
<1>5. AppTypes'
  <2>1. <<>> \in Seq(Lines)
    OBVIOUS
  <2>2. QED
    BY <1>1, <1>2, <1>3, <2>1 DEF AppInv, AppTypes
<1>6. PipeSays'
  <2>1. LinesSay(turns', active'.early)
    BY <1>1, <1>3 DEF AppInv, PipeSays
  <2>2. QED
    BY <1>1, <1>3, <2>1 DEF AppInv, PipeSays, LinesSay
<1>7. OneRequest'
  BY <1>1 DEF OneRequest
<1>8. TurnOfCall'
  <2>1. active.end \in {"none", "open", "completed", "failed"}
    BY <1>1 DEF Hearings
  <2>2. call'.stage = "turn" => call'.answer # "none"
    BY <1>2 DEF A!Pending, A!Requests
  <2>3. call'.answer = "ok" => call.answer = "ok"
    BY <1>2
  <2>4. TurnOfCall
    BY DEF AppInv
  <2>5. QED
    BY <1>1, <1>2, <1>3, <1>4, <2>1, <2>2, <2>3, <2>4 DEF TurnOfCall
<1>9. Heard'
  BY <1>1, <1>2, <1>3 DEF AppInv, Heard
<1>10. OwnAnswer' /\ (\A i \in DOMAIN told : told[i].turn \in DOMAIN turns)'
  BY <1>1 DEF AppInv, OwnAnswer
<1>11. QED
  BY <1>5, <1>6, <1>7, <1>8, <1>9, <1>10 DEF AppInv

\* The first line is taken off the pipe, and not by the turn that is heard.
LEMMA LineTaken ==
  ASSUME AppInv, wire # <<>>, wire' = Tail(wire), UNCHANGED <<life, perms, told, active>>,
         call' \in Requests, call'.stage = call.stage, call'.turn = call.turn,
         \/ call' = call
         \/ Head(wire).kind = "answer" /\ call'.answer = Head(wire).what,
         turns' \in Seq(Turns), DOMAIN turns' = DOMAIN turns, Len(turns') = Len(turns),
         \A n \in DOMAIN turns : \A f \in {"thread", "own", "on", "said"} : turns'[n][f] = turns[n][f],
         \/ Head(wire).kind # "item"
         \/ Head(wire).turn # call.turn
         \/ active.end # "open"
  PROVE  AppInv'
<1> DEFINE l == Head(wire)
<1>1. wire \in Seq(Lines) /\ LinesSay(turns, wire) /\ LinesSay(turns, active.early)
  BY DEF AppInv, AppTypes, PipeSays
<1>2. /\ l = wire[1] /\ 1 \in DOMAIN wire /\ Tail(wire) \in Seq(Lines)
      /\ \A k \in DOMAIN wire' : k + 1 \in DOMAIN wire /\ wire'[k] = wire[k + 1] /\ k \in Nat \ {0}
      /\ \A k \in DOMAIN wire : k = 1 \/ (k - 1 \in DOMAIN wire' /\ wire'[k - 1] = wire[k])
  BY <1>1, TailLines
<1>3. AppTypes'
  BY <1>2 DEF AppInv, AppTypes
<1>4. \A x : Says(turns, x) => Says(turns', x)
  BY DEF Says
<1>5. PipeSays'
  <2>1. LinesSay(turns, wire')
    BY <1>1, TailSays
  <2>2. LinesSay(turns', wire') /\ LinesSay(turns', active.early)
    BY <1>1, <1>4, <2>1 DEF LinesSay
  <2>3. \A k \in DOMAIN active.early : active.early[k].kind \in Notices
          /\ \A j \in DOMAIN wire' : Follows(active.early[k], wire'[j])
    BY <1>2 DEF AppInv, PipeSays
  <2>4. QED
    BY <2>2, <2>3 DEF PipeSays
<1>6. OneRequest'
  <2> SUFFICES ASSUME NEW k \in DOMAIN wire', wire'[k].kind = "answer"
               PROVE  /\ A!Pending' /\ \A j \in DOMAIN wire' : wire'[j].kind = "answer" => j = k
                      /\ wire'[k].what \in A!Outcomes
                      /\ call'.stage = "turn" /\ wire'[k].what = "ok" => call'.turn # 0
    BY DEF OneRequest
  <2>1. k + 1 \in DOMAIN wire /\ wire[k + 1].kind = "answer" /\ wire[k + 1] = wire'[k] /\ k + 1 # 1
    BY <1>2
  <2>2. l.kind # "answer"
    BY <1>2, <2>1 DEF AppInv, OneRequest
  <2>3. call' = call /\ A!Pending' = A!Pending
    BY <2>2 DEF A!Pending
  <2>4. \A j \in DOMAIN wire' : wire'[j].kind = "answer" => j + 1 = k + 1 /\ j \in Nat
    BY <1>2, <2>1 DEF AppInv, OneRequest
  <2>5. \A j \in DOMAIN wire' : wire'[j].kind = "answer" => j = k
    BY <1>2, <2>4
  <2>6. QED
    BY <2>1, <2>3, <2>5 DEF AppInv, OneRequest
<1>7. TurnOfCall'
  <2>1. l.kind = "answer" => /\ l.what \in A!Outcomes /\ A!Pending
                             /\ call.stage = "turn" /\ l.what = "ok" => call.turn # 0
    BY <1>2 DEF AppInv, OneRequest
  <2>2. "none" \notin A!Outcomes
    BY DEF A!Outcomes
  <2>3. l.kind = "answer" => life # "off"
    BY <2>1 DEF AppInv, TurnOfCall, A!Pending, A!Idle, A!Requests
  <2>4. QED
    BY <2>1, <2>2, <2>3 DEF AppInv, TurnOfCall
<1>8. Heard'
  <2> SUFFICES ASSUME call.turn # 0
               PROVE  /\ active.said \subseteq {<<call.turn, x>> : x \in turns'[call.turn].said}
                      /\ active.end = "open" =>
                           \A x \in turns'[call.turn].said :
                              \/ <<call.turn, x>> \in active.said
                              \/ ItemOf(active.early, call.turn, x) \/ ItemOf(wire', call.turn, x)
                      /\ active.end = "completed" =>
                           /\ ~turns'[call.turn].on
                           /\ \A x \in turns'[call.turn].said : <<call.turn, x>> \in active.said
    BY DEF Heard, ItemOf
  <2>1. call.turn \in DOMAIN turns /\ turns'[call.turn].said = turns[call.turn].said
        /\ turns'[call.turn].on = turns[call.turn].on
    BY DEF AppInv, TurnOfCall
  <2>2. ASSUME NEW x, ItemOf(wire, call.turn, x), active.end = "open" PROVE ItemOf(wire', call.turn, x)
    <3>1. PICK k \in DOMAIN wire : wire[k].kind = "item" /\ wire[k].turn = call.turn /\ wire[k].what = x
      BY <2>2 DEF ItemOf
    <3>2. k # 1
      BY <1>2, <2>2, <3>1
    <3>3. k - 1 \in DOMAIN wire' /\ wire'[k - 1] = wire[k]
      BY <1>2, <3>2
    <3>4. QED
      BY <3>1, <3>3 DEF ItemOf
  <2>3. QED
    BY <2>1, <2>2 DEF AppInv, Heard
<1>9. OwnAnswer' /\ (\A i \in DOMAIN told : told[i].turn \in DOMAIN turns)'
  BY DEF AppInv, OwnAnswer
<1>10. QED
  BY <1>3, <1>5, <1>6, <1>7, <1>8, <1>9 DEF AppInv

\* A notice that is kept: its turn is not known yet.
LEMMA NoticeKept ==
  ASSUME AppInv, wire # <<>>, wire' = Tail(wire), UNCHANGED <<life, call, perms, turns, told>>,
         Head(wire).kind \in Notices, active.end = "open", active.turn = 0,
         active' = [active EXCEPT !.early = Append(@, Head(wire))]
  PROVE  AppInv'
<1> DEFINE l == Head(wire)
           more == Append(active.early, l)
<1>1. wire \in Seq(Lines) /\ active \in Hearings /\ LinesSay(turns, wire) /\ LinesSay(turns, active.early)
  BY DEF AppInv, AppTypes, PipeSays
<1>2. /\ l \in Lines /\ l = wire[1] /\ 1 \in DOMAIN wire /\ Tail(wire) \in Seq(Lines)
      /\ \A k \in DOMAIN wire' : k + 1 \in DOMAIN wire /\ wire'[k] = wire[k + 1] /\ k \in Nat \ {0}
      /\ \A k \in DOMAIN wire : k = 1 \/ (k - 1 \in DOMAIN wire' /\ wire'[k - 1] = wire[k])
  BY <1>1, TailLines
<1>3. active.early \in Seq(Lines)
  BY <1>1 DEF Hearings
<1>4. /\ more \in Seq(Lines) /\ DOMAIN more = DOMAIN active.early \cup {Len(active.early) + 1}
      /\ more[Len(active.early) + 1] = l
      /\ \A k \in DOMAIN active.early : more[k] = active.early[k]
  BY <1>2, <1>3, MoreLines
<1>5. /\ LinesSay(turns, wire') /\ Says(turns, l)
      /\ \A k \in DOMAIN wire' : Follows(l, wire'[k])
  BY <1>1, TailSays DEF Notices
<1>6. LinesSay(turns, more)
  <2>1. \A k \in DOMAIN active.early : Follows(active.early[k], l)
    BY <1>2 DEF AppInv, PipeSays
  <2>2. QED
    BY <1>1, <1>2, <1>3, <1>5, <2>1, MoreSays
<1> HIDE DEF more
<1>7. /\ active' \in Hearings /\ active'.early = more /\ active'.thread = active.thread
      /\ active'.turn = 0 /\ active'.said = active.said /\ active'.end = "open"
  <2>1. active' = [active EXCEPT !.early = more]
    BY DEF more
  <2>2. QED
    BY <1>1, <1>4, <2>1 DEF Hearings
<1>8. AppTypes'
  BY <1>2, <1>7 DEF AppInv, AppTypes
<1>9. PipeSays'
  <2>1. ASSUME NEW k \in DOMAIN more
        PROVE  more[k].kind \in Notices /\ \A j \in DOMAIN wire' : Follows(more[k], wire'[j])
    <3>1. CASE k \in DOMAIN active.early
      <4>1. more[k] = active.early[k]
        BY <1>4, <3>1
      <4>2. QED
        BY <1>2, <3>1, <4>1 DEF AppInv, PipeSays
    <3>2. CASE k = Len(active.early) + 1
      BY <1>4, <1>5, <3>2
    <3>3. QED
      BY <1>4, <3>1, <3>2
  <2>2. LinesSay(turns', wire') /\ LinesSay(turns', more)
    BY <1>5, <1>6
  <2>3. QED
    BY <1>7, <2>1, <2>2 DEF PipeSays
<1>10. OneRequest'
  <2> SUFFICES ASSUME NEW k \in DOMAIN wire', wire'[k].kind = "answer"
               PROVE  /\ A!Pending' /\ \A j \in DOMAIN wire' : wire'[j].kind = "answer" => j = k
                      /\ wire'[k].what \in A!Outcomes
                      /\ call'.stage = "turn" /\ wire'[k].what = "ok" => call'.turn # 0
    BY DEF OneRequest
  <2>1. k + 1 \in DOMAIN wire /\ wire[k + 1].kind = "answer" /\ wire[k + 1] = wire'[k]
    BY <1>2
  <2>2. call' = call /\ A!Pending' = A!Pending
    BY DEF A!Pending
  <2>3. \A j \in DOMAIN wire' : wire'[j].kind = "answer" => j + 1 = k + 1 /\ j \in Nat
    BY <1>2, <2>1 DEF AppInv, OneRequest
  <2>4. \A j \in DOMAIN wire' : wire'[j].kind = "answer" => j = k
    BY <1>2, <2>3
  <2>5. QED
    BY <2>1, <2>2, <2>4 DEF AppInv, OneRequest
<1>11. TurnOfCall'
  <2>1. TurnOfCall
    BY DEF AppInv
  <2>2. call.stage = "turn"
    BY <2>1 DEF TurnOfCall, A!NoTurn
  <2>3. QED
    BY <1>7, <2>1, <2>2 DEF TurnOfCall, A!Idle
<1>12. Heard'
  <2> SUFFICES ASSUME call.turn # 0
               PROVE  /\ active'.said \subseteq {<<call.turn, x>> : x \in turns[call.turn].said}
                      /\ \A x \in turns[call.turn].said :
                            \/ <<call.turn, x>> \in active'.said
                            \/ ItemOf(active'.early, call.turn, x) \/ ItemOf(wire', call.turn, x)
    <3>1. (active'.end = "open") /\ active'.end # "completed"
      BY <1>7
    <3>2. QED
      BY <3>1 DEF Heard
  <2>1. ASSUME NEW x, ItemOf(wire, call.turn, x)
        PROVE  ItemOf(more, call.turn, x) \/ ItemOf(wire', call.turn, x)
    <3>1. PICK k \in DOMAIN wire : wire[k].kind = "item" /\ wire[k].turn = call.turn /\ wire[k].what = x
      BY <2>1 DEF ItemOf
    <3>2. CASE k = 1
      BY <1>2, <1>4, <3>1, <3>2 DEF ItemOf
    <3>3. CASE k # 1
      <4>1. k - 1 \in DOMAIN wire' /\ wire'[k - 1] = wire[k]
        BY <1>2, <3>3
      <4>2. QED
        BY <3>1, <4>1 DEF ItemOf
    <3>4. QED
      BY <3>2, <3>3
  <2>2. ASSUME NEW x, ItemOf(active.early, call.turn, x) PROVE ItemOf(more, call.turn, x)
    BY <1>4, <2>2 DEF ItemOf
  <2>3. QED
    BY <1>7, <2>1, <2>2 DEF AppInv, Heard
<1>13. OwnAnswer' /\ (\A i \in DOMAIN told : told[i].turn \in DOMAIN turns)'
  BY DEF AppInv, OwnAnswer
<1>14. QED
  BY <1>8, <1>9, <1>10, <1>11, <1>12, <1>13 DEF AppInv

\* A notice of the turn that is heard.
LEMMA NoticeHeard ==
  ASSUME AppInv, wire # <<>>, wire' = Tail(wire), UNCHANGED <<life, call, perms, turns, told>>,
         Head(wire).kind \in Notices, active.end = "open", active.turn # 0,
         active' = A!Hears(active, Head(wire))
  PROVE  AppInv'
<1> DEFINE l == Head(wire)
           n == call.turn
<1>1. wire \in Seq(Lines) /\ active \in Hearings /\ LinesSay(turns, wire) /\ LinesSay(turns, active.early)
  BY DEF AppInv, AppTypes, PipeSays
<1>2. /\ l \in Lines /\ l = wire[1] /\ 1 \in DOMAIN wire /\ Tail(wire) \in Seq(Lines)
      /\ \A k \in DOMAIN wire' : k + 1 \in DOMAIN wire /\ wire'[k] = wire[k + 1] /\ k \in Nat \ {0}
      /\ \A k \in DOMAIN wire : k = 1 \/ (k - 1 \in DOMAIN wire' /\ wire'[k - 1] = wire[k])
  BY <1>1, TailLines
<1>3. /\ LinesSay(turns, wire') /\ Says(turns, l)
      /\ \A k \in DOMAIN wire' : Follows(l, wire'[k])
  BY <1>1, TailSays DEF Notices
<1>4. /\ call.stage = "run" /\ active.turn = n /\ n # 0 /\ active.early = <<>>
      /\ n \in DOMAIN turns /\ turns[n].thread = active.thread
  BY DEF AppInv, TurnOfCall, A!NoTurn
<1>5. active.said \subseteq {<<n, x>> : x \in turns[n].said}
      /\ \A x \in turns[n].said : <<n, x>> \in active.said \/ ItemOf(wire, n, x)
  BY <1>4 DEF AppInv, Heard, ItemOf
<1>6. Hearing(active, n)
  BY <1>1, <1>4, <1>5 DEF Hearing
<1>7. ASSUME l.kind = "end", l.turn = n, NEW x \in turns[n].said PROVE <<n, x>> \in active.said
  <2> SUFFICES ASSUME ItemOf(wire, n, x) PROVE FALSE
    BY <1>5
  <2>1. PICK k \in DOMAIN wire : wire[k].kind = "item" /\ wire[k].turn = n
    BY DEF ItemOf
  <2>2. k # 1
    BY <1>2, <1>7, <2>1
  <2>3. Follows(l, wire[k])
    BY <1>2, <1>3, <2>2
  <2>4. QED
    BY <1>7, <2>1, <2>3 DEF Follows
<1>8. HeardMore(active, l, active', n)
  <2> HIDE DEF n, l
  <2>1. AppTypes
    BY DEF AppInv
  <2>2. QED
    BY <1>2, <1>3, <1>4, <1>6, <1>7, <2>1, HearsLine DEF l
<1>9. /\ active' \in Hearings /\ active'.turn = n /\ active'.thread = turns[n].thread
      /\ active'.early = <<>> /\ active.said \subseteq active'.said
      /\ active'.said \subseteq {<<n, x>> : x \in turns[n].said}
      /\ active'.end = "completed" => ~turns[n].on /\ \A x \in turns[n].said : <<n, x>> \in active'.said
      /\ active'.end = "open" /\ l.turn = n => l.kind = "item" /\ <<n, l.what>> \in active'.said
  BY <1>4, <1>8 DEF HeardMore, Hearing
<1>10. AppTypes'
  BY <1>2, <1>9 DEF AppInv, AppTypes
<1>11. PipeSays'
  <2>1. LinesSay(turns', wire') /\ LinesSay(turns', active'.early)
    BY <1>3, <1>9 DEF LinesSay
  <2>2. QED
    BY <1>9, <2>1 DEF PipeSays
<1>12. OneRequest'
  <2>1. ~A!Pending
    BY <1>4 DEF A!Pending, A!Requests
  <2>2. \A k \in DOMAIN wire : wire[k].kind # "answer"
    BY <2>1 DEF AppInv, OneRequest
  <2>3. QED
    BY <1>2, <2>2 DEF OneRequest
<1>13. TurnOfCall'
  <2>1. TurnOfCall
    BY DEF AppInv
  <2>2. QED
    BY <1>4, <1>9, <2>1 DEF TurnOfCall, A!Idle
<1>14. Heard'
  <2>1. ASSUME active'.end = "open", NEW x \in turns[n].said
        PROVE  <<n, x>> \in active'.said \/ ItemOf(wire', n, x)
    <3> SUFFICES ASSUME ItemOf(wire, n, x), <<n, x>> \notin active'.said PROVE ItemOf(wire', n, x)
      BY <1>5, <1>9
    <3>1. PICK k \in DOMAIN wire : wire[k].kind = "item" /\ wire[k].turn = n /\ wire[k].what = x
      BY DEF ItemOf
    <3>2. k # 1
      BY <1>2, <1>9, <2>1, <3>1
    <3>3. k - 1 \in DOMAIN wire' /\ wire'[k - 1] = wire[k]
      BY <1>2, <3>2
    <3>4. QED
      BY <3>1, <3>3 DEF ItemOf
  <2>2. QED
    BY <1>9, <2>1 DEF Heard
<1>15. OwnAnswer' /\ (\A i \in DOMAIN told : told[i].turn \in DOMAIN turns)'
  BY DEF AppInv, OwnAnswer
<1>16. QED
  BY <1>10, <1>11, <1>12, <1>13, <1>14, <1>15 DEF AppInv

LEMMA ReceiveKeeps == ASSUME AppInv, A!Receive PROVE AppInv'
<1> DEFINE l == Head(wire)
<1>1. wire # <<>> /\ wire' = Tail(wire) /\ UNCHANGED <<life, perms, told>>
  BY DEF A!Receive
<1>2. wire \in Seq(Lines) /\ LinesSay(turns, wire) /\ call \in Requests /\ turns \in Seq(Turns)
  BY DEF AppInv, AppTypes, PipeSays
<1>3. l \in Lines /\ l = wire[1] /\ 1 \in DOMAIN wire
  BY <1>1, <1>2, TailLines
<1>4. l.kind # "answer" => Says(turns, l)
  BY <1>1, <1>2, TailSays
<1>5. CASE l.kind = "answer" /\ call' = [call EXCEPT !.answer = l.what, !.thread = l.thread]
           /\ UNCHANGED <<active, turns>>
  <2>1. l.what \in A!Outcomes /\ l.thread \in Threads \cup {None}
    BY <1>3, <1>5 DEF AppInv, OneRequest, Lines
  <2>2. call' \in Requests /\ call'.stage = call.stage /\ call'.turn = call.turn /\ call'.answer = l.what
    BY <1>2, <1>5, <2>1 DEF Requests
  <2>3. QED
    BY <1>1, <1>2, <1>5, <2>2, LineTaken
<1>6. CASE l.kind = "question" /\ turns' = [turns EXCEPT ![l.turn].asks = FALSE]
           /\ UNCHANGED <<call, active>>
  <2>1. l.turn \in DOMAIN turns
    BY <1>4, <1>6 DEF Says
  <2> DEFINE t == [turns[l.turn] EXCEPT !.asks = FALSE]
  <2>2. turns[l.turn] \in Turns
    BY <1>2, <2>1
  <2>3. t \in Turns /\ \A f \in {"thread", "own", "on", "said"} : t[f] = turns[l.turn][f]
    BY <2>2 DEF Turns
  <2>4. turns' = [turns EXCEPT ![l.turn] = t]
    BY <1>6
  <2> HIDE DEF t
  <2>5. turns' \in Seq(Turns) /\ DOMAIN turns' = DOMAIN turns /\ Len(turns') = Len(turns)
    BY <1>2, <2>1, <2>3, <2>4
  <2>6. \A n \in DOMAIN turns : \A f \in {"thread", "own", "on", "said"} : turns'[n][f] = turns[n][f]
    BY <2>1, <2>3, <2>4
  <2>7. QED
    BY <1>1, <1>2, <1>6, <2>5, <2>6, LineTaken
<1>7. CASE l.kind \notin {"answer", "question"} /\ active' = A!Hears(active, l) /\ UNCHANGED <<call, turns>>
  <2>0. l.kind \in Notices /\ Says(turns, l)
    BY <1>3, <1>4, <1>7 DEF Lines, Notices
  <2>1. CASE active.end # "open" \/ l.thread # active.thread
    <3>1. active' = active
      BY <1>7, <2>1 DEF A!Hears
    <3>2. l.turn = call.turn /\ active.end = "open" => FALSE
      <4>1. l.turn \in DOMAIN turns /\ l.thread = turns[l.turn].thread /\ l.turn # 0
        BY <1>2, <2>0 DEF Says
      <4>2. QED
        BY <2>1, <4>1 DEF AppInv, TurnOfCall
    <3>3. QED
      BY <1>1, <1>2, <1>7, <3>1, <3>2, LineTaken
  <2>2. CASE active.end = "open" /\ l.thread = active.thread /\ active.turn = 0
    <3>1. active' = [active EXCEPT !.early = Append(@, l)]
      BY <1>7, <2>2 DEF A!Hears
    <3>2. QED
      BY <1>1, <1>7, <2>0, <2>2, <3>1, NoticeKept
  <2>3. CASE active.end = "open" /\ active.turn # 0
    BY <1>1, <1>7, <2>0, <2>3, NoticeHeard
  <2>4. QED
    BY <2>1, <2>2, <2>3
<1>8. QED
  BY <1>5, <1>6, <1>7 DEF A!Receive

\* generate has returned, or thrown: no turn is heard any more.
LEMMA GenerateEnds ==
  ASSUME AppInv, ~A!Pending, call' = A!Idle, active' = A!NoTurn, UNCHANGED <<life, perms, wire, turns>>,
         told' \in Seq(Replies), OwnAnswer', \A i \in DOMAIN told' : told'[i].turn \in DOMAIN turns
  PROVE  AppInv'
<1>1. \A k \in DOMAIN wire : wire[k].kind # "answer"
  BY DEF AppInv, OneRequest
<1>2. /\ A!Idle \in Requests /\ A!NoTurn \in Hearings /\ A!NoTurn.early = <<>> /\ A!Idle.turn = 0
      /\ A!Idle.stage = "idle"
  <2>1. <<>> \in Seq(Lines)
    OBVIOUS
  <2>2. QED
    BY <2>1 DEF A!Idle, A!NoTurn, Requests, Hearings
<1>3. AppTypes'
  BY <1>2 DEF AppInv, AppTypes
<1>4. PipeSays'
  <2>1. LinesSay(turns', wire')
    BY DEF AppInv, PipeSays
  <2>2. QED
    BY <1>2, <2>1 DEF PipeSays, LinesSay
<1>5. OneRequest' /\ TurnOfCall' /\ Heard'
  BY <1>1, <1>2 DEF OneRequest, TurnOfCall, Heard
<1>6. QED
  BY <1>3, <1>4, <1>5 DEF AppInv

LEMMA BegunKeeps == ASSUME AppInv, A!Begun PROVE AppInv'
<1>1. /\ call.stage = "turn" /\ call.answer # "none" /\ ~A!Pending
      /\ UNCHANGED <<life, perms, wire, turns, told>>
  BY DEF A!Begun, A!Answered, A!Pending
<1>2. /\ active.turn = 0 /\ active.said = {} /\ active.end \in {"open", "failed"}
      /\ call.answer = "ok" => call.turn # 0
      /\ call.turn # 0 => call.turn \in DOMAIN turns /\ turns[call.turn].thread = active.thread
      /\ life # "off"
  BY <1>1 DEF AppInv, TurnOfCall, A!Idle
<1>3. \A k \in DOMAIN wire : wire[k].kind # "answer"
  BY <1>1 DEF AppInv, OneRequest
<1>4. /\ call' = [call EXCEPT !.stage = "run"]
      /\ active' = IF active.end = "open" THEN A!Replay(active) ELSE active
      => call' \in Requests /\ call'.stage = "run" /\ call'.turn = call.turn
  BY DEF AppInv, AppTypes, Requests
<1>5. CASE A!Ok /\ active.end = "open"
  <2> DEFINE n == call.turn
  <2>1. call' = [call EXCEPT !.stage = "run"] /\ active' = A!Replay(active)
    BY <1>5 DEF A!Begun
  <2>2. call' \in Requests /\ call'.stage = "run" /\ call'.turn = n
    BY <1>4, <1>5, <2>1
  <2>3. n # 0 /\ n \in DOMAIN turns /\ turns[n].thread = active.thread
    BY <1>2, <1>5 DEF A!Ok
  <2>4. Replayed(active', n, Len(active.early))
    <3> HIDE DEF n
    <3>1. AppTypes /\ PipeSays /\ Heard
      BY DEF AppInv
    <3>2. n = call.turn
      BY DEF n
    <3>3. QED
      BY <1>2, <1>5, <2>1, <2>3, <3>1, <3>2, ReplayHears
  <2>5. /\ active' \in Hearings /\ active'.turn = n /\ active'.thread = turns[n].thread
        /\ active'.early = <<>>
        /\ active'.said \subseteq {<<n, x>> : x \in turns[n].said}
        /\ active'.end = "completed" => ~turns[n].on /\ \A x \in turns[n].said : <<n, x>> \in active'.said
    BY <2>4 DEF Replayed, Hearing
  <2>6. AppTypes'
    BY <1>1, <2>2, <2>5 DEF AppInv, AppTypes
  <2>7. PipeSays'
    <3>1. LinesSay(turns', wire')
      BY <1>1 DEF AppInv, PipeSays
    <3>2. QED
      BY <2>5, <3>1 DEF PipeSays, LinesSay
  <2>8. OneRequest'
    BY <1>1, <1>3 DEF OneRequest
  <2>9. TurnOfCall'
    <3>1. TurnOfCall
      BY DEF AppInv
    <3>2. QED
      BY <1>1, <1>2, <2>2, <2>3, <2>5, <3>1 DEF TurnOfCall
  <2>10. Heard'
    <3>1. ASSUME active'.end = "open", NEW x \in turns[n].said
          PROVE  <<n, x>> \in active'.said \/ ItemOf(wire', n, x)
      <4>1. ItemOf(active.early, n, x) \/ ItemOf(wire, n, x)
        BY <1>2, <1>5, <2>3, <3>1 DEF AppInv, Heard
      <4>2. ASSUME ItemOf(active.early, n, x) PROVE <<n, x>> \in active'.said
        <5>1. active.early \in Seq(Lines)
          BY DEF AppInv, AppTypes, Hearings
        <5>2. PICK k \in 1..Len(active.early) :
                active.early[k].kind = "item" /\ active.early[k].turn = n /\ active.early[k].what = x
          BY <4>2, <5>1 DEF ItemOf
        <5>3. QED
          BY <2>4, <3>1, <5>2 DEF Replayed
      <4>3. QED
        BY <1>1, <4>1, <4>2
    <3>2. QED
      BY <1>1, <2>2, <2>5, <3>1 DEF Heard
  <2>11. OwnAnswer' /\ (\A i \in DOMAIN told : told[i].turn \in DOMAIN turns)'
    BY <1>1 DEF AppInv, OwnAnswer
  <2>12. QED
    BY <2>6, <2>7, <2>8, <2>9, <2>10, <2>11 DEF AppInv
<1>6. CASE active.end # "open"
  <2>1. /\ call' \in Requests /\ call'.stage = "run" /\ call'.turn = call.turn
        /\ active' = active /\ active.end = "failed"
    BY <1>2, <1>4, <1>6 DEF A!Begun
  <2>2. AppTypes'
    BY <1>1, <2>1 DEF AppInv, AppTypes
  <2>3. PipeSays' /\ OneRequest'
    BY <1>1, <1>3, <2>1 DEF AppInv, PipeSays, OneRequest
  <2>4. TurnOfCall'
    <3>1. TurnOfCall
      BY DEF AppInv
    <3>2. QED
      BY <1>1, <1>2, <2>1, <3>1 DEF TurnOfCall
  <2>5. Heard'
    BY <1>1, <2>1 DEF AppInv, Heard
  <2>6. OwnAnswer' /\ (\A i \in DOMAIN told : told[i].turn \in DOMAIN turns)'
    BY <1>1 DEF AppInv, OwnAnswer
  <2>7. QED
    BY <2>2, <2>3, <2>4, <2>5, <2>6 DEF AppInv
<1>7. CASE ~A!Ok /\ active.end = "open"
  <2>1. call' = A!Idle /\ active' = A!NoTurn
    BY <1>7 DEF A!Begun
  <2>2. told' \in Seq(Replies) /\ OwnAnswer' /\ \A i \in DOMAIN told' : told'[i].turn \in DOMAIN turns
    BY <1>1 DEF AppInv, AppTypes, OwnAnswer
  <2>3. QED
    BY <1>1, <2>1, <2>2, GenerateEnds
<1>8. QED
  BY <1>5, <1>6, <1>7

LEMMA DoneKeeps == ASSUME AppInv, A!Done PROVE AppInv'
<1>1. /\ call.stage = "run" /\ ~A!Pending /\ active.end # "open" /\ call' = A!Idle /\ active' = A!NoTurn
      /\ UNCHANGED <<life, perms, wire, turns>>
  BY DEF A!Done, A!Pending, A!Requests
<1>2. told \in Seq(Replies) /\ OwnAnswer /\ \A i \in DOMAIN told : told[i].turn \in DOMAIN turns
  BY DEF AppInv, AppTypes
<1>3. CASE active.end = "completed" /\ active.said # {}
  <2> DEFINE reply == [turn |-> active.turn, said |-> active.said]
             n == call.turn
  <2>1. told' = Append(told, reply)
    BY <1>3 DEF A!Done
  <2>2. reply \in Replies
    BY DEF AppInv, AppTypes, Hearings, Replies
  <2>3. /\ active.turn = n /\ n # 0 /\ n \in DOMAIN turns /\ turns[n].own
        /\ \A i \in DOMAIN told : told[i].turn # n
    BY <1>1, <1>3 DEF AppInv, TurnOfCall
  <2>4. ~turns[n].on /\ active.said = {<<n, x>> : x \in turns[n].said}
    <3>1. /\ active.said \subseteq {<<n, x>> : x \in turns[n].said}
          /\ ~turns[n].on /\ \A x \in turns[n].said : <<n, x>> \in active.said
      BY <1>3, <2>3 DEF AppInv, Heard
    <3>2. QED
      BY <3>1
  <2>5. reply.turn = n /\ reply.said = {<<n, x>> : x \in turns[n].said}
    BY <2>3, <2>4
  <2> HIDE DEF reply
  <2>6. /\ told' \in Seq(Replies) /\ DOMAIN told' = DOMAIN told \cup {Len(told) + 1}
        /\ told'[Len(told) + 1] = reply /\ \A i \in DOMAIN told : told'[i] = told[i]
    BY <1>2, <2>1, <2>2
  <2>7. \A i \in DOMAIN told' : told'[i].turn \in DOMAIN turns
    BY <1>2, <2>3, <2>5, <2>6
  <2>8. ASSUME NEW i \in DOMAIN told'
        PROVE  /\ turns[told'[i].turn].own /\ ~turns[told'[i].turn].on
               /\ told'[i].said = {<<told'[i].turn, x>> : x \in turns[told'[i].turn].said}
    <3>1. CASE i \in DOMAIN told
      BY <1>2, <2>6, <3>1 DEF OwnAnswer
    <3>2. CASE i = Len(told) + 1
      BY <2>3, <2>4, <2>5, <2>6, <3>2
    <3>3. QED
      BY <2>6, <2>8, <3>1, <3>2
  <2>9. ASSUME NEW i \in DOMAIN told', NEW j \in DOMAIN told', told'[j].turn = told'[i].turn PROVE i = j
    <3>1. CASE i \in DOMAIN told /\ j \in DOMAIN told
      BY <1>2, <2>6, <2>9, <3>1 DEF OwnAnswer
    <3>2. CASE ~(i \in DOMAIN told /\ j \in DOMAIN told)
      BY <2>3, <2>5, <2>6, <2>9, <3>2
    <3>3. QED
      BY <3>1, <3>2
  <2>10. OwnAnswer'
    BY <1>1, <2>8, <2>9 DEF OwnAnswer
  <2>11. QED
    BY <1>1, <2>6, <2>7, <2>10, GenerateEnds
<1>4. CASE ~(active.end = "completed" /\ active.said # {})
  <2>1. told' = told
    BY <1>4 DEF A!Done
  <2>2. told' \in Seq(Replies) /\ OwnAnswer' /\ \A i \in DOMAIN told' : told'[i].turn \in DOMAIN turns
    BY <1>1, <1>2, <2>1 DEF OwnAnswer
  <2>3. QED
    BY <1>1, <2>2, GenerateEnds
<1>5. QED
  BY <1>3, <1>4

-----------------------------------------------------------------------------
\* A turn begins at the app-server.
LEMMA TurnBeginsKeeps ==
  ASSUME AppInv, MaxTurns \in Nat, NEW t \in Threads, NEW own \in BOOLEAN, A!TurnBegins(t, own) PROVE AppInv'
<1> DEFINE n == Len(turns) + 1
           begun0 == [thread |-> t, own |-> own, on |-> TRUE, asks |-> FALSE, said |-> {}]
<1>1. turns \in Seq(Turns) /\ wire \in Seq(Lines) /\ active.early \in Seq(Lines) /\ call \in Requests
  BY DEF AppInv, AppTypes, Hearings
<1>2. begun0 \in Turns
  BY DEF Turns
<1>3. turns' = Append(turns, begun0) /\ UNCHANGED <<life, active, perms, wire, told>> /\ Len(turns) < MaxTurns
  BY DEF A!TurnBegins
<1>4. /\ turns' \in Seq(Turns) /\ DOMAIN turns' = DOMAIN turns \cup {n} /\ turns'[n] = begun0
      /\ \A k \in DOMAIN turns : turns'[k] = turns[k]
      /\ n \notin DOMAIN turns /\ n \in Nat /\ n # 0 /\ Len(turns') = n /\ n <= MaxTurns
  <2> HIDE DEF begun0
  <2>1. QED
    BY <1>1, <1>2, <1>3
<1>5. begun0.thread = t /\ begun0.own = own /\ begun0.said = {}
  OBVIOUS
<1> HIDE DEF begun0, n
<1>6. \A l : Says(turns, l) => Says(turns', l)
  BY <1>4 DEF Says
<1>7. PipeSays'
  <2>1. LinesSay(turns, wire) /\ LinesSay(turns, active.early)
    BY DEF AppInv, PipeSays
  <2>2. LinesSay(turns', wire) /\ LinesSay(turns', active.early)
    BY <1>6, <2>1 DEF LinesSay
  <2>3. QED
    BY <1>3, <2>2 DEF AppInv, PipeSays
<1>8. OwnAnswer' /\ (\A i \in DOMAIN told : told[i].turn \in DOMAIN turns)'
  BY <1>3, <1>4 DEF AppInv, OwnAnswer
<1>9. CASE own
  <2>1. /\ A!Outstanding /\ call.stage = "turn" /\ call.turn = 0 /\ call.thread = t
        /\ call' = [call EXCEPT !.turn = n]
    BY <1>4, <1>9 DEF A!TurnBegins
  <2>2. /\ call' \in Requests /\ call'.stage = "turn" /\ call'.turn = n /\ call'.answer = call.answer
        /\ call'.thread = call.thread
    BY <1>1, <1>4, <2>1 DEF Requests
  <2>3. /\ call.answer = "none" /\ \A k \in DOMAIN wire : wire[k].kind # "answer"
        /\ life # "off"
    BY <2>1 DEF A!Outstanding, A!Pending, AppInv, TurnOfCall, A!Idle
  <2>4. /\ active.turn = 0 /\ active.said = {} /\ active.end \in {"open", "failed"}
        /\ active.thread = t
    BY <2>1, <2>3 DEF AppInv, TurnOfCall
  <2>5. AppTypes'
    BY <1>3, <1>4, <2>2 DEF AppInv, AppTypes
  <2>6. OneRequest'
    BY <1>3, <2>3 DEF OneRequest
  <2>7. TurnOfCall'
    <3>1. \A i \in DOMAIN told : told[i].turn # n
      BY <1>4 DEF AppInv
    <3>2. turns'[n].own /\ turns'[n].thread = t
      BY <1>4, <1>5, <1>9
    <3>3. /\ call'.turn \in DOMAIN turns' /\ turns'[call'.turn].own
          /\ turns'[call'.turn].thread = active'.thread
          /\ \A i \in DOMAIN told' : told'[i].turn # call'.turn
      BY <1>3, <1>4, <2>2, <2>4, <3>1, <3>2
    <3>4. call'.answer = "none" /\ call'.thread = t /\ active' = active /\ life' = life
      BY <1>3, <2>1, <2>2, <2>3
    <3>5. QED
      BY <2>2, <2>3, <2>4, <3>3, <3>4 DEF TurnOfCall
  <2>8. Heard'
    BY <1>3, <1>4, <1>5, <2>2, <2>4 DEF Heard
  <2>9. QED
    BY <1>7, <1>8, <2>5, <2>6, <2>7, <2>8 DEF AppInv
<1>10. CASE ~own
  <2>1. call' = call
    BY <1>10 DEF A!TurnBegins
  <2>2. AppTypes'
    BY <1>3, <1>4, <2>1 DEF AppInv, AppTypes
  <2>3. OneRequest'
    BY <1>3, <2>1 DEF AppInv, OneRequest, A!Pending
  <2>4. TurnOfCall'
    <3>1. TurnOfCall
      BY DEF AppInv
    <3>2. QED
      BY <1>3, <1>4, <2>1, <3>1 DEF TurnOfCall
  <2>5. Heard'
    <3>1. call.turn # 0 => turns'[call.turn] = turns[call.turn]
      BY <1>4 DEF AppInv, TurnOfCall
    <3>2. QED
      BY <1>3, <2>1, <3>1 DEF AppInv, Heard
  <2>6. QED
    BY <1>7, <1>8, <2>2, <2>3, <2>4, <2>5 DEF AppInv
<1>11. QED
  BY <1>9, <1>10

\* A turn that goes on says something, asks, or ends.
LEMMA LineEmitted ==
  ASSUME AppInv, NEW n \in DOMAIN turns, turns[n].on, NEW l \in Lines, l.turn = n, l.kind # "answer",
         NEW t \in Turns, t.thread = turns[n].thread, t.own = turns[n].own, turns[n].said \subseteq t.said,
         \A x \in t.said : x \in turns[n].said \/ (l.kind = "item" /\ l.what = x),
         turns' = [turns EXCEPT ![n] = t], Says(turns', l),
         wire' = Append(wire, l), UNCHANGED <<life, call, active, perms, told>>
  PROVE  AppInv'
<1>1. turns \in Seq(Turns) /\ wire \in Seq(Lines) /\ LinesSay(turns, wire) /\ LinesSay(turns, active.early)
  BY DEF AppInv, AppTypes, PipeSays
<1>2. /\ turns' \in Seq(Turns) /\ DOMAIN turns' = DOMAIN turns /\ Len(turns') = Len(turns)
      /\ turns'[n] = t /\ \A k \in DOMAIN turns : k # n => turns'[k] = turns[k]
  BY <1>1
<1>3. /\ wire' \in Seq(Lines) /\ DOMAIN wire' = DOMAIN wire \cup {Len(wire) + 1}
      /\ wire'[Len(wire) + 1] = l /\ Len(wire) + 1 \notin DOMAIN wire
      /\ \A k \in DOMAIN wire : wire'[k] = wire[k]
  BY <1>1, MoreLines
<1>4. \A m : Says(turns, m) => Says(turns', m) /\ Follows(m, l)
  BY <1>2 DEF Says, Follows
<1>5. AppTypes'
  BY <1>2, <1>3 DEF AppInv, AppTypes
<1>6. PipeSays'
  <2>1. LinesSay(turns', wire) /\ LinesSay(turns', active.early)
    BY <1>1, <1>4 DEF LinesSay
  <2>2. \A k \in DOMAIN wire : Follows(wire[k], l)
    <3> SUFFICES ASSUME NEW k \in DOMAIN wire PROVE Follows(wire[k], l)
      OBVIOUS
    <3>1. CASE wire[k].kind = "answer"
      BY <3>1 DEF Follows
    <3>2. CASE wire[k].kind # "answer"
      BY <1>1, <1>4, <3>2 DEF LinesSay
    <3>3. QED
      BY <3>1, <3>2
  <2>3. LinesSay(turns', wire')
    BY <1>1, <2>1, <2>2, MoreSays
  <2>4. ASSUME NEW k \in DOMAIN active.early
        PROVE  active.early[k].kind \in Notices /\ \A j \in DOMAIN wire' : Follows(active.early[k], wire'[j])
    <3>1. active.early[k].kind \in Notices /\ \A j \in DOMAIN wire : Follows(active.early[k], wire[j])
      BY <2>4 DEF AppInv, PipeSays
    <3>2. Follows(active.early[k], l)
      BY <1>1, <1>4, <3>1 DEF LinesSay, Notices
    <3>3. QED
      BY <1>3, <3>1, <3>2
  <2>5. QED
    BY <2>1, <2>3, <2>4 DEF PipeSays
<1>7. OneRequest'
  BY <1>3 DEF AppInv, OneRequest, A!Pending
<1>8. TurnOfCall'
  <2>1. TurnOfCall
    BY DEF AppInv
  <2>2. \A k \in DOMAIN turns : turns'[k].own = turns[k].own /\ turns'[k].thread = turns[k].thread
    BY <1>2
  <2>3. QED
    BY <1>2, <2>1, <2>2 DEF TurnOfCall
<1>9. Heard'
  <2>1. CASE call.turn = n
    <3>0. Heard /\ n # 0
      BY <1>1 DEF AppInv
    <3>1. active.end # "completed" /\ active.said \subseteq {<<n, x>> : x \in turns[n].said}
      BY <2>1, <3>0 DEF Heard
    <3>2. active.said \subseteq {<<n, x>> : x \in t.said}
      BY <3>1
    <3>3. ASSUME active.end = "open", NEW x \in t.said
          PROVE  <<n, x>> \in active.said \/ ItemOf(active.early, n, x) \/ ItemOf(wire', n, x)
      <4>1. CASE x \in turns[n].said
        <5>1. ItemOf(wire, n, x) => ItemOf(wire', n, x)
          BY <1>3 DEF ItemOf
        <5>2. QED
          BY <2>1, <3>0, <3>3, <4>1, <5>1 DEF Heard
      <4>2. CASE l.kind = "item" /\ l.what = x
        BY <1>3, <4>2 DEF ItemOf
      <4>3. QED
        BY <3>3, <4>1, <4>2
    <3>4. QED
      BY <1>2, <2>1, <3>1, <3>2, <3>3 DEF Heard
  <2>2. CASE call.turn # n
    <3>1. call.turn # 0 => turns'[call.turn] = turns[call.turn]
      BY <1>2, <2>2 DEF AppInv, TurnOfCall
    <3>2. \A x : ItemOf(wire, call.turn, x) => ItemOf(wire', call.turn, x)
      BY <1>3 DEF ItemOf
    <3>3. QED
      BY <3>1, <3>2 DEF AppInv, Heard
  <2>3. QED
    BY <2>1, <2>2
<1>10. OwnAnswer' /\ (\A i \in DOMAIN told : told[i].turn \in DOMAIN turns)'
  <2>1. \A i \in DOMAIN told : told[i].turn \in DOMAIN turns /\ told[i].turn # n
    BY DEF AppInv, OwnAnswer
  <2>2. \A i \in DOMAIN told : turns'[told[i].turn] = turns[told[i].turn]
    BY <1>2, <2>1
  <2>3. QED
    BY <1>2, <2>1, <2>2 DEF AppInv, OwnAnswer
<1>11. QED
  BY <1>5, <1>6, <1>7, <1>8, <1>9, <1>10 DEF AppInv

LEMMA TurnEmitsKeeps == ASSUME AppInv, NEW n \in DOMAIN turns, A!TurnEmits(n) PROVE AppInv'
<1>1. turns \in Seq(Turns) /\ n \in Nat /\ None \in Contents /\ Items \subseteq Contents
      /\ SUBSET Items \subseteq Contents
  <2>1. turns \in Seq(Turns) /\ n \in Nat
    BY DEF AppInv, AppTypes
  <2>2. QED
    BY <2>1 DEF Contents
<1>2. /\ turns[n] \in Turns /\ turns[n].on /\ UNCHANGED <<life, call, active, perms, told>>
      /\ turns[n].thread \in Threads /\ turns[n].said \in SUBSET Items
  <2>1. turns[n] \in Turns
    BY <1>1
  <2>2. turns[n].on /\ UNCHANGED <<life, call, active, perms, told>>
    BY DEF A!TurnEmits
  <2>3. QED
    BY <2>1, <2>2 DEF Turns
<1>3. ASSUME NEW i \in Items, A!Emits(A!Line("item", turns[n].thread, n, i)),
             turns' = [turns EXCEPT ![n].said = @ \cup {i}]
      PROVE  AppInv'
  <2> DEFINE l == A!Line("item", turns[n].thread, n, i)
             t == [turns[n] EXCEPT !.said = @ \cup {i}]
  <2>1. l \in Lines /\ l.kind = "item" /\ l.turn = n /\ l.thread = turns[n].thread /\ l.what = i
    BY <1>1, <1>2 DEF A!Line, Lines, Notices
  <2>2. /\ t \in Turns /\ t.thread = turns[n].thread /\ t.own = turns[n].own
        /\ t.said = turns[n].said \cup {i}
    BY <1>2 DEF Turns
  <2>3. turns' = [turns EXCEPT ![n] = t] /\ wire' = Append(wire, l)
    BY <1>3 DEF A!Emits
  <2> HIDE DEF l, t
  <2>4. Says(turns', l)
    BY <1>1, <2>1, <2>2, <2>3 DEF Says
  <2>5. QED
    BY <1>2, <2>1, <2>2, <2>3, <2>4, LineEmitted
<1>4. ASSUME A!Emits(A!Line("question", turns[n].thread, n, None)), turns' = [turns EXCEPT ![n].asks = TRUE]
      PROVE  AppInv'
  <2> DEFINE l == A!Line("question", turns[n].thread, n, None)
             t == [turns[n] EXCEPT !.asks = TRUE]
  <2>1. l \in Lines /\ l.kind = "question" /\ l.turn = n /\ l.thread = turns[n].thread
    BY <1>1, <1>2 DEF A!Line, Lines
  <2>2. t \in Turns /\ t.thread = turns[n].thread /\ t.own = turns[n].own /\ t.said = turns[n].said
    BY <1>2 DEF Turns
  <2>3. turns' = [turns EXCEPT ![n] = t] /\ wire' = Append(wire, l)
    BY <1>4 DEF A!Emits
  <2> HIDE DEF l, t
  <2>4. Says(turns', l)
    BY <1>1, <2>1, <2>2, <2>3 DEF Says
  <2>5. QED
    BY <1>2, <2>1, <2>2, <2>3, <2>4, LineEmitted
<1>5. ASSUME NEW is \in {{}, turns[n].said}, A!Emits(A!Line("end", turns[n].thread, n, is)),
             turns' = [turns EXCEPT ![n].on = FALSE]
      PROVE  AppInv'
  <2> DEFINE l == A!Line("end", turns[n].thread, n, is)
             t == [turns[n] EXCEPT !.on = FALSE]
  <2>0. is \in SUBSET Items /\ is \subseteq turns[n].said
    BY <1>2
  <2>1. l \in Lines /\ l.kind = "end" /\ l.turn = n /\ l.thread = turns[n].thread /\ l.what = is
    BY <1>1, <1>2, <2>0 DEF A!Line, Lines, Notices
  <2>2. t \in Turns /\ t.thread = turns[n].thread /\ t.own = turns[n].own /\ t.said = turns[n].said /\ ~t.on
    BY <1>2 DEF Turns
  <2>3. turns' = [turns EXCEPT ![n] = t] /\ wire' = Append(wire, l)
    BY <1>5 DEF A!Emits
  <2> HIDE DEF l, t
  <2>4. Says(turns', l)
    BY <1>1, <2>0, <2>1, <2>2, <2>3 DEF Says
  <2>5. QED
    BY <1>2, <2>1, <2>2, <2>3, <2>4, LineEmitted
<1>6. ASSUME A!Emits(A!Line("aborted", turns[n].thread, n, None)), turns' = [turns EXCEPT ![n].on = FALSE]
      PROVE  AppInv'
  <2> DEFINE l == A!Line("aborted", turns[n].thread, n, None)
             t == [turns[n] EXCEPT !.on = FALSE]
  <2>1. l \in Lines /\ l.kind = "aborted" /\ l.turn = n /\ l.thread = turns[n].thread
    BY <1>1, <1>2 DEF A!Line, Lines, Notices
  <2>2. t \in Turns /\ t.thread = turns[n].thread /\ t.own = turns[n].own /\ t.said = turns[n].said /\ ~t.on
    BY <1>2 DEF Turns
  <2>3. turns' = [turns EXCEPT ![n] = t] /\ wire' = Append(wire, l)
    BY <1>6 DEF A!Emits
  <2> HIDE DEF l, t
  <2>4. Says(turns', l)
    BY <1>1, <2>1, <2>2, <2>3 DEF Says
  <2>5. QED
    BY <1>2, <2>1, <2>2, <2>3, <2>4, LineEmitted
<1>7. QED
  BY <1>3, <1>4, <1>5, <1>6 DEF A!TurnEmits

LEMMA AnswersKeeps == ASSUME AppInv, NEW what \in A!Outcomes, A!Answers(what) PROVE AppInv'
<1>1. /\ wire \in Seq(Lines) /\ call \in Requests /\ call.thread \in Threads \cup {None} /\ call.turn \in Nat
      /\ LinesSay(turns, wire)
  BY DEF AppInv, AppTypes, PipeSays, Requests
<1>2. /\ A!Pending /\ \A k \in DOMAIN wire : wire[k].kind # "answer"
      /\ call.stage = "turn" /\ what = "ok" => call.turn # 0
      /\ UNCHANGED <<life, call, active, perms, turns, told>>
  BY DEF A!Answers, A!Outstanding
<1>3. PICK t \in Threads \cup {None} : wire' = Append(wire, A!Line("answer", t, call.turn, what))
  <2>1. \E t \in IF call.stage = "open" /\ call.thread = None /\ what = "ok"
                 THEN {x \in Threads : perms[x] = None} ELSE {call.thread} :
          wire' = Append(wire, A!Line("answer", t, call.turn, what))
    BY DEF A!Answers, A!Emits
  <2>2. QED
    BY <1>1, <2>1
<1> DEFINE l == A!Line("answer", t, call.turn, what)
<1>4. l \in Lines /\ l.kind = "answer" /\ l.what = what
  <2>1. what \in Contents
    BY DEF Contents
  <2>2. QED
    BY <1>1, <2>1 DEF A!Line, Lines
<1>5. wire' = Append(wire, l)
  BY <1>3
<1> HIDE DEF l
<1>6. /\ wire' \in Seq(Lines) /\ DOMAIN wire' = DOMAIN wire \cup {Len(wire) + 1}
      /\ wire'[Len(wire) + 1] = l
      /\ \A k \in DOMAIN wire : wire'[k] = wire[k]
  BY <1>1, <1>4, <1>5, MoreLines
<1>7. AppTypes'
  BY <1>2, <1>6 DEF AppInv, AppTypes
<1>8. PipeSays'
  <2>1. \A m : Follows(m, l)
    BY <1>4 DEF Follows
  <2>2. LinesSay(turns, wire')
    BY <1>1, <1>4, <1>5, <2>1, MoreSays
  <2>3. LinesSay(turns', wire') /\ LinesSay(turns', active'.early)
    BY <1>2, <2>2 DEF AppInv, PipeSays
  <2>4. \A k \in DOMAIN active.early :
          active.early[k].kind \in Notices /\ \A j \in DOMAIN wire' : Follows(active.early[k], wire'[j])
    BY <1>6, <2>1 DEF AppInv, PipeSays
  <2>5. QED
    BY <1>2, <2>3, <2>4 DEF PipeSays
<1>9. OneRequest'
  BY <1>2, <1>4, <1>6 DEF OneRequest, A!Pending
<1>10. TurnOfCall'
  <2>1. TurnOfCall
    BY DEF AppInv
  <2>2. QED
    BY <1>2, <2>1 DEF TurnOfCall
<1>11. Heard'
  <2>1. \A x : ItemOf(wire, call.turn, x) => ItemOf(wire', call.turn, x)
    BY <1>6 DEF ItemOf
  <2>2. QED
    BY <1>2, <2>1 DEF AppInv, Heard
<1>12. OwnAnswer' /\ (\A i \in DOMAIN told : told[i].turn \in DOMAIN turns)'
  BY <1>2 DEF AppInv, OwnAnswer
<1>13. QED
  BY <1>7, <1>8, <1>9, <1>10, <1>11, <1>12 DEF AppInv

-----------------------------------------------------------------------------
\* A request that is made.
LEMMA RequestMade ==
  ASSUME NEW stage \in A!Requests, NEW t \in Threads \cup {None}, NEW m \in Modes \cup {None},
         A!Ask(stage, t, m)
  PROVE  call' \in Requests /\ call'.stage = stage /\ call'.turn = 0
<1>1. PICK a \in {"none", "rejected"} :
        call' = [A!Idle EXCEPT !.stage = stage, !.thread = t, !.mode = m, !.answer = a]
  BY DEF A!Ask
<1>2. QED
  BY <1>1 DEF A!Idle, Requests

LEMMA IdleFacts ==
  /\ A!Idle \in Requests /\ A!Idle.turn = 0 /\ A!Idle.stage = "idle"
  /\ call = A!Idle => ~A!Pending
  /\ \A stage : A!Answered(stage) /\ stage # "idle" => call.stage = stage /\ ~A!Pending /\ call # A!Idle
BY DEF A!Idle, Requests, A!Pending, A!Requests, A!Answered

\* The requests that begin no turn.
LEMMA OthersKeep ==
  ASSUME AppInv,
         \/ A!Start \/ A!Started \/ A!Configured \/ A!Opened \/ A!Returned
         \/ \E s \in {"account", "read", "name"} : A!Simple(s)
         \/ \E m \in Modes : \E t \in Threads \cup {None} : A!Thread(t, m)
  PROVE  AppInv'
<1>1. /\ life \in {"off", "starting", "ready", "closed"} /\ perms \in [Threads -> Modes \cup {None}]
      /\ life = "off" => call = A!Idle
      /\ call.thread \in Threads \cup {None} /\ call.mode \in Modes \cup {None}
  BY DEF AppInv, AppTypes, TurnOfCall, Requests
<1>2. CASE A!Start
  <2>1. /\ life' = "starting" /\ A!Ask("init", None, None) /\ call = A!Idle
        /\ UNCHANGED <<active, perms, wire, turns, told>>
    BY <1>1, <1>2 DEF A!Start
  <2>2. call' \in Requests /\ call'.stage = "init" /\ call'.turn = 0
    BY <2>1, RequestMade DEF A!Requests
  <2>3. QED
    BY <1>1, <2>1, <2>2, IdleFacts, RequestMoves
<1>3. CASE A!Started
  <2>1. /\ call.stage = "init" /\ ~A!Pending /\ life # "off" /\ call' = A!Idle
        /\ life' \in {"starting", "ready", "closed"} /\ UNCHANGED <<active, perms, wire, turns, told>>
    BY <1>1, <1>3, IdleFacts DEF A!Started
  <2>2. QED
    BY <1>1, <2>1, IdleFacts, RequestMoves
<1>4. CASE A!Configured
  <2>1. /\ call.stage = "config" /\ ~A!Pending /\ life # "off"
        /\ UNCHANGED <<life, active, perms, wire, turns, told>>
        /\ A!Ask("open", call.thread, call.mode) \/ call' = A!Idle
    BY <1>1, <1>4, IdleFacts DEF A!Configured
  <2>2. call' \in Requests /\ call'.stage \in {"open", "idle"} /\ call'.turn = 0
    BY <1>1, <2>1, IdleFacts, RequestMade DEF A!Requests
  <2>3. QED
    BY <1>1, <2>1, <2>2, RequestMoves
<1>5. CASE A!Opened
  <2>1. /\ call.stage = "open" /\ ~A!Pending /\ life # "off" /\ call' = A!Idle
        /\ UNCHANGED <<life, active, wire, turns, told>>
        /\ perms' \in {[perms EXCEPT ![call.thread] = call.mode], perms}
    BY <1>1, <1>5, IdleFacts DEF A!Opened
  <2>2. perms' \in [Threads -> Modes \cup {None}]
    BY <1>1, <2>1
  <2>3. QED
    BY <1>1, <2>1, <2>2, IdleFacts, RequestMoves
<1>6. CASE A!Returned
  <2>1. /\ call.stage \in {"account", "read", "name"} /\ ~A!Pending /\ life # "off" /\ call' = A!Idle
        /\ UNCHANGED <<life, active, perms, wire, turns, told>>
    BY <1>1, <1>6, IdleFacts DEF A!Returned
  <2>2. QED
    BY <1>1, <2>1, IdleFacts, RequestMoves
<1>7. ASSUME NEW s \in {"account", "read", "name"}, A!Simple(s) PROVE AppInv'
  <2>1. /\ call = A!Idle /\ life # "off" /\ A!Ask(s, None, None)
        /\ UNCHANGED <<life, active, perms, wire, turns, told>>
    BY <1>7 DEF A!Simple, A!Free
  <2>2. call' \in Requests /\ call'.stage = s /\ call'.turn = 0
    BY <2>1, RequestMade DEF A!Requests
  <2>3. QED
    BY <1>1, <2>1, <2>2, IdleFacts, RequestMoves
<1>8. ASSUME NEW m \in Modes, NEW t \in Threads \cup {None}, A!Thread(t, m) PROVE AppInv'
  <2>1. /\ call = A!Idle /\ life # "off" /\ A!Ask("config", t, m)
        /\ UNCHANGED <<life, active, perms, wire, turns, told>>
    BY <1>8 DEF A!Thread, A!Free
  <2>2. call' \in Requests /\ call'.stage = "config" /\ call'.turn = 0
    BY <2>1, RequestMade DEF A!Requests
  <2>3. QED
    BY <1>1, <2>1, <2>2, IdleFacts, RequestMoves
<1>9. QED
  BY <1>2, <1>3, <1>4, <1>5, <1>6, <1>7, <1>8

LEMMA AppStep == ASSUME AppInv, MaxTurns \in Nat, A!Next PROVE AppInv'
<1>1. CASE A!Start \/ A!Started \/ A!Configured \/ A!Opened \/ A!Returned
  BY <1>1, OthersKeep
<1>2. ASSUME NEW s \in {"account", "read", "name"}, A!Simple(s) PROVE AppInv'
  BY <1>2, OthersKeep
<1>3. ASSUME NEW m \in Modes, NEW t \in Threads \cup {None}, A!Thread(t, m) PROVE AppInv'
  BY <1>3, OthersKeep
<1>4. CASE A!Receive
  BY <1>4, ReceiveKeeps
<1>5. CASE A!Begun
  BY <1>5, BegunKeeps
<1>6. CASE A!Done
  BY <1>6, DoneKeeps
<1>7. CASE A!Closes
  BY <1>7, ClosesKeeps
<1>8. ASSUME NEW t \in Threads, A!Generate(t) PROVE AppInv'
  BY <1>8, GenerateKeeps
<1>9. ASSUME NEW t \in Threads, NEW own \in BOOLEAN, A!TurnBegins(t, own) PROVE AppInv'
  BY <1>9, TurnBeginsKeeps
<1>10. ASSUME NEW n \in DOMAIN turns, A!TurnEmits(n) PROVE AppInv'
  BY <1>10, TurnEmitsKeeps
<1>11. ASSUME NEW what \in A!Outcomes, A!Answers(what) PROVE AppInv'
  BY <1>11, AnswersKeeps
<1>12. QED
  BY <1>1, <1>2, <1>3, <1>4, <1>5, <1>6, <1>7, <1>8, <1>9, <1>10, <1>11 DEF A!Next, A!Client

LEMMA AppInvHolds == PartSpec => []AppInv
<1>1. PartInit => AppInv
  <2> SUFFICES ASSUME PartInit PROVE AppInv
    OBVIOUS
  <2>1. A!Init
    BY DEF PartInit
  <2>2. /\ call = A!Idle /\ active = A!NoTurn /\ wire = <<>> /\ turns = <<>> /\ told = <<>>
        /\ life = "off" /\ perms = [t \in Threads |-> None]
    BY <2>1 DEF A!Init
  <2>3. A!NoTurn \in Hearings /\ A!NoTurn.early = <<>>
    <3>1. <<>> \in Seq(Lines)
      OBVIOUS
    <3>2. QED
      BY <3>1 DEF A!NoTurn, Hearings
  <2>4. MaxTurns \in Nat
    BY PartsAssumption DEF A!AppAssumption
  <2>5. AppTypes
    <3>1. <<>> \in Seq(Lines) /\ <<>> \in Seq(Turns) /\ <<>> \in Seq(Replies) /\ Len(<<>>) = 0
      OBVIOUS
    <3>2. QED
      BY <2>2, <2>3, <2>4, <3>1, IdleFacts DEF AppTypes
  <2>6. PipeSays /\ OneRequest /\ OwnAnswer /\ \A i \in DOMAIN told : told[i].turn \in DOMAIN turns
    BY <2>2, <2>3 DEF PipeSays, LinesSay, OneRequest, OwnAnswer
  <2>7. TurnOfCall /\ Heard
    BY <2>2, IdleFacts DEF TurnOfCall, Heard
  <2>8. QED
    BY <2>5, <2>6, <2>7 DEF AppInv
<1>2. AppInv /\ [PartNext]_all => AppInv'
  <2> SUFFICES ASSUME AppInv, [PartNext]_all PROVE AppInv'
    OBVIOUS
  <2>1. CASE App(A!Next)
    <3>1. A!Next /\ MaxTurns \in Nat
      BY <2>1, PartsAssumption DEF App, A!AppAssumption
    <3>2. QED
      BY <3>1, AppStep
  <2>2. CASE UNCHANGED app
    <3>1. UNCHANGED <<life, call, active, perms, wire, turns, told>>
      BY <2>2 DEF app
    <3>2. AppTypes' /\ PipeSays' /\ OwnAnswer' /\ (\A i \in DOMAIN told : told[i].turn \in DOMAIN turns)'
      BY <3>1 DEF AppInv, AppTypes, PipeSays, OwnAnswer
    <3>3. OneRequest' /\ TurnOfCall' /\ Heard'
      BY <3>1 DEF AppInv, OneRequest, TurnOfCall, Heard, A!Pending
    <3>4. QED
      BY <3>2, <3>3 DEF AppInv
  <2>3. QED
    BY <2>1, <2>2 DEF PartNext, Gui, Manager, Wake, Muse, Documents, Tools, Once, all
<1>3. QED
  BY <1>1, <1>2, PTL DEF PartSpec

\* generate returns what its own turn said, all of it and nothing else, and no turn twice,
\* in whatever order the turn's notices and the answer that names it come, however many
\* came early, and wherever the child dies among them.
THEOREM OwnAnswerHolds == PartSpec => []OwnAnswer
<1>1. AppInv => OwnAnswer
  BY DEF AppInv
<1>2. QED
  BY <1>1, AppInvHolds, PTL

-----------------------------------------------------------------------------
(* The one-shot commands (rest-cli.ts).                                    *)

Polls == [at : {"none", "mine", "next", "page"}, todo : SUBSET Chans, ch : Chans \cup {None},
          after : Nat \cup {None}, since : Nat, synced : SUBSET Chans]
Finals == [by : Chans \cup {"poll"}, ch : Chans, batch : SUBSET Nat]
OnceTypes ==
  /\ log \in Seq(O!Post) /\ Len(log) <= MaxPosts
  /\ saved \in O!Memory /\ mind \in O!Memory /\ wait \in {"off", "joining", "waiting"}
  /\ poll \in Polls /\ stream \in [Chans -> {"off", "asked", "on", "again"}]
  /\ events \in [Chans -> Seq(Nat)] /\ finals \subseteq Finals
  /\ sending \in Chans \cup {None} /\ reported \in [1..MaxPosts -> Nat]

\* A memory knows no message that was not posted.
Known(w, m) ==
  /\ w.init # None => w.init <= m
  /\ \A c \in Chans : w.cur[c] # None => w.cur[c] <= m
  /\ w.seen \subseteq 1..m

\* What a memory has passed is in S.
Covers(w, ms, S) ==
  w.init # None =>
    \A n \in DOMAIN ms :
      /\ ms[n].addr /\ n > w.init
      /\ n \in w.seen \/ (w.cur[ms[n].ch] # None /\ n <= w.cur[ms[n].ch])
      => n \in S
Accounted(times, given, fs) == {n \in 1..MaxPosts : times[n] = 1} \cup given \cup UNION {f.batch : f \in fs}

\* The process that waits read the files, and writes them whenever its seen ids change.
OneMemory ==
  /\ wait = "off" => /\ mind = O!Empty /\ finals = {} /\ poll = O!NoPoll
                     /\ stream = [c \in Chans |-> "off"]
  /\ wait # "off" => mind.init # None /\ saved.init = mind.init /\ saved.seen = mind.seen
  /\ Known(saved, Len(log)) /\ Known(mind, Len(log))

\* A stream carries messages of its channel, a wake has messages that were seen and not printed.
OnTheWay ==
  /\ \A c \in Chans : /\ stream[c] # "on" => events[c] = <<>>
                      /\ \A i \in DOMAIN events[c] : events[c][i] \in O!Of(c, Len(log))
  /\ \A f \in finals : f.batch \subseteq mind.seen \cap O!Of(f.ch, Len(log))
                       /\ \A n \in f.batch : reported[n] = 0
\* A printed message was seen, and once.
PrintedOnce ==
  \A n \in DOMAIN reported : reported[n] <= 1 /\ (reported[n] = 1 => n \in saved.seen)

\* The page that is awaited was asked for from the cursor or from before it.
PageBehind ==
  poll.at = "page" => /\ poll.ch \in Chans
                      /\ poll.after # None => mind.cur[poll.ch] # None /\ poll.after <= mind.cur[poll.ch]

NothingMissed ==
  /\ Covers(saved, log, Accounted(reported, lost, finals))
  /\ wait # "off" => Covers(mind, log, Accounted(reported, lost, finals))

OnceInv == OnceTypes /\ OneMemory /\ OnTheWay /\ PrintedOnce /\ PageBehind /\ NothingMissed

LEMMA NewestIs ==
  ASSUME NEW m \in Nat, NEW S \in SUBSET (0..m), S # {}
  PROVE  O!Newest(S) \in S /\ \A k \in S : k <= O!Newest(S)
<1> DEFINE U == {m - n : n \in S}
<1>1. U \subseteq Nat /\ U # {}
  <2>1. \A n \in S : m - n \in Nat
    OBVIOUS
  <2>2. QED
    BY <2>1
<1>2. PICK t \in U : \A k \in U : <<k, t>> \notin OpToRel(<, Nat)
  <2> HIDE DEF U
  <2>1. QED
    BY <1>1, NatLessThanWellFounded, WFMin
<1>3. PICK n \in S : t = m - n
  BY <1>2
<1>4. \A k \in S : k <= n
  <2> SUFFICES ASSUME NEW k \in S, ~(k <= n) PROVE FALSE
    OBVIOUS
  <2>1. m - k \in U /\ m - k \in Nat /\ t \in Nat /\ m - k < t
    BY <1>1, <1>3
  <2> HIDE DEF U
  <2>2. <<m - k, t>> \in OpToRel(<, Nat)
    BY <2>1 DEF OpToRel
  <2>3. QED
    BY <1>2, <2>1, <2>2
<1>5. QED
  BY <1>3, <1>4 DEF O!Newest

\* What a look at new messages keeps, and what of them the cursor passes unseen.
Looked(w, c, list, r) ==
  /\ r.w \in O!Memory /\ r.w.init = w.init /\ Known(r.w, Len(log))
  /\ w.seen \subseteq r.w.seen /\ r.batch \subseteq r.w.seen
  /\ r.batch \subseteq list /\ r.batch \cap w.seen = {}
  /\ \A n \in r.batch : log[n].addr
  /\ r.w.cur[c] # None /\ (w.cur[c] # None => w.cur[c] <= r.w.cur[c])
  /\ \A d \in Chans : d # c => r.w.cur[d] = w.cur[d]
  /\ \A n \in r.w.seen : n \in w.seen \/ n \in r.batch \/ n <= w.init
  /\ r.batch # {} => r.write
  /\ ~r.write => r.w = w

LEMMA FirstLookLooks ==
  ASSUME None \notin Nat, log \in Seq(O!Post), NEW c \in Chans, NEW w \in O!Memory, w.init # None, w.cur[c] = None,
         Known(w, Len(log)), NEW fresh \in SUBSET O!Of(c, Len(log)), fresh \cap w.seen = {}
  PROVE  Looked(w, c, fresh, O!FirstLook(w, c, fresh))
<1> DEFINE m    == Len(log)
           old  == {n \in fresh : n <= w.init}
           live == {n \in fresh \ old : log[n].addr}
           rest == fresh \ live
           at   == IF live # {} THEN O!Reached(live) ELSE IF rest # {} THEN O!Newest(rest) ELSE w.init
           more == w.seen \cup old \cup live
           v    == [w EXCEPT !.cur[c] = at, !.seen = more]
<1>1. O!FirstLook(w, c, fresh) = [w |-> [w EXCEPT !.cur[c] = at, !.seen = @ \cup old \cup live],
                                  batch |-> live, write |-> TRUE]
  BY DEF O!FirstLook
<1>2. m \in Nat /\ fresh \subseteq 1..m /\ w.init \in Nat /\ w.init <= m
      /\ w.cur \in [Chans -> Nat \cup {None}] /\ w.seen \subseteq 1..m /\ w.seen \in SUBSET Nat
  BY DEF O!Of, O!Memory, Known
<1>3. at \in Nat /\ at <= m
  <2>1. live \in SUBSET (0..m) /\ rest \in SUBSET (0..m)
    BY <1>2
  <2>2. live # {} => O!Reached(live) \in live
    BY <1>2, <2>1, NewestIs DEF O!Reached
  <2>3. rest # {} => O!Newest(rest) \in rest
    BY <1>2, <2>1, NewestIs
  <2>4. CASE live # {}
    BY <1>2, <2>1, <2>2, <2>4
  <2>5. CASE live = {} /\ rest # {}
    BY <1>2, <2>1, <2>3, <2>5
  <2>6. CASE live = {} /\ rest = {}
    BY <1>2, <2>6
  <2>7. QED
    BY <2>4, <2>5, <2>6
<1>4. more \in SUBSET (1..m) /\ live \subseteq more /\ w.seen \subseteq more /\ live \subseteq fresh
      /\ (\A n \in more : n \in w.seen \/ n \in live \/ n <= w.init) /\ \A n \in live : log[n].addr
  BY <1>2
<1>5. O!FirstLook(w, c, fresh) = [w |-> v, batch |-> live, write |-> TRUE]
  BY <1>1
<1> HIDE DEF at, more, live
<1> DEFINE cur1 == [w.cur EXCEPT ![c] = at]
<1>6. cur1 \in [Chans -> Nat \cup {None}] /\ cur1[c] = at /\ \A d \in Chans : d # c => cur1[d] = w.cur[d]
  BY <1>2, <1>3
<1>7. v.init = w.init /\ v.cur = cur1 /\ v.seen = more /\ v \in O!Memory
  <2>1. v = [w EXCEPT !.cur = cur1, !.seen = more]
    BY DEF O!Memory
  <2> HIDE DEF cur1, v
  <2>2. more \in SUBSET Nat
    BY <1>2, <1>4
  <2>3. QED
    BY <1>6, <2>1, <2>2 DEF O!Memory
<1> HIDE DEF v, cur1
<1>8. at # None
  <2>1. w.cur[c] = None /\ w.init # None
    OBVIOUS
  <2>2. QED
    BY <1>3
<1> DEFINE r == O!FirstLook(w, c, fresh)
<1>9. r.w = v /\ r.batch = live /\ r.write
  BY <1>5
<1> HIDE DEF r
<1>10. Known(v, Len(log))
  <2>1. \A d \in Chans : v.cur[d] # None => v.cur[d] <= m
    BY <1>2, <1>3, <1>6, <1>7 DEF Known
  <2>2. QED
    BY <1>2, <1>4, <1>7, <2>1 DEF Known
<1>11. v.cur[c] # None /\ \A d \in Chans : d # c => v.cur[d] = w.cur[d]
  BY <1>6, <1>7, <1>8
<1>12. live \cap w.seen = {}
  BY <1>4
<1>13. Looked(w, c, fresh, r)
  BY <1>4, <1>7, <1>9, <1>10, <1>11, <1>12 DEF Looked
<1>14. QED
  BY <1>13 DEF r

LEMMA NextLookLooks ==
  ASSUME None \notin Nat, log \in Seq(O!Post), NEW c \in Chans, NEW w \in O!Memory,
         w.init # None, w.cur[c] # None,
         Known(w, Len(log)), NEW fresh \in SUBSET O!Of(c, Len(log)), fresh \cap w.seen = {}
  PROVE  /\ Looked(w, c, fresh, O!NextLook(w, c, fresh))
         /\ O!NextLook(w, c, fresh).w.cur[c] \in fresh \cup {w.cur[c]}
         /\ \A n \in fresh : n > w.cur[c] /\ log[n].addr => n \in O!NextLook(w, c, fresh).batch
<1> DEFINE m     == Len(log)
           news  == {n \in fresh : n > w.cur[c]}
           batch == {n \in news : log[n].addr}
           at    == IF batch # {} THEN O!Reached(batch)
                    ELSE IF news # {} THEN O!Newest(news) ELSE w.cur[c]
           more  == w.seen \cup batch
           v     == [w EXCEPT !.cur[c] = at, !.seen = more]
           r     == O!NextLook(w, c, fresh)
<1>1. r = [w |-> [w EXCEPT !.cur[c] = at, !.seen = @ \cup batch], batch |-> batch, write |-> news # {}]
  BY DEF O!NextLook
<1>2. m \in Nat /\ fresh \subseteq 1..m /\ w.cur[c] \in Nat /\ w.cur[c] <= m
      /\ w.cur \in [Chans -> Nat \cup {None}] /\ w.seen \subseteq 1..m /\ w.seen \in SUBSET Nat
  BY DEF O!Of, O!Memory, Known
<1>3. at \in Nat /\ at <= m /\ w.cur[c] <= at /\ at \in fresh \cup {w.cur[c]}
      /\ (news = {} => at = w.cur[c])
  <2>1. batch \in SUBSET (0..m) /\ news \in SUBSET (0..m)
    BY <1>2
  <2>2. batch # {} => O!Reached(batch) \in batch
    BY <1>2, <2>1, NewestIs DEF O!Reached
  <2>3. news # {} => O!Newest(news) \in news
    BY <1>2, <2>1, NewestIs
  <2>4. CASE batch # {}
    <3>1. O!Reached(batch) \in fresh /\ O!Reached(batch) > w.cur[c] /\ at = O!Reached(batch)
      BY <2>2, <2>4
    <3>2. news # {}
      BY <2>4
    <3> HIDE DEF batch, news, at
    <3>3. QED
      BY <1>2, <3>1, <3>2
  <2>5. CASE batch = {} /\ news # {}
    <3>1. O!Newest(news) \in fresh /\ O!Newest(news) > w.cur[c] /\ at = O!Newest(news)
      BY <2>3, <2>5
    <3> HIDE DEF batch, news, at
    <3>2. QED
      BY <1>2, <2>5, <3>1
  <2>6. CASE batch = {} /\ news = {}
    <3>1. at = w.cur[c]
      BY <2>6
    <3> HIDE DEF batch, news, at
    <3>2. QED
      BY <1>2, <3>1
  <2>7. QED
    BY <2>4, <2>5, <2>6
<1>4. /\ more \in SUBSET (1..m) /\ batch \subseteq more /\ w.seen \subseteq more /\ batch \subseteq fresh
      /\ batch \subseteq news /\ batch \cap w.seen = {}
      /\ (\A n \in more : n \in w.seen \/ n \in batch) /\ \A n \in batch : log[n].addr
      /\ \A n \in fresh : n > w.cur[c] /\ log[n].addr => n \in batch
  BY <1>2
<1>5. r = [w |-> v, batch |-> batch, write |-> news # {}]
  BY <1>1
<1> HIDE DEF at, more, batch, news
<1> DEFINE cur1 == [w.cur EXCEPT ![c] = at]
<1>6. cur1 \in [Chans -> Nat \cup {None}] /\ cur1[c] = at /\ \A d \in Chans : d # c => cur1[d] = w.cur[d]
  BY <1>2, <1>3
<1>7. v.init = w.init /\ v.cur = cur1 /\ v.seen = more /\ v \in O!Memory
  <2>1. v = [w EXCEPT !.cur = cur1, !.seen = more]
    BY DEF O!Memory
  <2> HIDE DEF cur1, v
  <2>2. more \in SUBSET Nat
    BY <1>2, <1>4
  <2>3. QED
    BY <1>6, <2>1, <2>2 DEF O!Memory
<1> HIDE DEF v
<1>8. at # None
  BY <1>3
<1>9. r.w = v /\ r.batch = batch /\ r.write = (news # {})
  BY <1>5
<1> HIDE DEF r
<1>10. Known(v, Len(log))
  <2>1. \A d \in Chans : v.cur[d] # None => v.cur[d] <= m
    BY <1>2, <1>3, <1>6, <1>7 DEF Known
  <2>2. QED
    BY <1>4, <1>7, <2>1 DEF Known
<1>11. /\ v.cur[c] # None /\ w.cur[c] <= v.cur[c]
       /\ \A d \in Chans : d # c => v.cur[d] = w.cur[d]
  BY <1>3, <1>6, <1>7, <1>8
<1>12. news = {} => v = w
  <2> SUFFICES ASSUME news = {} PROVE v = w
    OBVIOUS
  <2>1. batch = {} /\ at = w.cur[c]
    BY <1>3, <1>4
  <2>2. more = w.seen /\ cur1 = w.cur
    <3>1. more = w.seen
      BY <2>1 DEF more
    <3>2. cur1 = w.cur
      BY <1>2, <2>1
    <3>3. QED
      BY <3>1, <3>2
  <2> HIDE DEF cur1
  <2>3. QED
    BY <1>7, <2>2 DEF O!Memory
<1>13. Looked(w, c, fresh, r)
  BY <1>4, <1>7, <1>9, <1>10, <1>11, <1>12 DEF Looked
<1>14. r.w.cur[c] \in fresh \cup {w.cur[c]}
  BY <1>3, <1>6, <1>7, <1>9
<1>15. QED
  BY <1>4, <1>9, <1>13, <1>14 DEF r

LEMMA LookLooks ==
  ASSUME None \notin Nat, log \in Seq(O!Post), NEW c \in Chans, NEW w \in O!Memory, w.init # None,
         Known(w, Len(log)), NEW list \in SUBSET O!Of(c, Len(log))
  PROVE  Looked(w, c, list, O!Look(w, c, list))
<1> DEFINE fresh == list \ w.seen
<1>1. fresh \in SUBSET O!Of(c, Len(log)) /\ fresh \cap w.seen = {} /\ fresh \subseteq list
  OBVIOUS
<1> HIDE DEF fresh
<1>2. CASE w.cur[c] = None
  <2>1. O!Look(w, c, list) = O!FirstLook(w, c, fresh)
    BY <1>2 DEF O!Look, fresh
  <2>2. Looked(w, c, fresh, O!FirstLook(w, c, fresh))
    BY <1>1, <1>2, FirstLookLooks
  <2>3. QED
    BY <1>1, <2>1, <2>2 DEF Looked
<1>3. CASE w.cur[c] # None
  <2>1. O!Look(w, c, list) = O!NextLook(w, c, fresh)
    BY <1>3 DEF O!Look, fresh
  <2>2. Looked(w, c, fresh, O!NextLook(w, c, fresh))
    BY <1>1, <1>3, NextLookLooks
  <2>3. QED
    BY <1>1, <2>1, <2>2 DEF Looked
<1>4. QED
  BY <1>2, <1>3

LEMMA LogFacts ==
  ASSUME log \in Seq(O!Post)
  PROVE  DOMAIN log = 1..Len(log) /\ Len(log) \in Nat /\ \A n \in DOMAIN log : log[n].ch \in Chans
<1>1. DOMAIN log = 1..Len(log) /\ Len(log) \in Nat /\ \A n \in DOMAIN log : log[n] \in O!Post
  OBVIOUS
<1>2. QED
  BY <1>1 DEF O!Post

\* What was passed without being seen is given up.
LEMMA PassedCovers ==
  ASSUME None \notin Nat, log \in Seq(O!Post), NEW c \in Chans, NEW w \in O!Memory, NEW list, NEW r,
         w.init # None, Looked(w, c, list, r), NEW S, Covers(w, log, S)
  PROVE  Covers(r.w, log, S \cup r.batch \cup O!Passed(w, r.w, c))
<1> SUFFICES ASSUME NEW n \in DOMAIN log, log[n].addr, n > w.init, n \notin S, n \notin r.batch,
                    n \in r.w.seen \/ (r.w.cur[log[n].ch] # None /\ n <= r.w.cur[log[n].ch])
             PROVE  n \in O!Passed(w, r.w, c)
  BY DEF Covers, Looked
<1>1. DOMAIN log = 1..Len(log) /\ Len(log) \in Nat /\ log[n].ch \in Chans
  BY LogFacts
<1>2. n \notin w.seen
  BY DEF Covers
<1>3. /\ w.init \in Nat
      /\ \A d \in Chans : w.cur[d] \in Nat \cup {None} /\ r.w.cur[d] \in Nat \cup {None}
  BY DEF O!Memory, Looked
<1>4. n \notin r.w.seen
  BY <1>1, <1>2, <1>3 DEF Looked
<1>5. log[n].ch = c /\ r.w.cur[c] # None /\ n <= r.w.cur[c]
  BY <1>1, <1>4 DEF Looked, Covers
<1>6. w.cur[c] # None => ~(n <= w.cur[c])
  BY <1>5 DEF Covers
<1>7. O!Before(w, c) < n /\ n <= O!Before(r.w, c)
  BY <1>1, <1>3, <1>5, <1>6 DEF O!Before
<1>8. n \in O!Of(c, Len(log)) \ r.w.seen
  BY <1>1, <1>4, <1>5 DEF O!Of
<1>9. QED
  BY <1>7, <1>8 DEF O!Passed

LEMMA SameCardinality == \A S : O!Cardinality(S) = Cardinality(S)
BY Zenon DEF O!Cardinality, Cardinality

\* A page that starts at the cursor or before it holds all that is older than its newest.
LEMMA PageWhole ==
  ASSUME log \in Seq(O!Post), PageSize \in Nat, NEW c \in Chans, NEW after \in Nat, None \notin Nat,
         NEW k \in O!Page(c, after), NEW n \in O!Of(c, Len(log)), n > after, n <= k
  PROVE  n \in O!Page(c, after)
<1> DEFINE S == {i \in O!Of(c, Len(log)) : after # None => i > after}
           Older(j) == {i \in S : i < j}
<1>1. O!Page(c, after) = {j \in S : Cardinality(Older(j)) < PageSize}
  <2>1. after # None
    OBVIOUS
  <2>2. O!Page(c, after) = IF after = None THEN {j \in S : Cardinality({i \in S : i > j}) < FirstSize}
                           ELSE {j \in S : Cardinality({i \in S : i < j}) < PageSize}
    BY SameCardinality DEF O!Page
  <2> HIDE DEF S
  <2>3. QED
    BY <2>1, <2>2
<1>2. Len(log) \in Nat /\ S \subseteq 1..Len(log) /\ n \in S /\ k \in S /\ n \in Nat /\ k \in Nat
  BY <1>1 DEF O!Of
<1> HIDE DEF S
<1>3. IsFiniteSet(Older(k)) /\ Older(n) \subseteq Older(k)
  <2>1. IsFiniteSet(1..Len(log))
    BY <1>2, FS_Interval
  <2>2. Older(k) \subseteq 1..Len(log)
    BY <1>2
  <2>3. \A i \in S : i < n => i < k
    BY <1>2
  <2>4. QED
    BY <2>1, <2>2, <2>3, FS_Subset
<1> HIDE DEF Older
<1>4. IsFiniteSet(Older(n)) /\ Cardinality(Older(n)) <= Cardinality(Older(k))
  BY <1>3, FS_Subset
<1>5. Cardinality(Older(n)) \in Nat /\ Cardinality(Older(k)) \in Nat
  BY <1>3, <1>4, FS_CardinalityType
<1>6. Cardinality(Older(k)) < PageSize
  BY <1>1
<1>7. QED
  BY <1>1, <1>2, <1>4, <1>5, <1>6

LEMMA PageCovers ==
  ASSUME None \notin Nat, log \in Seq(O!Post), PageSize \in Nat, NEW c \in Chans, NEW w \in O!Memory,
         w.init # None, w.cur[c] # None, Known(w, Len(log)),
         NEW after \in Nat, after <= w.cur[c], NEW S, Covers(w, log, S)
  PROVE  LET r == O!Look(w, c, O!Page(c, after)) IN Covers(r.w, log, S \cup r.batch)
<1> DEFINE list == O!Page(c, after)
           fresh == list \ w.seen
           r == O!Look(w, c, list)
<1>1. list \in SUBSET O!Of(c, Len(log))
  BY DEF O!Page
<1>2. Looked(w, c, list, r)
  BY <1>1, LookLooks
<1>3. /\ r.w.cur[c] \in fresh \cup {w.cur[c]}
      /\ \A n \in fresh : n > w.cur[c] /\ log[n].addr => n \in r.batch
  <2>1. r = O!NextLook(w, c, fresh)
    BY DEF O!Look
  <2>2. fresh \in SUBSET O!Of(c, Len(log)) /\ fresh \cap w.seen = {}
    BY <1>1
  <2> HIDE DEF fresh, r
  <2>3. QED
    BY <2>1, <2>2, NextLookLooks
<1>4. DOMAIN log = 1..Len(log) /\ Len(log) \in Nat /\ \A n \in DOMAIN log : log[n].ch \in Chans
  BY LogFacts
<1>5. /\ w.init \in Nat
      /\ \A d \in Chans : w.cur[d] \in Nat \cup {None} /\ r.w.cur[d] \in Nat \cup {None}
  BY <1>2 DEF O!Memory, Looked
<1> HIDE DEF r, list
<1>6. ASSUME NEW n \in DOMAIN log, log[n].addr, n > w.init, n \notin S,
             n \in r.w.seen \/ (r.w.cur[log[n].ch] # None /\ n <= r.w.cur[log[n].ch])
      PROVE  n \in r.batch
  <2>1. n \notin w.seen
    BY <1>6 DEF Covers
  <2>2. n \in r.w.seen => n \in r.batch
    BY <1>2, <1>4, <1>5, <1>6, <2>1 DEF Looked
  <2> SUFFICES ASSUME n \notin r.w.seen PROVE n \in r.batch
    BY <2>2
  <2>3. log[n].ch = c /\ r.w.cur[c] # None /\ n <= r.w.cur[c]
    BY <1>2, <1>4, <1>6, <2>1 DEF Looked, Covers
  <2>4. ~(n <= w.cur[c])
    BY <1>6, <2>3 DEF Covers
  <2>5. w.cur[c] < n /\ after < n
    BY <1>4, <1>5, <2>4
  <2>6. r.w.cur[c] \in list
    BY <1>3, <2>3, <2>4 DEF fresh
  <2>7. n \in O!Of(c, Len(log))
    BY <1>4, <2>3 DEF O!Of
  <2>8. n \in list
    BY <2>3, <2>5, <2>6, <2>7, PageWhole DEF list
  <2>9. QED
    BY <1>3, <1>6, <2>1, <2>5, <2>8
<1>7. Covers(r.w, log, S \cup r.batch)
  <2>1. r.w.init = w.init
    BY <1>2 DEF Looked
  <2>2. QED
    BY <1>6, <2>1 DEF Covers
<1>8. QED
  BY <1>7 DEF r, list

LEMMA CoversMore ==
  ASSUME NEW w, NEW ms, NEW S, NEW U, Covers(w, ms, S), S \subseteq U PROVE Covers(w, ms, U)
BY DEF Covers

LEMMA EmptyFacts ==
  /\ O!Empty \in O!Memory /\ O!Empty.init = None /\ O!Empty.seen = {}
  /\ \A c \in Chans : O!Empty.cur[c] = None
  /\ O!NoPoll \in Polls /\ O!NoPoll.at = "none" /\ O!NoPoll.ch = None
<1>1. O!Empty \in O!Memory /\ O!Empty.init = None /\ O!Empty.seen = {}
      /\ \A c \in Chans : O!Empty.cur[c] = None
  BY DEF O!Empty, O!Memory
<1>2. O!NoPoll \in Polls /\ O!NoPoll.at = "none" /\ O!NoPoll.ch = None
  BY DEF O!NoPoll, Polls
<1>3. QED
  BY <1>1, <1>2

\* What is printed counts once more.
LEMMA Prints ==
  ASSUME OnceInv, NEW printed, O!Exits(printed), \A n \in printed : n \in 1..MaxPosts /\ reported[n] = 0
  PROVE  /\ reported' \in [1..MaxPosts -> Nat]
         /\ \A n \in 1..MaxPosts : reported'[n] = IF n \in printed THEN 1 ELSE reported[n]
         /\ {n \in 1..MaxPosts : reported[n] = 1} \cup printed \subseteq {n \in 1..MaxPosts : reported'[n] = 1}
<1>1. reported \in [1..MaxPosts -> Nat]
  BY DEF OnceInv, OnceTypes
<1>2. reported' = [n \in 1..MaxPosts |-> IF n \in printed THEN reported[n] + 1 ELSE reported[n]]
  BY <1>1 DEF O!Exits
<1>3. QED
  BY <1>1, <1>2

\* The process ends: what it had to say is printed, and nothing else is on the way.
LEMMA ExitKeeps ==
  ASSUME OnceInv, NEW printed, O!Exits(printed),
         \A n \in printed : n \in 1..MaxPosts /\ reported[n] = 0 /\ n \in saved'.seen,
         saved' \in O!Memory, Known(saved', Len(log)), saved.seen \subseteq saved'.seen,
         UNCHANGED <<log, sending>>, Covers(saved', log, Accounted(reported', lost', {}))
  PROVE  OnceInv'
<1>1. /\ wait' = "off" /\ poll' = O!NoPoll /\ finals' = {} /\ mind' = O!Empty
      /\ stream' = [c \in Chans |-> "off"] /\ events' = [c \in Chans |-> <<>>]
  BY DEF O!Exits
<1>2. /\ reported' \in [1..MaxPosts -> Nat]
      /\ \A n \in 1..MaxPosts : reported'[n] = IF n \in printed THEN 1 ELSE reported[n]
  BY Prints
<1>3. OnceTypes'
  <2>1. events' \in [Chans -> Seq(Nat)] /\ stream' \in [Chans -> {"off", "asked", "on", "again"}]
    BY <1>1
  <2>2. QED
    BY <1>1, <1>2, <2>1, EmptyFacts DEF OnceInv, OnceTypes
<1>4. OneMemory'
  <2>1. Known(O!Empty, Len(log))
    BY EmptyFacts DEF Known
  <2>2. QED
    BY <1>1, <2>1 DEF OneMemory
<1>5. OnTheWay'
  BY <1>1 DEF OnTheWay
<1>6. PrintedOnce'
  <2>1. DOMAIN reported' = 1..MaxPosts /\ DOMAIN reported = 1..MaxPosts
    BY <1>2 DEF OnceInv, OnceTypes
  <2>2. \A n \in 1..MaxPosts : reported[n] <= 1 /\ (reported[n] = 1 => n \in saved.seen)
    BY <2>1 DEF OnceInv, PrintedOnce
  <2>3. \A n \in 1..MaxPosts : reported'[n] <= 1 /\ (reported'[n] = 1 => n \in saved'.seen)
    BY <1>2, <2>2
  <2>4. QED
    BY <2>1, <2>3 DEF PrintedOnce
<1>7. PageBehind'
  BY <1>1, EmptyFacts DEF PageBehind
<1>8. NothingMissed'
  BY <1>1 DEF NothingMissed
<1>9. QED
  BY <1>3, <1>4, <1>5, <1>6, <1>7, <1>8 DEF OnceInv

\* Messages of a channel are looked at, by the poll or of a stream.
LEMMA InspectKeeps ==
  ASSUME OnceInv, None \notin Nat, PageSize \in Nat, wait # "off", UNCHANGED <<log, sending>>,
         NEW who \in Chans \cup {"poll"}, NEW c \in Chans, NEW list \in SUBSET O!Of(c, Len(log)),
         NEW excused \in BOOLEAN, O!Inspect(who, c, list, excused),
         \/ excused
         \/ mind.cur[c] # None /\ \E after \in Nat : after <= mind.cur[c] /\ list = O!Page(c, after),
         who # "poll" => who = c /\ events[c] # <<>>
  PROVE  OnceInv'
<1> DEFINE r == O!Look(mind, c, list)
           gone == IF excused THEN O!Passed(mind, r.w, c) ELSE {}
           S == Accounted(reported, lost, finals)
<1>0. /\ log \in Seq(O!Post) /\ mind \in O!Memory /\ saved \in O!Memory /\ mind.init # None
      /\ saved.init = mind.init /\ saved.seen = mind.seen
      /\ Known(mind, Len(log)) /\ Known(saved, Len(log)) /\ DOMAIN reported = 1..MaxPosts
      /\ reported \in [1..MaxPosts -> Nat]
      /\ Covers(mind, log, S) /\ Covers(saved, log, S)
  BY DEF OnceInv, OnceTypes, OneMemory, NothingMissed
<1>1. Looked(mind, c, list, r)
  BY <1>0, LookLooks
<1>2. Covers(r.w, log, S \cup r.batch \cup gone)
  <2>1. CASE excused
    <3> HIDE DEF r, S
    <3>1. Covers(r.w, log, S \cup r.batch \cup O!Passed(mind, r.w, c))
      BY <1>0, <1>1, PassedCovers
    <3>2. QED
      BY <2>1, <3>1
  <2>2. CASE ~excused
    <3>1. PICK after \in Nat : after <= mind.cur[c] /\ list = O!Page(c, after)
      BY <2>2
    <3>2. mind.cur[c] # None
      BY <2>2
    <3> HIDE DEF S
    <3>3. Covers(r.w, log, S \cup r.batch)
      BY <1>0, <3>1, <3>2, PageCovers
    <3> HIDE DEF r, gone
    <3>4. QED
      BY <3>3, CoversMore
  <2>3. QED
    BY <2>1, <2>2
<1>3. /\ saved' = IF r.write THEN r.w ELSE saved
      /\ IF r.batch # {} /\ c \in Direct
         THEN O!Exits(r.batch) /\ lost' = lost \cup gone \cup UNION {f.batch : f \in finals}
         ELSE /\ mind' = r.w /\ lost' = lost \cup gone
              /\ finals' = IF r.batch = {} THEN finals
                           ELSE finals \cup {[by |-> who, ch |-> c, batch |-> r.batch]}
              /\ poll' = IF who # "poll" THEN poll
                         ELSE [poll EXCEPT !.at = "next", !.ch = None, !.after = None,
                                           !.synced = @ \cup {c}]
              /\ events' = IF who = "poll" THEN events ELSE [events EXCEPT ![c] = Tail(@)]
              /\ UNCHANGED <<wait, stream, reported>>
  BY DEF O!Inspect, O!Batches
<1> HIDE DEF r, gone, S
<1>4. /\ r.w \in O!Memory /\ Known(r.w, Len(log)) /\ r.w.init = mind.init /\ mind.seen \subseteq r.w.seen
      /\ r.batch \subseteq r.w.seen /\ r.batch \subseteq list /\ r.batch \cap mind.seen = {}
      /\ (r.batch # {} => r.write) /\ (~r.write => r.w = mind)
  BY <1>1 DEF Looked
<1>5. /\ saved' \in O!Memory /\ Known(saved', Len(log)) /\ saved'.init = mind.init
      /\ saved'.seen = r.w.seen /\ saved.seen \subseteq saved'.seen
      /\ Covers(saved', log, S \cup r.batch \cup gone)
  <2>1. CASE r.write
    BY <1>0, <1>2, <1>3, <1>4, <2>1
  <2>2. CASE ~r.write
    <3>1. saved' = saved /\ r.w = mind
      BY <1>3, <1>4, <2>2
    <3>2. Covers(saved, log, S \cup r.batch \cup gone)
      BY <1>0, CoversMore
    <3>3. QED
      BY <1>0, <3>1, <3>2
  <2>3. QED
    BY <2>1, <2>2
<1>6. \A n \in r.batch : n \in 1..Len(log) /\ n \in 1..MaxPosts /\ reported[n] = 0 /\ n \in O!Of(c, Len(log))
  <2> SUFFICES ASSUME NEW n \in r.batch
               PROVE  n \in 1..Len(log) /\ n \in 1..MaxPosts /\ reported[n] = 0 /\ n \in O!Of(c, Len(log))
    OBVIOUS
  <2>1. n \in O!Of(c, Len(log)) /\ n \notin saved.seen
    BY <1>0, <1>4
  <2>2. n \in 1..Len(log) /\ Len(log) \in Nat
    BY <1>0, <2>1 DEF O!Of
  <2>3. n \in 1..MaxPosts
    <3>1. Len(log) <= MaxPosts
      BY DEF OnceInv, OnceTypes
    <3>2. MaxPosts \in Nat
      BY PartsAssumption DEF PartsAssumption, O!OnceAssumption
    <3>3. QED
      BY <2>2, <3>1, <3>2
  <2>4. reported[n] \in Nat /\ reported[n] <= 1 /\ reported[n] # 1
    BY <1>0, <2>1, <2>3 DEF OnceInv, PrintedOnce
  <2>5. QED
    BY <2>1, <2>2, <2>3, <2>4
<1>7. CASE r.batch # {} /\ c \in Direct
  <2>1. O!Exits(r.batch) /\ lost' = lost \cup gone \cup UNION {f.batch : f \in finals}
    BY <1>3, <1>7
  <2>2. {n \in 1..MaxPosts : reported[n] = 1} \cup r.batch \subseteq {n \in 1..MaxPosts : reported'[n] = 1}
    BY <1>6, <2>1, Prints
  <2>3. S \cup r.batch \cup gone \subseteq Accounted(reported', lost', {})
    BY <2>1, <2>2 DEF S, Accounted
  <2>4. Covers(saved', log, Accounted(reported', lost', {}))
    BY <1>5, <2>3, CoversMore
  <2>5. QED
    BY <1>4, <1>5, <1>6, <2>1, <2>4, ExitKeeps
<1>8. CASE ~(r.batch # {} /\ c \in Direct)
  <2> DEFINE f == [by |-> who, ch |-> c, batch |-> r.batch]
  <2>1. /\ mind' = r.w /\ lost' = lost \cup gone
        /\ finals' = IF r.batch = {} THEN finals ELSE finals \cup {f}
        /\ poll' = IF who # "poll" THEN poll
                   ELSE [poll EXCEPT !.at = "next", !.ch = None, !.after = None, !.synced = @ \cup {c}]
        /\ events' = IF who = "poll" THEN events ELSE [events EXCEPT ![c] = Tail(@)]
        /\ UNCHANGED <<wait, stream, reported>>
    BY <1>3, <1>8
  <2>2. f \in Finals /\ f.batch = r.batch /\ f.ch = c
    BY <1>6 DEF Finals
  <2> HIDE DEF f
  <2>3. /\ poll' \in Polls
        /\ who = "poll" => poll'.at = "next"
    <3>1. poll \in Polls
      BY DEF OnceInv, OnceTypes
    <3>2. QED
      BY <2>1, <3>1 DEF Polls
  <2>4. /\ events' \in [Chans -> Seq(Nat)]
        /\ \A d \in Chans : /\ (stream'[d] # "on" => events'[d] = <<>>)
                            /\ \A i \in DOMAIN events'[d] : events'[d][i] \in O!Of(d, Len(log))
    <3>1. /\ events \in [Chans -> Seq(Nat)]
          /\ \A d \in Chans : /\ (stream[d] # "on" => events[d] = <<>>)
                              /\ \A i \in DOMAIN events[d] : events[d][i] \in O!Of(d, Len(log))
      BY DEF OnceInv, OnceTypes, OnTheWay
    <3>2. CASE who = "poll"
      BY <2>1, <3>1, <3>2
    <3>3. CASE who # "poll"
      <4>1. events[c] \in Seq(Nat) /\ events[c] # <<>>
        BY <3>1, <3>3
      <4>2. /\ Tail(events[c]) \in Seq(Nat)
            /\ \A i \in DOMAIN Tail(events[c]) : i + 1 \in DOMAIN events[c]
                                                 /\ Tail(events[c])[i] = events[c][i + 1]
        BY <4>1
      <4>3. events' \in [Chans -> Seq(Nat)] /\ events'[c] = Tail(events[c])
            /\ \A d \in Chans : d # c => events'[d] = events[d]
        BY <2>1, <3>1, <3>3, <4>2
      <4>4. stream[c] = "on"
        BY <3>1, <4>1
      <4>5. QED
        BY <2>1, <3>1, <4>2, <4>3, <4>4
    <3>4. QED
      BY <3>2, <3>3
  <2>5. finals' \subseteq Finals
    BY <2>1, <2>2 DEF OnceInv, OnceTypes
  <2>6. OnceTypes'
    BY <1>4, <1>5, <2>1, <2>3, <2>4, <2>5 DEF OnceInv, OnceTypes
  <2>7. OneMemory'
    BY <1>0, <1>4, <1>5, <2>1 DEF OneMemory
  <2>8. OnTheWay'
    <3>1. ASSUME NEW g1 \in finals'
          PROVE  g1.batch \subseteq r.w.seen \cap O!Of(g1.ch, Len(log)) /\ \A n \in g1.batch : reported[n] = 0
      <4>1. CASE g1 \in finals
        BY <1>4, <4>1 DEF OnceInv, OnTheWay
      <4>2. CASE g1 = f
        BY <1>4, <1>6, <2>2, <4>2
      <4>3. QED
        BY <2>1, <3>1, <4>1, <4>2
    <3>2. QED
      BY <2>1, <2>4, <3>1 DEF OnTheWay, O!Of
  <2>9. PrintedOnce'
    BY <1>5, <2>1 DEF OnceInv, PrintedOnce
  <2>10. PageBehind'
    <3>1. CASE who = "poll"
      BY <2>3, <3>1 DEF PageBehind
    <3>2. CASE who # "poll"
      <4>1. poll' = poll /\ PageBehind
        BY <2>1, <3>2 DEF OnceInv
      <4>2. \A d \in Chans : mind.cur[d] # None => r.w.cur[d] # None /\ mind.cur[d] <= r.w.cur[d]
        <5>1. /\ mind.cur \in [Chans -> Nat \cup {None}]
              /\ r.w.cur[c] # None /\ (mind.cur[c] # None => mind.cur[c] <= r.w.cur[c])
              /\ \A d \in Chans : d # c => r.w.cur[d] = mind.cur[d]
          BY <1>0, <1>1 DEF Looked, O!Memory
        <5>2. QED
          BY <5>1
      <4>3. /\ poll.after \in Nat \cup {None} /\ mind.cur \in [Chans -> Nat \cup {None}]
            /\ r.w.cur \in [Chans -> Nat \cup {None}]
        BY <1>0, <1>4 DEF OnceInv, OnceTypes, Polls, O!Memory
      <4>4. QED
        BY <2>1, <4>1, <4>2, <4>3 DEF PageBehind
    <3>3. QED
      BY <3>1, <3>2
  <2>11. NothingMissed'
    <3>1. S \cup r.batch \cup gone \subseteq Accounted(reported', lost', finals')
      <4>1. r.batch \subseteq UNION {h.batch : h \in finals'}
        BY <2>1, <2>2
      <4>2. UNION {h.batch : h \in finals} \subseteq UNION {h.batch : h \in finals'}
        BY <2>1
      <4>3. QED
        BY <2>1, <4>1, <4>2 DEF S, Accounted
    <3>2. Covers(saved', log, Accounted(reported', lost', finals'))
          /\ Covers(r.w, log, Accounted(reported', lost', finals'))
      BY <1>2, <1>5, <3>1, CoversMore
    <3>3. QED
      BY <2>1, <3>2 DEF NothingMissed
  <2>12. QED
    BY <2>6, <2>7, <2>8, <2>9, <2>10, <2>11 DEF OnceInv
<1>9. QED
  BY <1>7, <1>8

\* The poll and the streams move on.
LEMMA PollMoves ==
  ASSUME OnceInv, wait # "off", wait' \in {"joining", "waiting"},
         UNCHANGED <<log, saved, mind, finals, sending, reported, lost>>,
         poll' \in Polls,
         poll'.at = "page" => /\ poll'.ch \in Chans
                              /\ poll'.after # None => mind.cur[poll'.ch] # None
                                                       /\ poll'.after <= mind.cur[poll'.ch],
         stream' \in [Chans -> {"off", "asked", "on", "again"}], events' \in [Chans -> Seq(Nat)],
         \A c \in Chans : /\ stream'[c] # "on" => events'[c] = <<>>
                          /\ events'[c] = events[c] \/ events'[c] = <<>>
  PROVE  OnceInv'
<1>1. OnceTypes'
  BY DEF OnceInv, OnceTypes
<1>2. OneMemory'
  BY DEF OnceInv, OneMemory
<1>3. OnTheWay'
  <2>1. \A c \in Chans : \A i \in DOMAIN events'[c] : events'[c][i] \in O!Of(c, Len(log))
    BY DEF OnceInv, OnTheWay
  <2>2. \A f \in finals : f.batch \subseteq mind.seen \cap O!Of(f.ch, Len(log))
                          /\ \A n \in f.batch : reported[n] = 0
    BY DEF OnceInv, OnTheWay
  <2>3. QED
    BY <2>1, <2>2 DEF OnTheWay, O!Of
<1>4. PrintedOnce' /\ NothingMissed'
  BY DEF OnceInv, PrintedOnce, NothingMissed
<1>5. PageBehind'
  BY DEF PageBehind
<1>6. QED
  BY <1>1, <1>2, <1>3, <1>4, <1>5 DEF OnceInv

\* Facts of a step of the process that waits.
LEMMA WaitFacts ==
  ASSUME OnceInv
  PROVE  /\ poll \in Polls /\ stream \in [Chans -> {"off", "asked", "on", "again"}]
         /\ events \in [Chans -> Seq(Nat)] /\ wait \in {"off", "joining", "waiting"}
         /\ \A c \in Chans : stream[c] # "on" => events[c] = <<>>
         /\ wait = "off" => poll.at = "none" /\ finals = {} /\ \A c \in Chans : stream[c] = "off"
         /\ wait # "off" => mind.init # None /\ saved.init = mind.init /\ saved.seen = mind.seen
         /\ saved \in O!Memory /\ mind \in O!Memory /\ log \in Seq(O!Post)
         /\ Known(saved, Len(log)) /\ Known(mind, Len(log))
<1>1. poll \in Polls /\ stream \in [Chans -> {"off", "asked", "on", "again"}]
      /\ events \in [Chans -> Seq(Nat)] /\ wait \in {"off", "joining", "waiting"}
      /\ saved \in O!Memory /\ mind \in O!Memory /\ log \in Seq(O!Post)
  BY DEF OnceInv, OnceTypes
<1>2. \A c \in Chans : stream[c] # "on" => events[c] = <<>>
  BY DEF OnceInv, OnTheWay
<1>3. /\ wait = "off" => poll = O!NoPoll /\ finals = {} /\ stream = [c \in Chans |-> "off"]
      /\ wait # "off" => mind.init # None /\ saved.init = mind.init /\ saved.seen = mind.seen
      /\ Known(saved, Len(log)) /\ Known(mind, Len(log))
  BY DEF OnceInv, OneMemory
<1>4. QED
  BY <1>1, <1>2, <1>3, EmptyFacts

LEMMA FinalizedKeeps ==
  ASSUME OnceInv, MaxPosts \in Nat, NEW f \in finals, O!Finalized(f) PROVE OnceInv'
<1>1. /\ O!Exits(f.batch) /\ UNCHANGED <<log, saved, sending>>
      /\ lost' = lost \cup UNION {h.batch : h \in finals \ {f}}
  BY DEF O!Finalized
<1>2. wait # "off" /\ saved.seen = mind.seen /\ log \in Seq(O!Post)
  BY WaitFacts
<1>3. \A n \in f.batch : n \in 1..MaxPosts /\ reported[n] = 0 /\ n \in saved'.seen
  <2> SUFFICES ASSUME NEW n \in f.batch PROVE n \in 1..MaxPosts /\ reported[n] = 0 /\ n \in saved'.seen
    OBVIOUS
  <2>1. n \in mind.seen /\ n \in O!Of(f.ch, Len(log)) /\ reported[n] = 0 /\ Len(log) <= MaxPosts
    BY DEF OnceInv, OnTheWay, OnceTypes
  <2>2. Len(log) \in Nat /\ n \in 1..Len(log)
    BY <1>2, <2>1 DEF O!Of
  <2>3. QED
    BY <1>1, <1>2, <2>1, <2>2
<1>4. {n \in 1..MaxPosts : reported[n] = 1} \cup f.batch \subseteq {n \in 1..MaxPosts : reported'[n] = 1}
  BY <1>1, <1>3, Prints
<1>5. Accounted(reported, lost, finals) \subseteq Accounted(reported', lost', {})
  <2>1. UNION {h.batch : h \in finals} \subseteq f.batch \cup UNION {h.batch : h \in finals \ {f}}
    OBVIOUS
  <2>2. QED
    BY <1>1, <1>4, <2>1 DEF Accounted
<1>6. Covers(saved', log, Accounted(reported', lost', {}))
  <2>1. Covers(saved, log, Accounted(reported, lost, finals))
    BY DEF OnceInv, NothingMissed
  <2>2. QED
    BY <1>1, <1>5, <2>1, CoversMore
<1>7. saved' \in O!Memory /\ Known(saved', Len(log)) /\ saved.seen \subseteq saved'.seen
  BY <1>1, WaitFacts
<1>8. QED
  BY <1>1, <1>3, <1>6, <1>7, ExitKeeps

\* The process ends by itself or is killed: nothing is printed.
LEMMA GoneKeeps == ASSUME OnceInv, O!Timeout \/ O!Killed PROVE OnceInv'
<1>1. /\ O!Exits({}) /\ UNCHANGED <<log, sending>> /\ wait # "off"
      /\ lost' = lost \cup UNION {h.batch : h \in finals}
      /\ saved' \in {saved, [saved EXCEPT !.cur = mind.cur, !.init = mind.init],
                     [O!Empty EXCEPT !.seen = saved.seen]}
  BY DEF O!Timeout, O!Killed, O!Batches
<1>2. /\ saved \in O!Memory /\ mind \in O!Memory /\ saved.init = mind.init /\ saved.seen = mind.seen
      /\ Known(saved, Len(log)) /\ Known(mind, Len(log))
  BY <1>1, WaitFacts
<1>3. Accounted(reported, lost, finals) \subseteq Accounted(reported', lost', {})
  <2>1. {n \in 1..MaxPosts : reported[n] = 1} \subseteq {n \in 1..MaxPosts : reported'[n] = 1}
    BY <1>1, Prints
  <2>2. QED
    BY <1>1, <2>1 DEF Accounted
<1>4. /\ Covers(saved, log, Accounted(reported', lost', {}))
      /\ Covers(mind, log, Accounted(reported', lost', {}))
  BY <1>1, <1>3, CoversMore DEF OnceInv, NothingMissed
<1>5. /\ saved' \in O!Memory /\ Known(saved', Len(log)) /\ saved.seen \subseteq saved'.seen
      /\ Covers(saved', log, Accounted(reported', lost', {}))
  <2>1. CASE saved' = saved
    BY <1>2, <1>4, <2>1
  <2>2. CASE saved' = [saved EXCEPT !.cur = mind.cur, !.init = mind.init]
    <3>1. saved' = mind
      BY <1>2, <2>2 DEF O!Memory
    <3>2. QED
      BY <1>2, <1>4, <3>1
  <2>3. CASE saved' = [O!Empty EXCEPT !.seen = saved.seen]
    <3>1. /\ saved' \in O!Memory /\ saved'.init = None /\ saved'.seen = saved.seen
          /\ \A c \in Chans : saved'.cur[c] = None
      BY <1>2, <2>3, EmptyFacts DEF O!Memory
    <3>2. QED
      BY <1>2, <3>1 DEF Known, Covers
  <2>4. QED
    BY <1>1, <2>1, <2>2, <2>3
<1>6. QED
  BY <1>1, <1>5, ExitKeeps

LEMMA StartKeeps == ASSUME OnceInv, None \notin Nat, O!Start PROVE OnceInv'
<1>1. /\ wait = "off" /\ wait' = "joining" /\ saved' = mind'
      /\ mind' = IF saved.init = None THEN [saved EXCEPT !.init = Len(log)] ELSE saved
      /\ UNCHANGED <<log, poll, stream, events, finals, sending, reported, lost>>
  BY DEF O!Start
<1>2. /\ saved \in O!Memory /\ log \in Seq(O!Post) /\ Len(log) \in Nat /\ Known(saved, Len(log))
      /\ poll.at = "none" /\ finals = {}
  BY <1>1, WaitFacts
<1>3. /\ mind' \in O!Memory /\ mind'.seen = saved.seen /\ mind'.cur = saved.cur
      /\ mind'.init \in Nat /\ mind'.init <= Len(log)
      /\ saved.init # None => mind'.init = saved.init
      /\ saved.init = None => mind'.init = Len(log)
  <2>1. CASE saved.init = None
    <3>1. mind' = [saved EXCEPT !.init = Len(log)]
      BY <1>1, <2>1
    <3>2. QED
      BY <1>2, <2>1, <3>1 DEF O!Memory
  <2>2. CASE saved.init # None
    <3>1. mind' = saved
      BY <1>1, <2>2
    <3>2. QED
      BY <1>2, <2>2, <3>1 DEF O!Memory, Known
  <2>3. QED
    BY <2>1, <2>2
<1>4. OnceTypes'
  BY <1>1, <1>3 DEF OnceInv, OnceTypes
<1>5. OneMemory'
  <2>1. Known(mind', Len(log))
    BY <1>2, <1>3 DEF Known
  <2>2. QED
    BY <1>1, <1>3, <2>1 DEF OneMemory
<1>6. OnTheWay'
  <2>1. \A c \in Chans : /\ stream[c] # "on" => events[c] = <<>>
                         /\ \A i \in DOMAIN events[c] : events[c][i] \in O!Of(c, Len(log))
    BY DEF OnceInv, OnTheWay
  <2>2. QED
    BY <1>1, <1>2, <2>1 DEF OnTheWay, O!Of
<1>7. PrintedOnce' /\ PageBehind'
  BY <1>1, <1>2, <1>3 DEF OnceInv, PrintedOnce, PageBehind
<1>8. Covers(mind', log, Accounted(reported, lost, finals))
  <2>1. CASE saved.init = None
    BY <1>2, <1>3, <2>1 DEF Covers
  <2>2. CASE saved.init # None
    BY <1>3, <2>2 DEF OnceInv, NothingMissed, Covers
  <2>3. QED
    BY <2>1, <2>2
<1>9. NothingMissed'
  BY <1>1, <1>8 DEF NothingMissed
<1>10. QED
  BY <1>4, <1>5, <1>6, <1>7, <1>9 DEF OnceInv

\* The steps of the poll and of the streams that look at nothing.
LEMMA PollKeeps ==
  ASSUME OnceInv,
         \/ O!Joined \/ O!Interval \/ O!PollEnds \/ O!PageRefused
         \/ \E list \in SUBSET Chans : O!Listed(list)
         \/ \E c \in Chans : O!AskPage(c)
  PROVE  OnceInv'
<1>1. /\ poll \in Polls /\ stream \in [Chans -> {"off", "asked", "on", "again"}]
      /\ events \in [Chans -> Seq(Nat)] /\ wait \in {"off", "joining", "waiting"}
      /\ \A c \in Chans : stream[c] # "on" => events[c] = <<>>
      /\ wait = "off" => poll.at = "none"
      /\ mind \in O!Memory /\ log \in Seq(O!Post) /\ Len(log) \in Nat
  BY WaitFacts
<1>2. CASE O!Joined \/ O!Interval
  <2>1. /\ wait # "off" /\ wait' \in {"joining", "waiting"} /\ poll' = [poll EXCEPT !.at = "mine"]
        /\ UNCHANGED <<log, saved, mind, stream, events, finals, sending, reported, lost>>
    BY <1>2 DEF O!Joined, O!Interval
  <2>2. poll' \in Polls /\ poll'.at = "mine"
    BY <1>1, <2>1 DEF Polls
  <2>3. QED
    BY <1>1, <2>1, <2>2, PollMoves
<1>3. CASE O!PollEnds
  <2>1. /\ poll.at \in {"mine", "next", "page"}
        /\ UNCHANGED <<log, saved, mind, wait, stream, events, finals, sending, reported, lost>>
        /\ \E S \in {poll.synced, poll.synced \cup ({poll.ch} \ {None})} :
             poll' = [O!NoPoll EXCEPT !.synced = S]
    BY <1>3 DEF O!PollEnds
  <2>2. PICK S : S \in SUBSET Chans /\ poll' = [O!NoPoll EXCEPT !.synced = S]
    <3>1. poll.synced \in SUBSET Chans /\ poll.ch \in Chans \cup {None}
      BY <1>1 DEF Polls
    <3>2. QED
      BY <2>1, <3>1
  <2>3. poll' \in Polls /\ poll'.at = "none"
    BY <2>2 DEF Polls, O!NoPoll
  <2>4. wait # "off"
    BY <1>1, <2>1
  <2>5. QED
    BY <1>1, <2>1, <2>3, <2>4, PollMoves
<1>4. CASE O!PageRefused
  <2>1. /\ poll.at = "page" /\ poll' = [poll EXCEPT !.at = "next", !.ch = None, !.after = None]
        /\ UNCHANGED <<log, saved, mind, wait, stream, events, finals, sending, reported, lost>>
    BY <1>4 DEF O!PageRefused
  <2>2. poll' \in Polls /\ poll'.at = "next" /\ wait # "off"
    BY <1>1, <2>1 DEF Polls
  <2>3. QED
    BY <1>1, <2>1, <2>2, PollMoves
<1>5. ASSUME NEW list \in SUBSET Chans, O!Listed(list) PROVE OnceInv'
  <2>1. /\ poll.at = "mine" /\ poll' = [poll EXCEPT !.at = "next", !.todo = list, !.since = Len(log)]
        /\ UNCHANGED <<log, saved, mind, wait, events, finals, sending, reported, lost>>
        /\ \E S \in SUBSET {c \in list : stream[c] = "off"} :
             stream' = [c \in Chans |-> IF c \in S THEN "asked" ELSE stream[c]]
    BY <1>5 DEF O!Listed
  <2>2. PICK S \in SUBSET {c \in list : stream[c] = "off"} :
          stream' = [c \in Chans |-> IF c \in S THEN "asked" ELSE stream[c]]
    BY <2>1
  <2>3. stream' \in [Chans -> {"off", "asked", "on", "again"}]
    BY <1>1, <2>2
  <2>4. \A c \in Chans : stream'[c] # "on" => events[c] = <<>>
    <3> SUFFICES ASSUME NEW c \in Chans, stream'[c] # "on" PROVE stream[c] # "on"
      BY <1>1
    <3>1. QED
      BY <2>2
  <2>5. poll' \in Polls /\ poll'.at = "next" /\ wait # "off"
    BY <1>1, <2>1 DEF Polls
  <2>6. QED
    BY <1>1, <2>1, <2>3, <2>4, <2>5, PollMoves
<1>6. ASSUME NEW c \in Chans, O!AskPage(c) PROVE OnceInv'
  <2>1. /\ poll.at = "next"
        /\ UNCHANGED <<log, saved, mind, wait, stream, events, finals, sending, reported, lost>>
        /\ \/ poll' = [poll EXCEPT !.todo = @ \ {c}]
           \/ poll' = [poll EXCEPT !.at = "page", !.todo = @ \ {c}, !.ch = c, !.after = mind.cur[c]]
    BY <1>6 DEF O!AskPage
  <2>2. mind.cur[c] \in Nat \cup {None} /\ wait # "off"
    BY <1>1, <2>1 DEF O!Memory
  <2>3. poll' \in Polls /\ (poll'.at = "page" => poll'.ch = c /\ poll'.after = mind.cur[c])
    <3>1. CASE poll' = [poll EXCEPT !.todo = @ \ {c}]
      BY <1>1, <2>1, <3>1 DEF Polls
    <3>2. CASE poll' = [poll EXCEPT !.at = "page", !.todo = @ \ {c}, !.ch = c, !.after = mind.cur[c]]
      BY <1>1, <2>2, <3>2 DEF Polls
    <3>3. QED
      BY <2>1, <3>1, <3>2
  <2>4. poll'.at = "page" => /\ poll'.ch \in Chans
                             /\ poll'.after # None => mind.cur[poll'.ch] # None
                                                      /\ poll'.after <= mind.cur[poll'.ch]
    BY <2>2, <2>3
  <2>5. QED
    BY <1>1, <2>1, <2>2, <2>3, <2>4, PollMoves
<1>7. QED
  BY <1>2, <1>3, <1>4, <1>5, <1>6

LEMMA StreamKeeps ==
  ASSUME OnceInv, NEW c \in Chans,
         O!StreamOpens(c) \/ \E how \in {"off", "asked", "again"} : O!StreamEnds(c, how)
  PROVE  OnceInv'
<1>1. /\ poll \in Polls /\ stream \in [Chans -> {"off", "asked", "on", "again"}]
      /\ events \in [Chans -> Seq(Nat)] /\ wait \in {"off", "joining", "waiting"}
      /\ \A d \in Chans : stream[d] # "on" => events[d] = <<>>
      /\ wait = "off" => \A d \in Chans : stream[d] = "off"
  BY WaitFacts
<1>2. /\ UNCHANGED <<log, saved, mind, wait, poll, finals, sending, reported, lost>>
      /\ wait # "off"
      /\ \/ stream' = [stream EXCEPT ![c] = "on"] /\ events' = events
         \/ \E how \in {"off", "asked", "again"} :
              stream' = [stream EXCEPT ![c] = how] /\ events' = [events EXCEPT ![c] = <<>>]
  BY <1>1 DEF O!StreamOpens, O!StreamEnds
<1>3. /\ stream' \in [Chans -> {"off", "asked", "on", "again"}] /\ events' \in [Chans -> Seq(Nat)]
      /\ \A d \in Chans : /\ stream'[d] # "on" => events'[d] = <<>>
                          /\ events'[d] = events[d] \/ events'[d] = <<>>
  <2>1. CASE stream' = [stream EXCEPT ![c] = "on"] /\ events' = events
    BY <1>1, <2>1
  <2>2. ASSUME NEW how \in {"off", "asked", "again"}, stream' = [stream EXCEPT ![c] = how],
               events' = [events EXCEPT ![c] = <<>>]
        PROVE  /\ stream' \in [Chans -> {"off", "asked", "on", "again"}] /\ events' \in [Chans -> Seq(Nat)]
               /\ \A d \in Chans : /\ stream'[d] # "on" => events'[d] = <<>>
                                   /\ events'[d] = events[d] \/ events'[d] = <<>>
    <3>1. <<>> \in Seq(Nat)
      OBVIOUS
    <3>2. QED
      BY <1>1, <2>2, <3>1
  <2>3. QED
    BY <1>2, <2>1, <2>2
<1>4. poll'.at = "page" => /\ poll'.ch \in Chans
                           /\ poll'.after # None => mind.cur[poll'.ch] # None
                                                    /\ poll'.after <= mind.cur[poll'.ch]
  BY <1>2 DEF OnceInv, PageBehind
<1>5. QED
  BY <1>1, <1>2, <1>3, <1>4, PollMoves

LEMMA GotPageKeeps ==
  ASSUME OnceInv, None \notin Nat, PageSize \in Nat, O!GotPage PROVE OnceInv'
<1> DEFINE list == O!Page(poll.ch, poll.after)
<1>1. /\ poll.at = "page" /\ UNCHANGED <<log, sending>>
      /\ O!Inspect("poll", poll.ch, list, poll.after = None)
  BY DEF O!GotPage
<1>2. poll \in Polls /\ wait # "off" /\ mind \in O!Memory
  BY <1>1, WaitFacts
<1>3. /\ poll.ch \in Chans /\ poll.after \in Nat \cup {None}
      /\ poll.after # None => mind.cur[poll.ch] # None /\ poll.after <= mind.cur[poll.ch]
  BY <1>1, <1>2 DEF OnceInv, PageBehind, Polls
<1>4. list \in SUBSET O!Of(poll.ch, Len(log))
  BY DEF O!Page
<1>5. \/ poll.after = None
      \/ mind.cur[poll.ch] # None /\ \E after \in Nat : after <= mind.cur[poll.ch]
                                                        /\ list = O!Page(poll.ch, after)
  BY <1>3
<1> HIDE DEF list
<1>6. (poll.after = None) \in BOOLEAN
  OBVIOUS
<1>7. QED
  BY <1>1, <1>2, <1>3, <1>4, <1>5, <1>6, InspectKeeps

LEMMA StreamEventKeeps ==
  ASSUME OnceInv, None \notin Nat, PageSize \in Nat, NEW c \in Chans, O!StreamEvent(c) PROVE OnceInv'
<1>1. /\ events[c] # <<>> /\ UNCHANGED <<log, sending>>
      /\ O!Inspect(c, c, {Head(events[c])}, TRUE)
  BY DEF O!StreamEvent
<1>2. wait # "off" /\ events[c] \in Seq(Nat)
  <2>1. stream[c] = "on" /\ events[c] \in Seq(Nat)
    BY <1>1, WaitFacts
  <2>2. QED
    BY <2>1, WaitFacts
<1>3. Head(events[c]) \in O!Of(c, Len(log))
  <2>1. Head(events[c]) = events[c][1] /\ 1 \in DOMAIN events[c]
    BY <1>1, <1>2
  <2>2. QED
    BY <2>1 DEF OnceInv, OnTheWay
<1>4. {Head(events[c])} \in SUBSET O!Of(c, Len(log))
  BY <1>3
<1>5. QED
  BY <1>1, <1>2, <1>4, InspectKeeps

\* A message is posted: no memory covers it.
LEMMA SaysKeeps ==
  ASSUME OnceInv, MaxPosts \in Nat, NEW m \in O!Post, O!Says(m), sending' \in Chans \cup {None},
         UNCHANGED <<saved, mind, wait, poll, stream, finals, reported, lost>>
  PROVE  OnceInv'
<1> DEFINE k == Len(log) + 1
<1>1. /\ Len(log) < MaxPosts /\ log' = Append(log, m)
      /\ events' = [c \in Chans |-> IF c = m.ch /\ stream[c] = "on" THEN Append(events[c], k)
                                                                 ELSE events[c]]
  BY DEF O!Says
<1>2. /\ log \in Seq(O!Post) /\ Len(log) \in Nat /\ events \in [Chans -> Seq(Nat)]
      /\ DOMAIN log = 1..Len(log) /\ Known(saved, Len(log)) /\ Known(mind, Len(log))
      /\ \A n \in DOMAIN log : log[n].ch \in Chans
  BY WaitFacts, LogFacts
<1>3. /\ log' \in Seq(O!Post) /\ Len(log') = k /\ k <= MaxPosts /\ k \in Nat
      /\ DOMAIN log' = 1..k /\ log'[k] = m /\ \A n \in 1..Len(log) : log'[n] = log[n]
  BY <1>1, <1>2
<1>4. /\ \A c \in Chans : O!Of(c, Len(log)) \subseteq O!Of(c, Len(log))'
      /\ \A c \in Chans : c = m.ch => k \in O!Of(c, Len(log))'
  BY <1>2, <1>3 DEF O!Of
<1>5. events' \in [Chans -> Seq(Nat)]
  BY <1>1, <1>2
<1>6. OnceTypes'
  BY <1>3, <1>5 DEF OnceInv, OnceTypes
<1>7. OneMemory'
  <2>1. /\ saved \in O!Memory /\ mind \in O!Memory
    BY WaitFacts
  <2>2. \A w \in O!Memory : Known(w, Len(log)) => Known(w, k)
    BY <1>2 DEF Known, O!Memory
  <2>3. QED
    BY <1>2, <1>3, <2>1, <2>2 DEF OnceInv, OneMemory
<1>8. OnTheWay'
  <2>1. ASSUME NEW c \in Chans
        PROVE  /\ stream[c] # "on" => events'[c] = <<>>
               /\ \A i \in DOMAIN events'[c] : events'[c][i] \in O!Of(c, Len(log))'
    <3>0. /\ stream[c] # "on" => events[c] = <<>>
          /\ \A i \in DOMAIN events[c] : events[c][i] \in O!Of(c, Len(log))'
          /\ events[c] \in Seq(Nat)
      BY <1>2, <1>4 DEF OnceInv, OnTheWay
    <3>1. CASE c = m.ch /\ stream[c] = "on"
      <4>1. events'[c] = Append(events[c], k)
        BY <1>1, <3>1
      <4>2. \A i \in DOMAIN events'[c] :
              (i \in DOMAIN events[c] /\ events'[c][i] = events[c][i]) \/ events'[c][i] = k
        BY <1>3, <3>0, <4>1
      <4>3. QED
        BY <1>4, <3>0, <3>1, <4>2
    <3>2. CASE ~(c = m.ch /\ stream[c] = "on")
      BY <1>1, <3>0, <3>2
    <3>3. QED
      BY <3>1, <3>2
  <2>2. ASSUME NEW f \in finals
        PROVE  f.batch \subseteq mind.seen \cap O!Of(f.ch, Len(log))' /\ \A n \in f.batch : reported[n] = 0
    <3>1. f.ch \in Chans
      BY DEF OnceInv, OnceTypes, Finals
    <3>2. QED
      BY <1>4, <3>1 DEF OnceInv, OnTheWay
  <2>3. QED
    BY <2>1, <2>2 DEF OnTheWay
<1>9. PrintedOnce' /\ PageBehind'
  BY DEF OnceInv, PrintedOnce, PageBehind
<1>10. ASSUME NEW w \in O!Memory, NEW S, Known(w, Len(log)), Covers(w, log, S) PROVE Covers(w, log', S)
  <2> SUFFICES ASSUME w.init # None, NEW n \in 1..k, log'[n].addr, n > w.init,
                      n \in w.seen \/ (w.cur[log'[n].ch] # None /\ n <= w.cur[log'[n].ch])
               PROVE  n \in S
    BY <1>3 DEF Covers
  <2>1. log'[n].ch \in Chans
    <3>1. log'[n] \in O!Post
      BY <1>3
    <3>2. QED
      BY <3>1 DEF O!Post
  <2>2. n # k
    BY <1>2, <1>10, <2>1 DEF Known, O!Memory
  <2>3. n \in 1..Len(log) /\ log'[n] = log[n]
    BY <1>2, <1>3, <2>2
  <2>4. QED
    BY <1>2, <1>10, <2>3 DEF Covers
<1>11. NothingMissed'
  <2>1. saved \in O!Memory /\ mind \in O!Memory
    BY WaitFacts
  <2>2. QED
    BY <1>2, <1>10, <2>1 DEF OnceInv, NothingMissed
<1>12. QED
  BY <1>6, <1>7, <1>8, <1>9, <1>11 DEF OnceInv

\* A --send moves the cursor in the file over what was posted in between, and gives it up.
LEMMA SendAdvancesKeeps ==
  ASSUME OnceInv, None \notin Nat, NEW c \in Chans, O!SendAdvances(c) PROVE OnceInv'
<1> DEFINE w == [saved EXCEPT !.cur[c] = Len(log)]
           S == Accounted(reported, lost, finals)
<1>1. /\ saved' = w /\ sending' = None
      /\ lost' = lost \cup (IF saved.init = None THEN {} ELSE O!Passed(saved, w, c))
      /\ UNCHANGED <<log, mind, wait, poll, stream, events, finals, reported>>
  BY DEF O!SendAdvances
<1>2. /\ saved \in O!Memory /\ log \in Seq(O!Post) /\ Len(log) \in Nat /\ Known(saved, Len(log))
      /\ Covers(saved, log, S)
  BY WaitFacts DEF OnceInv, NothingMissed
<1>3. /\ w \in O!Memory /\ w.init = saved.init /\ w.seen = saved.seen /\ w.cur[c] = Len(log)
      /\ \A d \in Chans : d # c => w.cur[d] = saved.cur[d]
  BY <1>2 DEF O!Memory
<1> HIDE DEF w, S
<1>4. Known(w, Len(log))
  <2>1. \A d \in Chans : w.cur[d] # None => w.cur[d] <= Len(log)
    BY <1>2, <1>3 DEF Known
  <2>2. QED
    BY <1>2, <1>3, <2>1 DEF Known
<1>5. Covers(w, log, Accounted(reported, lost', finals))
  <2>1. CASE saved.init = None
    BY <1>3, <2>1 DEF Covers
  <2>2. CASE saved.init # None
    <3> DEFINE r == [w |-> w, batch |-> {}, write |-> TRUE]
    <3>1. r.w = w /\ r.batch = {} /\ r.write
      OBVIOUS
    <3> HIDE DEF r
    <3>2. Looked(saved, c, {}, r)
      <4>1. Len(log) # None /\ (saved.cur[c] # None => saved.cur[c] <= Len(log))
        BY <1>2 DEF Known
      <4>2. QED
        BY <1>3, <1>4, <3>1, <4>1 DEF Looked
    <3>3. Covers(w, log, S \cup O!Passed(saved, w, c))
      <4>1. Covers(r.w, log, S \cup r.batch \cup O!Passed(saved, r.w, c))
        BY <1>2, <2>2, <3>2, PassedCovers
      <4>2. S \cup {} \cup O!Passed(saved, w, c) = S \cup O!Passed(saved, w, c)
        OBVIOUS
      <4>3. QED
        BY <3>1, <4>1, <4>2
    <3>4. S \cup O!Passed(saved, w, c) \subseteq Accounted(reported, lost', finals)
      BY <1>1, <2>2 DEF S, Accounted
    <3>5. QED
      BY <3>3, <3>4, CoversMore
  <2>3. QED
    BY <2>1, <2>2
<1>6. OnceTypes' /\ OneMemory'
  BY <1>1, <1>3, <1>4 DEF OnceInv, OnceTypes, OneMemory
<1>7. OnTheWay' /\ PrintedOnce' /\ PageBehind'
  BY <1>1, <1>3 DEF OnceInv, OnTheWay, PrintedOnce, PageBehind, O!Of
<1>8. NothingMissed'
  <2>1. S \subseteq Accounted(reported, lost', finals)
    BY <1>1 DEF S, Accounted
  <2>2. wait # "off" => Covers(mind, log, Accounted(reported, lost', finals))
    BY <2>1, CoversMore DEF OnceInv, NothingMissed, S
  <2>3. QED
    BY <1>1, <1>5, <2>2 DEF NothingMissed
<1>9. QED
  BY <1>6, <1>7, <1>8 DEF OnceInv

LEMMA OnceStep ==
  ASSUME OnceInv, None \notin Nat, PageSize \in Nat, MaxPosts \in Nat, Posts \subseteq O!Post, O!Next
  PROVE  OnceInv'
<1>1. CASE O!Start
  BY <1>1, StartKeeps
<1>2. CASE \/ O!Joined \/ O!Interval \/ O!PollEnds \/ O!PageRefused
           \/ \E list \in SUBSET Chans : O!Listed(list)
           \/ \E c \in Chans : O!AskPage(c)
  BY <1>2, PollKeeps
<1>3. CASE O!GotPage
  BY <1>3, GotPageKeeps
<1>4. CASE O!Timeout \/ O!Killed
  BY <1>4, GoneKeeps
<1>5. ASSUME NEW f \in finals, O!Finalized(f) PROVE OnceInv'
  BY <1>5, FinalizedKeeps
<1>6. ASSUME NEW c \in Chans, O!StreamOpens(c) \/ \E how \in {"off", "asked", "again"} : O!StreamEnds(c, how)
      PROVE  OnceInv'
  BY <1>6, StreamKeeps
<1>7. ASSUME NEW c \in Chans, O!StreamEvent(c) PROVE OnceInv'
  BY <1>7, StreamEventKeeps
<1>8. ASSUME NEW c \in Chans, O!SendAdvances(c) PROVE OnceInv'
  BY <1>8, SendAdvancesKeeps
<1>9. ASSUME NEW c \in Chans, O!SendPosts(c) PROVE OnceInv'
  <2>1. /\ O!Says([ch |-> c, addr |-> FALSE]) /\ sending' \in Chans \cup {None}
        /\ UNCHANGED <<saved, mind, wait, poll, stream, finals, reported, lost>>
    BY <1>9 DEF O!SendPosts
  <2>2. [ch |-> c, addr |-> FALSE] \in O!Post
    BY DEF O!Post
  <2>3. QED
    BY <2>1, <2>2, SaysKeeps
<1>10. ASSUME NEW m \in Posts, O!SomebodyPosts(m) PROVE OnceInv'
  <2>1. /\ O!Says(m) /\ sending' \in Chans \cup {None} /\ m \in O!Post
        /\ UNCHANGED <<saved, mind, wait, poll, stream, finals, reported, lost>>
    BY <1>10 DEF O!SomebodyPosts, OnceInv, OnceTypes
  <2>2. QED
    BY <2>1, SaysKeeps
<1>11. QED
  BY <1>1, <1>2, <1>3, <1>4, <1>5, <1>6, <1>7, <1>8, <1>9, <1>10 DEF O!Next

LEMMA OnceInvHolds == PartSpec => []OnceInv
<1>1. PartInit => OnceInv
  <2> SUFFICES ASSUME PartInit PROVE OnceInv
    OBVIOUS
  <2>1. /\ log = <<>> /\ saved = O!Empty /\ mind = O!Empty /\ wait = "off" /\ poll = O!NoPoll
        /\ stream = [c \in Chans |-> "off"] /\ events = [c \in Chans |-> <<>>]
        /\ finals = {} /\ sending = None
        /\ reported = [n \in 1..MaxPosts |-> 0] /\ lost = {}
    BY DEF PartInit, O!Init
  <2>2. MaxPosts \in Nat
    BY PartsAssumption DEF PartsAssumption, O!OnceAssumption
  <2>3. OnceTypes
    <3>1. log \in Seq(O!Post) /\ Len(log) <= MaxPosts
      BY <2>1, <2>2
    <3>2. events \in [Chans -> Seq(Nat)] /\ reported \in [1..MaxPosts -> Nat]
      BY <2>1
    <3>3. QED
      BY <2>1, <3>1, <3>2, EmptyFacts DEF OnceTypes
  <2>4. OneMemory
    BY <2>1, EmptyFacts DEF OneMemory, Known
  <2>5. OnTheWay /\ PrintedOnce
    BY <2>1 DEF OnTheWay, PrintedOnce
  <2>6. PageBehind /\ NothingMissed
    BY <2>1, EmptyFacts DEF PageBehind, NothingMissed, Covers
  <2>7. QED
    BY <2>3, <2>4, <2>5, <2>6 DEF OnceInv
<1>2. OnceInv /\ [PartNext]_all => OnceInv'
  <2> SUFFICES ASSUME OnceInv, [PartNext]_all PROVE OnceInv'
    OBVIOUS
  <2>1. CASE Once(O!Next)
    <3>1. /\ None \notin Nat /\ PageSize \in Nat /\ MaxPosts \in Nat /\ Posts \subseteq O!Post
      BY PartsAssumption DEF PartsAssumption, O!OnceAssumption
    <3>2. O!Next
      BY <2>1 DEF Once
    <3>3. QED
      BY <3>1, <3>2, OnceStep
  <2>2. CASE UNCHANGED once
    <3>1. UNCHANGED <<log, saved, mind, wait, poll, stream, events, finals, sending, reported, lost>>
      BY <2>2 DEF once
    <3>2. OnceTypes' /\ OneMemory' /\ PrintedOnce' /\ PageBehind' /\ NothingMissed'
      BY <3>1 DEF OnceInv, OnceTypes, OneMemory, PrintedOnce, PageBehind, NothingMissed
    <3>3. OnTheWay'
      BY <3>1 DEF OnceInv, OnTheWay, O!Of
    <3>4. QED
      BY <3>2, <3>3 DEF OnceInv
  <2>3. QED
    BY <2>1, <2>2 DEF PartNext, App, Gui, Manager, Wake, Muse, Documents, Tools, all
<1>3. QED
  BY <1>1, <1>2, PTL DEF PartSpec

\* No message is printed twice, and none that addresses the agent is passed unprinted but
\* for the losses that are named: through kills, timeouts, torn files, pages that are
\* overtaken by streams, and sends that move the cursor of the file.
THEOREM WakesPrintedHolds == PartSpec => []WakesPrinted
<1>1. OnceInv => WakesPrinted
  <2> SUFFICES ASSUME OnceInv PROVE WakesPrinted
    OBVIOUS
  <2>1. \A n \in DOMAIN reported : reported[n] <= 1
    BY DEF OnceInv, PrintedOnce
  <2>2. ASSUME saved.init # None, NEW n \in DOMAIN log, log[n].addr, n > saved.init,
               n \in saved.seen \/ (saved.cur[log[n].ch] # None /\ n <= saved.cur[log[n].ch])
        PROVE  reported[n] = 1 \/ n \in lost \cup O!Batches
    <3>1. n \in Accounted(reported, lost, finals)
      BY <2>2 DEF OnceInv, NothingMissed, Covers
    <3>2. QED
      BY <3>1 DEF Accounted, O!Batches
  <2>3. QED
    BY <2>1, <2>2 DEF WakesPrinted
<1>2. QED
  BY <1>1, OnceInvHolds, PTL

-----------------------------------------------------------------------------
(* The types of all the parts.  Each of these is inductive together with the *)
(* invariant of its part, which is used as a fact.                          *)

\* A lock directory of the desktop's outbox names the process that made it.
HeldTyped == held \in [Letters -> Hosts \cup {None}]

LEMMA HeldTypedHolds == PartSpec => []HeldTyped
<1>1. PartInit => HeldTyped
  BY DEF PartInit, G!Init, HeldTyped
<1>2. HeldTyped /\ [PartNext]_all => HeldTyped'
  <2> SUFFICES ASSUME HeldTyped, [PartNext]_all PROVE HeldTyped'
    OBVIOUS
  <2>1. CASE Gui(G!Next)
    <3>1. ASSUME NEW id, held' = [held EXCEPT ![id] = None] PROVE HeldTyped'
      BY <3>1 DEF HeldTyped
    <3>2. ASSUME NEW h \in Hosts, NEW id \in Letters, G!Dispatch(h, id) PROVE HeldTyped'
      BY <3>2 DEF G!Dispatch, HeldTyped
    <3>3. ASSUME NEW h \in Hosts, NEW receipt \in BOOLEAN, G!Sent(h, receipt) PROVE HeldTyped'
      BY <3>3 DEF G!Sent, HeldTyped
    <3>4. ASSUME NEW h \in Hosts, G!SaveFails(h) \/ G!Found(h) \/ G!NotFound(h) PROVE HeldTyped'
      BY <3>1, <3>4 DEF G!SaveFails, G!Found, G!NotFound, G!Leaves
    <3>5. ASSUME NEW h \in Hosts, G!NextPage(h) \/ G!Dies(h) PROVE HeldTyped'
      BY <3>5 DEF G!NextPage, G!Dies, HeldTyped
    <3>6. ASSUME NEW id \in Letters, G!Enqueue(id) \/ G!LockRemoved(id) \/ G!Accepts(id) PROVE HeldTyped'
      BY <3>1, <3>6 DEF G!Enqueue, G!LockRemoved, G!Accepts, HeldTyped
    <3>7. G!Next
      BY <2>1 DEF Gui
    <3>8. QED
      BY <3>2, <3>3, <3>4, <3>5, <3>6, <3>7 DEF G!Next
  <2>2. CASE UNCHANGED gui
    BY <2>2 DEF gui, HeldTyped
  <2>3. QED
    BY <2>1, <2>2 DEF PartNext, App, Manager, Wake, Muse, Documents, Tools, Once, all
<1>3. QED
  BY <1>1, <1>2, PTL DEF PartSpec

\* No wake waits for itself, or for one that was not heard; the table names wakes there are.
WakeBounds ==
  /\ Len(wakes) <= MaxWakes /\ games \subseteq Games
  /\ \A w \in DOMAIN wakes : wakes[w].after \in 0..MaxWakes /\ wakes[w].after # w
  /\ \A s \in Sessions : tail[s] <= Len(wakes)

\* One wake goes on and waits for none, or for the newest turn of its session.
LEMMA BoundsMove ==
  ASSUME WakeInv, WakeBounds, NEW w \in DOMAIN wakes, NEW v, wakes' = [wakes EXCEPT ![w] = v],
         v.after \in 0..MaxWakes, v.after # w, games' \subseteq Games,
         \A s \in Sessions : tail'[s] <= Len(wakes)
  PROVE  WakeBounds'
<1>1. DOMAIN wakes' = DOMAIN wakes /\ Len(wakes') = Len(wakes) /\ wakes'[w] = v
      /\ \A u \in DOMAIN wakes : u # w => wakes'[u] = wakes[u]
  BY DEF WakeInv, WakeTypes
<1>2. QED
  BY <1>1 DEF WakeBounds

LEMMA BoundsStep ==
  ASSUME MaxWakes \in Nat, WakeInv, WakeBounds, W!Next
  PROVE  WakeBounds'
<1>0. /\ \A w \in DOMAIN wakes : wakes[w] \in WakeType /\ w \in Nat \ {0} /\ w <= Len(wakes)
      /\ Len(wakes) \in Nat /\ \A s \in Sessions : tail[s] \in Nat /\ tail[s] <= Len(wakes)
  BY DEF WakeInv, WakeTypes, WakeBounds
<1>1. ASSUME NEW kind, W!Arrive(kind) PROVE WakeBounds'
  <2> DEFINE v == [at |-> "handled", session |-> None, after |-> 0, try |-> 1]
  <2>1. wakes' = Append(wakes, v) /\ UNCHANGED <<tail, games>> /\ Len(wakes) < MaxWakes /\ v.after = 0
    BY <1>1 DEF W!Arrive
  <2> HIDE DEF v
  <2>2. /\ Len(wakes') = Len(wakes) + 1 /\ DOMAIN wakes' = 1..(Len(wakes) + 1)
        /\ wakes'[Len(wakes) + 1] = v /\ \A u \in DOMAIN wakes : wakes'[u] = wakes[u]
    BY <2>1 DEF WakeInv, WakeTypes
  <2>3. \A u \in DOMAIN wakes' : u \in Nat \ {0} /\ (u \in DOMAIN wakes \/ u = Len(wakes) + 1)
    BY <1>0, <2>2 DEF WakeInv, WakeTypes
  <2>4. ASSUME NEW u \in DOMAIN wakes' PROVE wakes'[u].after \in 0..MaxWakes /\ wakes'[u].after # u
    BY <2>1, <2>2, <2>3 DEF WakeBounds
  <2>5. QED
    BY <1>0, <2>1, <2>2, <2>4 DEF WakeBounds
<1>2. ASSUME NEW g \in Games, W!GameJoined(g) \/ W!GameExpires(g) PROVE WakeBounds'
  BY <1>2 DEF W!GameJoined, W!GameExpires, WakeBounds
<1>3. ASSUME NEW w \in DOMAIN wakes, NEW where, W!At(w, where), games' \subseteq Games,
             \A s \in Sessions : tail'[s] <= Len(wakes)
      PROVE  WakeBounds'
  <2> DEFINE v == [wakes[w] EXCEPT !.at = where]
  <2>1. v.after = wakes[w].after /\ wakes' = [wakes EXCEPT ![w] = v]
    BY <1>0, <1>3 DEF W!At, WakeType
  <2> HIDE DEF v
  <2>2. v.after \in 0..MaxWakes /\ v.after # w
    BY <2>1 DEF WakeBounds
  <2>3. QED
    BY <1>3, <2>1, <2>2, BoundsMove
<1>4. ASSUME NEW w \in DOMAIN wakes, W!Post(w) \/ W!Grok(w) \/ W!Resolved(w) \/ W!Accepted(w) \/ W!BeginTurn(w)
      PROVE  WakeBounds'
  <2>1. games' \subseteq Games /\ tail' = tail /\ \E where : W!At(w, where)
    BY <1>4 DEF W!Post, W!Grok, W!Resolved, W!Accepted, W!BeginTurn, W!Handled, WakeBounds
  <2>2. QED
    BY <1>0, <1>3, <2>1
<1>5. ASSUME NEW w \in DOMAIN wakes, W!EndTurn(w) PROVE WakeBounds'
  <2>1. W!At(w, "over") /\ games' = games
    BY <1>5 DEF W!EndTurn
  <2>2. \A s \in Sessions : tail'[s] = tail[s] \/ tail'[s] = 0
    BY <1>5 DEF W!EndTurn, W!Dequeued, WakeInv, WakeTypes
  <2>3. games' \subseteq Games /\ \A s \in Sessions : tail'[s] <= Len(wakes)
    BY <1>0, <2>1, <2>2 DEF WakeBounds
  <2>4. QED
    BY <1>3, <2>1, <2>3
<1>6. ASSUME NEW w \in DOMAIN wakes, NEW answered \in BOOLEAN, W!Fails(w, answered) PROVE WakeBounds'
  <2> DEFINE v == [wakes[w] EXCEPT !.try = @ + 1]
  <2>1. /\ UNCHANGED <<tail, games>> /\ v.after = wakes[w].after
        /\ (wakes' = [wakes EXCEPT ![w] = v] \/ W!At(w, "over"))
    BY <1>0, <1>6 DEF W!Fails, W!At, WakeType
  <2> HIDE DEF v
  <2>2. /\ v.after \in 0..MaxWakes /\ v.after # w /\ games' \subseteq Games
        /\ \A s \in Sessions : tail'[s] <= Len(wakes)
    BY <1>0, <2>1 DEF WakeBounds
  <2>3. QED
    BY <1>3, <2>1, <2>2, BoundsMove
<1>7. ASSUME NEW w \in DOMAIN wakes, NEW s \in Sessions, W!Queue(w, s), s # None PROVE WakeBounds'
  <2> DEFINE v == [wakes[w] EXCEPT !.at = "queued", !.session = s, !.after = tail[s]]
  <2>1. /\ wakes' = [wakes EXCEPT ![w] = v] /\ v.after = tail[s] /\ tail' = [tail EXCEPT ![s] = w]
        /\ wakes[w].at = "handled" /\ games' \subseteq games
    BY <1>0, <1>7 DEF W!Queue, W!Handled, W!Behind, WakeInv, WakeTypes, WakeType
  <2> HIDE DEF v
  <2>2. tail[s] # w
    <3>1. CASE Len(fired[s]) = 0
      BY <1>0, <3>1 DEF WakeInv, BehindPrevious
    <3>2. CASE Len(fired[s]) # 0
      <4>1. Len(fired[s]) \in 1..Len(fired[s])
        BY <3>2, TurnFacts
      <4>2. wakes[fired[s][Len(fired[s])]].at \in {"queued", "running", "over"}
        BY <4>1, TurnFacts
      <4>3. tail[s] = fired[s][Len(fired[s])] \/ tail[s] = 0
        BY <4>1 DEF WakeInv, BehindPrevious
      <4>4. QED
        BY <1>0, <2>1, <4>2, <4>3
    <3>3. QED
      BY <3>1, <3>2
  <2>3. v.after \in 0..MaxWakes /\ v.after # w /\ games' \subseteq Games
    BY <1>0, <2>1, <2>2 DEF WakeBounds
  <2>4. \A r \in Sessions : tail'[r] <= Len(wakes)
    BY <1>0, <2>1 DEF WakeInv, WakeTypes
  <2>5. QED
    BY <2>1, <2>3, <2>4, BoundsMove
<1>8. ASSUME NEW w \in DOMAIN wakes, W!Queue(w, None) PROVE WakeBounds'
  <2>1. W!At(w, "over") /\ tail' = tail /\ games' \subseteq Games
    BY <1>8 DEF W!Queue, W!Handled, WakeBounds
  <2>2. QED
    BY <1>0, <1>3, <2>1
<1>9. QED
  BY <1>1, <1>2, <1>4, <1>5, <1>6, <1>7, <1>8 DEF W!Next

LEMMA WakeBoundsHold == PartSpec => []WakeBounds
<1>0. MaxWakes \in Nat
  BY PartsAssumption DEF PartsAssumption, W!WakeAssumption
<1>1. PartInit => WakeBounds
  BY <1>0 DEF PartInit, W!Init, WakeBounds
<1>2. WakeBounds /\ WakeInv /\ [PartNext]_all => WakeBounds'
  <2> SUFFICES ASSUME WakeBounds, WakeInv, [PartNext]_all PROVE WakeBounds'
    OBVIOUS
  <2>1. CASE Wake(W!Next)
    BY <1>0, <2>1, BoundsStep DEF Wake
  <2>2. CASE UNCHANGED wakeup
    BY <2>2 DEF wakeup, WakeBounds
  <2>3. QED
    BY <2>1, <2>2 DEF PartNext, App, Gui, Manager, Muse, Documents, Tools, Once, all
<1>3. QED
  BY <1>1, <1>2, WakeInvHolds, PTL DEF PartSpec

\* Neither the mirror nor an answer is newer than the hub.
NotAhead ==
  /\ \A d \in Docs : metaV[d] <= version[d] /\ textV[d] <= version[d]
  /\ \A p \in Procs : doing[p].at # "none" => doing[p].got <= version[doing[p].doc]

\* A step of one call that leaves the mirror, of a hub whose versions do not fall.
LEMMA AheadRests ==
  ASSUME MirrorInv, NotAhead, NEW p \in Procs, NEW c \in Call, doing' = [doing EXCEPT ![p] = c],
         UNCHANGED <<textV, metaV>>, version' \in [Docs -> Nat],
         \A d \in Docs : version'[d] >= version[d],
         c.at # "none" => c.got <= version'[c.doc]
  PROVE  NotAhead'
<1>1. doing'[p] = c /\ \A q \in Procs : q # p => doing'[q] = doing[q]
  BY OneCall DEF MirrorInv, DocTypes
<1>2. \A d \in Docs : version[d] \in Nat /\ version'[d] \in Nat /\ metaV[d] \in Nat /\ textV[d] \in Nat
  BY DEF MirrorInv, DocTypes
<1>3. \A q \in Procs : doing[q] \in Call /\ doing[q].got \in Nat
                       /\ (doing[q].at # "none" => doing[q].doc \in Docs)
  BY DEF MirrorInv, DocTypes, Call
<1>4. QED
  BY <1>1, <1>2, <1>3 DEF NotAhead

LEMMA AheadStep ==
  ASSUME PartsAssumption, MirrorInv, NotAhead, D!Next
  PROVE  NotAhead'
<1>0. /\ \A p \in Procs : doing[p] \in Call /\ (doing[p].at # "none" => doing[p].doc \in Docs)
      /\ version \in [Docs -> Nat] /\ \A d \in Docs : version[d] >= version[d]
  BY DEF MirrorInv, DocTypes
<1>1. ASSUME NEW p \in Procs, D!Ends(p), UNCHANGED <<version, textV, metaV>> PROVE NotAhead'
  BY <1>0, <1>1, NoCallFacts, AheadRests DEF D!Ends
<1>2. ASSUME NEW p \in Procs, NEW at \in {"put", "text"}, NEW seen \in Nat, D!Step(p, at, seen),
             doing[p].at # "none", UNCHANGED <<version, textV, metaV>>
      PROVE  NotAhead'
  <2> DEFINE c == [doing[p] EXCEPT !.at = at, !.seen = seen, !.got = 0, !.served = FALSE]
  <2>1. doing' = [doing EXCEPT ![p] = c] /\ c \in Call /\ c.got = 0 /\ c.doc = doing[p].doc
    BY <1>0, <1>2 DEF D!Step, Call
  <2> HIDE DEF c
  <2>2. 0 <= version[doing[p].doc]
    BY <1>0, <1>2
  <2>3. QED
    BY <1>0, <1>2, <2>1, <2>2, AheadRests
<1>3. ASSUME NEW p \in Procs, NEW d \in Docs, NEW at \in {"look", "put", "read", "list"}, NEW seen \in Nat,
             D!Enter(p, at, d, seen)
      PROVE  NotAhead'
  <2> DEFINE c == [D!NoCall EXCEPT !.at = at, !.doc = d, !.seen = seen]
  <2>1. doing' = [doing EXCEPT ![p] = c] /\ UNCHANGED <<version, textV, metaV>>
    BY <1>3 DEF D!Enter
  <2>2. c \in Call /\ c.got = 0 /\ c.doc = d
    BY NoCallFacts DEF D!NoCall, Call
  <2> HIDE DEF c
  <2>3. 0 <= version[d]
    BY <1>0
  <2>4. QED
    BY <1>0, <2>1, <2>2, <2>3, AheadRests
<1>4. ASSUME NEW p \in Procs, D!SaveOver(p) \/ D!Compare(p) \/ D!Answered(p) \/ D!Fails(p) \/ D!Dies(p)
      PROVE  NotAhead'
  <2>1. UNCHANGED <<version, textV, metaV>>
    BY <1>4 DEF D!SaveOver, D!Compare, D!Answered, D!Fails, D!Dies
  <2>2. \/ D!Ends(p)
        \/ doing[p].at # "none" /\ \E at \in {"put", "text"}, seen \in Nat : D!Step(p, at, seen)
    BY <1>0, <1>4 DEF D!SaveOver, D!Compare, D!Answered, D!Fails, D!Dies, D!Awaits, Call
  <2>3. QED
    BY <1>1, <1>2, <2>1, <2>2
<1>5. ASSUME NEW p \in Procs, D!FirstWrite(p) PROVE NotAhead'
  <2> DEFINE c == [doing[p] EXCEPT !.at = "between"]
             d == doing[p].doc
  <2>1. /\ doing' = [doing EXCEPT ![p] = c] /\ UNCHANGED <<version, metaV>>
        /\ textV' = [textV EXCEPT ![d] = doing[p].got] /\ doing[p].at = "text"
    BY <1>5 DEF D!FirstWrite, D!Awaits, D!Writes
  <2>2. c \in Call /\ c.got = doing[p].got /\ c.doc = d /\ d \in Docs /\ doing[p].got <= version[d]
    BY <1>0, <2>1 DEF Call, NotAhead
  <2> HIDE DEF c, d
  <2>3. doing'[p] = c /\ \A q \in Procs : q # p => doing'[q] = doing[q]
    BY <2>1, <2>2, OneCall DEF MirrorInv, DocTypes
  <2>4. textV'[d] = doing[p].got /\ \A e \in Docs : e # d => textV'[e] = textV[e]
    BY <2>1, <2>2 DEF MirrorInv, DocTypes
  <2>5. QED
    BY <2>1, <2>2, <2>3, <2>4 DEF NotAhead
<1>6. ASSUME NEW p \in Procs, D!SecondWrite(p) PROVE NotAhead'
  <2> DEFINE d == doing[p].doc
  <2>1. /\ doing' = [doing EXCEPT ![p] = D!NoCall] /\ UNCHANGED <<version, textV>>
        /\ metaV' = [metaV EXCEPT ![d] = doing[p].seen] /\ doing[p].at = "between"
    BY <1>6 DEF D!SecondWrite, D!Writes, D!Ends, D!Between
  <2>2. /\ d \in Docs /\ doing[p].seen <= doing[p].got /\ doing[p].got <= version[d]
        /\ doing[p].seen \in Nat /\ doing[p].got \in Nat /\ version[d] \in Nat
    BY <1>0, <2>1 DEF Call, NotAhead, MirrorInv, ListedThenFetched
  <2> HIDE DEF d
  <2>3. doing'[p].at = "none" /\ \A q \in Procs : q # p => doing'[q] = doing[q]
    BY <2>1, NoCallFacts, OneCall DEF MirrorInv, DocTypes
  <2>4. metaV'[d] = doing[p].seen /\ \A e \in Docs : e # d => metaV'[e] = metaV[e]
    BY <2>1, <2>2 DEF MirrorInv, DocTypes
  <2>5. QED
    BY <2>1, <2>2, <2>3, <2>4 DEF NotAhead
<1>7. ASSUME NEW p \in Procs, D!Serves(p) PROVE NotAhead'
  <2> DEFINE d == doing[p].doc
             c == [doing[p] EXCEPT !.served = TRUE, !.got = version[d]]
  <2>1. /\ doing' = [doing EXCEPT ![p] = c] /\ UNCHANGED <<textV, metaV>> /\ d \in Docs
        /\ version' = [version EXCEPT ![d] = @ + 1] \/ version' = version
    BY <1>0, <1>7 DEF D!Serves
  <2>2. c \in Call /\ c.doc = d /\ c.got = version[d]
    BY <1>0, <2>1 DEF Call
  <2> HIDE DEF c, d
  <2>3. version' \in [Docs -> Nat] /\ \A e \in Docs : version'[e] >= version[e]
    BY <1>0, <2>1
  <2>4. c.got <= version'[c.doc]
    BY <1>0, <2>1, <2>2, <2>3
  <2>5. QED
    BY <2>1, <2>2, <2>3, <2>4, AheadRests
<1>8. ASSUME NEW p \in Procs, NEW d \in Docs,
             \/ D!ListSkills(p, d) \/ D!LoadSkill(p, d) \/ D!LoadMemory(p, d)
             \/ D!ListDocs(p, d) \/ D!GetDoc(p, d) \/ D!Revisions(p, d)
             \/ D!SaveMemory(p, d) \/ D!SaveSkill(p, d) \/ D!SyncSkill(p, d)
             \/ \E expected \in 0..MaxVersion : D!UpsertDoc(p, d, expected)
      PROVE  NotAhead'
  <2>1. PICK at \in {"look", "put", "read", "list"}, seen \in Nat : D!Enter(p, at, d, seen)
    <3>1. MaxVersion \in Nat
      BY DEF PartsAssumption, D!DocsAssumption
    <3>2. QED
      BY <1>8, <3>1 DEF D!ListSkills, D!LoadSkill, D!LoadMemory, D!ListDocs, D!GetDoc, D!Revisions,
         D!SaveMemory, D!SaveSkill, D!SyncSkill, D!UpsertDoc
  <2>2. QED
    BY <1>3, <2>1
<1>9. QED
  BY <1>4, <1>5, <1>6, <1>7, <1>8 DEF D!Next

LEMMA NotAheadHolds == PartSpec => []NotAhead
<1>1. PartInit => NotAhead
  BY NoCallFacts DEF PartInit, D!Init, NotAhead
<1>2. NotAhead /\ MirrorInv /\ [PartNext]_all => NotAhead'
  <2> SUFFICES ASSUME NotAhead, MirrorInv, [PartNext]_all PROVE NotAhead'
    OBVIOUS
  <2>1. CASE Documents(D!Next)
    BY <2>1, PartsAssumption, AheadStep DEF Documents
  <2>2. CASE UNCHANGED docs
    BY <2>2 DEF docs, NotAhead
  <2>3. QED
    BY <2>1, <2>2 DEF PartNext, App, Gui, Manager, Wake, Muse, Tools, Once, all
<1>3. QED
  BY <1>1, <1>2, MirrorInvHolds, PTL DEF PartSpec

\* Of the Muse bridge: only a socket that was authorized, or one that was and is closing,
\* has channels.
MuseTypes ==
  /\ link \in {"opening", "open", "authed", "closing", "timer"}
  /\ subscribed \subseteq Channels /\ (subscribed # {} => link \in {"authed", "closing"})
  /\ pulsing \subseteq Channels /\ tasks \in Seq(Channels) /\ losses \in 0..MaxLosses

LEMMA MuseStep ==
  ASSUME Wanted \subseteq Channels, MaxLosses \in Nat, MuseTypes, M!Next
  PROVE  MuseTypes'
<1> USE DEF MuseTypes
<1>1. CASE M!Opened
  BY <1>1 DEF M!Opened
<1>2. CASE M!AuthOk
  BY <1>2 DEF M!AuthOk, M!Joins
<1>3. CASE M!Closed \/ M!Timer \/ M!Disconnect
  BY <1>3 DEF M!Closed, M!Timer, M!Disconnect
<1>4. CASE M!Refused \/ M!Lost \/ M!PingThrows
  <2>1. losses' \in 0..MaxLosses
    BY <1>4 DEF M!Refused, M!Lost, M!PingThrows, M!Fault
  <2>2. QED
    BY <1>4, <2>1 DEF M!Refused, M!Lost, M!PingThrows
<1>5. ASSUME NEW c \in Channels, M!Invited(c) \/ M!Capped(c) \/ M!OwnSeen(c) PROVE MuseTypes'
  BY <1>5 DEF M!Invited, M!Capped, M!OwnSeen
<1>6. ASSUME NEW c \in Channels, M!Dispatch(c) PROVE MuseTypes'
  BY <1>6 DEF M!Dispatch
<1>7. ASSUME NEW c \in Channels, NEW id \in Mail, M!WakeUp(c, id) PROVE MuseTypes'
  BY <1>7 DEF M!WakeUp
<1>8. ASSUME NEW i \in DOMAIN tasks, M!Reply(i) PROVE MuseTypes'
  <2>1. i \in 1..Len(tasks) /\ Len(tasks) \in Nat /\ \A k \in 1..Len(tasks) : tasks[k] \in Channels
    OBVIOUS
  <2>2. SubSeq(tasks, 1, i - 1) \in Seq(Channels) /\ SubSeq(tasks, i + 1, Len(tasks)) \in Seq(Channels)
    <3>1. i - 1 \in Int /\ i + 1 \in Int /\ 1 \in Int /\ Len(tasks) \in Int
          /\ (\A k \in 1..(i - 1) : tasks[k] \in Channels)
          /\ \A k \in (i + 1)..Len(tasks) : tasks[k] \in Channels
      BY <2>1
    <3>2. QED
      BY <3>1, SubSeqProperties
  <2>3. SubSeq(tasks, 1, i - 1) \o SubSeq(tasks, i + 1, Len(tasks)) \in Seq(Channels)
    BY <2>2, ConcatProperties
  <2>4. QED
    BY <1>8, <2>3 DEF M!Reply
<1>9. ASSUME NEW again \in BOOLEAN, M!Posted(again) PROVE MuseTypes'
  BY <1>9 DEF M!Posted
<1>10. QED
  BY <1>1, <1>2, <1>3, <1>4, <1>5, <1>6, <1>7, <1>8, <1>9 DEF M!Next, M!Client

LEMMA MuseTypesHold == PartSpec => []MuseTypes
<1>0. Wanted \subseteq Channels /\ MaxLosses \in Nat
  BY PartsAssumption DEF PartsAssumption, M!MuseAssumption
<1>1. PartInit => MuseTypes
  BY <1>0 DEF PartInit, M!Init, MuseTypes
<1>2. MuseTypes /\ [PartNext]_all => MuseTypes'
  <2> SUFFICES ASSUME MuseTypes, [PartNext]_all PROVE MuseTypes'
    OBVIOUS
  <2>1. CASE Muse(M!Next)
    BY <1>0, <2>1, MuseStep DEF Muse
  <2>2. CASE UNCHANGED bridge
    BY <2>2 DEF bridge, MuseTypes
  <2>3. QED
    BY <2>1, <2>2 DEF PartNext, App, Gui, Manager, Wake, Documents, Tools, Once, all
<1>3. QED
  BY <1>1, <1>2, PTL DEF PartSpec

\* The variables of all the parts keep their types, and what they say of one another: a
\* reply is of a turn there is, no wake waits for itself, only a socket that was authorized
\* has channels, the mirror never runs ahead of the hub.
THEOREM PartTypesHold == PartSpec => []PartTypes
<1>1. /\ AppInv /\ GuiInv /\ HeldTyped /\ ManagerInv /\ WakeInv /\ WakeBounds
      /\ MuseTypes /\ NotAhead /\ OnceInv /\ ToolInv
      => PartTypes
  <2> SUFFICES ASSUME AppInv, GuiInv, HeldTyped, ManagerInv, WakeInv, WakeBounds,
                      MuseTypes, NotAhead, OnceInv, ToolInv
               PROVE  PartTypes
    OBVIOUS
  <2>1. wakes \in Seq(W!Wake) /\ tail \in [Sessions -> 0..Len(wakes)]
    <3>0. \A w \in DOMAIN wakes : wakes[w] \in WakeType /\ wakes[w].after \in 0..MaxWakes
      BY DEF WakeInv, WakeTypes, WakeBounds
    <3>1. \A w \in DOMAIN wakes : wakes[w] \in W!Wake
      <4> SUFFICES ASSUME NEW v \in WakeType, v.after \in 0..MaxWakes PROVE v \in W!Wake
        BY <3>0
      <4>1. QED
        BY DEF WakeType, W!Wake
    <3>2. wakes \in Seq(W!Wake)
      BY <3>1 DEF WakeInv, WakeTypes
    <3>3. QED
      BY <3>2 DEF WakeInv, WakeTypes, WakeBounds
  <2>2. /\ life \in {"off", "starting", "ready", "closed"} /\ Len(turns) <= MaxTurns
        /\ \A i \in DOMAIN told : told[i].turn \in DOMAIN turns
    BY DEF AppInv, AppTypes
  <2>3. letter \in [Letters -> G!Status \cup {None}] /\ held \in [Letters -> Hosts \cup {None}]
    BY DEF GuiInv, GuiTypes, HeldTyped
  <2>4. kids \subseteq B!Kid /\ botLock \in [Bots -> Pids \cup {0}]
    BY DEF ManagerInv, ManagerTypes
  <2>5. /\ wait \in {"off", "joining", "waiting"} /\ saved \in O!Memory /\ mind \in O!Memory
        /\ wait = "off" => mind = O!Empty /\ finals = {} /\ poll = O!NoPoll
        /\ \A f \in finals : f.batch \subseteq mind.seen \cap O!Of(f.ch, Len(log))
    BY DEF OnceInv, OnceTypes, OneMemory, OnTheWay
  <2>6. calls \in Seq(T!Call) /\ \A i \in 1..(Len(calls) - 1) : calls[i].told # "none"
    <3>1. calls \in Seq(T!Call) /\ \A i \in DOMAIN calls : calls[i].told = "none" => i = Len(calls)
      BY DEF ToolInv, ToolTypes
    <3>2. Len(calls) \in Nat /\ \A i \in 1..(Len(calls) - 1) : i \in DOMAIN calls /\ i # Len(calls)
      BY <3>1
    <3>3. QED
      BY <3>1, <3>2
  <2>7. QED
    BY <2>1, <2>2, <2>3, <2>4, <2>5, <2>6 DEF PartTypes, WakeBounds, MuseTypes, NotAhead
<1>2. QED
  BY <1>1, AppInvHolds, GuiInvHolds, HeldTypedHolds, ManagerInvHolds, WakeInvHolds, WakeBoundsHold,
     MuseTypesHold, NotAheadHolds, OnceInvHolds, ToolInvHolds, PTL
=============================================================================
