--------------------------- MODULE ConnectorProps ---------------------------
(***************************************************************************)
(* What the relay connector promises, of its two halves: the hub side       *)
(* (ConnectorHub) and the gateway side (ConnectorRelay).  The hub side is    *)
(* what decides when a message is handed over; the gateway side takes any    *)
(* message at any time, so each half runs against all the other can do.      *)
(***************************************************************************)
EXTENDS ConnectorHub

CONSTANTS Conns, Ids, Loops, Msgs, MaxDelivered, DropDelivered, MaxArrivals, MaxSends
VARIABLES part, conns, queue, stage, last, reserved, place, got, arrivals, sends

R == INSTANCE ConnectorRelay
ASSUME BothAssumption == HubAssumption /\ R!RelayAssumption
relay == <<conns, queue, stage, last, reserved, place, got, arrivals, sends>>

PartInit == Init /\ R!Init /\ part \in {"hub", "gateways"}
\* A step of one half, in the runs of that half.
Hub(A) == part = "hub" /\ A /\ UNCHANGED <<part, relay>>
Gateways(A) == part = "gateways" /\ A /\ UNCHANGED <<part, member, hub, fills, ingested, log>>
PartNext == Hub(Next) \/ Gateways(R!Next)
all == <<vars, part, relay>>

\* Timers fire and the hub answers or refuses; a loop list answers or fails, and the
\* context is raced against a second.
Fairness ==
  \A b \in Bots :
    /\ WF_all(Hub(Reconnect(b) \/ AuthOk(b) \/ Closed(b) \/ Timeout(b) \/ Listed(b) \/ ListFails(b)))
    /\ \A c \in Chans : WF_all(Gateways(R!QueueStep(b, c)))
PartSpec == PartInit /\ [][PartNext]_all /\ Fairness

-----------------------------------------------------------------------------
\* The variables keep their types; a lost socket and an unknown identity have nothing
\* joined and no frame on its way, and what waits for a loop or a context is a job.
TypeOK ==
  /\ member \subseteq Bots \X Chans
  /\ table \in [Bots -> Row] /\ due \subseteq Bots
  /\ sock \in [Bots -> {"none", "opening", "listing", "live", "dead", "closed"}]
  /\ joined \in [Bots -> SUBSET Chans] /\ fillDue \in [Bots -> SUBSET Chans]
  /\ fills \subseteq Fill
  /\ cursor \in [Bots -> [Chans -> 0..MaxPosts]]
  /\ seen \in DedupOf((Bots \cup {None}) \X (1..MaxPosts))
  /\ log \in Seq(Kinds) /\ Len(log) <= MaxPosts /\ faults \in 0..MaxFaults
  /\ handed \in Seq(Bots \X (1..MaxPosts) \X Nat)
  /\ conns \in [Conns -> [key : Keys \cup {None}, fronted : SUBSET Bots]]
  /\ \A b \in Bots :
       /\ inbox[b] \in Seq(1..MaxPosts) /\ got[b] \in Seq(Msgs \X Nat)
       /\ sock[b] \in {"none", "opening", "dead", "closed"} => joined[b] = {} /\ inbox[b] = <<>>
       /\ \A c \in Chans :
            /\ queue[b][c] \in Seq(R!Job) /\ last[b][c] \in Nat /\ place[b][c] \in Nat
            /\ stage[b][c] \in {"idle", "verify", "context"}
            /\ stage[b][c] # "idle" => queue[b][c] # <<>>

\* Within the life of a process a message of a group channel is handed over once,
\* however many identities' sockets and backfills bring it, and a direct message once
\* for each identity that has it: again only after so many other keys were recorded
\* that MessageDedup may have dropped its own (ingest.ts, dedup.ts).
HandedOnce ==
  \A i, j \in DOMAIN handed :
    LET direct == log[handed[i][2]].ch \in Dms IN
    i < j /\ handed[i][2] = handed[j][2] /\ (direct => handed[i][1] = handed[j][1])
      => handed[j][3] - handed[i][3] > Window(MaxSeen, DropSeen)

\* After the last fault every configured identity has a hub socket that is up, whatever
\* timers, losses and reloads were under way (run.ts, connectIdentity).
Online == \A b \in Bots : <>[](part = "hub" /\ Known(b) => sock[b] = "live")

\* A gateway fronts an identity only with the credentials this identity has now: after
\* a reload none receives or sends for an identity it would no longer be admitted for
\* (server.ts, handleFrame and reloadIdentities).
FrontedIsCurrent ==
  \A k \in Conns : \A b \in conns[k].fronted : conns[k].key = table[b].key

\* A message reaches the gateway of an identity once, and so does a tick of a loop,
\* under whatever message ids it is replayed: again only after so many other keys
\* were reserved that MessageDedup may have dropped its own (server.ts, delivered).
DeliveredOnce ==
  \A b \in Bots : \A i, j \in DOMAIN got[b] :
    LET m == got[b][i][1] n == got[b][j][1] IN
    i < j /\ m.ch = n.ch /\ (m.id = n.id \/ (m.tick = n.tick /\ m.tick # None))
      => got[b][j][2] - got[b][i][2] > Window(MaxDelivered, DropDelivered)

\* No queue stays stuck behind a job (server.ts, the one-second race for the context).
Drains == \A b \in Bots, c \in Chans : queue[b][c] # <<>> ~> queue[b][c] = <<>>
=============================================================================
