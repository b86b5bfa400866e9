--------------------------- MODULE ConnectorRelay ---------------------------
(***************************************************************************)
(* The gateway side of the relay connector (mcp-plugin/connector/server.ts, *)
(* identities.ts, normalize.ts, auth.ts): gateways upgrade with a key, say   *)
(* hello for the identities they front, and send as them.  What run.ts hands *)
(* over (ConnectorHub) is routed to the identities it addresses and waits in *)
(* the queue of its identity and channel until it is verified, given its     *)
(* context and sent to one gateway.  An action is one segment between two    *)
(* awaits.  A process starts with nothing of what a former one held.         *)
(***************************************************************************)
EXTENDS Naturals, Sequences, FiniteSets, MessageDedup

CONSTANTS Bots, Conns, Keys, Chans, Ids, Loops, None,
          Dms,           \* the direct channels
          Msgs,          \* the messages that run.ts may hand over
          Tables,        \* the identity files: [Bots -> Keys \cup {None}], not empty
          MaxDelivered,  \* the keys a MessageDedup holds (5000)
          DropDelivered, \* and drops when it is past that (1000)
          MaxArrivals,   \* bound: messages handed over
          MaxSends,      \* bound: messages the gateways send
          MaxFaults      \* bound: losses of a connection, reloads

\* to: whom it mentions; tick: the tick of a loop of its author it stands for.
Msg == [id : Ids, at : Nat, ch : Chans, by : Bots \cup {None}, to : SUBSET Bots,
        tick : Loops \cup {None}]
RelayAssumption ==
  /\ None \notin Bots \cup Conns \cup Keys \cup Chans \cup Loops
  /\ Dms \subseteq Chans /\ Msgs \subseteq Msg
  /\ Tables \subseteq [Bots -> Keys \cup {None}]
  /\ \A t \in Tables : \E b \in Bots : t[b] # None
  /\ MaxDelivered \in Nat /\ DropDelivered \in 1..MaxDelivered
  /\ MaxArrivals \in Nat /\ MaxSends \in Nat /\ MaxFaults \in Nat

VARIABLES table,     \* identities: the credentials and the generation of each row
          conns,     \* the gateway connections, and the identities each one fronts
          queue,     \* inboundQueues: jobs of an identity in a channel, oldest first
          stage,     \* what the oldest job waits for
          last,      \* lastAddressed: 0 before the first
          reserved,  \* delivered, the MessageDedup of server.ts
          place,     \* history: the number of the key the oldest job reserved
          got,       \* history: what reached a gateway, per identity: <<message, the
                     \* number of its key among those reserved>>
          arrivals, sends, faults

gateways == <<conns>>
jobs     == <<queue, stage, last, reserved, place, got>>
vars     == <<table, gateways, jobs, arrivals, sends, faults>>

Row == [key : Keys \cup {None}, gen : Nat]
Job == [m : Msgs, gen : Nat]
\* A connection that is not there.
NoConn == [key |-> None, fronted |-> {}]
Known(b) == table[b].key # None
Fault == faults < MaxFaults /\ faults' = faults + 1

-----------------------------------------------------------------------------
(* Gateways.                                                               *)

\* verifyUpgradeToken: a token of any gateway of the table, signed with its secret.
Verifies(key) == \E b \in Bots : table[b].key = key

\* The upgrade.
Upgrade(k, key) ==
  /\ conns[k] = NoConn /\ Verifies(key)
  /\ conns' = [conns EXCEPT ![k] = [key |-> key, fronted |-> {}]]
  /\ UNCHANGED <<table, jobs, arrivals, sends, faults>>

\* hello: the identity is registered, with the credentials of this connection.
Admitted(k, b) == Known(b) /\ table[b].key = conns[k].key

\* An identity that is not admitted ends the connection, with all it fronted.
Hello(k, b) ==
  /\ conns[k] # NoConn
  /\ conns' = IF Admitted(k, b) THEN [conns EXCEPT ![k].fronted = @ \cup {b}]
              ELSE [conns EXCEPT ![k] = NoConn]
  /\ UNCHANGED <<table, jobs, arrivals, sends, faults>>

GatewayGone(k) ==
  /\ conns[k] # NoConn /\ Fault
  /\ conns' = [conns EXCEPT ![k] = NoConn]
  /\ UNCHANGED <<table, jobs, arrivals, sends>>

\* handleOutbound: the identity is named, or it is the only one of the connection.
Outbound(k, named) ==
  /\ conns[k] # NoConn /\ sends < MaxSends
  /\ LET F == conns[k].fronted
         asked == IF named # None THEN {named} ELSE IF Cardinality(F) = 1 THEN F ELSE {}
     IN  \E b \in asked \cap F : Known(b) /\ table[b].key = conns[k].key
  /\ sends' = sends + 1
  /\ UNCHANGED <<table, gateways, jobs, arrivals, faults>>

-----------------------------------------------------------------------------
(* Routing.                                                                *)

IsTick(m) == m.tick # None
\* routeInboundTargets.  A direct message is for the identity b on whose socket it came.
Addressed(t, b, m) == IF m.ch \in Dms THEN t = b ELSE t \in m.to

\* A tick is for its author alone, whomever its prompt mentions.
Targets(b, m) == {t \in Bots : Known(t) /\ IF IsTick(m) THEN t = m.by ELSE Addressed(t, b, m)}

\* injectAgentsChatMessage: a job for every target, behind that target's earlier jobs.
Arrive(b, m) ==
  /\ arrivals < MaxArrivals /\ arrivals' = arrivals + 1
  /\ queue' = [t \in Bots |-> [queue[t] EXCEPT ![m.ch] =
                 IF t \in Targets(b, m) THEN Append(@, [m |-> m, gen |-> table[t].gen]) ELSE @]]
  /\ UNCHANGED <<table, gateways, stage, last, reserved, place, got, sends, faults>>

-----------------------------------------------------------------------------
(* The queue of one identity in one channel.                                *)

Fronting(b) == {k \in Conns : b \in conns[k].fronted}

\* Mutation of Idle: the next job inherits what the former one waited for.
IdleKeeps(b, c) == queue' = [queue EXCEPT ![b][c] = Tail(@)] /\ UNCHANGED stage
\* The oldest job is done.
Idle(b, c) ==
  /\ queue' = [queue EXCEPT ![b][c] = Tail(@)]
  /\ stage' = [stage EXCEPT ![b][c] = "idle"]

\* Sent to one gateway that fronts the identity now; without one it is dropped.
Deliver(b, c, n) ==
  /\ Idle(b, c)
  /\ got' = IF Fronting(b) = {} THEN got
            ELSE [got EXCEPT ![b] = Append(@, <<Head(queue[b][c]).m, n>>)]

EnvelopeKey(b, m) == <<b, m.ch, m.id>>
\* Mutation of TickKey: under another envelope id it is another tick.
TickKeyOfId(b, m) == <<"tick", b, m.ch, <<m.tick, m.id>>>>
\* A tick is itself again under another envelope id.
TickKey(b, m) == <<"tick", b, m.ch, m.tick>>

Reserve(d, key) == Record(d, key, MaxDelivered, DropDelivered)

\* Past the checks: the envelope is reserved first, then the tick, and the context of
\* a group channel is fetched.
Proceed(b, c) ==
  LET m   == Head(queue[b][c]).m
      d   == Reserve(reserved, EnvelopeKey(b, m))
      n   == Len(d.keys)
      dup == IsTick(m) /\ Remembers(d, TickKey(b, m))
  IN  IF Fronting(b) = {} \/ Remembers(reserved, EnvelopeKey(b, m))
      THEN Idle(b, c) /\ UNCHANGED <<reserved, place, got>>
      ELSE /\ reserved' = IF IsTick(m) /\ ~dup THEN Reserve(d, TickKey(b, m)) ELSE d
           /\ place' = [place EXCEPT ![b][c] = n]
           /\ IF dup THEN Idle(b, c) /\ UNCHANGED got
              ELSE IF c \notin Dms
              THEN stage' = [stage EXCEPT ![b][c] = "context"] /\ UNCHANGED <<queue, got>>
              ELSE Deliver(b, c, n)

\* The oldest job: a tick is verified first, an identity's own message is dropped.
Begin(b, c) ==
  /\ queue[b][c] # <<>> /\ stage[b][c] = "idle"
  /\ LET m == Head(queue[b][c]).m IN
     IF IsTick(m)
     THEN stage' = [stage EXCEPT ![b][c] = "verify"] /\ UNCHANGED <<queue, reserved, place, got>>
     ELSE IF m.by = b THEN Idle(b, c) /\ UNCHANGED <<reserved, place, got>>
     ELSE Proceed(b, c)
  /\ UNCHANGED <<table, gateways, last, arrivals, sends, faults>>

\* table.forBot(target.botId) === target.
SameRow(b, c) == table[b].gen = Head(queue[b][c]).gen /\ Known(b)

\* getLoops answered or failed: the loop is live and the identity is still this row.
Verified(b, c) ==
  /\ queue[b][c] # <<>> /\ stage[b][c] = "verify"
  /\ \/ Idle(b, c) /\ UNCHANGED <<reserved, place, got>>
     \/ SameRow(b, c) /\ Proceed(b, c)
  /\ UNCHANGED <<table, gateways, last, arrivals, sends, faults>>

\* Mutation of Context: the context is waited for without a limit.
ContextWaits(b, c) == FALSE
\* The context came, failed or took more than a second.
Context(b, c) ==
  /\ queue[b][c] # <<>> /\ stage[b][c] = "context"
  /\ Deliver(b, c, place[b][c])
  /\ last' = [last EXCEPT ![b][c] = LET n == Head(queue[b][c]).m.at IN IF n > @ THEN n ELSE @]
  /\ UNCHANGED <<table, gateways, reserved, place, arrivals, sends, faults>>

-----------------------------------------------------------------------------
\* Mutation of Pruned: connections keep what they fronted.
PrunedNot(next) == conns
\* connector.reloadIdentities.
Pruned(next) ==
  [k \in Conns |-> [conns[k] EXCEPT !.fronted = {b \in @ : next[b] = conns[k].key}]]

\* SIGHUP: a row that did not change keeps its generation; no connection is closed.
Reload(next) ==
  LET changed == {b \in Bots : next[b] # table[b].key} IN
  /\ changed # {} /\ Fault
  /\ table' = [b \in Bots |-> IF b \in changed THEN [key |-> next[b], gen |-> table[b].gen + 1]
                                              ELSE table[b]]
  /\ conns' = Pruned(next)
  /\ UNCHANGED <<jobs, arrivals, sends>>

Init ==
  /\ \E t \in Tables : table = [b \in Bots |-> [key |-> t[b], gen |-> 0]]
  /\ conns = [k \in Conns |-> NoConn] /\ reserved = NewDedup
  /\ queue = [b \in Bots |-> [c \in Chans |-> <<>>]] /\ got = [b \in Bots |-> <<>>]
  /\ stage = [b \in Bots |-> [c \in Chans |-> "idle"]]
  /\ last = [b \in Bots |-> [c \in Chans |-> 0]]
  /\ place = [b \in Bots |-> [c \in Chans |-> 0]]
  /\ arrivals = 0 /\ sends = 0 /\ faults = 0

QueueStep(b, c) == Begin(b, c) \/ Verified(b, c) \/ Context(b, c)
GatewayStep(k) ==
  \/ \E key \in Keys : Upgrade(k, key)
  \/ \E b \in Bots : Hello(k, b)
  \/ \E named \in Bots \cup {None} : Outbound(k, named)
  \/ GatewayGone(k)

Next ==
  \/ \E b \in Bots, c \in Chans : QueueStep(b, c)
  \/ \E k \in Conns : GatewayStep(k)
  \/ \E b \in Bots, m \in Msgs : Arrive(b, m)
  \/ \E t \in Tables : Reload(t)
=============================================================================
