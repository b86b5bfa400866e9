-------------------------- MODULE ConnectorProofs --------------------------
(***************************************************************************)
(* Proofs about the relay connector.  A behaviour runs one half of it, the   *)
(* other half stands still.                                                 *)
(***************************************************************************)
EXTENDS ConnectorProps, NaturalsInduction, WellFoundedInduction, TLAPS

-----------------------------------------------------------------------------
(* Gateways (identities.ts and auth.ts).                                     *)

\* While the hub half runs there are no gateways.
HubAlone == part = "hub" => \A k \in Conns : conns[k].fronted = {}
FrontedInv ==
  /\ part \in {"hub", "gateways"}
  /\ table \in [Bots -> Row]
  /\ conns \in [Conns -> [key : Keys \cup {None}, fronted : SUBSET Bots]]
  /\ HubAlone /\ FrontedIsCurrent

\* A connection that changes as one step changes it.
LEMMA ConnSet ==
  ASSUME FrontedInv, UNCHANGED <<part, table>>, part = "gateways",
         NEW k \in Conns, NEW v \in [key : Keys \cup {None}, fronted : SUBSET Bots],
         \A b \in v.fronted : v.key = table[b].key, conns' = [conns EXCEPT ![k] = v]
  PROVE  FrontedInv'
<1>1. conns'[k] = v /\ \A j \in Conns : j # k => conns'[j] = conns[j]
  BY DEF FrontedInv
<1>2. conns' \in [Conns -> [key : Keys \cup {None}, fronted : SUBSET Bots]]
  BY DEF FrontedInv
<1>3. FrontedIsCurrent'
  BY <1>1 DEF FrontedInv, FrontedIsCurrent
<1>4. QED
  BY <1>2, <1>3 DEF FrontedInv, HubAlone

LEMMA FrontedStep ==
  ASSUME BothAssumption, FrontedInv, part = "gateways", UNCHANGED part, R!Next
  PROVE  FrontedInv'
<1>0. /\ \A k \in Conns : conns[k] \in [key : Keys \cup {None}, fronted : SUBSET Bots]
      /\ R!NoConn \in [key : Keys \cup {None}, fronted : SUBSET Bots] /\ R!NoConn.fronted = {}
  BY DEF FrontedInv, R!NoConn
<1>1. ASSUME NEW k \in Conns, NEW key \in Keys, R!Upgrade(k, key) PROVE FrontedInv'
  <2> DEFINE v == [key |-> key, fronted |-> {}]
  <2>1. v \in [key : Keys \cup {None}, fronted : SUBSET Bots] /\ v.fronted = {}
    OBVIOUS
  <2>2. conns' = [conns EXCEPT ![k] = v] /\ UNCHANGED table
    BY <1>1 DEF R!Upgrade
  <2> HIDE DEF v
  <2>3. QED
    BY <2>1, <2>2, ConnSet
<1>2. ASSUME NEW k \in Conns, NEW b \in Bots, R!Hello(k, b) PROVE FrontedInv'
  <2>1. CASE R!Admitted(k, b)
    <3> DEFINE v == [conns[k] EXCEPT !.fronted = @ \cup {b}]
    <3>1. /\ v \in [key : Keys \cup {None}, fronted : SUBSET Bots]
          /\ v.key = conns[k].key /\ v.fronted = conns[k].fronted \cup {b}
      BY <1>0
    <3>2. conns' = [conns EXCEPT ![k] = v] /\ UNCHANGED table
      BY <1>2, <2>1 DEF R!Hello
    <3> HIDE DEF v
    <3>3. \A a \in v.fronted : v.key = table[a].key
      BY <2>1, <3>1 DEF R!Admitted, FrontedInv, FrontedIsCurrent
    <3>4. QED
      BY <3>1, <3>2, <3>3, ConnSet
  <2>2. CASE ~R!Admitted(k, b)
    BY <1>0, <1>2, <2>2, ConnSet DEF R!Hello
  <2>3. QED
    BY <2>1, <2>2
<1>3. ASSUME NEW k \in Conns, R!GatewayGone(k) PROVE FrontedInv'
  BY <1>0, <1>3, ConnSet DEF R!GatewayGone
<1>4. ASSUME NEW next \in Tables, R!Reload(next) PROVE FrontedInv'
  <2>0. next \in [Bots -> Keys \cup {None}]
    BY DEF BothAssumption, HubAssumption
  <2>1. table' \in [Bots -> Row] /\ \A b \in Bots : table'[b].key = next[b]
    <3>1. \A b \in Bots : /\ table[b].gen + 1 \in Nat /\ table[b] \in Row
                          /\ [key |-> next[b], gen |-> table[b].gen + 1] \in Row
      BY <2>0 DEF FrontedInv, Row
    <3>2. QED
      BY <1>4, <3>1 DEF R!Reload, Row
  <2>2. \A k \in Conns : /\ conns'[k] \in [key : Keys \cup {None}, fronted : SUBSET Bots]
                         /\ conns'[k].key = conns[k].key
                         /\ conns'[k].fronted = {b \in conns[k].fronted : next[b] = conns[k].key}
    BY <1>0, <1>4 DEF R!Reload, R!Pruned
  <2>3. conns' \in [Conns -> [key : Keys \cup {None}, fronted : SUBSET Bots]]
    BY <1>4, <2>2 DEF R!Reload, R!Pruned
  <2>4. FrontedIsCurrent'
    BY <1>0, <2>1, <2>2 DEF FrontedIsCurrent
  <2>5. QED
    BY <2>1, <2>3, <2>4 DEF FrontedInv, HubAlone
<1>5. CASE UNCHANGED <<table, conns>>
  BY <1>5 DEF FrontedInv, HubAlone, FrontedIsCurrent
<1>6. QED
  BY <1>1, <1>2, <1>3, <1>4, <1>5 DEF R!Next, R!GatewayStep, R!QueueStep, R!Outbound, R!Arrive,
     R!Begin, R!Verified, R!Context, R!gateways

\* The hub half changes the identities only.
LEMMA HubTable ==
  ASSUME BothAssumption, table \in [Bots -> Row], Next
  PROVE  table' \in [Bots -> Row]
<1>1. ASSUME NEW next \in Tables, Reload(next) PROVE table' \in [Bots -> Row]
  <2>1. next \in [Bots -> Keys \cup {None}]
    BY DEF BothAssumption, HubAssumption
  <2>2. \A b \in Bots : [key |-> next[b], gen |-> table[b].gen + 1] \in Row
    BY <2>1 DEF Row
  <2>3. QED
    BY <1>1, <2>2 DEF Reload
<1>2. QED
  BY <1>1 DEF Next, HubStep, FillStep, Reconnect, AuthOk, Listed, ListFails, Lose, Closed, Timeout,
     Receive, FillStart, Invite, FillAnswer, FillFails, FillAsk, Posted, Restart

LEMMA FrontedInit == PartInit => FrontedInv
<1> SUFFICES ASSUME PartInit PROVE FrontedInv
  OBVIOUS
<1>1. table \in [Bots -> Row]
  BY BothAssumption DEF BothAssumption, HubAssumption, PartInit, Init, Row
<1>2. \A k \in Conns : conns[k] = [key |-> None, fronted |-> {}]
  BY DEF PartInit, R!Init, R!NoConn
<1>3. conns \in [Conns -> [key : Keys \cup {None}, fronted : SUBSET Bots]]
  BY DEF PartInit, R!Init, R!NoConn
<1>4. QED
  BY <1>1, <1>2, <1>3 DEF PartInit, FrontedInv, HubAlone, FrontedIsCurrent

LEMMA FrontedNext == FrontedInv /\ [PartNext]_all => FrontedInv'
<1> SUFFICES ASSUME FrontedInv, [PartNext]_all PROVE FrontedInv'
  OBVIOUS
<1>1. CASE Hub(Next)
  BY <1>1, BothAssumption, HubTable DEF Hub, relay, FrontedInv, HubAlone, FrontedIsCurrent
<1>2. CASE Gateways(R!Next)
  BY <1>2, BothAssumption, FrontedStep DEF Gateways
<1>3. CASE UNCHANGED all
  BY <1>3 DEF all, vars, relay, FrontedInv, HubAlone, FrontedIsCurrent
<1>4. QED
  BY <1>1, <1>2, <1>3 DEF PartNext

\* No gateway fronts an identity for which it would not be admitted now.
THEOREM FrontedIsCurrentHolds == PartSpec => []FrontedIsCurrent
<1>1. FrontedInv => FrontedIsCurrent
  BY DEF FrontedInv
<1>2. QED
  BY <1>1, FrontedInit, FrontedNext, PTL DEF PartSpec

-----------------------------------------------------------------------------
(* The bounded memory (dedup.ts).                                            *)

\* Keys are dropped only when a window of newer ones is kept, so that two places of
\* one key are further apart than that.
Spaced(d, max, drop) ==
  /\ d.kept <= Len(d.keys)
  /\ d.kept < Len(d.keys) => d.kept >= Window(max, drop)
  /\ \A i, j \in 1..Len(d.keys) : i < j /\ d.keys[i] = d.keys[j] => j - i > Window(max, drop)
\* Keys recorded after others.
After(old, new) == Len(old) <= Len(new) /\ \A i \in 1..Len(old) : new[i] = old[i]

LEMMA RecordKeeps ==
  ASSUME NEW K, NEW d \in DedupOf(K), NEW key \in K, NEW max \in Nat, NEW drop \in 1..max,
         Spaced(d, max, drop), ~Remembers(d, key)
  PROVE  LET e == Record(d, key, max, drop) IN
         /\ e \in DedupOf(K) /\ Spaced(e, max, drop) /\ After(d.keys, e.keys)
         /\ Len(e.keys) = Len(d.keys) + 1 /\ e.keys[Len(d.keys) + 1] = key
<1> DEFINE e == Record(d, key, max, drop)
           n == Len(d.keys)
           k == IF d.kept < max THEN d.kept + 1 ELSE d.kept + 1 - drop
<1>1. d.keys \in Seq(K) /\ n \in Nat /\ d.kept \in Nat /\ Window(max, drop) \in Int
  BY DEF DedupOf, Window
<1>2. e.keys = Append(d.keys, key) /\ e.kept = k
  BY DEF Record
<1>3. /\ e.keys \in Seq(K) /\ Len(e.keys) = n + 1 /\ e.keys[n + 1] = key
      /\ \A i \in 1..n : e.keys[i] = d.keys[i]
  BY <1>1, <1>2
<1>4. k \in Nat /\ k <= n + 1 /\ (k < n + 1 => k >= Window(max, drop))
  BY <1>1 DEF Spaced, Window
<1>5. \A i \in 1..n : d.keys[i] = key => n + 1 - i > Window(max, drop)
  <2> SUFFICES ASSUME NEW i \in 1..n, d.keys[i] = key PROVE n + 1 - i > Window(max, drop)
    OBVIOUS
  <2>1. ~(n - d.kept + 1 <= i)
    BY <1>1 DEF Remembers
  <2>2. QED
    BY <1>1, <2>1 DEF Spaced, Window
<1>6. e \in DedupOf(K)
  BY <1>2, <1>3, <1>4 DEF Record, DedupOf
<1> HIDE DEF e, k
<1>7. \A i, j \in 1..(n + 1) : i < j /\ e.keys[i] = e.keys[j] => j - i > Window(max, drop)
  <2> SUFFICES ASSUME NEW i \in 1..(n + 1), NEW j \in 1..(n + 1), i < j, e.keys[i] = e.keys[j]
               PROVE  j - i > Window(max, drop)
    OBVIOUS
  <2>1. i \in 1..n /\ e.keys[i] = d.keys[i]
    BY <1>1, <1>3
  <2>2. CASE j = n + 1
    <3>1. d.keys[i] = key
      BY <1>3, <2>1, <2>2
    <3>2. n + 1 - i > Window(max, drop) /\ j - i = n + 1 - i
      BY <1>5, <2>1, <2>2, <3>1
    <3> HIDE DEF n
    <3>3. QED
      BY <3>2
  <2>3. CASE j \in 1..n
    BY <1>1, <1>3, <2>1, <2>3 DEF Spaced
  <2>4. QED
    BY <1>1, <2>2, <2>3
<1>8. Spaced(e, max, drop)
  BY <1>2, <1>3, <1>4, <1>7 DEF Spaced
<1>9. QED
  BY <1>1, <1>3, <1>6, <1>8 DEF After, e

\* Both halves have the same memory.
LEMMA SameDedup ==
  /\ R!NewDedup = NewDedup
  /\ \A d, key : R!Remembers(d, key) = Remembers(d, key)
  /\ \A d, key, max, drop : R!Record(d, key, max, drop) = Record(d, key, max, drop)
BY DEF R!NewDedup, NewDedup, R!Remembers, Remembers, R!Record, Record

-----------------------------------------------------------------------------
(* The queue of an identity in a channel (server.ts, delivered).             *)

\* The keys of envelopes and of ticks.
RelayKeys == (Bots \X Chans \X Ids) \cup ({"tick"} \X Bots \X Chans \X Loops)
Reserved(d) == d \in DedupOf(RelayKeys) /\ Spaced(d, MaxDelivered, DropDelivered)
RelayTypes ==
  /\ queue \in [Bots -> [Chans -> Seq(R!Job)]]
  /\ stage \in [Bots -> [Chans -> {"idle", "verify", "context"}]]
  /\ place \in [Bots -> [Chans -> Nat]]
  /\ got \in [Bots -> Seq(Msgs \X Nat)]
\* The jobs of a queue are of its channel, and only a job is waited for.
OfItsChannel ==
  \A b \in Bots, c \in Chans :
    /\ \A i \in DOMAIN queue[b][c] : queue[b][c][i].m.ch = c
    /\ stage[b][c] # "idle" => queue[b][c] # <<>>

\* The keys of a message are in the places n and, for a tick, n + 1.
Holds(keys, b, m, n) ==
  /\ n \in 1..Len(keys) /\ keys[n] = R!EnvelopeKey(b, m)
  /\ R!IsTick(m) => n + 1 \in 1..Len(keys) /\ keys[n + 1] = R!TickKey(b, m)
\* What has reached a gateway, of a channel, is reserved before place n.
Earlier(g, c, n) == \A i \in DOMAIN g : g[i][1].ch = c => g[i][2] < n
\* What has reached a gateway is reserved, that of a channel in the order it came; what
\* waits for its context is reserved after it.
GotReserved ==
  /\ \A b \in Bots : \A i \in DOMAIN got[b] : Holds(reserved.keys, b, got[b][i][1], got[b][i][2])
  /\ \A b \in Bots : \A i, j \in DOMAIN got[b] :
       i < j /\ got[b][i][1].ch = got[b][j][1].ch => got[b][i][2] < got[b][j][2]
  /\ \A b \in Bots, c \in Chans :
       stage[b][c] = "context" => /\ Holds(reserved.keys, b, Head(queue[b][c]).m, place[b][c])
                                  /\ Earlier(got[b], c, place[b][c])

QueueInv == RelayTypes /\ OfItsChannel /\ Reserved(reserved) /\ GotReserved

\* The oldest job of a queue.
LEMMA HeadFacts ==
  ASSUME QueueInv, BothAssumption, NEW b \in Bots, NEW c \in Chans, queue[b][c] # <<>>
  PROVE  /\ Head(queue[b][c]) \in R!Job /\ Head(queue[b][c]).m \in Msgs
         /\ Head(queue[b][c]).m.ch = c /\ Head(queue[b][c]).m \in R!Msg
         /\ Tail(queue[b][c]) \in Seq(R!Job)
         /\ \A i \in DOMAIN Tail(queue[b][c]) : Tail(queue[b][c])[i].m.ch = c
<1>1. queue[b][c] \in Seq(R!Job) /\ 1 \in DOMAIN queue[b][c] /\ Head(queue[b][c]) = queue[b][c][1]
  BY DEF QueueInv, RelayTypes
<1>2. \A i \in DOMAIN Tail(queue[b][c]) : i + 1 \in DOMAIN queue[b][c] /\ Tail(queue[b][c])[i] = queue[b][c][i + 1]
  BY <1>1
<1>3. \A i \in DOMAIN queue[b][c] : queue[b][c][i].m.ch = c
  BY DEF QueueInv, OfItsChannel
<1>4. Msgs \subseteq R!Msg
  BY DEF BothAssumption, R!RelayAssumption
<1>5. Head(queue[b][c]) \in R!Job /\ Tail(queue[b][c]) \in Seq(R!Job)
  BY <1>1
<1>6. QED
  BY <1>1, <1>2, <1>3, <1>4, <1>5 DEF R!Job

LEMMA HoldsAfter ==
  ASSUME NEW old, NEW new, Len(old) \in Nat, Len(new) \in Nat, After(old, new),
         NEW b, NEW m, NEW n, Holds(old, b, m, n)
  PROVE  Holds(new, b, m, n)
BY DEF Holds, After

\* A queue whose oldest job is done, with a message that reached a gateway or without.
LEMMA DoneKeeps ==
  ASSUME QueueInv, BothAssumption, NEW b \in Bots, NEW c \in Chans, queue[b][c] # <<>>, R!Idle(b, c),
         Reserved(reserved'), After(reserved.keys, reserved'.keys),
         NEW n, UNCHANGED place \/ place' = [place EXCEPT ![b][c] = n],
         n \in Nat,
         \/ UNCHANGED got
         \/ /\ got' = [got EXCEPT ![b] = Append(@, <<Head(queue[b][c]).m, n>>)]
            /\ Holds(reserved'.keys, b, Head(queue[b][c]).m, n)
            /\ Earlier(got[b], c, n)
  PROVE  QueueInv'
<1> DEFINE m == Head(queue[b][c]).m
<1>0. /\ m \in Msgs /\ m.ch = c /\ Tail(queue[b][c]) \in Seq(R!Job)
      /\ \A i \in DOMAIN Tail(queue[b][c]) : Tail(queue[b][c])[i].m.ch = c
  BY HeadFacts
<1> HIDE DEF m
<1>1. /\ queue' \in [Bots -> [Chans -> Seq(R!Job)]] /\ queue'[b][c] = Tail(queue[b][c])
      /\ stage' \in [Bots -> [Chans -> {"idle", "verify", "context"}]] /\ stage'[b][c] = "idle"
      /\ \A a \in Bots, e \in Chans : a # b \/ e # c =>
           queue'[a][e] = queue[a][e] /\ stage'[a][e] = stage[a][e]
  BY <1>0 DEF QueueInv, RelayTypes, R!Idle
<1>2. OfItsChannel'
  <2>1. ASSUME NEW a \in Bots, NEW e \in Chans
        PROVE  /\ \A i \in DOMAIN queue'[a][e] : queue'[a][e][i].m.ch = e
               /\ stage'[a][e] # "idle" => queue'[a][e] # <<>>
    <3>1. CASE a = b /\ e = c
      <4>1. queue'[a][e] = Tail(queue[b][c]) /\ stage'[a][e] = "idle"
        BY <1>1, <3>1
      <4>2. QED
        BY <1>0, <3>1, <4>1
    <3>2. CASE a # b \/ e # c
      <4>1. queue'[a][e] = queue[a][e] /\ stage'[a][e] = stage[a][e]
        BY <1>1, <3>2
      <4>2. QED
        BY <4>1 DEF QueueInv, OfItsChannel
    <3>3. QED
      BY <3>1, <3>2
  <2>2. QED
    BY <2>1 DEF OfItsChannel
<1>3. /\ got' \in [Bots -> Seq(Msgs \X Nat)]
      /\ \A a \in Bots : \A i \in DOMAIN got'[a] :
           \/ i \in DOMAIN got[a] /\ got'[a][i] = got[a][i]
           \/ /\ a = b /\ i = Len(got[b]) + 1 /\ got'[a][i] = <<m, n>>
              /\ Holds(reserved'.keys, b, m, n) /\ Earlier(got[b], c, n)
  <2>1. CASE UNCHANGED got
    BY <2>1 DEF QueueInv, RelayTypes
  <2>2. CASE ~UNCHANGED got
    <3>1. /\ got' = [got EXCEPT ![b] = Append(@, <<m, n>>)]
          /\ Holds(reserved'.keys, b, m, n) /\ Earlier(got[b], c, n)
      BY <2>2 DEF m
    <3>2. got \in [Bots -> Seq(Msgs \X Nat)] /\ <<m, n>> \in Msgs \X Nat
      BY <1>0 DEF QueueInv, RelayTypes
    <3>3. Append(got[b], <<m, n>>) \in Seq(Msgs \X Nat)
      BY <3>2
    <3>4. QED
      BY <3>1, <3>2, <3>3
  <2>3. QED
    BY <2>1, <2>2
<1>4. \A a, x, k : Holds(reserved.keys, a, x, k) => Holds(reserved'.keys, a, x, k)
  <2>1. Len(reserved.keys) \in Nat /\ Len(reserved'.keys) \in Nat
    BY DEF QueueInv, Reserved, DedupOf
  <2>2. QED
    BY <2>1, HoldsAfter
<1>5. \A a \in Bots : \A i \in DOMAIN got'[a] : Holds(reserved'.keys, a, got'[a][i][1], got'[a][i][2])
  BY <1>3, <1>4 DEF QueueInv, GotReserved
<1>6. ASSUME NEW a \in Bots, NEW i \in DOMAIN got'[a], NEW j \in DOMAIN got'[a], i < j,
             got'[a][i][1].ch = got'[a][j][1].ch
      PROVE  got'[a][i][2] < got'[a][j][2]
  <2>1. CASE i \in DOMAIN got[a] /\ j \in DOMAIN got[a] /\ got'[a][i] = got[a][i] /\ got'[a][j] = got[a][j]
    BY <1>6, <2>1 DEF QueueInv, GotReserved
  <2>2. CASE i \in DOMAIN got[a] /\ got'[a][i] = got[a][i] /\ a = b /\ got'[a][j] = <<m, n>> /\ Earlier(got[b], c, n)
    BY <1>0, <1>6, <2>2 DEF Earlier
  <2>3. \A k \in DOMAIN got[a] : k \in Nat /\ k < Len(got[a]) + 1 /\ Len(got[a]) \in Nat
    <3> DEFINE g == got[a]
    <3>1. g \in Seq(Msgs \X Nat)
      BY DEF QueueInv, RelayTypes
    <3> HIDE DEF g
    <3>2. \A k \in DOMAIN g : k \in Nat /\ k < Len(g) + 1 /\ Len(g) \in Nat
      BY <3>1
    <3>3. QED
      BY <3>2 DEF g
  <2>4. ~(a = b /\ i = Len(got[b]) + 1 /\ j = Len(got[b]) + 1)
    <3>1. Len(got[b]) \in Nat
      BY DEF QueueInv, RelayTypes
    <3>2. QED
      BY <1>6, <3>1
  <2>5. ~(a = b /\ i = Len(got[b]) + 1 /\ j \in DOMAIN got[a])
    <3> SUFFICES ASSUME a = b, i = Len(got[b]) + 1, j \in DOMAIN got[a] PROVE FALSE
      OBVIOUS
    <3>1. j \in Nat /\ j < Len(got[b]) + 1 /\ Len(got[b]) \in Nat
      BY <2>3
    <3>2. QED
      BY <1>6, <3>1
  <2>6. QED
    BY <1>3, <2>1, <2>2, <2>4, <2>5
<1>7. ASSUME NEW a \in Bots, NEW e \in Chans, stage'[a][e] = "context"
      PROVE  Holds(reserved'.keys, a, Head(queue'[a][e]).m, place'[a][e]) /\ Earlier(got'[a], e, place'[a][e])
  <2>1. /\ a # b \/ e # c
        /\ queue'[a][e] = queue[a][e] /\ stage[a][e] = "context" /\ queue[a][e] # <<>>
    BY <1>1, <1>7 DEF QueueInv, OfItsChannel
  <2>2. place'[a][e] = place[a][e]
    BY <2>1 DEF QueueInv, RelayTypes
  <2>3. Holds(reserved.keys, a, Head(queue[a][e]).m, place[a][e]) /\ Earlier(got[a], e, place[a][e])
    BY <2>1 DEF QueueInv, GotReserved
  <2>4. \A i \in DOMAIN got'[a] : got'[a][i][1].ch = e => got'[a][i][2] < place[a][e]
    <3> SUFFICES ASSUME NEW i \in DOMAIN got'[a], got'[a][i][1].ch = e PROVE got'[a][i][2] < place[a][e]
      OBVIOUS
    <3>1. ~(a = b /\ got'[a][i] = <<m, n>>)
      BY <1>0, <2>1
    <3>2. i \in DOMAIN got[a] /\ got'[a][i] = got[a][i]
      BY <1>3, <3>1
    <3>3. QED
      BY <2>3, <3>2 DEF Earlier
  <2>5. QED
    BY <1>4, <2>1, <2>2, <2>3, <2>4 DEF Earlier
<1>8. GotReserved'
  BY <1>5, <1>6, <1>7 DEF GotReserved
<1>9. place' \in [Bots -> [Chans -> Nat]]
  <2>1. place \in [Bots -> [Chans -> Nat]]
    BY DEF QueueInv, RelayTypes
  <2>2. [place[b] EXCEPT ![c] = n] \in [Chans -> Nat]
    BY <2>1
  <2>3. place' = place \/ place' = [place EXCEPT ![b] = [place[b] EXCEPT ![c] = n]]
    OBVIOUS
  <2>4. QED
    BY <2>1, <2>2, <2>3
<1>10. QED
  BY <1>1, <1>2, <1>3, <1>8, <1>9 DEF QueueInv, RelayTypes

\* A queue whose oldest job goes to wait for something; for its context, reserved.
LEMMA WaitKeeps ==
  ASSUME QueueInv, BothAssumption, NEW b \in Bots, NEW c \in Chans, queue[b][c] # <<>>,
         NEW where \in {"verify", "context"}, stage' = [stage EXCEPT ![b][c] = where],
         UNCHANGED <<queue, got>>, Reserved(reserved'), After(reserved.keys, reserved'.keys),
         NEW n \in Nat, place' = [place EXCEPT ![b][c] = n],
         where = "context" => Holds(reserved'.keys, b, Head(queue[b][c]).m, n) /\ Earlier(got[b], c, n)
  PROVE  QueueInv'
<1>1. /\ stage' \in [Bots -> [Chans -> {"idle", "verify", "context"}]] /\ stage'[b][c] = where
      /\ \A a \in Bots, e \in Chans : a # b \/ e # c => stage'[a][e] = stage[a][e]
  BY DEF QueueInv, RelayTypes
<1>2. /\ place' \in [Bots -> [Chans -> Nat]] /\ place'[b][c] = n
      /\ \A a \in Bots, e \in Chans : a # b \/ e # c => place'[a][e] = place[a][e]
  <2>1. place \in [Bots -> [Chans -> Nat]]
    BY DEF QueueInv, RelayTypes
  <2>2. [place[b] EXCEPT ![c] = n] \in [Chans -> Nat] /\ [place[b] EXCEPT ![c] = n][c] = n
        /\ \A e \in Chans : e # c => [place[b] EXCEPT ![c] = n][e] = place[b][e]
    BY <2>1
  <2>3. QED
    BY <2>1, <2>2
<1>3. \A a, x, k : Holds(reserved.keys, a, x, k) => Holds(reserved'.keys, a, x, k)
  <2>1. Len(reserved.keys) \in Nat /\ Len(reserved'.keys) \in Nat
    BY DEF QueueInv, Reserved, DedupOf
  <2>2. QED
    BY <2>1, HoldsAfter
<1>4. ASSUME NEW a \in Bots, NEW e \in Chans
      PROVE  /\ stage'[a][e] # "idle" => queue[a][e] # <<>>
             /\ stage'[a][e] = "context" =>
                  Holds(reserved'.keys, a, Head(queue[a][e]).m, place'[a][e]) /\ Earlier(got[a], e, place'[a][e])
  <2>1. CASE a = b /\ e = c
    BY <1>1, <1>2, <2>1
  <2>2. CASE a # b \/ e # c
    BY <1>1, <1>2, <1>3, <2>2 DEF QueueInv, OfItsChannel, GotReserved
  <2>3. QED
    BY <2>1, <2>2
<1>5. OfItsChannel'
  BY <1>4 DEF QueueInv, OfItsChannel
<1>6. GotReserved'
  BY <1>3, <1>4 DEF QueueInv, GotReserved
<1>7. QED
  BY <1>1, <1>2, <1>5, <1>6 DEF QueueInv, RelayTypes

LEMMA AfterSame == \A keys : Len(keys) \in Nat => After(keys, keys)
BY DEF After

\* What a job does once it is past the checks.
LEMMA ProceedKeeps ==
  ASSUME QueueInv, BothAssumption, NEW b \in Bots, NEW c \in Chans, queue[b][c] # <<>>, R!Proceed(b, c)
  PROVE  QueueInv'
<1> DEFINE m == Head(queue[b][c]).m
           env == R!EnvelopeKey(b, m)
           tk == R!TickKey(b, m)
           d == Record(reserved, env, MaxDelivered, DropDelivered)
           n == Len(d.keys)
           dup == R!IsTick(m) /\ Remembers(d, tk)
<1>1. /\ env \in RelayKeys /\ (R!IsTick(m) => tk \in RelayKeys) /\ m.ch = c
      /\ MaxDelivered \in Nat /\ DropDelivered \in 1..MaxDelivered
  <2>1. m \in R!Msg /\ m.ch = c
    BY HeadFacts
  <2>2. m.id \in Ids /\ (R!IsTick(m) => m.tick \in Loops)
    BY <2>1 DEF R!Msg, R!IsTick
  <2>3. QED
    BY <2>1, <2>2 DEF RelayKeys, R!EnvelopeKey, R!TickKey, BothAssumption, R!RelayAssumption
<1>2. /\ reserved \in DedupOf(RelayKeys) /\ Spaced(reserved, MaxDelivered, DropDelivered)
      /\ Len(reserved.keys) \in Nat
  BY DEF QueueInv, Reserved, DedupOf
<1>3. \/ R!Idle(b, c) /\ UNCHANGED <<reserved, place, got>>
      \/ /\ ~Remembers(reserved, env)
         /\ reserved' = IF R!IsTick(m) /\ ~dup THEN Record(d, tk, MaxDelivered, DropDelivered) ELSE d
         /\ place' = [place EXCEPT ![b][c] = n]
         /\ IF dup THEN R!Idle(b, c) /\ UNCHANGED got
            ELSE \/ stage' = [stage EXCEPT ![b][c] = "context"] /\ UNCHANGED <<queue, got>>
                 \/ R!Deliver(b, c, n)
  BY SameDedup DEF R!Proceed, R!Reserve
<1> HIDE DEF d, env, tk
<1>4. CASE R!Idle(b, c) /\ UNCHANGED <<reserved, place, got>>
  <2>1. Reserved(reserved') /\ After(reserved.keys, reserved'.keys) /\ 0 \in Nat
    BY <1>2, <1>4, AfterSame DEF Reserved
  <2>2. QED
    BY <1>4, <2>1, DoneKeeps
<1>5. CASE ~Remembers(reserved, env)
  <2>1. /\ Reserved(d) /\ After(reserved.keys, d.keys) /\ n = Len(reserved.keys) + 1
        /\ d.keys[n] = env /\ n \in Nat
    BY <1>1, <1>2, <1>5, RecordKeeps DEF d, Reserved
  <2>2. Earlier(got[b], c, n)
    <3>1. \A i \in DOMAIN got[b] : got[b][i][2] \in 1..Len(reserved.keys)
      BY DEF QueueInv, GotReserved, Holds
    <3>2. QED
      BY <1>2, <2>1, <3>1 DEF Earlier
  <2>3. CASE dup /\ reserved' = d /\ place' = [place EXCEPT ![b][c] = n] /\ R!Idle(b, c) /\ UNCHANGED got
    BY <2>1, <2>3, DoneKeeps
  <2>4. ASSUME ~dup, place' = [place EXCEPT ![b][c] = n],
               reserved' = IF R!IsTick(m) THEN Record(d, tk, MaxDelivered, DropDelivered) ELSE d
        PROVE  Reserved(reserved') /\ After(reserved.keys, reserved'.keys) /\ Holds(reserved'.keys, b, m, n)
    <3>1. CASE R!IsTick(m)
      <4>1. /\ Reserved(reserved') /\ After(d.keys, reserved'.keys)
            /\ Len(reserved'.keys) = n + 1 /\ reserved'.keys[n + 1] = tk
        BY <1>1, <2>1, <2>4, <3>1, RecordKeeps DEF Reserved
      <4>2. After(reserved.keys, reserved'.keys)
        BY <1>2, <2>1, <4>1 DEF After
      <4>3. QED
        BY <2>1, <4>1, <4>2 DEF Holds, After, env, tk
    <3>2. CASE ~R!IsTick(m)
      BY <2>1, <2>4, <3>2 DEF Holds, env
    <3>3. QED
      BY <3>1, <3>2
  <2>5. ASSUME ~dup, place' = [place EXCEPT ![b][c] = n],
               reserved' = IF R!IsTick(m) THEN Record(d, tk, MaxDelivered, DropDelivered) ELSE d,
               stage' = [stage EXCEPT ![b][c] = "context"], UNCHANGED <<queue, got>>
        PROVE  QueueInv'
    BY <2>1, <2>2, <2>4, <2>5, WaitKeeps
  <2>6. ASSUME ~dup, place' = [place EXCEPT ![b][c] = n],
               reserved' = IF R!IsTick(m) THEN Record(d, tk, MaxDelivered, DropDelivered) ELSE d,
               R!Deliver(b, c, n)
        PROVE  QueueInv'
    <3>1. R!Idle(b, c) /\ (UNCHANGED got \/ got' = [got EXCEPT ![b] = Append(@, <<m, n>>)])
      BY <2>6 DEF R!Deliver
    <3>2. QED
      BY <2>1, <2>2, <2>4, <2>6, <3>1, DoneKeeps
  <2>7. QED
    BY <1>3, <1>4, <1>5, <2>3, <2>5, <2>6
<1>6. QED
  BY <1>3, <1>4, <1>5

LEMMA QueueStepKeeps ==
  ASSUME QueueInv, BothAssumption, table \in [Bots -> Row], R!Next
  PROVE  QueueInv'
<1>0. UNCHANGED reserved => Reserved(reserved') /\ After(reserved.keys, reserved'.keys)
  BY AfterSame DEF QueueInv, Reserved, DedupOf
<1>1. ASSUME NEW b \in Bots, NEW c \in Chans, R!Begin(b, c) PROVE QueueInv'
  <2>1. queue[b][c] # <<>>
    BY <1>1 DEF R!Begin
  <2>2. CASE stage' = [stage EXCEPT ![b][c] = "verify"] /\ UNCHANGED <<queue, reserved, place, got>>
    <3>1. place' = [place EXCEPT ![b][c] = place[b][c]] /\ place[b][c] \in Nat
      BY <2>2 DEF QueueInv, RelayTypes
    <3>2. QED
      BY <1>0, <2>1, <2>2, <3>1, WaitKeeps
  <2>3. CASE R!Idle(b, c) /\ UNCHANGED <<reserved, place, got>>
    BY <1>0, <2>1, <2>3, 0 \in Nat, DoneKeeps
  <2>4. CASE R!Proceed(b, c)
    BY <2>1, <2>4, ProceedKeeps
  <2>5. QED
    BY <1>1, <2>2, <2>3, <2>4 DEF R!Begin
<1>2. ASSUME NEW b \in Bots, NEW c \in Chans, R!Verified(b, c) PROVE QueueInv'
  BY <1>0, <1>2, 0 \in Nat, DoneKeeps, ProceedKeeps DEF R!Verified
<1>3. ASSUME NEW b \in Bots, NEW c \in Chans, R!Context(b, c) PROVE QueueInv'
  <2>1. /\ queue[b][c] # <<>> /\ R!Idle(b, c) /\ UNCHANGED <<reserved, place>>
        /\ \/ UNCHANGED got
           \/ got' = [got EXCEPT ![b] = Append(@, <<Head(queue[b][c]).m, place[b][c]>>)]
    BY <1>3 DEF R!Context, R!Deliver
  <2>2. /\ Holds(reserved.keys, b, Head(queue[b][c]).m, place[b][c]) /\ Earlier(got[b], c, place[b][c])
        /\ place[b][c] \in Nat
    BY <1>3 DEF R!Context, QueueInv, GotReserved, RelayTypes
  <2>3. QED
    BY <1>0, <2>1, <2>2, DoneKeeps
<1>4. ASSUME NEW b \in Bots, NEW m \in Msgs, R!Arrive(b, m) PROVE QueueInv'
  <2> DEFINE job(t) == [m |-> m, gen |-> table[t].gen]
  <2>1. /\ UNCHANGED <<stage, reserved, place, got>>
        /\ queue' = [t \in Bots |-> [queue[t] EXCEPT ![m.ch] =
                      IF t \in R!Targets(b, m) THEN Append(@, job(t)) ELSE @]]
    BY <1>4 DEF R!Arrive
  <2>2. \A t \in Bots : job(t) \in R!Job /\ job(t).m = m
    BY DEF R!Job, Row
  <2> HIDE DEF job
  <2>3. ASSUME NEW t \in Bots, NEW e \in Chans
        PROVE  /\ queue'[t][e] \in Seq(R!Job) /\ DOMAIN queue[t][e] \subseteq DOMAIN queue'[t][e]
               /\ \A i \in DOMAIN queue[t][e] : queue'[t][e][i] = queue[t][e][i]
               /\ \A i \in DOMAIN queue'[t][e] \ DOMAIN queue[t][e] : queue'[t][e][i].m = m /\ m.ch = e
    <3>1. queue[t] \in [Chans -> Seq(R!Job)] /\ queue[t][e] \in Seq(R!Job)
      BY DEF QueueInv, RelayTypes
    <3>2. queue'[t][e] = queue[t][e] \/ (m.ch = e /\ queue'[t][e] = Append(queue[t][e], job(t)))
      BY <2>1, <3>1
    <3>3. CASE queue'[t][e] = queue[t][e]
      BY <3>1, <3>3
    <3>4. CASE m.ch = e /\ queue'[t][e] = Append(queue[t][e], job(t))
      <4>1. job(t) \in R!Job /\ job(t).m = m
        BY <2>2
      <4>2. QED
        BY <3>1, <3>4, <4>1
    <3>5. QED
      BY <3>2, <3>3, <3>4
  <2>4. RelayTypes'
    <3>1. ASSUME NEW t \in Bots PROVE queue'[t] \in [Chans -> Seq(R!Job)]
      <4>1. queue[t] \in [Chans -> Seq(R!Job)] /\ job(t) \in R!Job
        BY <2>2 DEF QueueInv, RelayTypes
      <4>2. queue'[t] = [queue[t] EXCEPT ![m.ch] = IF t \in R!Targets(b, m) THEN Append(@, job(t)) ELSE @]
        BY <2>1
      <4>3. m.ch \in Chans /\ Append(queue[t][m.ch], job(t)) \in Seq(R!Job)
        <5>1. Msgs \subseteq R!Msg
          BY DEF BothAssumption, R!RelayAssumption
        <5>2. QED
          BY <4>1, <5>1 DEF R!Msg
      <4>4. CASE t \in R!Targets(b, m)
        BY <4>1, <4>2, <4>3, <4>4
      <4>5. CASE t \notin R!Targets(b, m)
        BY <4>1, <4>2, <4>5
      <4>6. QED
        BY <4>4, <4>5
    <3>2. queue' \in [Bots -> [Chans -> Seq(R!Job)]]
      BY <2>1, <3>1
    <3>3. QED
      BY <2>1, <3>2 DEF QueueInv, RelayTypes
  <2>5. \A t \in Bots, e \in Chans : queue[t][e] # <<>> =>
          queue'[t][e] # <<>> /\ Head(queue'[t][e]) = Head(queue[t][e])
    <3> SUFFICES ASSUME NEW t \in Bots, NEW e \in Chans, queue[t][e] # <<>>
                 PROVE  queue'[t][e] # <<>> /\ Head(queue'[t][e]) = Head(queue[t][e])
      OBVIOUS
    <3>1. queue[t][e] \in Seq(R!Job) /\ 1 \in DOMAIN queue[t][e]
      BY DEF QueueInv, RelayTypes
    <3>2. QED
      BY <2>3, <3>1
  <2>6. OfItsChannel'
    <3>1. \A t \in Bots, e \in Chans : \A i \in DOMAIN queue'[t][e] : queue'[t][e][i].m.ch = e
      BY <2>3 DEF QueueInv, OfItsChannel
    <3>2. QED
      BY <2>1, <2>5, <3>1 DEF QueueInv, OfItsChannel
  <2>7. GotReserved'
    <3>1. \A t \in Bots, e \in Chans : stage[t][e] = "context" => Head(queue'[t][e]) = Head(queue[t][e])
      BY <2>5 DEF QueueInv, OfItsChannel
    <3>2. QED
      BY <2>1, <3>1 DEF QueueInv, GotReserved, Earlier
  <2>8. QED
    BY <1>0, <2>1, <2>4, <2>6, <2>7 DEF QueueInv
<1>5. CASE UNCHANGED R!jobs
  BY <1>0, <1>5 DEF R!jobs, QueueInv, RelayTypes, OfItsChannel, GotReserved, Earlier
<1>6. QED
  BY <1>1, <1>2, <1>3, <1>4, <1>5 DEF R!Next, R!QueueStep, R!GatewayStep, R!Upgrade, R!Hello, R!GatewayGone,
     R!Outbound, R!Reload

LEMMA NewIsSpaced ==
  ASSUME NEW K, NEW max, NEW drop PROVE NewDedup \in DedupOf(K) /\ Spaced(NewDedup, max, drop)
BY DEF NewDedup, DedupOf, Spaced

LEMMA QueueInit == PartInit => QueueInv
<1> SUFFICES ASSUME PartInit PROVE QueueInv
  OBVIOUS
<1>1. Reserved(reserved)
  BY NewIsSpaced, SameDedup DEF PartInit, R!Init, Reserved
<1>2. QED
  BY <1>1 DEF PartInit, R!Init, QueueInv, RelayTypes, OfItsChannel, GotReserved

LEMMA QueueNext == QueueInv /\ FrontedInv /\ [PartNext]_all => QueueInv' /\ FrontedInv'
<1> SUFFICES ASSUME QueueInv, FrontedInv, [PartNext]_all PROVE QueueInv'
  BY FrontedNext
<1>1. CASE Gateways(R!Next)
  BY <1>1, BothAssumption, QueueStepKeeps DEF Gateways, FrontedInv
<1>2. CASE UNCHANGED relay
  BY <1>2 DEF relay, QueueInv, RelayTypes, OfItsChannel, GotReserved, Earlier, Reserved
<1>3. QED
  BY <1>1, <1>2 DEF PartNext, Hub, all

LEMMA GotApart == QueueInv => DeliveredOnce
<1> SUFFICES ASSUME QueueInv, NEW b \in Bots, NEW i \in DOMAIN got[b], NEW j \in DOMAIN got[b], i < j,
                    got[b][i][1].ch = got[b][j][1].ch,
                    \/ got[b][i][1].id = got[b][j][1].id
                    \/ got[b][i][1].tick = got[b][j][1].tick /\ got[b][j][1].tick # None
             PROVE  got[b][j][2] - got[b][i][2] > Window(MaxDelivered, DropDelivered)
  BY DEF DeliveredOnce, R!Window, Window
<1> DEFINE m == got[b][i][1]
           n == got[b][j][1]
           k == got[b][i][2]
           l == got[b][j][2]
           keys == reserved.keys
<1>0. Window(MaxDelivered, DropDelivered) \in Int
  BY BothAssumption DEF BothAssumption, R!RelayAssumption, Window
<1>1. Holds(keys, b, m, k) /\ Holds(keys, b, n, l) /\ k < l /\ Len(keys) \in Nat
  BY DEF QueueInv, GotReserved, Reserved, DedupOf
<1>2. \A p, q \in 1..Len(keys) : p < q /\ keys[p] = keys[q] => q - p > Window(MaxDelivered, DropDelivered)
  BY DEF QueueInv, Reserved, Spaced
<1> HIDE DEF m, n, k, l, keys
<1>3. ASSUME m.id = n.id, m.ch = n.ch
      PROVE  l - k > Window(MaxDelivered, DropDelivered)
  <2>1. k \in 1..Len(keys) /\ l \in 1..Len(keys) /\ keys[k] = keys[l]
    BY <1>1, <1>3 DEF Holds, R!EnvelopeKey
  <2>2. QED
    BY <1>0, <1>1, <1>2, <2>1
<1>4. ASSUME m.tick = n.tick, m.tick # None, m.ch = n.ch
      PROVE  l - k > Window(MaxDelivered, DropDelivered)
  <2>1. /\ k + 1 \in 1..Len(keys) /\ l + 1 \in 1..Len(keys) /\ keys[k + 1] = keys[l + 1]
        /\ k \in Nat /\ l \in Nat /\ k + 1 < l + 1
    BY <1>1, <1>4 DEF Holds, R!IsTick, R!TickKey
  <2>2. (l + 1) - (k + 1) > Window(MaxDelivered, DropDelivered)
    BY <1>0, <1>2, <2>1
  <2>3. (l + 1) - (k + 1) = l - k
    BY <2>1
  <2>4. QED
    BY <1>0, <2>2, <2>3
<1>5. QED
  BY <1>3, <1>4 DEF m, n, k, l

\* A message, and a tick under whatever ids, reaches the gateway of an identity again
\* only after as many other keys were reserved as MessageDedup always keeps (4001 of
\* dedup.ts), so that its own may have been dropped (server.ts).
THEOREM DeliveredOnceHolds == PartSpec => []DeliveredOnce
<1>1. PartInit => QueueInv /\ FrontedInv
  BY QueueInit, FrontedInit
<1>2. QED
  BY <1>1, GotApart, QueueNext, PTL DEF PartSpec

-----------------------------------------------------------------------------
(* Induction over the numbers, and the pages of a backfill.                  *)

\* Induction over the numbers, of a set of them.
LEMMA FromZero ==
  ASSUME NEW S, 0 \in S, \A n \in Nat : n \in S => n + 1 \in S
  PROVE  Nat \subseteq S
<1> SUFFICES ASSUME Nat \ S # {} PROVE FALSE
  OBVIOUS
<1>1. IsWellFoundedOn(OpToRel(<, Nat), Nat)
  BY NatLessThanWellFounded
<1>2. PICK n \in Nat \ S : \A k \in Nat \ S : <<k, n>> \notin OpToRel(<, Nat)
  BY <1>1, WFMin
<1>3. \A k \in Nat : k < n => k \in S
  BY <1>2 DEF OpToRel
<1>4. CASE n = 0
  BY <1>4
<1>5. CASE n # 0
  <2>1. n - 1 \in Nat /\ n - 1 < n /\ (n - 1) + 1 = n
    BY <1>5
  <2>2. n - 1 \in S
    BY <1>3, <2>1
  <2>3. QED
    BY <1>2, <2>1, <2>2
<1>6. QED
  BY <1>4, <1>5

\* A set of numbers up to a bound has a greatest.
LEMMA Greatest ==
  ASSUME NEW n \in Nat
  PROVE  \A S \in SUBSET (1..n) : S # {} => \E m \in S : \A k \in S : k <= m
<1> DEFINE P(u) == \A S \in SUBSET (1..u) : S # {} => \E m \in S : \A k \in S : k <= m
           U == {u \in Nat : P(u)}
<1>1. 0 \in U
  <2>1. 1..0 = {}
    OBVIOUS
  <2>2. QED
    BY <2>1
<1>2. ASSUME NEW u \in Nat, u \in U PROVE u + 1 \in U
  <2> SUFFICES ASSUME NEW S \in SUBSET (1..(u + 1)), S # {} PROVE \E m \in S : \A k \in S : k <= m
    OBVIOUS
  <2>1. CASE u + 1 \in S
    BY <2>1
  <2>2. CASE u + 1 \notin S
    <3>1. S \in SUBSET (1..u)
      BY <2>2
    <3>2. QED
      BY <1>2, <3>1
  <2>3. QED
    BY <2>1, <2>2
<1> HIDE DEF P
<1>3. Nat \subseteq U
  <2> HIDE DEF U
  <2>1. QED
    BY <1>1, <1>2, FromZero
<1>4. P(n)
  BY <1>3
<1>5. QED
  BY <1>4 DEF P

\* What a message is deduplicated by, of those that were handed over.
KeyOf(h) == DedupKey(h[1], log[h[2]], h[2])
HubKeys == (Bots \cup {None}) \X (1..MaxPosts)
\* What was handed over has its key among those recorded, in the order it came.
HandedRecorded(hd, keys) ==
  /\ \A i \in DOMAIN hd : hd[i][3] \in 1..Len(keys) /\ keys[hd[i][3]] = KeyOf(hd[i])
  /\ \A i, j \in DOMAIN hd : i < j => hd[i][3] < hd[j][3]
\* The cursors, the keys seen and the messages handed over.
WorldTypes == [cursor : [Bots -> [Chans -> 0..MaxPosts]], seen : DedupOf(HubKeys),
               handed : Seq(Bots \X (1..Len(log)) \X Nat)]
Worlds == {w \in WorldTypes : /\ Spaced(w.seen, MaxSeen, DropSeen)
                              /\ HandedRecorded(w.handed, w.seen.keys)}

LogTypes == log \in Seq(Kinds) /\ Len(log) <= MaxPosts

LEMMA LogFacts ==
  ASSUME BothAssumption, LogTypes, NEW n \in 1..Len(log)
  PROVE  log[n] \in Post /\ n \in 1..MaxPosts /\ n \in 0..MaxPosts /\ Len(log) \in Nat
<1>1. Kinds \subseteq Post /\ MaxPosts \in Nat
  BY DEF BothAssumption, HubAssumption
<1>2. QED
  BY <1>1 DEF LogTypes

\* One more message under a key that is recorded now.
LEMMA HandedMore ==
  ASSUME NEW S, NEW hd \in Seq(S), NEW old, NEW new, NEW h \in S,
         Len(old) \in Nat, Len(new) = Len(old) + 1, After(old, new),
         HandedRecorded(hd, old), h[3] = Len(new), new[Len(new)] = KeyOf(h)
  PROVE  Append(hd, h) \in Seq(S) /\ HandedRecorded(Append(hd, h), new)
<1> DEFINE more == Append(hd, h)
           last1 == Len(hd) + 1
<1>1. h[3] \in 1..Len(new) /\ new[h[3]] = KeyOf(h)
  OBVIOUS
<1>2. /\ more \in Seq(S) /\ Len(hd) \in Nat
      /\ DOMAIN more = 1..last1 /\ DOMAIN hd = 1..Len(hd) /\ more[last1] = h
      /\ \A i \in DOMAIN hd : more[i] = hd[i]
  OBVIOUS
<1> HIDE DEF more
<1>3. \A i \in DOMAIN hd : /\ hd[i][3] \in 1..Len(old) /\ hd[i][3] \in 1..Len(new) /\ hd[i][3] < Len(new)
                           /\ new[hd[i][3]] = KeyOf(hd[i])
  BY DEF HandedRecorded, After
<1>4. \A i \in DOMAIN more : more[i][3] \in 1..Len(new) /\ new[more[i][3]] = KeyOf(more[i])
  <2> SUFFICES ASSUME NEW i \in DOMAIN more
               PROVE  more[i][3] \in 1..Len(new) /\ new[more[i][3]] = KeyOf(more[i])
    OBVIOUS
  <2>1. CASE i = last1
    BY <1>1, <1>2, <2>1
  <2>2. CASE i # last1
    <3>1. i \in DOMAIN hd /\ more[i] = hd[i]
      BY <1>2, <2>2
    <3>2. QED
      BY <1>3, <3>1
  <2>3. QED
    BY <2>1, <2>2
<1>5. \A i, j \in DOMAIN more : i < j => more[i][3] < more[j][3]
  <2> SUFFICES ASSUME NEW i \in DOMAIN more, NEW j \in DOMAIN more, i < j
               PROVE  more[i][3] < more[j][3]
    OBVIOUS
  <2>1. i \in DOMAIN hd /\ more[i] = hd[i]
    BY <1>2
  <2>2. CASE j = last1
    BY <1>1, <1>2, <1>3, <2>1, <2>2
  <2>3. CASE j # last1
    <3>1. j \in DOMAIN hd /\ more[j] = hd[j]
      BY <1>2, <2>3
    <3>2. QED
      BY <2>1, <3>1 DEF HandedRecorded
  <2>4. QED
    BY <2>2, <2>3
<1>6. QED
  BY <1>2, <1>4, <1>5 DEF HandedRecorded, more

\* A world of which one part is exchanged.
LEMMA WorldParts ==
  ASSUME NEW C, NEW S, NEW H, NEW w \in [cursor : C, seen : S, handed : H],
         NEW c \in C, NEW s \in S, NEW h \in H
  PROVE  /\ LET v == [w EXCEPT !.cursor = c] IN
            v \in [cursor : C, seen : S, handed : H] /\ v.seen = w.seen /\ v.handed = w.handed
         /\ LET v == [w EXCEPT !.seen = s] IN
            v \in [cursor : C, seen : S, handed : H] /\ v.seen = s /\ v.handed = w.handed
         /\ LET v == [w EXCEPT !.handed = h] IN
            v \in [cursor : C, seen : S, handed : H] /\ v.seen = w.seen /\ v.handed = h
OBVIOUS

\* A message that is ingested leaves the world in order.
LEMMA IngestKeeps ==
  ASSUME BothAssumption, LogTypes, NEW w \in Worlds, NEW b \in Bots, NEW n \in 1..Len(log)
  PROVE  Ingest(w, b, n) \in Worlds
<1> DEFINE m   == log[n]
           key == DedupKey(b, m, n)
           own == m.ch \in Dms /\ IF m.tick THEN m.by # b ELSE m.by = b
           val == IF n > w.cursor[b][m.ch] THEN n ELSE w.cursor[b][m.ch]
           cu  == [w.cursor EXCEPT ![b] = [w.cursor[b] EXCEPT ![m.ch] = val]]
           sn  == Record(w.seen, key, MaxSeen, DropSeen)
           hd  == Append(w.handed, <<b, n, Len(sn.keys)>>)
           w1  == [w EXCEPT !.cursor = cu]
           w2  == [w1 EXCEPT !.seen = sn]
           w3  == [w2 EXCEPT !.handed = hd]
           Curs == [Bots -> [Chans -> 0..MaxPosts]]
           Hds  == Seq(Bots \X (1..Len(log)) \X Nat)
<1>1. m \in Post /\ n \in 1..MaxPosts /\ n \in 0..MaxPosts /\ m.ch \in Chans
  BY LogFacts DEF Post
<1>2. key \in HubKeys /\ \A k : key = KeyOf(<<b, n, k>>)
  BY <1>1 DEF DedupKey, KeyOf, HubKeys
<1>3. /\ w \in [cursor : Curs, seen : DedupOf(HubKeys), handed : Hds]
      /\ w.cursor \in Curs /\ w.seen \in DedupOf(HubKeys) /\ w.handed \in Hds
      /\ Spaced(w.seen, MaxSeen, DropSeen) /\ HandedRecorded(w.handed, w.seen.keys)
  BY DEF Worlds, WorldTypes
<1>5. cu \in Curs
  <2>1. val \in 0..MaxPosts
    BY <1>1, <1>3
  <2> HIDE DEF val, m
  <2>2. QED
    BY <1>1, <1>3, <2>1
<1>6. /\ w1 \in [cursor : Curs, seen : DedupOf(HubKeys), handed : Hds]
      /\ w1.seen = w.seen /\ w1.handed = w.handed
  <2> HIDE DEF cu, Curs, Hds
  <2>1. QED
    BY <1>3, <1>5, WorldParts
<1>7. w1 \in Worlds
  <2> HIDE DEF w1
  <2>1. QED
    BY <1>3, <1>6 DEF Worlds, WorldTypes
<1>4. Ingest(w, b, n) = IF Remembers(w.seen, key) THEN w1 ELSE IF own THEN w2 ELSE w3
  <2> DEFINE v1 == [w EXCEPT !.cursor[b][m.ch] = IF n > @ THEN n ELSE @]
             v2 == [v1 EXCEPT !.seen = Record(@, key, MaxSeen, DropSeen)]
             v3 == [v2 EXCEPT !.handed = Append(@, <<b, n, Len(v2.seen.keys)>>)]
  <2>1. v1 = w1
    BY <1>1, <1>3
  <2>2. Ingest(w, b, n) = IF Remembers(w.seen, key) THEN v1 ELSE IF own THEN v2 ELSE v3
    BY DEF Ingest
  <2>3. v2 = w2
    <3> HIDE DEF w1, v1
    <3>1. QED
      BY <1>6, <2>1
  <2>4. v2 = w2 => v3 = w3
    <3> SUFFICES ASSUME v2 = w2 PROVE v3 = w3
      OBVIOUS
    <3>1. /\ w2 \in [cursor : Curs, seen : {sn}, handed : Hds]
          /\ w2.seen = sn /\ w2.handed = w.handed
      <4> HIDE DEF w1, sn, Curs, Hds
      <4>1. w1 \in [cursor : Curs, seen : {sn, w1.seen}, handed : Hds]
        BY <1>6
      <4>2. QED
        BY <1>6, <4>1
    <3> HIDE DEF v2, w2, sn
    <3>2. QED
      BY <3>1
  <2> HIDE DEF w1, w2, w3, v1, v2, v3, key, own
  <2>5. QED
    BY <2>1, <2>2, <2>3, <2>4
<1>8. ASSUME ~Remembers(w.seen, key) PROVE w2 \in Worlds /\ w3 \in Worlds
  <2>1. MaxSeen \in Nat /\ DropSeen \in 1..MaxSeen
    BY DEF BothAssumption, HubAssumption
  <2>2. /\ sn \in DedupOf(HubKeys) /\ Spaced(sn, MaxSeen, DropSeen) /\ After(w.seen.keys, sn.keys)
        /\ Len(sn.keys) = Len(w.seen.keys) + 1 /\ sn.keys[Len(w.seen.keys) + 1] = key
    <3> HIDE DEF key
    <3>1. QED
      BY <1>2, <1>3, <1>8, <2>1, RecordKeeps
  <2>3. Len(w.seen.keys) \in Nat
    BY <1>3 DEF DedupOf
  <2> HIDE DEF sn, key, w1
  <2>4. HandedRecorded(w.handed, sn.keys)
    <3> DEFINE ho == w.handed
               old == w.seen.keys
               new == sn.keys
    <3>1. /\ After(old, new) /\ HandedRecorded(ho, old) /\ Len(old) \in Nat /\ Len(new) = Len(old) + 1
      BY <1>3, <2>2, <2>3
    <3> HIDE DEF ho, old, new
    <3>2. HandedRecorded(ho, new)
      BY <3>1 DEF HandedRecorded, After
    <3>3. QED
      BY <3>2 DEF ho, new
  <2>5. hd \in Hds /\ HandedRecorded(hd, sn.keys)
    <3>1. sn.keys[Len(sn.keys)] = KeyOf(<<b, n, Len(sn.keys)>>)
      BY <1>2, <2>2
    <3>2. /\ <<b, n, Len(sn.keys)>> \in Bots \X (1..Len(log)) \X Nat
          /\ <<b, n, Len(sn.keys)>>[3] = Len(sn.keys)
      BY <2>2, <2>3
    <3>3. QED
      BY <1>3, <2>2, <2>3, <3>1, <3>2, HandedMore
  <2> HIDE DEF hd, Curs, Hds
  <2>6. w2 \in [cursor : Curs, seen : DedupOf(HubKeys), handed : Hds] /\ w2.seen = sn /\ w2.handed = w.handed
    BY <1>3, <1>5, <1>6, <2>2, WorldParts
  <2> HIDE DEF w2
  <2>7. w3 \in [cursor : Curs, seen : DedupOf(HubKeys), handed : Hds] /\ w3.seen = sn /\ w3.handed = hd
    BY <1>3, <1>5, <2>2, <2>5, <2>6, WorldParts
  <2> HIDE DEF w3
  <2>8. QED
    BY <2>2, <2>4, <2>5, <2>6, <2>7 DEF Worlds, WorldTypes, Curs, Hds
<1>9. QED
  <2> HIDE DEF w1, w2, w3, key, own
  <2>1. QED
    BY <1>4, <1>7, <1>8

\* So does a whole page of a backfill, in whatever world it begins.
LEMMA IngestAllKeeps ==
  ASSUME BothAssumption, LogTypes, Here \in Worlds, NEW b \in Bots, NEW page \in SUBSET (1..Len(log))
  PROVE  IngestAll(b, page) \in Worlds
<1> DEFINE F(g, n) == IF n = 0 THEN Here
                      ELSE IF n \in page THEN Ingest(g[n - 1], b, n) ELSE g[n - 1]
           Good(g, m) == /\ g = [n \in 0..m |-> F(g, n)]
                         /\ \A n \in 0..m : g[n] \in Worlds
           U == {m \in Nat : \E g : Good(g, m)}
           h[n \in 0..Len(log)] == F(h, n)
<1>1. Len(log) \in Nat
  BY DEF LogTypes
<1>2. 0 \in U
  <2> DEFINE g == [n \in 0..0 |-> Here]
  <2>1. \A n \in 0..0 : n = 0
    OBVIOUS
  <2>2. g = [n \in 0..0 |-> F(g, n)]
    BY <2>1
  <2>3. Good(g, 0)
    BY <2>2
  <2>4. QED
    BY <2>3
<1>3. ASSUME NEW m \in Nat, m \in U PROVE m + 1 \in U
  <2>1. PICK g : Good(g, m)
    BY <1>3
  <2> DEFINE k == [n \in 0..(m + 1) |-> IF n <= m THEN g[n] ELSE F(g, n)]
  <2>2. \A n \in 0..m : g[n] = F(g, n) /\ g[n] \in Worlds
    BY <2>1
  <2>3. F(g, m + 1) \in Worlds
    <3>1. g[m] \in Worlds /\ (m + 1) - 1 = m /\ m + 1 # 0
      BY <2>2
    <3>2. CASE m + 1 \in page
      <4>1. Ingest(g[m], b, m + 1) \in Worlds
        BY <3>1, <3>2, IngestKeeps
      <4>2. QED
        BY <3>1, <3>2, <4>1
    <3>3. QED
      BY <3>1, <3>2
  <2>4. \A n \in 0..(m + 1) : k[n] = F(k, n) /\ k[n] \in Worlds
    <3> SUFFICES ASSUME NEW n \in 0..(m + 1) PROVE k[n] = F(k, n) /\ k[n] \in Worlds
      OBVIOUS
    <3>1. n # 0 => n - 1 \in 0..m /\ n - 1 \in 0..(m + 1) /\ n - 1 <= m
      OBVIOUS
    <3>2. n # 0 => k[n - 1] = g[n - 1]
      BY <3>1
    <3>3. F(k, n) = F(g, n)
      <4> HIDE DEF k
      <4>1. QED
        BY <3>2
    <3>4. CASE n <= m
      <4>1. n \in 0..m /\ k[n] = g[n]
        BY <3>4
      <4> HIDE DEF k, F
      <4>2. QED
        BY <4>1, <3>3, <2>2
    <3>5. CASE n = m + 1
      <4>1. k[n] = F(g, n)
        BY <3>5
      <4> HIDE DEF k, F
      <4>2. QED
        BY <4>1, <3>3, <3>5, <2>3
    <3>6. QED
      BY <3>4, <3>5
  <2>5. k = [n \in 0..(m + 1) |-> F(k, n)]
    <3>1. k = [n \in 0..(m + 1) |-> k[n]]
      OBVIOUS
    <3> HIDE DEF k, F
    <3>2. QED
      BY <3>1, <2>4
  <2>6. Good(k, m + 1)
    <3> HIDE DEF k, F
    <3>1. QED
      BY <2>4, <2>5
  <2>7. QED
    <3> HIDE DEF Good
    <3>1. QED
      BY <2>6
<1>4. Len(log) \in U
  <2> HIDE DEF U
  <2>1. QED
    BY <1>1, <1>2, <1>3, FromZero
<1>5. PICK g : Good(g, Len(log))
  BY <1>4
<1>6. h = [n \in 0..Len(log) |-> F(h, n)]
  <2>1. g = [n \in 0..Len(log) |-> F(g, n)]
    BY <1>5
  <2>2. QED
    BY <2>1
<1>7. U \subseteq Nat
  OBVIOUS
<1>8. Nat \subseteq {n \in Nat : n <= Len(log) => h[n] \in Worlds}
  <2> DEFINE V == {n \in Nat : n <= Len(log) => h[n] \in Worlds}
  <2> HIDE DEF h
  <2>1. 0 \in V
    <3>1. 0 \in 0..Len(log)
      BY <1>1
    <3>2. h[0] = F(h, 0)
      BY <3>1, <1>6
    <3>3. QED
      BY <3>2
  <2>2. ASSUME NEW n \in Nat, n \in V PROVE n + 1 \in V
    <3> SUFFICES ASSUME n + 1 <= Len(log) PROVE h[n + 1] \in Worlds
      OBVIOUS
    <3>1. n + 1 \in 0..Len(log) /\ n <= Len(log) /\ (n + 1) - 1 = n /\ n + 1 # 0
      BY <1>1
    <3>2. h[n + 1] = F(h, n + 1) /\ h[n] \in Worlds
      BY <3>1, <1>6, <2>2
    <3>3. CASE n + 1 \in page
      <4>1. Ingest(h[n], b, n + 1) \in Worlds
        BY <3>2, <3>3, IngestKeeps
      <4>2. QED
        BY <4>1, <3>1, <3>2, <3>3
    <3>4. QED
      BY <3>1, <3>2, <3>3
  <2> HIDE DEF V
  <2>3. Nat \subseteq V
    BY <2>1, <2>2, FromZero
  <2>4. QED
    BY <2>3 DEF V
<1>9. h[Len(log)] \in Worlds
  <2> HIDE DEF h
  <2>1. QED
    BY <1>1, <1>8
<1>10. IngestAll(b, page) = h[Len(log)]
  BY DEF IngestAll
<1>11. QED
  BY <1>9, <1>10

-----------------------------------------------------------------------------
(* What the hub half keeps.                                                 *)

Up == {"listing", "live"}
SocketTypes ==
  /\ sock \in [Bots -> {"none", "opening", "listing", "live", "dead", "closed"}]
  /\ joined \in [Bots -> SUBSET Chans] /\ fillDue \in [Bots -> SUBSET Chans]
  /\ due \subseteq Bots
  /\ inbox \in [Bots -> Seq(1..Len(log))]
  /\ \A b \in Bots : sock[b] \notin Up => joined[b] = {} /\ inbox[b] = <<>>
RowTypes ==
  /\ member \subseteq Bots \X Chans /\ table \in [Bots -> Row] /\ faults \in 0..MaxFaults
HubInv == RowTypes /\ SocketTypes /\ fills \subseteq Fill /\ LogTypes /\ Here \in Worlds

LEMMA SameWorlds == log' = log => Worlds' = Worlds
BY DEF Worlds, WorldTypes, HandedRecorded, KeyOf

\* Nothing is posted and nothing is ingested.
LEMMA Still ==
  ASSUME LogTypes, Here \in Worlds, UNCHANGED <<log, ingested>>
  PROVE  LogTypes' /\ Here' \in Worlds'
<1>1. Worlds' = Worlds /\ Here' = Here
  BY SameWorlds DEF ingested, Here
<1>2. QED
  BY <1>1 DEF LogTypes

\* What is ingested leaves the world in order.
LEMMA LeaveKeeps ==
  ASSUME LogTypes, NEW w \in Worlds, Leave(w), UNCHANGED log
  PROVE  LogTypes' /\ Here' \in Worlds'
<1>1. Worlds' = Worlds
  BY SameWorlds
<1>2. w = [cursor |-> w.cursor, seen |-> w.seen, handed |-> w.handed]
  BY DEF Worlds, WorldTypes
<1>3. Here' = w
  BY <1>2 DEF Here, Leave
<1>4. QED
  BY <1>1, <1>3 DEF LogTypes

LEMMA FaultTypes ==
  ASSUME BothAssumption, faults \in 0..MaxFaults, Fault \/ UNCHANGED faults
  PROVE  faults' \in 0..MaxFaults
BY DEF BothAssumption, HubAssumption, Fault

\* Steps of a socket and of its timers.
LEMMA SocketSteps ==
  ASSUME BothAssumption, HubInv, NEW b \in Bots,
         \/ Reconnect(b) \/ AuthOk(b) \/ Listed(b) \/ ListFails(b) \/ Lose(b) \/ Closed(b) \/ Timeout(b)
  PROVE  HubInv'
<1>1. UNCHANGED <<member, table, fills, ingested, log>> /\ (Fault \/ UNCHANGED faults)
  BY DEF Reconnect, AuthOk, Listed, ListFails, Lose, Closed, Timeout
<1>2. RowTypes' /\ fills' \subseteq Fill
  BY <1>1, FaultTypes DEF HubInv, RowTypes
<1>3. LogTypes' /\ Here' \in Worlds'
  BY <1>1, Still DEF HubInv
<1>4. In(b) \subseteq Chans
  BY DEF In
<1>5. <<>> \in Seq(1..Len(log))
  OBVIOUS
<1>6. SocketTypes'
  <2>1. CASE Reconnect(b)
    BY <1>1, <1>5, <2>1 DEF HubInv, SocketTypes, Reconnect, Connecting, Up
  <2>2. CASE AuthOk(b)
    BY <2>2 DEF HubInv, SocketTypes, AuthOk, Up
  <2>3. CASE Listed(b)
    BY <1>4, <2>3 DEF HubInv, SocketTypes, Listed, Up
  <2>4. CASE ListFails(b)
    BY <2>4 DEF HubInv, SocketTypes, ListFails, Up
  <2>5. CASE Lose(b)
    BY <1>4, <1>5, <2>5 DEF HubInv, SocketTypes, Lose, Up
  <2>6. CASE Closed(b)
    BY <2>6 DEF HubInv, SocketTypes, Closed, Up
  <2>7. CASE Timeout(b)
    BY <2>7 DEF HubInv, SocketTypes, Timeout, Up
  <2>8. QED
    BY <2>1, <2>2, <2>3, <2>4, <2>5, <2>6, <2>7
<1>7. QED
  BY <1>2, <1>3, <1>6 DEF HubInv, Fill

LEMMA OfSeq ==
  ASSUME NEW S, NEW s \in Seq(S), s # <<>>
  PROVE  Head(s) \in S /\ Tail(s) \in Seq(S)
OBVIOUS

LEMMA SeqWider ==
  ASSUME NEW S, NEW T, S \subseteq T, NEW s \in Seq(S)
  PROVE  s \in Seq(T)
OBVIOUS

LEMMA LongerSeq ==
  ASSUME NEW S, NEW s \in Seq(S), NEW x \in S
  PROVE  Append(s, x) \in Seq(S)
OBVIOUS

LEMMA ReceiveKeeps ==
  ASSUME BothAssumption, HubInv, NEW b \in Bots, Receive(b)
  PROVE  HubInv'
<1>1. inbox[b] \in Seq(1..Len(log)) /\ inbox[b] # <<>>
  BY DEF HubInv, SocketTypes, Receive
<1>2. Head(inbox[b]) \in 1..Len(log) /\ Tail(inbox[b]) \in Seq(1..Len(log))
  BY <1>1, OfSeq
<1>3. Ingest(Here, b, Head(inbox[b])) \in Worlds
  BY <1>2, IngestKeeps DEF HubInv
<1>4. LogTypes' /\ Here' \in Worlds'
  BY <1>3, LeaveKeeps DEF HubInv, Receive
<1>5. SocketTypes'
  BY <1>2 DEF HubInv, SocketTypes, Receive, Up
<1>6. QED
  BY <1>4, <1>5 DEF HubInv, RowTypes, Fill, Receive

LEMMA InviteKeeps ==
  ASSUME BothAssumption, HubInv, NEW b \in Bots, NEW c \in Chans, Invite(b, c)
  PROVE  HubInv'
<1>1. LogTypes' /\ Here' \in Worlds'
  BY Still DEF HubInv, Invite
<1>2. SocketTypes'
  BY DEF HubInv, SocketTypes, Invite, Up
<1>3. QED
  BY <1>1, <1>2 DEF HubInv, RowTypes, Fill, Invite

\* The page of a backfill is of messages that are there.
LEMMA NewestFacts ==
  ASSUME BothAssumption, LogTypes, NEW c \in Chans, NEW upto \in 0..Len(log)
  PROVE  Newest(c, upto) \in 0..MaxPosts
<1> DEFINE S == {n \in 1..upto : log[n].ch = c}
<1>1. Len(log) \in Nat /\ Len(log) <= MaxPosts /\ MaxPosts \in Nat
  BY DEF LogTypes, BothAssumption, HubAssumption
<1>2. CASE S = {}
  BY <1>1, <1>2 DEF Newest
<1>3. CASE S # {}
  <2>1. S \in SUBSET (1..upto) /\ upto \in Nat
    BY <1>1
  <2>2. \E m \in S : \A k \in S : k <= m
    BY <1>3, <2>1, Greatest
  <2>3. Newest(c, upto) = CHOOSE m \in S : \A k \in S : k <= m
    BY <1>3 DEF Newest
  <2>4. Newest(c, upto) \in S
    BY <2>2, <2>3
  <2>5. QED
    BY <1>1, <2>1, <2>4
<1>4. QED
  BY <1>2, <1>3

\* Steps of a backfill.
LEMMA FillSteps ==
  ASSUME BothAssumption, HubInv, \E f \in fills : FillStep(f)
  PROVE  HubInv'
<1>1. PICK f \in fills : FillStep(f)
  OBVIOUS
<1>2. /\ f \in Fill /\ f.bot \in Bots /\ f.at \in Chans \cup {None} /\ f.after \in Nat /\ f.since \in Nat
      /\ f.gen \in Nat /\ f.rest \in SUBSET Chans
  BY DEF HubInv, Fill
<1>3. Answered(f) \subseteq Fill
  <2> DEFINE g == [f EXCEPT !.at = None, !.after = 0, !.since = 0]
  <2>1. g \in Fill
    BY <1>2 DEF Fill
  <2>2. Answered(f) \subseteq fills \cup {g}
    BY DEF Answered
  <2> HIDE DEF g
  <2>3. QED
    BY <2>1, <2>2 DEF HubInv
<1>4. SocketTypes' /\ RowTypes' /\ log' = log
  <2>1. UNCHANGED <<member, table, hub, log>> /\ (Fault \/ UNCHANGED faults)
    BY <1>1 DEF FillStep, FillAnswer, FillFails, FillAsk
  <2>2. QED
    BY <2>1, FaultTypes DEF HubInv, SocketTypes, RowTypes, hub
<1>5. CASE FillAnswer(f)
  <2>1. PICK upto \in f.since..Len(log) :
          IF ~Current(f) THEN UNCHANGED ingested
          ELSE IF f.after = 0
          THEN /\ cursor' = [cursor EXCEPT ![f.bot][f.at] =
                               IF Newest(f.at, upto) = 0 THEN @ ELSE Newest(f.at, upto)]
               /\ UNCHANGED <<seen, handed>>
          ELSE Leave(IngestAll(f.bot, Replay(f.bot, Page(f.at, f.after, upto))))
    BY <1>5 DEF FillAnswer
  <2>2. upto \in 0..Len(log) /\ f.at \in Chans
    BY <1>2, <1>5 DEF FillAnswer, HubInv, LogTypes
  <2>3. ASSUME UNCHANGED ingested PROVE LogTypes' /\ Here' \in Worlds'
    BY <2>3, <1>4, Still DEF HubInv
  <2>4. ASSUME /\ cursor' = [cursor EXCEPT ![f.bot][f.at] =
                                IF Newest(f.at, upto) = 0 THEN @ ELSE Newest(f.at, upto)]
               /\ UNCHANGED <<seen, handed>>
        PROVE  LogTypes' /\ Here' \in Worlds'
    <3> DEFINE val == IF Newest(f.at, upto) = 0 THEN cursor[f.bot][f.at] ELSE Newest(f.at, upto)
               w == [cursor |-> cursor', seen |-> seen, handed |-> handed]
    <3>1. cursor \in [Bots -> [Chans -> 0..MaxPosts]]
      BY DEF HubInv, Worlds, WorldTypes, Here
    <3>2. Newest(f.at, upto) \in 0..MaxPosts
      BY <2>2, NewestFacts DEF HubInv
    <3>3. val \in 0..MaxPosts
      BY <1>2, <2>2, <3>1, <3>2
    <3>4. cursor' = [cursor EXCEPT ![f.bot] = [cursor[f.bot] EXCEPT ![f.at] = val]]
      BY <2>4, <3>1, <1>2
    <3> HIDE DEF val
    <3>5. cursor' \in [Bots -> [Chans -> 0..MaxPosts]]
      BY <3>1, <3>3, <3>4, <1>2, <2>2
    <3>6. w \in Worlds
      BY <3>5 DEF HubInv, Worlds, WorldTypes, Here
    <3>7. Leave(w)
      BY <2>4 DEF Leave
    <3> HIDE DEF w
    <3>8. QED
      BY <3>6, <3>7, <1>4, LeaveKeeps DEF HubInv
  <2>5. ASSUME Leave(IngestAll(f.bot, Replay(f.bot, Page(f.at, f.after, upto))))
        PROVE  LogTypes' /\ Here' \in Worlds'
    <3> DEFINE page == Replay(f.bot, Page(f.at, f.after, upto))
    <3>1. page \in SUBSET (1..Len(log))
      BY <1>2, <2>2 DEF Replay, Page, HubInv, LogTypes
    <3> HIDE DEF page
    <3>2. IngestAll(f.bot, page) \in Worlds
      BY <1>2, <3>1, IngestAllKeeps DEF HubInv
    <3>3. QED
      BY <2>5, <3>2, <1>4, LeaveKeeps DEF HubInv, page
  <2>6. LogTypes' /\ Here' \in Worlds'
    BY <2>1, <2>3, <2>4, <2>5
  <2>7. QED
    BY <1>3, <1>4, <1>5, <2>6 DEF HubInv, FillAnswer, Fill
<1>6. CASE FillFails(f)
  BY <1>3, <1>4, <1>6, Still DEF HubInv, FillFails, Fill
<1>7. ASSUME NEW c \in Chans, FillAsk(f, c) PROVE HubInv'
  <2>1. cursor[f.bot][c] \in Nat /\ Len(log) \in Nat
    BY <1>2 DEF HubInv, Worlds, WorldTypes, Here, LogTypes
  <2> DEFINE g == [f EXCEPT !.at = c, !.rest = @ \ {c}, !.after = cursor[f.bot][c], !.since = Len(log)]
  <2>2. g \in Fill
    BY <1>2, <2>1 DEF Fill
  <2>3. fills' = (fills \ {f}) \cup {g}
    BY <1>7 DEF FillAsk
  <2> HIDE DEF g
  <2>4. fills' \subseteq Fill
    BY <2>2, <2>3 DEF HubInv
  <2>5. QED
    BY <1>4, <1>7, <2>4, Still DEF HubInv, FillAsk, Fill
<1>8. QED
  BY <1>1, <1>5, <1>6, <1>7 DEF FillStep

LEMMA FillStartKeeps ==
  ASSUME BothAssumption, HubInv, NEW b \in Bots, FillStart(b)
  PROVE  HubInv'
<1>1. LogTypes' /\ Here' \in Worlds'
  BY Still DEF HubInv, FillStart
<1>2. SocketTypes' /\ RowTypes'
  BY DEF HubInv, SocketTypes, RowTypes, FillStart, Up
<1>3. table[b].gen \in Nat /\ fillDue[b] \subseteq Chans
  BY DEF HubInv, RowTypes, SocketTypes, Row
<1>4. fills' \subseteq Fill
  BY <1>3 DEF HubInv, FillStart, Fill
<1>5. QED
  BY <1>1, <1>2, <1>4 DEF HubInv, Fill

\* A message is posted; those before it stay as they are.
LEMMA PostedKeeps ==
  ASSUME BothAssumption, HubInv, NEW m \in Kinds, Posted(m)
  PROVE  HubInv'
<1>1. /\ log \in Seq(Kinds) /\ Len(log) \in Nat /\ Len(log) < MaxPosts /\ MaxPosts \in Nat
      /\ log' = Append(log, m)
  BY DEF HubInv, LogTypes, Posted, BothAssumption, HubAssumption
<1>2. /\ LogTypes' /\ Len(log') = Len(log) + 1
      /\ \A n \in 1..Len(log) : log'[n] = log[n]
  BY <1>1 DEF LogTypes
<1>3. ASSUME NEW w \in Worlds PROVE w \in Worlds'
  <2>1. /\ w.handed \in Seq(Bots \X (1..Len(log)) \X Nat)
        /\ \A i \in DOMAIN w.handed : w.handed[i] \in Bots \X (1..Len(log)) \X Nat
    BY DEF Worlds, WorldTypes
  <2>2. Bots \X (1..Len(log)) \X Nat \subseteq Bots \X (1..Len(log')) \X Nat
    BY <1>1, <1>2
  <2>3. w.handed \in Seq(Bots \X (1..Len(log')) \X Nat)
    BY <2>1, <2>2, SeqWider
  <2>4. \A i \in DOMAIN w.handed : KeyOf(w.handed[i])' = KeyOf(w.handed[i])
    BY <1>2, <2>1 DEF KeyOf
  <2>5. HandedRecorded(w.handed, w.seen.keys)'
    BY <2>4 DEF Worlds, HandedRecorded
  <2>6. QED
    BY <2>3, <2>5 DEF Worlds, WorldTypes
<1>4. Here' \in Worlds'
  <2>1. Here' = Here
    BY DEF Posted, Here, ingested
  <2>2. QED
    BY <1>3, <2>1 DEF HubInv
<1>5. SocketTypes'
  <2>1. \A b \in Bots : inbox[b] \in Seq(1..Len(log')) /\ Len(log) + 1 \in 1..Len(log')
    BY <1>1, <1>2, SeqWider DEF HubInv, SocketTypes
  <2>2. ASSUME NEW b \in Bots PROVE inbox'[b] \in Seq(1..Len(log'))
    <3>1. Append(inbox[b], Len(log) + 1) \in Seq(1..Len(log'))
      BY <2>1, LongerSeq
    <3>2. QED
      BY <2>1, <3>1 DEF Posted
  <2>3. QED
    BY <2>2 DEF Posted, HubInv, SocketTypes, Up
<1>6. QED
  BY <1>2, <1>4, <1>5 DEF HubInv, RowTypes, Fill, Posted

LEMMA ReloadKeeps ==
  ASSUME BothAssumption, HubInv, NEW t \in Tables, Reload(t)
  PROVE  HubInv'
<1>1. LogTypes' /\ Here' \in Worlds'
  BY Still DEF HubInv, Reload
<1>2. table' \in [Bots -> Row] /\ faults' \in 0..MaxFaults
  BY HubTable, FaultTypes DEF HubInv, RowTypes, Reload, Next
<1>3. <<>> \in Seq(1..Len(log))
  OBVIOUS
<1>4. SocketTypes'
  BY <1>3 DEF HubInv, SocketTypes, Reload, Up
<1>5. QED
  BY <1>1, <1>2, <1>4 DEF HubInv, RowTypes, Fill, Reload

LEMMA RestartKeeps ==
  ASSUME BothAssumption, HubInv, NEW from \in [Bots -> [Chans -> 0..Len(log)]], Restart(from)
  PROVE  HubInv'
<1>1. from \in [Bots -> [Chans -> 0..MaxPosts]]
  BY DEF HubInv, LogTypes, BothAssumption, HubAssumption
<1>2. Here' = [cursor |-> from, seen |-> NewDedup, handed |-> <<>>] /\ Worlds' = Worlds
  BY SameWorlds DEF Restart, Here
<1>3. Here' \in Worlds'
  BY <1>1, <1>2, NewIsSpaced DEF Worlds, WorldTypes, HandedRecorded
<1>4. <<>> \in Seq(1..Len(log))
  OBVIOUS
<1>5. SocketTypes'
  BY <1>4 DEF HubInv, SocketTypes, Restart, Boot, Up
<1>6. faults' \in 0..MaxFaults
  BY FaultTypes DEF HubInv, RowTypes, Restart
<1>7. QED
  BY <1>3, <1>5, <1>6 DEF HubInv, RowTypes, LogTypes, Fill, Restart

\* A step of the hub half keeps what its variables are.
LEMMA HubSteps ==
  ASSUME BothAssumption, HubInv, Next
  PROVE  HubInv'
<1>1. ASSUME NEW b \in Bots, HubStep(b) PROVE HubInv'
  BY <1>1, SocketSteps, ReceiveKeeps, FillStartKeeps, InviteKeeps DEF HubStep
<1>2. QED
  BY <1>1, FillSteps, PostedKeeps, ReloadKeeps, RestartKeeps DEF Next

\* So do the gateways, which share the identities and the bound on faults.
LEMMA HubRests ==
  ASSUME BothAssumption, HubInv, table' \in [Bots -> Row], faults' \in 0..MaxFaults,
         UNCHANGED <<member, hub, fills, ingested, log>>
  PROVE  HubInv'
<1>1. LogTypes' /\ Here' \in Worlds'
  BY Still DEF HubInv
<1>2. QED
  BY <1>1 DEF HubInv, RowTypes, SocketTypes, Fill, hub

LEMMA GatewayFaults ==
  ASSUME BothAssumption, faults \in 0..MaxFaults, R!Next
  PROVE  faults' \in 0..MaxFaults
<1>1. R!Fault \/ UNCHANGED faults
  BY DEF R!Next, R!QueueStep, R!GatewayStep, R!Begin, R!Verified, R!Context, R!Arrive, R!Upgrade, R!Hello,
         R!GatewayGone, R!Outbound, R!Reload
<1>2. QED
  BY <1>1 DEF R!Fault, BothAssumption, HubAssumption

LEMMA HubInit == PartInit => HubInv
<1> SUFFICES ASSUME PartInit PROVE HubInv
  OBVIOUS
<1>1. /\ Init /\ MaxPosts \in Nat /\ MaxFaults \in Nat /\ Members \subseteq Bots \X Chans
      /\ Tables \subseteq [Bots -> Keys \cup {None}]
  BY BothAssumption DEF PartInit, BothAssumption, HubAssumption
<1>2. table \in [Bots -> Row]
  BY <1>1 DEF Init, Row
<1>3. <<>> \in Seq(1..Len(log)) /\ <<>> \in Seq(Kinds) /\ <<>> \in Seq(Bots \X (1..Len(log)) \X Nat) /\ Len(<<>>) = 0
  OBVIOUS
<1>4. SocketTypes
  BY <1>1, <1>3 DEF Init, SocketTypes, Boot, Up
<1>5. Here \in Worlds
  <2>1. cursor \in [Bots -> [Chans -> 0..MaxPosts]]
    BY <1>1 DEF Init
  <2>2. Here = [cursor |-> cursor, seen |-> NewDedup, handed |-> <<>>]
    BY <1>1 DEF Init, Here
  <2>3. Here \in WorldTypes
    <3> DEFINE S == DedupOf(HubKeys)
               H == Seq(Bots \X (1..Len(log)) \X Nat)
    <3>1. NewDedup \in S /\ <<>> \in H
      BY NewIsSpaced
    <3> HIDE DEF S, H
    <3>2. Here \in [cursor : [Bots -> [Chans -> 0..MaxPosts]], seen : S, handed : H]
      BY <2>1, <2>2, <3>1
    <3>3. QED
      BY <3>2 DEF S, H, WorldTypes
  <2>4. Here.seen = NewDedup /\ Here.handed = <<>> /\ DOMAIN <<>> = {}
    BY <2>2
  <2>5. HandedRecorded(Here.handed, Here.seen.keys)
    BY <2>4 DEF HandedRecorded
  <2>6. Spaced(Here.seen, MaxSeen, DropSeen)
    BY <2>4, NewIsSpaced
  <2>7. QED
    BY <2>3, <2>5, <2>6 DEF Worlds
<1>6. QED
  BY <1>1, <1>2, <1>3, <1>4, <1>5 DEF Init, HubInv, RowTypes, LogTypes

LEMMA HubNext == HubInv /\ FrontedInv /\ [PartNext]_all => HubInv' /\ FrontedInv'
<1> SUFFICES ASSUME HubInv, FrontedInv, [PartNext]_all PROVE HubInv'
  BY FrontedNext
<1>1. CASE Hub(Next)
  BY <1>1, BothAssumption, HubSteps DEF Hub
<1>2. CASE Gateways(R!Next)
  <2>1. table' \in [Bots -> Row]
    BY FrontedNext DEF FrontedInv
  <2>2. faults' \in 0..MaxFaults
    BY <1>2, BothAssumption, GatewayFaults DEF Gateways, HubInv, RowTypes
  <2>3. QED
    BY <1>2, <2>1, <2>2, BothAssumption, HubRests DEF Gateways
<1>3. CASE UNCHANGED all
  <2>1. table' \in [Bots -> Row] /\ faults' \in 0..MaxFaults
    BY <1>3 DEF all, vars, HubInv, RowTypes
  <2>2. QED
    BY <1>3, <2>1, BothAssumption, HubRests DEF all, vars
<1>4. QED
  BY <1>1, <1>2, <1>3 DEF PartNext

LEMMA HandedApart == HubInv => HandedOnce
<1> SUFFICES ASSUME HubInv, NEW i \in DOMAIN handed, NEW j \in DOMAIN handed, i < j,
                    handed[i][2] = handed[j][2],
                    log[handed[i][2]].ch \in Dms => handed[i][1] = handed[j][1]
             PROVE  handed[j][3] - handed[i][3] > Window(MaxSeen, DropSeen)
  BY DEF HandedOnce
<1>1. KeyOf(handed[i]) = KeyOf(handed[j])
  BY DEF KeyOf, DedupKey
<1>2. HandedRecorded(handed, seen.keys) /\ Spaced(seen, MaxSeen, DropSeen)
  BY DEF HubInv, Here, Worlds
<1>3. /\ handed[i][3] \in 1..Len(seen.keys) /\ handed[j][3] \in 1..Len(seen.keys)
      /\ seen.keys[handed[i][3]] = seen.keys[handed[j][3]] /\ handed[i][3] < handed[j][3]
  BY <1>1, <1>2 DEF HandedRecorded
<1>4. QED
  BY <1>2, <1>3 DEF Spaced

\* Within the life of a process a message is handed over again, whoever's socket or backfill
\* brings it, only after as many other keys were recorded as MessageDedup always keeps
\* (4001 of dedup.ts), for any number of identities, channels and backfills.
THEOREM HandedOnceHolds == PartSpec => []HandedOnce
<1>1. PartInit => HubInv /\ FrontedInv
  BY HubInit, FrontedInit
<1>2. QED
  BY <1>1, HubNext, HandedApart, PTL DEF PartSpec

-----------------------------------------------------------------------------
(* Types.                                                                   *)

LastTypes == last \in [Bots -> [Chans -> Nat]]

LEMMA LastSteps ==
  ASSUME BothAssumption, QueueInv, LastTypes, R!Next
  PROVE  LastTypes'
<1>1. ASSUME NEW b \in Bots, NEW c \in Chans, R!Context(b, c) PROVE LastTypes'
  <2> DEFINE n == Head(queue[b][c]).m.at
             v == IF n > last[b][c] THEN n ELSE last[b][c]
  <2>1. n \in Nat /\ last[b][c] \in Nat
    BY <1>1, HeadFacts DEF R!Context, R!Msg, LastTypes
  <2>2. last' = [last EXCEPT ![b] = [last[b] EXCEPT ![c] = v]] /\ v \in Nat
    BY <1>1, <2>1 DEF R!Context, LastTypes
  <2> HIDE DEF v
  <2>3. QED
    BY <2>2 DEF LastTypes
<1>2. CASE UNCHANGED last
  BY <1>2 DEF LastTypes
<1>3. QED
  BY <1>1, <1>2 DEF R!Next, R!QueueStep, R!GatewayStep, R!Begin, R!Verified, R!Arrive, R!Upgrade, R!Hello,
     R!GatewayGone, R!Outbound, R!Reload, R!jobs

LEMMA InvsGiveTypes == HubInv /\ FrontedInv /\ QueueInv /\ LastTypes => TypeOK
<1> SUFFICES ASSUME HubInv, FrontedInv, QueueInv, LastTypes PROVE TypeOK
  OBVIOUS
<1>1. 1..Len(log) \subseteq 1..MaxPosts /\ MaxPosts \in Nat
  BY BothAssumption DEF BothAssumption, HubAssumption, HubInv, LogTypes
<1>2. Bots \X (1..Len(log)) \X Nat \subseteq Bots \X (1..MaxPosts) \X Nat
  BY <1>1
<1>3. handed \in Seq(Bots \X (1..MaxPosts) \X Nat)
  BY <1>2, SeqWider DEF HubInv, Worlds, WorldTypes, Here
<1>4. \A b \in Bots : inbox[b] \in Seq(1..MaxPosts)
  BY <1>1, SeqWider DEF HubInv, SocketTypes
<1>5. ASSUME NEW b \in Bots
      PROVE  /\ inbox[b] \in Seq(1..MaxPosts) /\ got[b] \in Seq(Msgs \X Nat)
             /\ sock[b] \in {"none", "opening", "dead", "closed"} => joined[b] = {} /\ inbox[b] = <<>>
             /\ \A c \in Chans :
                  /\ queue[b][c] \in Seq(R!Job) /\ last[b][c] \in Nat /\ place[b][c] \in Nat
                  /\ stage[b][c] \in {"idle", "verify", "context"}
                  /\ stage[b][c] # "idle" => queue[b][c] # <<>>
  <2>1. sock[b] \in {"none", "opening", "dead", "closed"} => joined[b] = {} /\ inbox[b] = <<>>
    BY DEF HubInv, SocketTypes, Up
  <2>2. got[b] \in Seq(Msgs \X Nat)
    BY DEF QueueInv, RelayTypes
  <2>3. ASSUME NEW c \in Chans
        PROVE  /\ queue[b][c] \in Seq(R!Job) /\ last[b][c] \in Nat /\ place[b][c] \in Nat
               /\ stage[b][c] \in {"idle", "verify", "context"}
               /\ stage[b][c] # "idle" => queue[b][c] # <<>>
    BY DEF QueueInv, RelayTypes, OfItsChannel, LastTypes
  <2>4. QED
    BY <1>4, <2>1, <2>2, <2>3
<1>6. QED
  BY <1>3, <1>5 DEF TypeOK, HubInv, RowTypes, SocketTypes, LogTypes, Worlds, WorldTypes, HubKeys, Here, FrontedInv

\* The variables keep their types, in both halves.
THEOREM TypeCorrect == PartSpec => []TypeOK
<1>1. PartInit => HubInv /\ FrontedInv /\ QueueInv /\ LastTypes
  <2>1. PartInit => LastTypes
    BY DEF PartInit, R!Init, LastTypes
  <2>2. QED
    BY <2>1, HubInit, FrontedInit, QueueInit
<1>2. QueueInv /\ LastTypes /\ [PartNext]_all => LastTypes'
  BY BothAssumption, LastSteps DEF PartNext, Hub, Gateways, all, relay, LastTypes
<1>3. QED
  BY <1>1, <1>2, HubNext, QueueNext, InvsGiveTypes, PTL DEF PartSpec
=============================================================================
