--------------------------- MODULE McpSlotProofs ---------------------------
(***************************************************************************)
(* One identity of the MCP server, for any number of channels, messages,   *)
(* page size, overlapping backfills and process lives.                     *)
(***************************************************************************)
EXTENDS McpSlotProps, TLAPS

USE DEF proc, conn, beat, fetches, heard, marks, history

Inv == TypeOK /\ SlotInv /\ ConnectionKept

-----------------------------------------------------------------------------
\* What a backfill that moves on to the next channel, or ends, has in hand.
LEMMA AdvanceShape ==
  ASSUME TypeOK, NEW f \in Runs, NEW d \in SUBSET Chans, Advance(f, d)
  PROVE  \E n \in Fill : /\ fills' = [fills EXCEPT ![f] = n]
                         /\ n.rows = {} /\ n.after \in {0, cursor[n.chan]}
<1>1. Idle \in Fill /\ Idle.rows = {} /\ Idle.after = 0
  BY McpSlotAssumption DEF Idle, Fill
<1>2. PICK n : /\ fills' = [fills EXCEPT ![f] = n]
               /\ \/ n = Idle
                  \/ \E c \in known \ d :
                       n = [at |-> "asked", chan |-> c, after |-> cursor[c],
                            done |-> d \cup {c}, rows |-> {}, cur |-> {}]
  BY DEF Advance
<1>3. CASE n = Idle
  BY <1>1, <1>2, <1>3
<1>4. ASSUME NEW c \in known \ d,
             n = [at |-> "asked", chan |-> c, after |-> cursor[c],
                  done |-> d \cup {c}, rows |-> {}, cur |-> {}]
      PROVE  n \in Fill /\ n.rows = {} /\ n.after \in {0, cursor[n.chan]}
  <2>1. c \in Chans /\ cursor[c] \in Nat
    BY DEF TypeOK
  <2> QED
    BY <1>4, <2>1 DEF Fill
<1> QED
  BY <1>2, <1>3, <1>4

\* What handling a message does to the slot.
LEMMA HandleShape ==
  ASSUME TypeOK, NEW m \in 1..clock, Handle(m)
  PROVE  /\ seen' = seen \cup {m} /\ busy' = busy \cup {m}
         /\ UNCHANGED <<told, disk, reseeded>>
         /\ cursor' \in [Chans -> 0..clock] /\ m <= cursor'[Chan[m]]
         /\ \A c \in Chans : cursor[c] <= cursor'[c]
         /\ \A c \in Chans : cursor'[c] # cursor[c] => c = Chan[m] /\ cursor'[c] = m
         /\ settled \cup {m} \subseteq settled' /\ settled' \subseteq Msgs
         /\ cursor[Chan[m]] = 0 => Older(m) \subseteq settled'
         /\ save' \in {"clean", "due", "failed"}
         /\ save' = "clean" => cursor' = cursor /\ save = "clean"
<1>1. m \in Msgs /\ Chan[m] \in Chans /\ m \in Nat /\ m # 0 /\ Older(m) \subseteq Msgs
  BY McpSlotAssumption DEF TypeOK, Msgs, Older, Posted
<1>2. cursor \in [Chans -> 0..clock] /\ settled \subseteq Msgs /\ clock \in Nat
  BY McpSlotAssumption DEF TypeOK
<1>3. CASE m > cursor[Chan[m]]
  <2>1. /\ cursor' = [cursor EXCEPT ![Chan[m]] = m] /\ save' = "due"
        /\ settled' = settled \cup {m} \cup (IF cursor[Chan[m]] = 0 THEN Older(m) ELSE {})
    BY <1>3 DEF Handle
  <2>2. cursor' \in [Chans -> 0..clock] /\ cursor'[Chan[m]] = m
    BY <1>1, <1>2, <2>1
  <2>3. \A c \in Chans : cursor'[c] # cursor[c] => c = Chan[m] /\ cursor'[c] = m
    BY <1>1, <1>2, <2>1
  <2>4. \A c \in Chans : cursor[c] <= cursor'[c]
    BY <1>1, <1>2, <1>3, <2>1
  <2>5. settled \cup {m} \subseteq settled' /\ settled' \subseteq Msgs
    BY <1>1, <1>2, <2>1
  <2>6. cursor[Chan[m]] = 0 => Older(m) \subseteq settled'
    BY <2>1
  <2> QED
    BY <1>1, <2>1, <2>2, <2>3, <2>4, <2>5, <2>6 DEF Handle
<1>4. CASE ~(m > cursor[Chan[m]])
  <2>1. cursor' = cursor /\ save' = save /\ settled' = settled \cup {m}
    BY <1>4 DEF Handle
  <2>2. save \in {"clean", "due", "failed"}
    BY DEF TypeOK
  <2>3. cursor[Chan[m]] # 0
    BY <1>1, <1>2, <1>4
  <2> QED
    BY <1>1, <1>2, <1>4, <2>1, <2>2, <2>3 DEF Handle
<1> QED
  BY <1>3, <1>4

-----------------------------------------------------------------------------
LEMMA IdleIsFill == Idle \in Fill /\ Idle.rows = {} /\ Idle.after = 0 /\ Idle.chan \in Chans
<1>1. (CHOOSE c \in Chans : TRUE) \in Chans
  BY McpSlotAssumption
<1> QED
  BY <1>1 DEF Idle, Fill

LEMMA EmptyWire == <<>> \in Seq(1..clock) /\ DOMAIN <<>> = {}
OBVIOUS

LEMMA InitInv == Init => Inv
<1> SUFFICES ASSUME Init PROVE Inv
  OBVIOUS
<1> USE McpSlotAssumption DEF Init
<1>1. NoCursor \in [Chans -> 0..clock]
  BY DEF NoCursor
<1>2. fills \in [Runs -> Fill] /\ \A f \in Runs : fills[f] = Idle
  BY IdleIsFill
<1>3. TypeOK
  <2>1. wire \in Seq(1..clock)
    BY EmptyWire
  <2>2. clock \in 0..MaxPosts /\ cursor \in [Chans -> 0..clock] /\ disk \in [Chans -> 0..clock]
    BY <1>1
  <2>3. told \in [Msgs -> Nat] /\ seen \subseteq Msgs /\ settled \subseteq Msgs
    OBVIOUS
  <2> QED
    BY <1>2, <2>1, <2>2, <2>3 DEF TypeOK
<1>4. RowsInOrder
  BY <1>2, IdleIsFill DEF RowsInOrder
<1>5. CursorAhead
  BY <1>1, <1>2, IdleIsFill DEF CursorAhead
<1>6. NotAgain
  BY DEF NotAgain
<1> QED
  BY <1>3, <1>4, <1>5, <1>6 DEF Inv, SlotInv, ConnectionKept

-----------------------------------------------------------------------------
\* What every end of the process does.
LEMMA GoneShape ==
  ASSUME TypeOK, NEW d \in [Chans -> 0..clock], Gone(d)
  PROVE  /\ fills' \in [Runs -> Fill] /\ \A f \in Runs : fills'[f] = Idle
         /\ wire' = <<>> /\ DOMAIN wire' = {}
         /\ known' = {} /\ seen' = {} /\ busy' = {} /\ told' = told
         /\ disk' = d /\ cursor' = d /\ save' = "clean"
         /\ UNCHANGED <<clock, history, starts>>
         /\ up' = FALSE /\ sock' = "none" /\ link' = FALSE /\ timer' = FALSE
         /\ guard' = FALSE /\ late' = FALSE /\ fillDue' = FALSE
BY IdleIsFill, EmptyWire DEF Gone, Unhook

\* What the steps that lose the socket or the link leave alone.
LEMMA UnhookSteps ==
  ASSUME SafeReconnect \/ Closed \/ ShardMoved \/ GoesSilent, timer \in BOOLEAN, guard \in BOOLEAN
  PROVE  /\ wire' = <<>> /\ sock' \in {"none", sock} /\ link' = FALSE
         /\ timer' \in BOOLEAN /\ guard' \in BOOLEAN
         /\ UNCHANGED <<clock, proc, late, fetches, known, heard, marks, history>>
<1>1. CASE SafeReconnect
  BY <1>1 DEF SafeReconnect, Unhook
<1>2. CASE Closed
  BY <1>2 DEF Closed, Unhook
<1>3. CASE ShardMoved
  BY <1>3 DEF ShardMoved, Unhook
<1>4. CASE GoesSilent
  BY <1>4 DEF GoesSilent
<1> QED
  BY <1>1, <1>2, <1>3, <1>4

LEMMA TypeStep == Inv /\ [Next]_vars => TypeOK'
<1> SUFFICES ASSUME Inv, [Next]_vars PROVE TypeOK'
  OBVIOUS
<1> USE McpSlotAssumption DEF Inv, TypeOK
<1>0. NoCursor \in [Chans -> 0..clock] /\ Torn \subseteq [Chans -> 0..clock] /\ clock \in Nat
  BY DEF NoCursor, Torn
<1>1. CASE Post
  <2>1. clock' = clock + 1 /\ clock' \in 0..MaxPosts /\ 1..clock \subseteq 1..clock'
        /\ clock' \in 1..clock' /\ 0..clock \subseteq 0..clock'
    BY <1>1 DEF Post
  <2>2. wire \in Seq(1..clock')
    BY <2>1
  <2>3. wire' \in Seq(1..clock')
    <3>1. wire' = wire \/ wire' = Append(wire, clock')
      BY <1>1 DEF Post
    <3>2. Append(wire, clock') \in Seq(1..clock')
      BY <2>1, <2>2
    <3> QED
      BY <3>1, <3>2, <2>2
  <2>4. cursor \in [Chans -> 0..clock'] /\ disk \in [Chans -> 0..clock']
    BY <2>1
  <2> QED
    BY <1>1, <2>1, <2>3, <2>4 DEF Post
<1>2. ASSUME NEW m \in Msgs, Notify(m) PROVE TypeOK'
  BY <1>2 DEF Notify
<1>3. CASE Connect \/ Open \/ AuthOk \/ Overdue \/ Ping
  BY <1>3 DEF Connect, Open, AuthOk, Overdue, Ping
<1>4. CASE SafeReconnect \/ Closed \/ ShardMoved \/ GoesSilent
  <2>1. wire' \in Seq(1..clock')
    BY <1>4, UnhookSteps, EmptyWire
  <2> QED
    BY <1>4, <2>1, UnhookSteps
<1>5. ASSUME NEW c \in Chans, Join(c) PROVE TypeOK'
  BY <1>5 DEF Join
<1>6. CASE Receive
  <2>1. Head(wire) \in 1..clock /\ Tail(wire) \in Seq(1..clock)
    BY <1>6 DEF Receive
  <2>2. CASE Head(wire) \in seen
    BY <1>6, <2>1, <2>2 DEF Receive
  <2>3. CASE Head(wire) \notin seen
    <3>1. Handle(Head(wire)) /\ wire' = Tail(wire)
          /\ UNCHANGED <<clock, proc, sock, link, beat, fetches, known>>
      BY <1>6, <2>3 DEF Receive
    <3>2. Head(wire) \in Msgs
      <4>1. 1..clock \subseteq Msgs
        BY <1>0 DEF Msgs
      <4> QED
        BY <2>1, <4>1
    <3>3. /\ seen' = seen \cup {Head(wire)} /\ busy' = busy \cup {Head(wire)}
          /\ UNCHANGED <<told, disk, reseeded>> /\ cursor' \in [Chans -> 0..clock]
          /\ settled' \subseteq Msgs /\ save' \in {"clean", "due", "failed"}
      BY <3>1, <2>1, HandleShape
    <3>4. busy' \subseteq seen' /\ seen' \subseteq Msgs
      BY <3>2, <3>3
    <3> QED
      BY <3>1, <3>3, <3>4, <2>1
  <2> QED
    BY <2>2, <2>3
<1>7. ASSUME NEW f \in Runs, Backfill(f) \/ NoPage(f) \/ Replayed(f) PROVE TypeOK'
  <2>1. PICK d \in SUBSET Chans : Advance(f, d)
    BY <1>7 DEF Backfill, NoPage, Replayed, Fill
  <2>2. fills' \in [Runs -> Fill]
    BY <2>1, AdvanceShape
  <2> QED
    BY <1>7, <2>2 DEF Backfill, NoPage, Replayed
<1>8. ASSUME NEW f \in Runs, Serve(f) PROVE TypeOK'
  <2>1. PICK S \in Page(fills[f].chan, fills[f].after) :
          fills' = [fills EXCEPT ![f].at = "rows", ![f].rows = S]
    BY <1>8 DEF Serve
  <2>2. S \subseteq Msgs
    BY <2>1 DEF Page, Posted, Msgs
  <2>3. fills' \in [Runs -> Fill]
    <3>0. fills[f] \in Fill
      OBVIOUS
    <3>1. [fills[f] EXCEPT !.at = "rows", !.rows = S] \in Fill
      BY <3>0, <2>2 DEF Fill
    <3>2. fills' = [fills EXCEPT ![f] = [fills[f] EXCEPT !.at = "rows", !.rows = S]]
      BY <2>1
    <3> QED
      BY <3>1, <3>2
  <2> QED
    BY <1>8, <2>3 DEF Serve
<1>9. ASSUME NEW f \in Runs, Seed(f) PROVE TypeOK'
  <2>1. Advance(f, fills[f].done) /\ fills[f].done \in SUBSET Chans /\ fills[f].chan \in Chans
        /\ \A n \in fills[f].rows : n \in 1..clock
    BY <1>9 DEF Seed, Fill, SlotInv, RowsInOrder, Msgs
  <2>2. fills' \in [Runs -> Fill]
    BY <2>1, AdvanceShape
  <2>3. CASE UNCHANGED <<marks, history>>
    BY <1>9, <2>2, <2>3 DEF Seed
  <2>4. ASSUME NEW m \in fills[f].rows,
               cursor' = [cursor EXCEPT ![fills[f].chan] = m] /\ save' = "due" /\ disk' = disk,
               IF cursor[fills[f].chan] = 0
               THEN settled' = settled \cup Older(m) \cup {m} /\ reseeded' = reseeded
               ELSE settled' = settled /\ reseeded' = reseeded \cup {fills[f].chan}
        PROVE  TypeOK'
    <3>1. Older(m) \subseteq Msgs /\ m \in Msgs /\ m \in 0..clock
      BY <2>1 DEF Older, Posted, Msgs
    <3>2. cursor' \in [Chans -> 0..clock]
      BY <2>4, <3>1, <2>1
    <3>3. settled' \subseteq Msgs /\ reseeded' \subseteq Chans
      BY <2>4, <3>1, <2>1
    <3> QED
      BY <1>9, <2>2, <2>4, <3>2, <3>3 DEF Seed
  <2> QED
    BY <1>9, <2>3, <2>4 DEF Seed
<1>10. ASSUME NEW f \in Runs, Replay(f) PROVE TypeOK'
  <2>1. PICK m \in Msgs : /\ Oldest(m, fills[f].rows \ seen) /\ Handle(m)
                          /\ fills' = [fills EXCEPT ![f].cur = {m}]
    BY <1>10 DEF Replay
  <2>2. m \in 1..clock
    BY <2>1 DEF Oldest, SlotInv, RowsInOrder, Msgs
  <2>3. fills' \in [Runs -> Fill]
    <3>0. fills[f] \in Fill
      OBVIOUS
    <3>1. [fills[f] EXCEPT !.cur = {m}] \in Fill
      BY <3>0 DEF Fill
    <3>2. fills' = [fills EXCEPT ![f] = [fills[f] EXCEPT !.cur = {m}]]
      BY <2>1
    <3> QED
      BY <3>1, <3>2
  <2>4. /\ seen' = seen \cup {m} /\ busy' = busy \cup {m}
        /\ UNCHANGED <<told, disk, reseeded>> /\ cursor' \in [Chans -> 0..clock]
        /\ settled' \subseteq Msgs /\ save' \in {"clean", "due", "failed"}
    BY <2>1, <2>2, HandleShape
  <2>5. busy' \subseteq seen' /\ seen' \subseteq Msgs
    BY <2>1, <2>4
  <2>6. UNCHANGED <<clock, proc, conn, beat, fillDue, known>>
    BY <1>10 DEF Replay
  <2> QED
    BY <2>3, <2>4, <2>5, <2>6
<1>11. CASE Save
  BY <1>0, <1>11 DEF Save
<1>12. CASE Stop \/ Crash
  <2>1. PICK d \in [Chans -> 0..clock] : Gone(d) /\ lost' \in {lost, lost + 1}
    BY <1>0, <1>12 DEF Stop, Crash
  <2> QED
    <3>1. wire' \in Seq(1..clock')
      BY <2>1, GoneShape, EmptyWire
    <3>2. known' \subseteq Chans /\ busy' \subseteq seen' /\ seen' \subseteq Msgs
      BY <2>1, GoneShape
    <3>3. /\ up' \in BOOLEAN /\ sock' = "none" /\ link' \in BOOLEAN /\ late' \in BOOLEAN
          /\ timer' \in BOOLEAN /\ guard' \in BOOLEAN /\ fillDue' \in BOOLEAN
      BY <2>1, GoneShape
    <3>4. /\ fills' \in [Runs -> Fill] /\ cursor' = d /\ disk' = d /\ save' = "clean"
          /\ UNCHANGED <<clock, history, starts, told>>
      BY <2>1, GoneShape
    <3> QED
      BY <2>1, <3>1, <3>2, <3>3, <3>4
<1>13. CASE Start
  BY <1>13 DEF Start
<1>14. CASE UNCHANGED vars
  BY <1>14 DEF vars
<1> QED
  BY <1>1, <1>2, <1>3, <1>4, <1>5, <1>6, <1>7, <1>8, <1>9, <1>10, <1>11, <1>12, <1>13, <1>14
  DEF Next, Beat

-----------------------------------------------------------------------------
\* Steps that touch nothing the invariant speaks of, but may empty the wire.
Core  == <<clock, lost, fills, seen, busy, told, marks, history>>
Quiet == UNCHANGED Core /\ (wire' = wire \/ wire' = <<>>)

LEMMA QuietKeeps ==
  ASSUME Inv, Quiet
  PROVE  RowsInOrder' /\ CursorAhead' /\ NotAgain'
<1>1. \A m : InWire(m)' => InWire(m)
  BY EmptyWire DEF Quiet, InWire
<1>2. UNCHANGED <<clock, lost, fills, seen, busy, told, cursor, save, disk, settled, reseeded>>
  BY DEF Quiet, Core
<1>3. RowsInOrder'
  BY <1>2 DEF Inv, SlotInv, RowsInOrder
<1>4. CursorAhead'
  BY <1>2 DEF Inv, SlotInv, CursorAhead
<1>5. NotAgain'
  BY <1>1, <1>2 DEF Inv, SlotInv, NotAgain
<1> QED
  BY <1>3, <1>4, <1>5

\* A message just posted is in no page, was never told and is new to all cursors.
LEMMA PostKeeps ==
  ASSUME Inv, Post
  PROVE  RowsInOrder' /\ CursorAhead' /\ NotAgain'
<1> USE McpSlotAssumption DEF Inv, TypeOK, SlotInv
<1>1. /\ clock \in Nat /\ clock' = clock + 1 /\ clock' \in Msgs
      /\ UNCHANGED <<lost, fills, seen, busy, told, cursor, save, disk, settled, reseeded>>
  BY DEF Post, Msgs
<1>2. \A m : InWire(m)' => InWire(m) \/ m = clock'
  <2>1. wire \in Seq(1..clock)
    OBVIOUS
  <2>2. wire' = wire \/ wire' = Append(wire, clock')
    BY DEF Post
  <2>3. ASSUME NEW m, NEW i \in DOMAIN wire', wire' = Append(wire, clock'), wire'[i] = m
        PROVE  InWire(m) \/ m = clock'
    <3>1. i \in 1..Len(wire) + 1 /\ Len(wire) \in Nat /\ DOMAIN wire = 1..Len(wire)
      BY <2>1, <2>3
    <3>2. wire'[i] = IF i = Len(wire) + 1 THEN clock' ELSE wire[i]
      BY <2>1, <2>3, <3>1
    <3> QED
      BY <2>3, <3>1, <3>2 DEF InWire
  <2> QED
    BY <2>2, <2>3 DEF InWire
<1>3. RowsInOrder'
  <2>1. \A f \in Runs : \A n \in fills[f].rows : n \in Nat /\ (n <= clock => n <= clock')
    BY <1>1 DEF Fill, Msgs
  <2> QED
    BY <1>1, <2>1 DEF RowsInOrder
<1>4. CursorAhead'
  BY <1>1 DEF CursorAhead
<1>5. ASSUME NEW m \in Msgs, Chan[m] \notin reseeded, m \notin seen, told[m] > lost
      PROVE  m # clock'
  <2>1. m <= cursor[Chan[m]] /\ Chan[m] \in Chans
    BY <1>5 DEF NotAgain
  <2>2. cursor[Chan[m]] <= clock /\ cursor[Chan[m]] \in Nat /\ m \in Nat
    BY <2>1 DEF Msgs
  <2> QED
    BY <1>1, <2>1, <2>2
<1>6. NotAgain'
  BY <1>1, <1>2, <1>5 DEF NotAgain
<1> QED
  BY <1>3, <1>4, <1>6

LEMMA NotifyKeeps ==
  ASSUME Inv, NEW m \in Msgs, Notify(m)
  PROVE  RowsInOrder' /\ CursorAhead' /\ NotAgain'
<1> USE DEF Inv, TypeOK, SlotInv
<1>1. /\ m \in busy /\ m \in seen /\ busy' = busy \ {m} /\ told' = [told EXCEPT ![m] = @ + 1]
      /\ UNCHANGED <<clock, lost, wire, fills, seen, cursor, save, disk, settled, reseeded>>
  BY DEF Notify
<1>2. RowsInOrder'
  BY <1>1 DEF RowsInOrder
<1>3. CursorAhead'
  BY <1>1 DEF CursorAhead
<1>4. \A k \in Msgs : InWire(k)' <=> InWire(k)
  BY <1>1 DEF InWire
<1>5. \A k \in Msgs : k # m => told'[k] = told[k]
  BY <1>1
<1>6. told'[m] = told[m] + 1 /\ told[m] \in Nat /\ lost \in Nat /\ m \notin busy'
  BY <1>1
<1>7. NotAgain'
  BY <1>1, <1>4, <1>5, <1>6 DEF NotAgain
<1> QED
  BY <1>2, <1>3, <1>7

\* A backfill that moves on starts from the cursor as it is now.
LEMMA AdvanceKeeps ==
  ASSUME Inv, NEW f \in Runs, NEW n \in Fill, fills' = [fills EXCEPT ![f] = n],
         n.rows = {}, n.after \in {0, cursor[n.chan]},
         UNCHANGED <<clock, lost, wire, heard, marks, history>>
  PROVE  RowsInOrder' /\ CursorAhead' /\ NotAgain'
<1> USE DEF Inv, TypeOK, SlotInv
<1>1. /\ fills'[f] = n /\ \A g \in Runs : g # f => fills'[g] = fills[g]
      /\ UNCHANGED <<clock, lost, seen, busy, told, cursor, save, disk, settled, reseeded>>
  OBVIOUS
<1>2. n.chan \in Chans /\ cursor[n.chan] \in Nat
  BY DEF Fill
<1>3. RowsInOrder'
  BY <1>1 DEF RowsInOrder
<1>4. CursorAhead'
  BY <1>1, <1>2 DEF CursorAhead
<1>5. \A k \in Msgs : InWire(k)' <=> InWire(k)
  BY DEF InWire
<1>6. NotAgain'
  BY <1>1, <1>2, <1>5 DEF NotAgain
<1> QED
  BY <1>3, <1>4, <1>6

\* A page is an initial part of what lies behind the cursor it was asked for.
LEMMA ServeKeeps ==
  ASSUME Inv, NEW f \in Runs, Serve(f)
  PROVE  RowsInOrder' /\ CursorAhead' /\ NotAgain'
<1> USE DEF Inv, TypeOK, SlotInv
<1>1. PICK S \in Page(fills[f].chan, fills[f].after) :
        fills' = [fills EXCEPT ![f].at = "rows", ![f].rows = S]
  BY DEF Serve
<1>2. /\ \A g \in Runs : fills'[g].chan = fills[g].chan /\ fills'[g].after = fills[g].after
      /\ \A g \in Runs : g # f => fills'[g].rows = fills[g].rows
      /\ fills'[f].rows = S
  <2>1. fills[f] \in Fill
    OBVIOUS
  <2> QED
    BY <1>1, <2>1 DEF Fill
<1>3. UNCHANGED <<clock, lost, wire, seen, busy, told, cursor, save, disk, settled, reseeded>>
  BY DEF Serve
<1>4. \A n \in S : n <= clock /\ Chan[n] = fills[f].chan /\ fills[f].after < n
  BY <1>1 DEF Page, Posted
<1>5. ASSUME fills[f].after > 0, NEW m \in Msgs \ S, NEW n \in S,
             Chan[m] = fills[f].chan, fills[f].after < m
      PROVE  n < m
  <2>1. CASE m <= clock
    <3>1. m \in {k \in Posted(fills[f].chan) : k > fills[f].after}
      BY <1>5, <2>1 DEF Posted, Msgs
    <3>2. fills[f].after # 0
      BY <1>5, McpSlotAssumption DEF Fill
    <3> QED
      BY <1>1, <1>5, <3>1, <3>2 DEF Page
  <2>2. CASE m > clock
    <3>1. n \in Nat /\ n <= clock /\ clock \in Nat /\ m \in Nat
      BY <1>1, <1>4, <1>5, McpSlotAssumption DEF Page, Posted, Msgs
    <3> QED
      BY <2>2, <3>1
  <2>3. clock \in Nat /\ m \in Nat
    BY McpSlotAssumption DEF Msgs
  <2> QED
    BY <2>1, <2>2, <2>3
<1>6. RowsInOrder'
  BY <1>2, <1>3, <1>4, <1>5 DEF RowsInOrder
<1>7. CursorAhead'
  BY <1>2, <1>3 DEF CursorAhead
<1>8. \A k \in Msgs : InWire(k)' <=> InWire(k)
  BY <1>3 DEF InWire
<1>9. NotAgain'
  BY <1>2, <1>3, <1>8 DEF NotAgain
<1> QED
  BY <1>6, <1>7, <1>9

\* A seed: a cursor that was there is overwritten, or nothing was owed.
LEMMA SeedKeeps ==
  ASSUME Inv, NEW f \in Runs, Seed(f)
  PROVE  RowsInOrder' /\ CursorAhead' /\ NotAgain'
<1> USE McpSlotAssumption DEF Inv, TypeOK, SlotInv
<1>1. PICK n \in Fill : /\ fills' = [fills EXCEPT ![f] = n]
                        /\ n.rows = {} /\ n.after \in {0, cursor[n.chan]}
  <2>1. Advance(f, fills[f].done) /\ fills[f].done \in SUBSET Chans
    BY DEF Seed, Fill
  <2> QED
    BY <2>1, AdvanceShape
<1>2. UNCHANGED <<clock, lost, wire, heard>>
  BY DEF Seed
<1>3. CASE UNCHANGED <<marks, history>>
  BY <1>1, <1>2, <1>3, AdvanceKeeps
<1>4. ASSUME NEW m \in fills[f].rows,
             cursor' = [cursor EXCEPT ![fills[f].chan] = m] /\ save' = "due" /\ disk' = disk,
             IF cursor[fills[f].chan] = 0
             THEN settled' = settled \cup Older(m) \cup {m} /\ reseeded' = reseeded
             ELSE settled' = settled /\ reseeded' = reseeded \cup {fills[f].chan}
      PROVE  RowsInOrder' /\ CursorAhead' /\ NotAgain'
  <2> DEFINE c == fills[f].chan
  <2>1. c \in Chans /\ m \in Nat /\ n.chan \in Chans
    BY <1>4 DEF Fill, Msgs
  <2>2. cursor'[c] = m /\ \A d \in Chans : d # c => cursor'[d] = cursor[d]
    BY <1>4, <2>1
  <2>3. reseeded \subseteq reseeded' /\ settled \subseteq settled'
        /\ (c \notin reseeded' => cursor[c] = 0)
    BY <1>4
  <2>4. \A d \in Chans : d \notin reseeded' => cursor[d] <= cursor'[d] /\ cursor[d] \in Nat /\ cursor'[d] \in Nat
    <3>1. \A d \in Chans : cursor[d] \in Nat
      OBVIOUS
    <3> SUFFICES ASSUME NEW d \in Chans, d \notin reseeded'
                 PROVE  cursor[d] <= cursor'[d] /\ cursor[d] \in Nat /\ cursor'[d] \in Nat
      OBVIOUS
    <3>2. CASE d = c
      BY <3>1, <3>2, <2>1, <2>2, <2>3
    <3>3. CASE d # c
      BY <3>1, <3>3, <2>2
    <3> QED
      BY <3>2, <3>3
  <2>5. fills'[f] = n /\ \A g \in Runs : g # f => fills'[g] = fills[g]
    BY <1>1
  <2>6. RowsInOrder'
    BY <1>1, <1>2, <2>5 DEF RowsInOrder
  <2>7. CursorAhead'
    <3>1. \A k \in seen' : k \in settled' /\ (Chan[k] \notin reseeded' => k <= cursor'[Chan[k]])
      <4> SUFFICES ASSUME NEW k \in seen
                   PROVE  k \in settled' /\ (Chan[k] \notin reseeded' => k <= cursor'[Chan[k]])
        BY <1>2
      <4>1. k \in settled /\ (Chan[k] \notin reseeded => k <= cursor[Chan[k]]) /\ Chan[k] \in Chans /\ k \in Nat
        BY DEF CursorAhead, Msgs
      <4> QED
        BY <4>1, <2>3, <2>4
    <3>2. \A g \in Runs : fills'[g].chan \notin reseeded' => fills'[g].after <= cursor'[fills'[g].chan]
      <4> SUFFICES ASSUME NEW g \in Runs, fills'[g].chan \notin reseeded'
                   PROVE  fills'[g].after <= cursor'[fills'[g].chan]
        OBVIOUS
      <4>1. CASE g = f
        BY <4>1, <2>5, <2>1, <2>4, <1>1
      <4>2. CASE g # f
        <5>1. fills[g].after <= cursor[fills[g].chan] /\ fills[g].chan \in Chans /\ fills[g].after \in Nat
          BY <4>2, <2>5, <2>3 DEF CursorAhead, Fill
        <5> QED
          BY <4>2, <5>1, <2>5, <2>4
      <4> QED
        BY <4>1, <4>2
    <3>3. \A d \in Chans \ reseeded' : disk'[d] <= cursor'[d]
      <4> SUFFICES ASSUME NEW d \in Chans \ reseeded' PROVE disk[d] <= cursor'[d]
        BY <1>4
      <4>1. disk[d] <= cursor[d] /\ disk[d] \in Nat
        BY <2>3 DEF CursorAhead
      <4> QED
        BY <4>1, <2>4
    <3> QED
      BY <3>1, <3>2, <3>3, <1>4 DEF CursorAhead
  <2>8. NotAgain'
    <3> SUFFICES ASSUME NEW k \in Msgs, Chan[k] \notin reseeded'
                 PROVE  /\ told'[k] <= 1 + lost'
                        /\ k \in busy' => told'[k] <= lost'
                        /\ k \notin seen' /\ told'[k] > lost' =>
                             /\ k <= cursor'[Chan[k]] /\ ~InWire(k)'
                             /\ \A g \in Runs : fills'[g].chan = Chan[k] /\ fills'[g].after > 0
                                               => k <= fills'[g].after
      BY DEF NotAgain
    <3>1. Chan[k] \notin reseeded /\ Chan[k] \in Chans /\ k \in Nat /\ (InWire(k)' <=> InWire(k))
      BY <1>2, <2>3 DEF InWire, Msgs
    <3>2. /\ told[k] <= 1 + lost
          /\ k \in busy => told[k] <= lost
          /\ k \notin seen /\ told[k] > lost =>
               /\ k <= cursor[Chan[k]] /\ ~InWire(k)
               /\ \A g \in Runs : fills[g].chan = Chan[k] /\ fills[g].after > 0
                                 => k <= fills[g].after
      BY <3>1 DEF NotAgain
    <3>3. cursor[Chan[k]] <= cursor'[Chan[k]] /\ cursor[Chan[k]] \in Nat /\ cursor'[Chan[k]] \in Nat
      BY <3>1, <2>4
    <3>4. k <= cursor[Chan[k]] => k <= cursor'[Chan[k]]
      BY <3>1, <3>3
    <3>5. ASSUME k \notin seen, told[k] > lost, NEW g \in Runs,
                 fills'[g].chan = Chan[k], fills'[g].after > 0
          PROVE  k <= fills'[g].after
      <4>1. CASE g = f
        BY <4>1, <3>5, <3>2, <2>5, <1>1
      <4>2. CASE g # f
        BY <4>2, <3>5, <3>2, <2>5
      <4> QED
        BY <4>1, <4>2
    <3> QED
      BY <1>2, <3>1, <3>2, <3>4, <3>5
  <2> QED
    BY <2>6, <2>7, <2>8
<1> QED
  BY <1>3, <1>4 DEF Seed

\* Handling a message that may still be told.
LEMMA HandleKeeps ==
  ASSUME Inv, NEW m \in 1..clock, Handle(m), UNCHANGED <<clock, lost>>,
         Chan[m] \notin reseeded => told[m] <= lost,
         \A k : InWire(k)' => InWire(k),
         \A g \in Runs : /\ fills'[g].chan = fills[g].chan /\ fills'[g].after = fills[g].after
                        /\ fills'[g].rows = fills[g].rows
  PROVE  RowsInOrder' /\ CursorAhead' /\ NotAgain'
<1> USE McpSlotAssumption DEF Inv, TypeOK, SlotInv
<1>1. /\ seen' = seen \cup {m} /\ busy' = busy \cup {m}
      /\ UNCHANGED <<told, disk, reseeded>>
      /\ cursor' \in [Chans -> 0..clock] /\ m <= cursor'[Chan[m]]
      /\ \A c \in Chans : cursor[c] <= cursor'[c]
      /\ settled \cup {m} \subseteq settled'
      /\ save' = "clean" => cursor' = cursor /\ save = "clean"
  BY HandleShape
<1>2. \A c \in Chans : cursor[c] \in Nat /\ cursor'[c] \in Nat /\ disk[c] \in Nat
  BY <1>1
<1>3. \A k \in Msgs : k \in Nat /\ Chan[k] \in Chans
  BY DEF Msgs
<1>4. RowsInOrder'
  BY DEF RowsInOrder
<1>5. CursorAhead'
  <2>1. ASSUME NEW k \in seen PROVE k \in settled' /\ (Chan[k] \notin reseeded => k <= cursor'[Chan[k]])
    <3>1. k \in settled /\ (Chan[k] \notin reseeded => k <= cursor[Chan[k]]) /\ k \in Msgs
      BY DEF CursorAhead
    <3> QED
      BY <3>1, <1>1, <1>2, <1>3
  <2>2. ASSUME NEW g \in Runs, fills[g].chan \notin reseeded
        PROVE  fills[g].after <= cursor'[fills[g].chan]
    <3>1. fills[g].after <= cursor[fills[g].chan] /\ fills[g].chan \in Chans /\ fills[g].after \in Nat
      BY <2>2 DEF CursorAhead, Fill
    <3> QED
      BY <3>1, <1>1, <1>2
  <2>3. ASSUME NEW c \in Chans \ reseeded PROVE disk[c] <= cursor'[c]
    BY <1>1, <1>2 DEF CursorAhead
  <2> QED
    BY <1>1, <2>1, <2>2, <2>3 DEF CursorAhead
<1>6. NotAgain'
  <2> SUFFICES ASSUME NEW k \in Msgs, Chan[k] \notin reseeded
               PROVE  /\ told[k] <= 1 + lost
                      /\ k \in busy' => told[k] <= lost
                      /\ k \notin seen' /\ told[k] > lost =>
                           /\ k <= cursor'[Chan[k]] /\ ~InWire(k)'
                           /\ \A g \in Runs : fills[g].chan = Chan[k] /\ fills[g].after > 0
                                             => k <= fills[g].after
    BY <1>1 DEF NotAgain
  <2>1. /\ told[k] <= 1 + lost
        /\ k \in busy => told[k] <= lost
        /\ k \notin seen /\ told[k] > lost =>
             /\ k <= cursor[Chan[k]] /\ ~InWire(k)
             /\ \A g \in Runs : fills[g].chan = Chan[k] /\ fills[g].after > 0
                               => k <= fills[g].after
    BY DEF NotAgain
  <2>2. k <= cursor[Chan[k]] => k <= cursor'[Chan[k]]
    BY <1>1, <1>2, <1>3
  <2> QED
    BY <1>1, <2>1, <2>2
<1> QED
  BY <1>4, <1>5, <1>6

\* The row a backfill handles has not been told too often.
LEMMA ReplayKeeps ==
  ASSUME Inv, NEW f \in Runs, Replay(f)
  PROVE  RowsInOrder' /\ CursorAhead' /\ NotAgain'
<1> USE McpSlotAssumption DEF Inv, TypeOK, SlotInv
<1>1. PICK m \in Msgs : /\ Oldest(m, fills[f].rows \ seen) /\ Handle(m)
                        /\ fills' = [fills EXCEPT ![f].cur = {m}]
  BY DEF Replay
<1>2. /\ fills[f].after > 0 /\ fills[f].after \in Nat /\ m \in fills[f].rows /\ m \notin seen
      /\ UNCHANGED <<clock, lost, wire>>
  BY <1>1 DEF Replay, Oldest, Fill
<1>3. m <= clock /\ Chan[m] = fills[f].chan /\ fills[f].after < m /\ m \in 1..clock
  BY <1>1, <1>2 DEF RowsInOrder, Msgs
<1>4. Chan[m] \notin reseeded => told[m] <= lost
  <2>1. Chan[m] \notin reseeded /\ told[m] > lost => m <= fills[f].after
    BY <1>2, <1>3 DEF NotAgain
  <2>2. told[m] \in Nat /\ lost \in Nat /\ m \in Nat
    BY DEF Msgs
  <2> QED
    BY <1>2, <1>3, <2>1, <2>2
<1>5. \A k : InWire(k)' => InWire(k)
  BY <1>2 DEF InWire
<1>6. \A g \in Runs : /\ fills'[g].chan = fills[g].chan /\ fills'[g].after = fills[g].after
                     /\ fills'[g].rows = fills[g].rows
  <2>1. fills[f] \in Fill
    OBVIOUS
  <2> QED
    BY <1>1, <2>1 DEF Fill
<1> QED
  BY <1>1, <1>2, <1>3, <1>4, <1>5, <1>6, HandleKeeps

LEMMA ReceiveKeeps ==
  ASSUME Inv, Receive
  PROVE  RowsInOrder' /\ CursorAhead' /\ NotAgain'
<1> USE McpSlotAssumption DEF Inv, TypeOK, SlotInv
<1> DEFINE m == Head(wire)
<1>1. /\ wire # <<>> /\ wire \in Seq(1..clock) /\ wire' = Tail(wire)
      /\ UNCHANGED <<clock, lost, fills>>
  BY DEF Receive
<1>2. m \in 1..clock /\ 1 \in DOMAIN wire /\ m = wire[1]
  BY <1>1
<1>3. ASSUME NEW k, InWire(k)' PROVE InWire(k)
  <2>1. PICK i \in DOMAIN Tail(wire) : Tail(wire)[i] = k
    BY <1>1, <1>3 DEF InWire
  <2>2. i + 1 \in DOMAIN wire /\ wire[i + 1] = k
    BY <1>1, <2>1
  <2> QED
    BY <2>2 DEF InWire
<1>4. CASE m \in seen
  <2>1. UNCHANGED <<heard, marks, history>>
    BY <1>4 DEF Receive
  <2>2. RowsInOrder'
    BY <1>1, <2>1 DEF RowsInOrder
  <2>3. CursorAhead'
    BY <1>1, <2>1 DEF CursorAhead
  <2>4. NotAgain'
    BY <1>1, <1>3, <2>1 DEF NotAgain
  <2> QED
    BY <2>2, <2>3, <2>4
<1>5. CASE m \notin seen
  <2>1. Handle(m)
    BY <1>5 DEF Receive
  <2>2. m \in Msgs /\ InWire(m)
    <3>1. InWire(m)
      BY <1>2 DEF InWire
    <3>2. 1..clock \subseteq Msgs
      BY DEF Msgs
    <3> QED
      BY <1>2, <3>1, <3>2
  <2>3. Chan[m] \notin reseeded => told[m] <= lost
    <3>1. Chan[m] \notin reseeded => ~(told[m] > lost)
      BY <1>5, <2>2 DEF NotAgain
    <3>2. told[m] \in Nat /\ lost \in Nat
      BY <2>2
    <3> QED
      BY <3>1, <3>2
  <2> QED
    BY <1>1, <1>2, <1>3, <2>1, <2>3, HandleKeeps
<1> QED
  BY <1>4, <1>5

\* A write changes the file only, to the cursor or to what a torn write leaves.
LEMMA SaveKeeps ==
  ASSUME Inv, Save
  PROVE  RowsInOrder' /\ CursorAhead' /\ NotAgain'
<1> USE McpSlotAssumption DEF Inv, TypeOK, SlotInv
<1>1. UNCHANGED <<clock, lost, wire, fills, seen, busy, told, cursor, settled, reseeded>>
  BY DEF Save
<1>2. \A c \in Chans : cursor[c] \in Nat /\ NoCursor[c] = 0
  BY DEF NoCursor
<1>3. RowsInOrder'
  BY <1>1 DEF RowsInOrder
<1>4. CursorAhead'
  <2>1. CASE disk' = cursor /\ save' = "clean"
    BY <1>1, <1>2, <2>1 DEF CursorAhead
  <2>2. CASE disk' \in Torn /\ save' = "failed"
    BY <1>1, <1>2, <2>2 DEF CursorAhead, Torn
  <2> QED
    BY <2>1, <2>2 DEF Save
<1>5. \A k \in Msgs : InWire(k)' <=> InWire(k)
  BY <1>1 DEF InWire
<1>6. NotAgain'
  BY <1>1, <1>5 DEF NotAgain
<1> QED
  BY <1>3, <1>4, <1>6

\* An end of the process keeps the cursor, or is one more that may lose it.
Ends == \E d \in [Chans -> 0..clock] :
          Gone(d) /\ ((d = cursor /\ lost' = lost) \/ (d \in Torn /\ lost' = lost + 1))

LEMMA EndSteps == Inv /\ (Stop \/ Crash) => Ends
<1> SUFFICES ASSUME Inv, Stop \/ Crash PROVE Ends
  OBVIOUS
<1> USE McpSlotAssumption DEF Inv, TypeOK, SlotInv
<1>1. Torn \subseteq [Chans -> 0..clock] /\ disk \in Torn
  BY DEF Torn, NoCursor
<1>2. (IF save = "clean" THEN disk ELSE cursor) = cursor /\ cursor \in [Chans -> 0..clock]
  BY DEF CursorAhead
<1>3. CASE Stop
  <2>1. CASE Gone(IF save = "clean" THEN disk ELSE cursor) /\ lost' = lost
    BY <1>2, <2>1 DEF Ends
  <2>2. CASE lost' = lost + 1 /\ \E d \in Torn : Gone(d)
    BY <1>1, <2>2 DEF Ends
  <2> QED
    BY <1>3, <2>1, <2>2 DEF Stop
<1>4. CASE Crash
  BY <1>1, <1>4 DEF Crash, Ends
<1> QED
  BY <1>3, <1>4

LEMMA EndKeeps ==
  ASSUME Inv, Ends
  PROVE  RowsInOrder' /\ CursorAhead' /\ NotAgain'
<1> USE McpSlotAssumption DEF Inv, TypeOK, SlotInv
<1>1. PICK d \in [Chans -> 0..clock] :
        Gone(d) /\ ((d = cursor /\ lost' = lost) \/ (d \in Torn /\ lost' = lost + 1))
  BY DEF Ends
<1>2. /\ \A f \in Runs : fills'[f] = Idle
      /\ DOMAIN wire' = {} /\ seen' = {} /\ busy' = {} /\ told' = told
      /\ disk' = d /\ cursor' = d /\ UNCHANGED <<clock, settled, reseeded>>
  BY <1>1, GoneShape
<1>3. RowsInOrder'
  BY <1>2, IdleIsFill DEF RowsInOrder
<1>4. CursorAhead'
  BY <1>1, <1>2, IdleIsFill DEF CursorAhead
<1>5. ASSUME NEW k \in Msgs, Chan[k] \notin reseeded
      PROVE  told[k] <= 1 + lost' /\ (told[k] > lost' => k <= d[Chan[k]])
  <2>1. told[k] \in Nat /\ lost \in Nat /\ told[k] <= 1 + lost
    BY <1>5 DEF NotAgain
  <2>2. CASE d \in Torn /\ lost' = lost + 1
    BY <2>1, <2>2
  <2>3. CASE d = cursor /\ lost' = lost
    <3>1. k \in seen => k <= cursor[Chan[k]]
      BY <1>5 DEF CursorAhead
    <3>2. k \notin seen /\ told[k] > lost => k <= cursor[Chan[k]]
      BY <1>5 DEF NotAgain
    <3> QED
      BY <2>1, <2>3, <3>1, <3>2
  <2> QED
    BY <1>1, <2>2, <2>3
<1>6. NotAgain'
  BY <1>2, <1>5, IdleIsFill DEF NotAgain, InWire
<1> QED
  BY <1>3, <1>4, <1>6

-----------------------------------------------------------------------------
\* The steps of the connection, of the heartbeat and of the channel list.
Link == \/ Connect \/ Open \/ AuthOk \/ Closed \/ ShardMoved \/ GoesSilent
        \/ Overdue \/ Ping \/ SafeReconnect \/ Start
        \/ \E c \in Chans : Join(c)

LEMMA LinkIsQuiet == TypeOK /\ Link => Quiet
<1> SUFFICES ASSUME TypeOK, Link PROVE Quiet
  OBVIOUS
<1> USE DEF Quiet, Core
<1>1. CASE SafeReconnect \/ Closed \/ ShardMoved \/ GoesSilent
  BY <1>1, UnhookSteps DEF TypeOK
<1>2. CASE Connect \/ Open \/ AuthOk \/ Overdue \/ Ping
  BY <1>2 DEF Connect, Open, AuthOk, Overdue, Ping
<1>3. CASE Start
  BY <1>3 DEF Start
<1>4. ASSUME NEW c \in Chans, Join(c) PROVE Quiet
  BY <1>4 DEF Join
<1> QED
  BY <1>1, <1>2, <1>3, <1>4 DEF Link

\* Every step: the three data conjuncts of the invariant.
LEMMA DataStep == Inv /\ [Next]_vars => RowsInOrder' /\ CursorAhead' /\ NotAgain'
<1> SUFFICES ASSUME Inv, [Next]_vars PROVE RowsInOrder' /\ CursorAhead' /\ NotAgain'
  OBVIOUS
<1>1. CASE Post
  BY <1>1, PostKeeps
<1>2. ASSUME NEW m \in Msgs, Notify(m) PROVE RowsInOrder' /\ CursorAhead' /\ NotAgain'
  BY <1>2, NotifyKeeps
<1>3. CASE Link
  BY <1>3, LinkIsQuiet, QuietKeeps DEF Inv
<1>4. CASE Receive
  BY <1>4, ReceiveKeeps
<1>5. ASSUME NEW f \in Runs, Backfill(f) \/ NoPage(f) \/ Replayed(f)
      PROVE  RowsInOrder' /\ CursorAhead' /\ NotAgain'
  <2>1. PICK d \in SUBSET Chans : Advance(f, d)
    BY <1>5 DEF Backfill, NoPage, Replayed, Inv, TypeOK, Fill
  <2>2. UNCHANGED <<clock, lost, wire, heard, marks, history>>
    BY <1>5 DEF Backfill, NoPage, Replayed
  <2> QED
    BY <2>1, <2>2, AdvanceShape, AdvanceKeeps DEF Inv
<1>6. ASSUME NEW f \in Runs, Serve(f) PROVE RowsInOrder' /\ CursorAhead' /\ NotAgain'
  BY <1>6, ServeKeeps
<1>7. ASSUME NEW f \in Runs, Seed(f) PROVE RowsInOrder' /\ CursorAhead' /\ NotAgain'
  BY <1>7, SeedKeeps
<1>8. ASSUME NEW f \in Runs, Replay(f) PROVE RowsInOrder' /\ CursorAhead' /\ NotAgain'
  BY <1>8, ReplayKeeps
<1>9. CASE Save
  BY <1>9, SaveKeeps
<1>10. CASE Stop \/ Crash
  BY <1>10, EndSteps, EndKeeps
<1>11. CASE UNCHANGED vars
  <2>1. Quiet
    BY <1>11 DEF vars, Quiet, Core
  <2> QED
    BY <2>1, QuietKeeps
<1> QED
  BY <1>1, <1>2, <1>3, <1>4, <1>5, <1>6, <1>7, <1>8, <1>9, <1>10, <1>11 DEF Next, Beat, Link

\* Every step: the reconnect timer runs exactly while there is no socket.
LEMMA TimerStep == Inv /\ [Next]_vars => ConnectionKept' /\ (~up => ~timer)'
<1> SUFFICES ASSUME Inv, [Next]_vars PROVE ConnectionKept' /\ (~up => ~timer)'
  OBVIOUS
<1> USE DEF Inv, SlotInv, ConnectionKept
<1>1. CASE UNCHANGED <<up, sock, timer>>
  BY <1>1
<1>2. CASE Connect
  BY <1>2 DEF Connect
<1>3. CASE Open \/ AuthOk
  BY <1>3 DEF Open, AuthOk
<1>4. CASE Closed \/ ShardMoved \/ SafeReconnect
  <2>1. sock' = "none" /\ timer' = TRUE /\ up' = up /\ up
    BY <1>4 DEF Closed, ShardMoved, SafeReconnect, Unhook, Listens
  <2> QED
    BY <2>1
<1>5. CASE Stop \/ Crash
  <2>1. up' = FALSE /\ timer' = FALSE
    BY <1>5 DEF Stop, Crash, Gone, Unhook
  <2> QED
    BY <2>1
<1>6. CASE Start
  BY <1>6 DEF Start
<1>7. CASE UNCHANGED vars
  BY <1>7, <1>1 DEF vars
<1>8. CASE Post \/ GoesSilent \/ Overdue \/ Ping \/ Receive \/ Save
  BY <1>8, <1>1 DEF Post, GoesSilent, Overdue, Ping, Receive, Save
<1>9. ASSUME NEW m \in Msgs, Notify(m) PROVE UNCHANGED <<up, sock, timer>>
  BY <1>9 DEF Notify
<1>10. ASSUME NEW c \in Chans, Join(c) PROVE UNCHANGED <<up, sock, timer>>
  BY <1>10 DEF Join
<1>11. ASSUME NEW f \in Runs,
              Backfill(f) \/ Serve(f) \/ NoPage(f) \/ Seed(f) \/ Replay(f) \/ Replayed(f)
       PROVE  UNCHANGED <<up, sock, timer>>
  BY <1>11 DEF Backfill, Serve, NoPage, Seed, Replay, Replayed
<1> QED
  BY <1>1, <1>2, <1>3, <1>4, <1>5, <1>6, <1>7, <1>8, <1>9, <1>10, <1>11 DEF Next, Beat

LEMMA InvAlways == Spec => []Inv
<1>1. Inv /\ [Next]_vars => Inv'
  BY TypeStep, DataStep, TimerStep DEF Inv, SlotInv
<1> QED
  BY InitInv, <1>1, PTL DEF Spec

-----------------------------------------------------------------------------
\* In every reachable state the slot's state has its shape and no cursor, in
\* memory or on file, is ahead of the hub.
THEOREM SlotTypeCorrect == Spec => []TypeOK
<1>1. Inv => TypeOK
  BY DEF Inv
<1> QED
  BY InvAlways, <1>1, PTL

\* The slot is never left without a socket and without a reconnect timer, nor
\* with both, whatever closes, redirects and heartbeat ticks do to it.
THEOREM ConnectionKeptHolds == Spec => []ConnectionKept
<1>1. Inv => ConnectionKept
  BY DEF Inv
<1> QED
  BY InvAlways, <1>1, PTL

\* Live frames, overlapping backfills, restarts and the cursor file deliver a
\* message at most once more than the process lost its cursor.
THEOREM ToldOnceHolds == Spec => []ToldOnce
<1>1. Inv => ToldOnce
  BY DEF Inv, SlotInv, NotAgain, ToldOnce
<1> QED
  BY InvAlways, <1>1, PTL

-----------------------------------------------------------------------------
\* The step of BackfillSkipsNothing, for one message.
Skips(m) == Passed(m)' /\ ~Passed(m) /\ wire' = wire /\ Chan[m] \notin reseeded'

\* A row is handled in order: what lies before it was handled too.
LEMMA ReplaySkipsNothing ==
  ASSUME Inv, NEW f \in Runs, Replay(f), NEW m \in Msgs, Skips(m)
  PROVE  FALSE
<1> USE McpSlotAssumption DEF Inv, TypeOK, SlotInv
<1>1. PICK r \in Msgs : Oldest(r, fills[f].rows \ seen) /\ Handle(r)
  BY DEF Replay
<1>2. /\ fills[f].after > 0 /\ fills[f].after \in Nat /\ r \in fills[f].rows
      /\ r <= clock /\ Chan[r] = fills[f].chan /\ r \in 1..clock
  <2>1. fills[f].after > 0 /\ r \in fills[f].rows
    BY <1>1 DEF Replay, Oldest
  <2>2. fills[f] \in Fill
    OBVIOUS
  <2>3. r <= clock /\ Chan[r] = fills[f].chan
    BY <2>1 DEF RowsInOrder
  <2>4. r \in 1..clock
    BY <2>3 DEF Msgs
  <2> QED
    BY <2>1, <2>2, <2>3, <2>4 DEF Fill
<1>3. /\ \A c \in Chans : cursor'[c] # cursor[c] => c = Chan[r] /\ cursor'[c] = r
      /\ settled \cup {r} \subseteq settled' /\ UNCHANGED reseeded
  BY <1>1, <1>2, HandleShape
<1>4. /\ m <= cursor'[Chan[m]] /\ m \notin settled' /\ Chan[m] \notin reseeded
      /\ m \notin settled /\ ~(m <= cursor[Chan[m]]) /\ Chan[m] \in Chans
      /\ m \in Nat /\ cursor[Chan[m]] \in Nat
  BY <1>3 DEF Skips, Passed, Msgs
<1>5. Chan[m] = Chan[r] /\ m <= r /\ m # r
  BY <1>3, <1>4
<1>6. fills[f].after < m
  <2>1. fills[f].after <= cursor[Chan[m]]
    BY <1>2, <1>4, <1>5 DEF CursorAhead
  <2> QED
    BY <1>2, <1>4, <2>1
<1>7. m \in fills[f].rows
  <2>1. m \notin fills[f].rows => r < m
    BY <1>2, <1>4, <1>5, <1>6 DEF RowsInOrder
  <2> QED
    BY <1>2, <1>4, <1>5, <2>1
<1>8. m \in seen
  <2>1. m \notin seen => r <= m
    BY <1>1, <1>7 DEF Oldest
  <2> QED
    BY <1>2, <1>4, <1>5, <2>1
<1> QED
  BY <1>4, <1>8 DEF CursorAhead

\* A seed takes a cursor from nothing, and then nothing older was owed.
LEMMA SeedSkipsNothing ==
  ASSUME Inv, NEW f \in Runs, Seed(f), NEW m \in Msgs, Skips(m)
  PROVE  FALSE
<1> USE McpSlotAssumption DEF Inv, TypeOK, SlotInv
<1>1. /\ m <= cursor'[Chan[m]] /\ m \notin settled' /\ Chan[m] \notin reseeded'
      /\ ~(m <= cursor[Chan[m]] /\ m \notin settled) /\ m \in Nat /\ Chan[m] \in Chans
  BY DEF Skips, Passed, Msgs
<1>2. CASE UNCHANGED <<marks, history>>
  BY <1>1, <1>2
<1>3. ASSUME NEW r \in fills[f].rows,
             cursor' = [cursor EXCEPT ![fills[f].chan] = r] /\ save' = "due" /\ disk' = disk,
             IF cursor[fills[f].chan] = 0
             THEN settled' = settled \cup Older(r) \cup {r} /\ reseeded' = reseeded
             ELSE settled' = settled /\ reseeded' = reseeded \cup {fills[f].chan}
      PROVE  FALSE
  <2>1. r \in Nat /\ r <= clock /\ Chan[r] = fills[f].chan /\ fills[f].chan \in Chans
    <3>1. fills[f] \in Fill
      OBVIOUS
    <3>2. r <= clock /\ Chan[r] = fills[f].chan
      BY <1>3 DEF RowsInOrder
    <3> QED
      BY <3>1, <3>2 DEF Fill, Msgs
  <2>2. settled \subseteq settled' /\ m \notin settled
    BY <1>1, <1>3
  <2>3. Chan[m] = fills[f].chan /\ m <= r
    BY <1>1, <1>3, <2>1, <2>2
  <2>4. cursor[fills[f].chan] = 0
    BY <1>1, <1>3, <2>3
  <2>5. m = r \/ m \in Older(r)
    <3>0. clock \in Nat /\ m >= 1
      BY DEF Msgs
    <3>1. m \in 1..clock /\ (m = r \/ m < r)
      BY <1>1, <2>1, <2>3, <3>0
    <3> QED
      BY <3>1, <2>1, <2>3 DEF Older, Posted
  <2> QED
    BY <1>1, <1>3, <2>4, <2>5
<1> QED
  BY <1>2, <1>3 DEF Seed

\* The file is not ahead of the cursor, so a restart passes nothing.
LEMMA EndSkipsNothing ==
  ASSUME Inv, Ends, NEW m \in Msgs, Skips(m)
  PROVE  FALSE
<1> USE McpSlotAssumption DEF Inv, TypeOK, SlotInv
<1>1. PICK d \in [Chans -> 0..clock] :
        Gone(d) /\ ((d = cursor /\ lost' = lost) \/ (d \in Torn /\ lost' = lost + 1))
  BY DEF Ends
<1>2. cursor' = d /\ UNCHANGED <<settled, reseeded>>
  BY <1>1, GoneShape
<1>3. /\ m <= d[Chan[m]] /\ ~(m <= cursor[Chan[m]]) /\ Chan[m] \notin reseeded
      /\ m \in 1..MaxPosts /\ Chan[m] \in Chans
  BY <1>2 DEF Skips, Passed, Msgs
<1>4. d[Chan[m]] <= cursor[Chan[m]] /\ d[Chan[m]] \in Nat /\ cursor[Chan[m]] \in Nat
  BY <1>1, <1>3 DEF Torn, NoCursor, CursorAhead
<1> QED
  BY <1>3, <1>4

LEMMA StepSkipsNothing ==
  ASSUME Inv, [Next]_vars, NEW m \in Msgs, Skips(m)
  PROVE  FALSE
<1>1. CASE UNCHANGED <<cursor, settled>>
  BY <1>1 DEF Skips, Passed
<1>2. CASE Post
  BY <1>1, <1>2 DEF Post
<1>3. ASSUME NEW k \in Msgs, Notify(k) PROVE FALSE
  BY <1>1, <1>3 DEF Notify
<1>4. CASE Link
  BY <1>1, <1>4, LinkIsQuiet DEF Quiet, Core, Inv
<1>5. CASE Receive
  <2>1. wire' = Tail(wire) /\ wire # <<>> /\ wire \in Seq(1..clock)
    BY <1>5 DEF Receive, Inv, TypeOK
  <2>2. Len(Tail(wire)) # Len(wire)
    BY <2>1
  <2> QED
    BY <2>1, <2>2 DEF Skips
<1>6. ASSUME NEW f \in Runs, Backfill(f) \/ NoPage(f) \/ Replayed(f) \/ Serve(f) PROVE FALSE
  BY <1>1, <1>6 DEF Backfill, NoPage, Replayed, Serve
<1>7. ASSUME NEW f \in Runs, Seed(f) PROVE FALSE
  BY <1>7, SeedSkipsNothing
<1>8. ASSUME NEW f \in Runs, Replay(f) PROVE FALSE
  BY <1>8, ReplaySkipsNothing
<1>9. CASE Save
  BY <1>1, <1>9 DEF Save
<1>10. CASE Stop \/ Crash
  BY <1>10, EndSteps, EndSkipsNothing
<1>11. CASE UNCHANGED vars
  BY <1>1, <1>11 DEF vars
<1> QED
  BY <1>2, <1>3, <1>4, <1>5, <1>6, <1>7, <1>8, <1>9, <1>10, <1>11 DEF Next, Beat, Link

\* No step of a backfill, of the cursor file or of a restart moves a cursor
\* over a message nobody handled; only a live frame can.
THEOREM BackfillSkipsNothingHolds == Spec => BackfillSkipsNothing
<1>1. Inv /\ [Next]_vars =>
        [\A m \in Msgs :
           Passed(m)' => Passed(m) \/ wire' # wire \/ Chan[m] \in reseeded']_vars
  BY StepSkipsNothing DEF Skips
<1> QED
  BY InvAlways, <1>1, PTL DEF Spec, BackfillSkipsNothing
=============================================================================
