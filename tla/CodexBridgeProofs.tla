------------------------- MODULE CodexBridgeProofs -------------------------
(***************************************************************************)
(* Proofs about the Codex bridge, for every set of messages, every ticking *)
(* loop, every inbox capacity and any number of restarts.                  *)
(***************************************************************************)
EXTENDS CodexBridgeProps, FiniteSetTheorems, WellFoundedInduction, TLAPS

\* Changing one entry's status: the journal stays a journal, nothing else moves.
LEMMA MarkFacts ==
  ASSUME entries \in Seq(Entry), NEW i \in DOMAIN entries, NEW s \in Status, Mark(i, s)
  PROVE  /\ entries' \in Seq(Entry)
         /\ Len(entries') = Len(entries)
         /\ DOMAIN entries' = DOMAIN entries
         /\ entries'[i].status = s
         /\ \A j \in DOMAIN entries : entries'[j].msg = entries[j].msg
         /\ \A j \in DOMAIN entries : j # i => entries'[j] = entries[j]
<1> DEFINE n == [entries[i] EXCEPT !.status = s]
<1>1. entries' = [entries EXCEPT ![i] = n]
  BY DEF Mark
<1>a. entries[i] \in Entry
  OBVIOUS
<1>2. n \in Entry /\ n.msg = entries[i].msg /\ n.status = s
  BY <1>a DEF Entry
<1> HIDE DEF n
<1>3. entries' \in Seq(Entry) /\ Len(entries') = Len(entries)
  BY <1>1, <1>2
<1>4. QED
  BY <1>1, <1>2, <1>3

\* The head of the loop takes the oldest entry still to do.
LEMMA FirstFacts ==
  ASSUME entries \in Seq(Entry), Runnable # {}
  PROVE  /\ First(Runnable) \in Runnable
         /\ First(Runnable) \in DOMAIN entries
         /\ entries[First(Runnable)].status \in {"pending", "ready"}
         /\ \A j \in Runnable : First(Runnable) <= j
<1>1. Runnable \in SUBSET Nat
  BY DEF Runnable, With
<1>2. PICK n \in Runnable : \A k \in Runnable : n <= k
  <2> DEFINE R == OpToRel(<, Nat)
  <2>1. IsWellFoundedOn(R, Nat)
    BY NatLessThanWellFounded
  <2>2. \A x, y \in Nat : <<y, x>> \in R <=> y < x
    BY DEF OpToRel
  <2> HIDE DEF R
  <2>3. PICK least \in Runnable : \A k \in Runnable : ~(<<k, least>> \in R)
    BY <1>1, <2>1, WFMin
  <2>4. \A k \in Runnable : ~(k < least)
    BY <1>1, <2>2, <2>3
  <2>5. QED
    BY <1>1, <2>4
<1>3. First(Runnable) \in Runnable /\ \A j \in Runnable : First(Runnable) <= j
  BY <1>2 DEF First
<1>4. QED
  BY <1>3 DEF Runnable, With

\* Accepting appends one pending entry.
LEMMA AcceptFacts ==
  ASSUME entries \in Seq(Entry), NEW m \in Msgs, Accept(m)
  PROVE  /\ entries' \in Seq(Entry)
         /\ Len(entries') = Len(entries) + 1
         /\ DOMAIN entries' = 1..(Len(entries) + 1) /\ DOMAIN entries = 1..Len(entries)
         /\ Len(entries) \in Nat
         /\ entries'[Len(entries) + 1] = [msg |-> m, status |-> "pending"]
         /\ \A j \in DOMAIN entries : entries'[j] = entries[j]
<1>1. [msg |-> m, status |-> "pending"] \in Entry
  BY DEF Entry, Status, Active
<1>2. QED
  BY <1>1 DEF Accept

\* Loading the journal keeps every message and settles what was in hand.
LEMMA BootFacts ==
  ASSUME entries \in Seq(Entry), Boot
  PROVE  /\ entries' \in Seq(Entry)
         /\ Len(entries') = Len(entries)
         /\ DOMAIN entries' = DOMAIN entries
         /\ \A j \in DOMAIN entries :
              /\ entries'[j].msg = entries[j].msg
              /\ entries'[j].status = Reloaded(entries[j].status)
<1> DEFINE e(i) == [msg |-> entries[i].msg, status |-> Reloaded(entries[i].status)]
<1>a. \A j \in 1..Len(entries) : entries[j] \in Entry
  OBVIOUS
<1>1. \A j \in 1..Len(entries) : e(j) \in Entry
  BY <1>a DEF Entry, Reloaded, Status, Active, Settled
<1>2. entries' = [i \in 1..Len(entries) |-> e(i)]
  BY DEF Boot
<1>3. \A j \in DOMAIN entries : e(j).msg = entries[j].msg /\ e(j).status = Reloaded(entries[j].status)
  OBVIOUS
<1> HIDE DEF e
<1>4. Len(entries) \in Nat /\ DOMAIN entries = 1..Len(entries)
  OBVIOUS
<1>5. entries' \in Seq(Entry) /\ Len(entries') = Len(entries) /\ DOMAIN entries' = DOMAIN entries
  BY <1>1, <1>2, <1>4
<1>6. QED
  BY <1>2, <1>3, <1>4, <1>5

-----------------------------------------------------------------------------
\* Type correctness.
THEOREM TypeCorrect == Spec => []TypeOK
<1>1. Init => TypeOK
  <2> SUFFICES ASSUME Init PROVE TypeOK
    OBVIOUS
  <2>1. entries \in Seq(Entry)
    BY DEF Init
  <2>2. retry \in BOOLEAN
    BY Zenon DEF Init
  <2>3. QED
    BY <2>1, <2>2 DEF Init, TypeOK
<1>2. TypeOK /\ [Next]_vars => TypeOK'
  <2> SUFFICES ASSUME TypeOK, [Next]_vars PROVE TypeOK'
    OBVIOUS
  <2> USE DEF TypeOK, Sync, Awaiting, net
  <2>a. {"pending", "running", "ready", "sending", "sent", "failed",
         "uncertain", "blocked", "skipped"} \subseteq Status
    BY DEF Status, Active, Settled
  <2>b. at \notin {"idle", "pick"} => cur \in DOMAIN entries /\ entries[cur].msg \in Msgs
    <3>1. cur \in DOMAIN entries => entries[cur] \in Entry
      OBVIOUS
    <3>2. QED
      BY <3>1 DEF Entry
  <2>c. ASSUME NEW s \in Status, Mark(cur, s), at \notin {"idle", "pick"}
        PROVE  /\ entries' \in Seq(Entry) /\ Len(entries') = Len(entries)
               /\ DOMAIN entries' = DOMAIN entries
    BY <2>b, <2>c, MarkFacts
  <2>1. CASE \E m \in Msgs : Accept(m)
    <3> PICK m \in Msgs : Accept(m)
      BY <2>1
    <3>0. entries \in Seq(Entry)
      OBVIOUS
    <3>1. /\ entries' \in Seq(Entry)
          /\ DOMAIN entries' = 1..(Len(entries) + 1) /\ DOMAIN entries = 1..Len(entries)
          /\ Len(entries) \in Nat
      BY <3>0, AcceptFacts
    <3>2. QED
      BY <3>1 DEF Accept, Accepts, Stopped
  <2>2. CASE \E m \in Msgs : HubPosts(m)
    BY <2>2 DEF HubPosts
  <2>3. CASE RunEnds
    BY <2>3 DEF RunEnds
  <2>4. CASE Pick
    <3> DEFINE i == First(Runnable)
    <3>1. i \in DOMAIN entries
      BY <2>4, FirstFacts DEF Pick
    <3>2. /\ UNCHANGED <<permits, phase, retry, starts, turns, written, posted>>
          /\ \/ UNCHANGED <<at, cur>> /\ Mark(i, "blocked")
             \/ cur' = i /\ Mark(i, "running") /\ at' \in {"verify", "prepare"}
             \/ cur' = i /\ at' = "toSend" /\ UNCHANGED entries
      BY <2>4 DEF Pick
    <3>3. at = "pick"
      BY <2>4 DEF Pick
    <3> HIDE DEF i
    <3>4. entries' \in Seq(Entry) /\ DOMAIN entries' = DOMAIN entries
      BY <3>1, <3>2, <2>a, MarkFacts
    <3>5. QED
      BY <3>1, <3>2, <3>3, <3>4
  <2>5. CASE Verify
    <3>1. entries' \in Seq(Entry) /\ DOMAIN entries' = DOMAIN entries
      BY <2>5, <2>a, <2>c DEF Verify
    <3>2. QED
      BY <2>5, <3>1 DEF Verify
  <2>6. CASE Prepared
    BY <2>6, <2>b DEF Prepared
  <2>7. CASE ThreadBusy
    <3>1. entries' \in Seq(Entry) /\ DOMAIN entries' = DOMAIN entries
      BY <2>7, <2>a, <2>c DEF ThreadBusy
    <3>2. QED
      BY <2>7, <3>1 DEF ThreadBusy, Stopped
  <2>8. CASE Fails
    <3>1. entries' \in Seq(Entry) /\ DOMAIN entries' = DOMAIN entries
      BY <2>8, <2>a, <2>c DEF Fails
    <3>2. QED
      BY <2>8, <3>1 DEF Fails
  <2>9. CASE Answered
    <3>1. entries' \in Seq(Entry) /\ DOMAIN entries' = DOMAIN entries
      BY <2>9, <2>a, <2>c DEF Answered
    <3>2. QED
      BY <2>9, <3>1 DEF Answered
  <2>10. CASE MarkSending
    <3>1. entries' \in Seq(Entry) /\ DOMAIN entries' = DOMAIN entries
      BY <2>10, <2>a, <2>c DEF MarkSending
    <3>2. QED
      BY <2>10, <3>1 DEF MarkSending
  <2>11. CASE WriteReply
    BY <2>11, <2>b DEF WriteReply
  <2>12. CASE SendReturns
    <3>1. entries' \in Seq(Entry) /\ DOMAIN entries' = DOMAIN entries
      BY <2>12, <2>a, <2>c DEF SendReturns
    <3>2. QED
      BY <2>12, <3>1 DEF SendReturns
  <2>13. CASE RetryFires
    <3>1. retry' \in BOOLEAN
      BY <2>13, Zenon DEF RetryFires
    <3>2. QED
      BY <2>13, <3>1 DEF RetryFires, Free
  <2>14. CASE Process
    <3>1. CASE Boot
      <4>1. entries' \in Seq(Entry) /\ DOMAIN entries' = DOMAIN entries
        BY <3>1, BootFacts
      <4>2. QED
        BY <3>1, <4>1 DEF Boot
    <3>2. CASE Start
      BY <3>2 DEF Start
    <3>3. CASE Stop
      BY <3>3 DEF Stop
    <3>4. CASE Exit
      BY <3>4 DEF Exit
    <3>5. CASE Crash
      BY <3>5 DEF Crash
    <3>6. QED
      BY <2>14, <3>1, <3>2, <3>3, <3>4, <3>5 DEF Process
  <2>15. CASE \E S \in SUBSET Ticks : EditGrants(S)
    BY <2>15 DEF EditGrants, Ticks
  <2>16. CASE \E S \in SUBSET (Msgs \ Ticks) : Reconfigure(S)
    BY <2>16 DEF Reconfigure
  <2>17. CASE UNCHANGED vars
    BY <2>17 DEF vars
  <2>18. QED
    BY <2>1, <2>2, <2>3, <2>4, <2>5, <2>6, <2>7, <2>8, <2>9, <2>10, <2>11,
       <2>12, <2>13, <2>14, <2>15, <2>16, <2>17 DEF Next, Loop
<1>3. QED
  BY <1>1, <1>2, PTL DEF Spec

-----------------------------------------------------------------------------
\* What every step that moves one entry's status leaves alone: the messages
\* in the journal, and with them the absence of duplicates.
LEMMA SameJournal ==
  ASSUME NoDuplicates, WorkBounded, DOMAIN entries' = DOMAIN entries,
         \A j \in DOMAIN entries : entries'[j].msg = entries[j].msg
  PROVE  /\ NoDuplicates'
         /\ \A m \in Msgs : (\A i \in DOMAIN entries : entries[i].msg # m)
                          <=> (\A i \in DOMAIN entries' : entries'[i].msg # m)
<1>1. NoDuplicates'
  BY DEF NoDuplicates, SameWork
<1>2. QED
  BY <1>1

\* Two entries of the journal never carry the same message.
LEMMA DistinctMsgs ==
  ASSUME NoDuplicates, NEW i \in DOMAIN entries, NEW j \in DOMAIN entries,
         entries[i].msg = entries[j].msg
  PROVE  i = j
  BY DEF NoDuplicates, SameWork

LEMMA AcceptInv ==
  ASSUME TypeOK, InboxInv, NEW m \in Msgs, Accept(m)
  PROVE  InboxInv'
<1> DEFINE n == Len(entries) + 1
<1>0. entries \in Seq(Entry)
  BY DEF TypeOK
<1>1. /\ DOMAIN entries' = 1..n /\ DOMAIN entries = 1..Len(entries) /\ Len(entries) \in Nat
      /\ entries'[n] = [msg |-> m, status |-> "pending"]
      /\ \A j \in DOMAIN entries : entries'[j] = entries[j]
  BY <1>0, AcceptFacts
<1>2. /\ UNCHANGED <<phase, cur, turns, written, posted>>
      /\ ~Known(m) /\ phase = "up"
      /\ at' = at \/ (at = "idle" /\ at' = "pick")
  BY DEF Accept, Accepts, Stopped, net
<1>3. \A i \in DOMAIN entries' : i \in DOMAIN entries \/ i = n
  BY <1>1
<1>4. n \notin DOMAIN entries /\ DOMAIN entries \subseteq DOMAIN entries'
  BY <1>1
<1>5. cur # 0 => cur \in DOMAIN entries
  BY DEF TypeOK
<1>6. cur # n
  BY <1>1, <1>4, <1>5
<1>7. turns[m] = 0 /\ written[m] = 0
  BY <1>2 DEF InboxInv, WorkBounded, Known, SameWork
<1>8. \A j \in DOMAIN entries : ~SameWork(m, entries[j].msg) /\ ~SameWork(entries[j].msg, m)
  <2>1. \A j \in DOMAIN entries : ~SameWork(m, entries[j].msg)
    BY <1>2 DEF Known
  <2>2. \A j \in DOMAIN entries : entries[j] \in Entry
    BY <1>0
  <2>3. QED
    BY <2>1, <2>2 DEF SameWork, Ticks, Entry
<1> HIDE DEF n
<1>11. LoopHoldsEntry'
  BY <1>1, <1>2, <1>4 DEF InboxInv, LoopHoldsEntry, TypeOK
<1>12. OneInHand'
  BY <1>1, <1>2, <1>3 DEF InboxInv, OneInHand
<1>13. NoDuplicates'
  BY <1>1, <1>3, <1>8 DEF InboxInv, NoDuplicates
<1>14. WorkMatches'
  BY <1>1, <1>2, <1>3, <1>6, <1>7 DEF InboxInv, WorkMatches
<1>15. WorkBounded'
  BY <1>1, <1>2, <1>3, <1>4 DEF InboxInv, WorkBounded
<1>16. QED
  BY <1>11, <1>12, <1>13, <1>14, <1>15 DEF InboxInv

\* A step that marks the entry in the loop's hands, and its facts.
LEMMA MarkInHand ==
  ASSUME TypeOK, NEW s \in Status, Mark(cur, s), cur \in DOMAIN entries
  PROVE  /\ DOMAIN entries' = DOMAIN entries
         /\ entries'[cur].status = s
         /\ \A j \in DOMAIN entries : entries'[j].msg = entries[j].msg
         /\ \A j \in DOMAIN entries : j # cur => entries'[j] = entries[j]
         /\ entries[cur].msg \in Msgs
<1>1. entries \in Seq(Entry)
  BY DEF TypeOK
<1>2. entries[cur] \in Entry
  BY <1>1
<1>3. QED
  BY <1>1, <1>2, MarkFacts DEF Entry

\* The loop gives an entry up, or back to the queue, and lets go of it.
LEMMA LetGoInv ==
  ASSUME TypeOK, InboxInv, at \notin {"idle", "pick"}, NEW s \in Status,
         Mark(cur, s), cur' = 0, at' \in {"idle", "pick"},
         UNCHANGED <<phase, turns, written, posted>>,
         s \notin {"running", "sending"},
         s = "pending" => turns[entries[cur].msg] = 0,
         s \notin {"sent", "uncertain"} => written[entries[cur].msg] = 0,
         s = "sent" => posted[entries[cur].msg] = 1
  PROVE  InboxInv'
<1>1. cur \in DOMAIN entries /\ cur # 0
  <2>1. cur \in DOMAIN entries
    BY DEF TypeOK
  <2>2. entries \in Seq(Entry)
    BY DEF TypeOK
  <2>3. QED
    BY <2>1, <2>2
<1>2. /\ DOMAIN entries' = DOMAIN entries
      /\ entries'[cur].status = s
      /\ \A j \in DOMAIN entries : entries'[j].msg = entries[j].msg
      /\ \A j \in DOMAIN entries : j # cur => entries'[j] = entries[j]
  BY <1>1, MarkInHand
<1>3. LoopHoldsEntry'
  BY DEF LoopHoldsEntry
<1>4. OneInHand'
  BY <1>1, <1>2 DEF InboxInv, OneInHand
<1>5. NoDuplicates'
  BY <1>2, SameJournal DEF InboxInv
<1>6. WorkMatches'
  BY <1>1, <1>2 DEF InboxInv, WorkMatches
<1>7. WorkBounded'
  BY <1>2 DEF InboxInv, WorkBounded
<1>8. QED
  BY <1>3, <1>4, <1>5, <1>6, <1>7 DEF InboxInv

\* The loop moves on with the entry it holds.
LEMMA HoldOnInv ==
  ASSUME TypeOK, InboxInv, NEW i \in DOMAIN entries, NEW s \in {"running", "ready", "sending"},
         Mark(i, s), cur' = i, UNCHANGED <<phase, turns, written, posted>>,
         at = "pick" \/ (at \notin {"idle", "pick"} /\ i = cur),
         phase # "down",
         s = "running" => at' \in {"verify", "prepare"},
         s = "ready" => at' = "toSend",
         s = "sending" => at' = "write",
         s = "running" => turns[entries[i].msg] = 0,
         written[entries[i].msg] = 0
  PROVE  InboxInv'
<1>1. entries \in Seq(Entry) /\ s \in Status
  BY DEF TypeOK, Status, Active
<1>2. /\ DOMAIN entries' = DOMAIN entries
      /\ entries'[i].status = s
      /\ \A j \in DOMAIN entries : entries'[j].msg = entries[j].msg
      /\ \A j \in DOMAIN entries : j # i => entries'[j] = entries[j]
  BY <1>1, MarkFacts
<1>3. LoopHoldsEntry'
  BY <1>2 DEF LoopHoldsEntry
<1>4. OneInHand'
  BY <1>2 DEF InboxInv, OneInHand
<1>5. NoDuplicates'
  BY <1>2, SameJournal DEF InboxInv
<1>6. WorkMatches'
  BY <1>2 DEF InboxInv, WorkMatches
<1>7. WorkBounded'
  BY <1>2 DEF InboxInv, WorkBounded
<1>8. QED
  BY <1>3, <1>4, <1>5, <1>6, <1>7 DEF InboxInv

LEMMA PickInv ==
  ASSUME TypeOK, InboxInv, Pick
  PROVE  InboxInv'
<1> DEFINE i == First(Runnable)
<1>1. entries \in Seq(Entry) /\ at = "pick" /\ phase = "up"
  BY DEF TypeOK, Pick, Stopped
<1>2. i \in DOMAIN entries /\ entries[i].status \in {"pending", "ready"}
  BY <1>1, FirstFacts DEF Pick
<1>3. UNCHANGED <<phase, turns, written, posted>>
  BY DEF Pick, net
<1>4. entries[i].msg \in Msgs
  <2>1. entries[i] \in Entry
    BY <1>1, <1>2
  <2>2. QED
    BY <2>1 DEF Entry
<1>5. written[entries[i].msg] = 0 /\ (entries[i].status = "pending" => turns[entries[i].msg] = 0)
  BY <1>2 DEF InboxInv, WorkMatches
<1>6. \/ Mark(i, "blocked") /\ UNCHANGED <<at, cur>>
      \/ Mark(i, "running") /\ cur' = i /\ at' \in {"verify", "prepare"} /\ entries[i].status = "pending"
      \/ cur' = i /\ at' = "toSend" /\ entries[i].status = "ready" /\ UNCHANGED entries
  BY DEF Pick
<1> HIDE DEF i
<1>7. CASE Mark(i, "blocked") /\ UNCHANGED <<at, cur>>
  <2>1. "blocked" \in Status
    BY DEF Status, Settled
  <2>2. /\ DOMAIN entries' = DOMAIN entries
        /\ entries'[i].status = "blocked"
        /\ \A j \in DOMAIN entries : entries'[j].msg = entries[j].msg
        /\ \A j \in DOMAIN entries : j # i => entries'[j] = entries[j]
    BY <1>1, <1>2, <1>7, <2>1, MarkFacts
  <2>3. LoopHoldsEntry'
    BY <1>1, <1>7 DEF LoopHoldsEntry
  <2>4. OneInHand'
    BY <1>1, <1>3, <1>7, <2>2 DEF InboxInv, OneInHand
  <2>5. NoDuplicates'
    BY <2>2, SameJournal DEF InboxInv
  <2>6. WorkMatches'
    BY <1>1, <1>3, <1>5, <1>7, <2>2 DEF InboxInv, WorkMatches
  <2>7. WorkBounded'
    BY <1>3, <2>2 DEF InboxInv, WorkBounded
  <2>8. QED
    BY <2>3, <2>4, <2>5, <2>6, <2>7 DEF InboxInv
<1>8. CASE Mark(i, "running") /\ cur' = i /\ at' \in {"verify", "prepare"} /\ entries[i].status = "pending"
  <2>1. "running" \in {"running", "ready", "sending"}
    OBVIOUS
  <2>2. Mark(i, "running") /\ cur' = i /\ at' \in {"verify", "prepare"}
        /\ turns[entries[i].msg] = 0 /\ written[entries[i].msg] = 0
    BY <1>5, <1>8
  <2>3. phase # "down"
    BY <1>1
  <2>4. QED
    BY <1>1, <1>2, <1>3, <2>1, <2>2, <2>3, HoldOnInv
<1>9. CASE cur' = i /\ at' = "toSend" /\ entries[i].status = "ready" /\ UNCHANGED entries
  BY <1>1, <1>2, <1>3, <1>9
     DEF InboxInv, LoopHoldsEntry, OneInHand, NoDuplicates, WorkMatches, WorkBounded
<1>10. QED
  BY <1>6, <1>7, <1>8, <1>9

\* The steps of the loop on the entry in its hands.
LEMMA LoopInv ==
  ASSUME TypeOK, InboxInv, Loop
  PROVE  InboxInv'
<1> USE DEF net
<1>a. {"pending", "running", "ready", "sending", "sent", "failed",
       "uncertain", "blocked", "skipped"} \subseteq Status
  BY DEF Status, Active, Settled
<1>b. /\ at \notin {"idle", "pick"} => cur \in DOMAIN entries
      /\ at \notin {"idle", "pick"} => phase # "down"
  BY DEF TypeOK
<1>c. at \in {"verify", "prepare"} => turns[entries[cur].msg] = 0
  BY <1>b DEF InboxInv, WorkMatches
<1>d. at \in {"verify", "prepare", "turn", "toSend", "write"} => written[entries[cur].msg] = 0
  BY <1>b DEF InboxInv, WorkMatches, LoopHoldsEntry
<1>1. CASE RunEnds
  <2>1. LoopHoldsEntry' /\ OneInHand'
    BY <1>1 DEF RunEnds, InboxInv, LoopHoldsEntry, OneInHand
  <2>2. NoDuplicates' /\ WorkMatches'
    BY <1>1 DEF RunEnds, InboxInv, NoDuplicates, WorkMatches
  <2>3. WorkBounded'
    BY <1>1 DEF RunEnds, InboxInv, WorkBounded
  <2>4. QED
    BY <2>1, <2>2, <2>3 DEF InboxInv
<1>2. CASE Pick
  BY <1>2, PickInv
<1>3. CASE Verify
  <2>1. CASE UNCHANGED <<entries, cur>> /\ at' = "prepare"
    BY <1>3, <2>1 DEF Verify, InboxInv, LoopHoldsEntry, OneInHand, NoDuplicates, WorkMatches, WorkBounded
  <2>2. CASE Mark(cur, "blocked") /\ at' = "pick" /\ cur' = 0
    BY <1>3, <1>a, <1>d, <2>2, LetGoInv DEF Verify
  <2>3. QED
    BY <1>3, <2>1, <2>2 DEF Verify
<1>4. CASE Prepared
  <2>1. /\ at = "prepare" /\ at' = "turn" /\ UNCHANGED <<entries, cur, phase, written, posted>>
        /\ turns' = [turns EXCEPT ![entries[cur].msg] = @ + 1]
    BY <1>4 DEF Prepared
  <2>2. entries \in Seq(Entry) /\ turns \in [Msgs -> Nat]
    BY DEF TypeOK
  <2>3. entries[cur].msg \in Msgs
    <3>1. entries[cur] \in Entry
      BY <1>b, <2>1, <2>2
    <3>2. QED
      BY <3>1 DEF Entry
  <2>4. \A m \in Msgs : m # entries[cur].msg => turns'[m] = turns[m]
    BY <2>1, <2>2
  <2>5. turns'[entries[cur].msg] = 1
    BY <1>c, <2>1, <2>2, <2>3
  <2>6. \A j \in DOMAIN entries : entries[j].msg \in Msgs
    <3>1. \A j \in DOMAIN entries : entries[j] \in Entry
      BY <2>2
    <3>2. QED
      BY <3>1 DEF Entry
  <2>7. \A j \in DOMAIN entries : entries[j].msg = entries[cur].msg => j = cur
    BY <1>b, <2>1, DistinctMsgs DEF InboxInv
  <2>8. LoopHoldsEntry' /\ OneInHand' /\ NoDuplicates'
    BY <2>1 DEF InboxInv, LoopHoldsEntry, OneInHand, NoDuplicates
  <2>9. WorkMatches'
    BY <1>b, <2>1, <2>4, <2>5, <2>6, <2>7 DEF InboxInv, WorkMatches, LoopHoldsEntry
  <2>10. WorkBounded'
    BY <1>b, <2>1, <2>4, <2>5 DEF InboxInv, WorkBounded
  <2>11. QED
    BY <2>8, <2>9, <2>10 DEF InboxInv
<1>5. CASE ThreadBusy
  BY <1>5, <1>a, <1>c, <1>d, LetGoInv DEF ThreadBusy
<1>6. CASE Fails
  BY <1>6, <1>a, <1>d, LetGoInv DEF Fails
<1>7. CASE Answered
  <2>1. CASE Mark(cur, "ready") /\ Stopped /\ at' = "idle" /\ cur' = 0
    BY <1>7, <1>a, <1>d, <2>1, LetGoInv DEF Answered
  <2>2. CASE Mark(cur, "ready") /\ ~Stopped /\ at' = "toSend" /\ cur' = cur
    BY <1>7, <1>b, <1>d, <2>2, HoldOnInv DEF Answered
  <2>3. CASE Mark(cur, "skipped") /\ at' = "pick" /\ cur' = 0
    BY <1>7, <1>a, <1>d, <2>3, LetGoInv DEF Answered
  <2>4. QED
    BY <1>7, <2>1, <2>2, <2>3 DEF Answered
<1>8. CASE MarkSending
  BY <1>8, <1>b, <1>d, HoldOnInv DEF MarkSending
<1>9. CASE WriteReply
  <2>1. /\ at = "write" /\ at' = "send" /\ UNCHANGED <<entries, cur, phase, turns, posted>>
        /\ written' = [written EXCEPT ![entries[cur].msg] = @ + 1]
    BY <1>9 DEF WriteReply
  <2>2. entries \in Seq(Entry) /\ written \in [Msgs -> Nat] /\ posted \in [Msgs -> Nat]
    BY DEF TypeOK
  <2>3. \A j \in DOMAIN entries : entries[j].msg \in Msgs
    <3>1. \A j \in DOMAIN entries : entries[j] \in Entry
      BY <2>2
    <3>2. QED
      BY <3>1 DEF Entry
  <2>4. \A m \in Msgs : m # entries[cur].msg => written'[m] = written[m]
    BY <2>1, <2>2
  <2>5. written'[entries[cur].msg] = 1
    BY <1>b, <1>d, <2>1, <2>2, <2>3
  <2>6. \A j \in DOMAIN entries : entries[j].msg = entries[cur].msg => j = cur
    BY <1>b, <2>1, DistinctMsgs DEF InboxInv
  <2>7. LoopHoldsEntry' /\ OneInHand' /\ NoDuplicates'
    BY <2>1 DEF InboxInv, LoopHoldsEntry, OneInHand, NoDuplicates
  <2>8. WorkMatches'
    BY <1>b, <2>1, <2>3, <2>4, <2>5, <2>6 DEF InboxInv, WorkMatches, LoopHoldsEntry
  <2>9. WorkBounded'
    <3> SUFFICES ASSUME NEW m \in Msgs
                 PROVE  /\ turns[m] <= 1 /\ written'[m] <= 1 /\ posted[m] <= written'[m]
                        /\ (\A i \in DOMAIN entries : entries[i].msg # m) =>
                             turns[m] = 0 /\ written'[m] = 0
      BY <2>1 DEF WorkBounded
    <3>1. CASE m = entries[cur].msg
      BY <1>b, <2>1, <2>2, <2>5, <3>1 DEF InboxInv, WorkBounded
    <3>2. CASE m # entries[cur].msg
      BY <2>4, <3>2 DEF InboxInv, WorkBounded
    <3>3. QED
      BY <3>1, <3>2
  <2>10. QED
    BY <2>7, <2>8, <2>9 DEF InboxInv
<1>10. CASE SendReturns
  <2>1. at = "send" /\ written[entries[cur].msg] = 1
    BY <1>10, <1>b DEF SendReturns, InboxInv, WorkMatches
  <2>2. CASE posted[entries[cur].msg] = written[entries[cur].msg] /\ Mark(cur, "sent")
    <3>1. posted[entries[cur].msg] = 1
      BY <2>1, <2>2
    <3>2. /\ cur' = 0 /\ at' = "pick" /\ at \notin {"idle", "pick"}
          /\ UNCHANGED <<phase, turns, written, posted>>
      BY <1>10 DEF SendReturns
    <3>3. QED
      BY <1>a, <2>2, <3>1, <3>2, LetGoInv
  <2>3. CASE Mark(cur, "uncertain")
    BY <1>10, <1>a, <2>1, <2>3, LetGoInv DEF SendReturns
  <2>4. QED
    BY <1>10, <2>2, <2>3 DEF SendReturns
<1>11. QED
  BY <1>1, <1>2, <1>3, <1>4, <1>5, <1>6, <1>7, <1>8, <1>9, <1>10 DEF Loop

LEMMA BootInv ==
  ASSUME TypeOK, InboxInv, Boot
  PROVE  InboxInv'
<1>1. entries \in Seq(Entry) /\ at = "idle" /\ cur = 0
  BY DEF TypeOK, Boot
<1>2. /\ DOMAIN entries' = DOMAIN entries
      /\ \A j \in DOMAIN entries : entries'[j].msg = entries[j].msg
      /\ \A j \in DOMAIN entries : entries'[j].status = Reloaded(entries[j].status)
  BY <1>1, BootFacts
<1>3. UNCHANGED <<at, cur, turns, written, posted>> /\ phase' = "boot"
  BY DEF Boot, net
<1>4. \A s \in Status :
        /\ Reloaded(s) \notin {"running", "sending"}
        /\ Reloaded(s) \in {s, "uncertain", "failed"}
        /\ Reloaded(s) = "failed" => s \in {"running", "failed"}
        /\ Reloaded(s) # "uncertain" => s \notin {"sending", "uncertain"}
  BY DEF Reloaded
<1>5. \A j \in DOMAIN entries : entries[j].status \in Status
  <2>1. \A j \in DOMAIN entries : entries[j] \in Entry
    BY <1>1
  <2>2. QED
    BY <2>1 DEF Entry
<1>6. LoopHoldsEntry'
  BY <1>1, <1>3 DEF LoopHoldsEntry
<1>7. OneInHand'
  BY <1>2, <1>4, <1>5 DEF OneInHand
<1>8. NoDuplicates'
  BY <1>2, SameJournal DEF InboxInv
<1>9. WorkMatches'
  BY <1>1, <1>2, <1>3, <1>4, <1>5 DEF InboxInv, WorkMatches
<1>10. WorkBounded'
  BY <1>2, <1>3 DEF InboxInv, WorkBounded
<1>11. QED
  BY <1>6, <1>7, <1>8, <1>9, <1>10 DEF InboxInv

LEMMA HubInv ==
  ASSUME TypeOK, InboxInv, NEW m \in Msgs, HubPosts(m)
  PROVE  InboxInv'
<1>1. /\ posted[m] < written[m] /\ posted' = [posted EXCEPT ![m] = @ + 1]
      /\ UNCHANGED <<entries, phase, at, cur, turns, written>>
  BY DEF HubPosts
<1>2. posted \in [Msgs -> Nat] /\ written \in [Msgs -> Nat]
  BY DEF TypeOK
<1>3. /\ posted'[m] = posted[m] + 1
      /\ \A n \in Msgs : n # m => posted'[n] = posted[n]
  BY <1>1, <1>2
<1>4. posted[m] = 0 /\ written[m] = 1
  BY <1>1, <1>2 DEF InboxInv, WorkBounded
<1>5. LoopHoldsEntry' /\ OneInHand' /\ NoDuplicates'
  BY <1>1 DEF InboxInv, LoopHoldsEntry, OneInHand, NoDuplicates
<1>6. \A j \in DOMAIN entries : entries[j].msg \in Msgs
  <2>1. \A j \in DOMAIN entries : entries[j] \in Entry
    BY DEF TypeOK
  <2>2. QED
    BY <2>1 DEF Entry
<1>7. WorkMatches'
  BY <1>1, <1>3, <1>4, <1>6 DEF InboxInv, WorkMatches
<1>8. WorkBounded'
  BY <1>1, <1>2, <1>3, <1>4 DEF InboxInv, WorkBounded
<1>9. QED
  BY <1>5, <1>7, <1>8 DEF InboxInv

\* Steps that neither touch the journal nor do any work for it.
LEMMA QuietInv ==
  ASSUME TypeOK, InboxInv, UNCHANGED <<entries, turns, written, posted>>,
         \/ UNCHANGED <<phase, at, cur>>
         \/ UNCHANGED <<phase, cur>> /\ at = "idle" /\ at' = "pick"
         \/ at' \in {"idle", "pick"} /\ at = "idle" /\ phase = "boot" /\ UNCHANGED cur
         \/ phase # "down" /\ phase' # "down" /\ UNCHANGED <<at, cur>>
         \/ phase' = "down" /\ at' = "idle" /\ cur' = 0
  PROVE  InboxInv'
<1>1. LoopHoldsEntry'
  BY DEF InboxInv, LoopHoldsEntry
<1>2. OneInHand'
  BY DEF InboxInv, OneInHand
<1>3. NoDuplicates'
  BY DEF InboxInv, NoDuplicates
<1>4. WorkMatches'
  BY DEF InboxInv, WorkMatches
<1>5. WorkBounded'
  BY DEF InboxInv, WorkBounded
<1>6. QED
  BY <1>1, <1>2, <1>3, <1>4, <1>5 DEF InboxInv

\* The inductive invariant of the inbox: whatever crashes, stops, restarts,
\* grant edits and late postings do, the journal, the loop and the work done
\* agree.
THEOREM InboxInvariant == Spec => []InboxInv
<1>1. Init => InboxInv
  BY DEF Init, InboxInv, LoopHoldsEntry, OneInHand, NoDuplicates, WorkMatches, WorkBounded
<1>2. TypeOK /\ InboxInv /\ [Next]_vars => InboxInv'
  <2> SUFFICES ASSUME TypeOK, InboxInv, [Next]_vars PROVE InboxInv'
    OBVIOUS
  <2>1. CASE \E m \in Msgs : Accept(m)
    BY <2>1, AcceptInv
  <2>2. CASE \E m \in Msgs : HubPosts(m)
    BY <2>2, HubInv
  <2>3. CASE Loop
    BY <2>3, LoopInv
  <2>4. CASE RetryFires
    BY <2>4, QuietInv DEF RetryFires, net
  <2>5. CASE Boot
    BY <2>5, BootInv
  <2>6. CASE Start
    BY <2>6, QuietInv DEF Start, net, TypeOK
  <2>7. CASE Stop
    BY <2>7, QuietInv DEF Stop, net
  <2>8. CASE Exit
    BY <2>8, QuietInv DEF Exit, net, TypeOK
  <2>9. CASE Crash
    BY <2>9, QuietInv DEF Crash, net
  <2>10. CASE \E S \in SUBSET Ticks : EditGrants(S)
    BY <2>10, QuietInv DEF EditGrants, net
  <2>11. CASE \E S \in SUBSET (Msgs \ Ticks) : Reconfigure(S)
    BY <2>11, QuietInv DEF Reconfigure, net
  <2>12. CASE UNCHANGED vars
    BY <2>12, QuietInv DEF vars
  <2>13. QED
    BY <2>1, <2>2, <2>3, <2>4, <2>5, <2>6, <2>7, <2>8, <2>9, <2>10, <2>11, <2>12
       DEF Next, Process
<1>3. QED
  BY <1>1, <1>2, TypeCorrect, PTL DEF Spec

-----------------------------------------------------------------------------
\* No message ever gets two replies (bridge.ts, run and the constructor).
THEOREM AtMostOneReplyHolds == Spec => []AtMostOneReply
<1>1. TypeOK /\ InboxInv => AtMostOneReply
  <2> SUFFICES ASSUME TypeOK, InboxInv, NEW m \in Msgs PROVE posted[m] <= 1
    BY DEF AtMostOneReply
  <2>1. posted[m] \in Nat /\ written[m] \in Nat
    BY DEF TypeOK
  <2>2. posted[m] <= written[m] /\ written[m] <= 1
    BY DEF InboxInv, WorkBounded
  <2>3. QED
    BY <2>1, <2>2
<1>2. QED
  BY <1>1, TypeCorrect, InboxInvariant, PTL

\* No message, and no tick under a second id, is run by the model twice.
THEOREM OneTurnPerTaskHolds == Spec => []OneTurnPerTask
<1>1. TypeOK /\ InboxInv => OneTurnPerTask
  <2> SUFFICES ASSUME TypeOK, InboxInv, NEW m \in Msgs, NEW n \in Msgs,
                      turns[m] > 0, turns[n] > 0, SameWork(m, n)
               PROVE  m = n /\ turns[m] = 1
    BY DEF OneTurnPerTask
  <2>1. turns[m] \in Nat /\ turns[n] \in Nat /\ turns[m] <= 1
    BY DEF TypeOK, InboxInv, WorkBounded
  <2>2. PICK i \in DOMAIN entries : entries[i].msg = m
    BY <2>1 DEF InboxInv, WorkBounded
  <2>3. PICK j \in DOMAIN entries : entries[j].msg = n
    BY <2>1 DEF InboxInv, WorkBounded
  <2>4. i = j
    BY <2>2, <2>3 DEF InboxInv, NoDuplicates
  <2>5. QED
    BY <2>1, <2>2, <2>3, <2>4
<1>2. QED
  BY <1>1, TypeCorrect, InboxInvariant, PTL

\* The journal tells the truth at every moment a crash could freeze it.
THEOREM JournalTruthfulHolds == Spec => []JournalTruthful
<1>1. InboxInv => JournalTruthful
  BY DEF InboxInv, WorkMatches, JournalTruthful
<1>2. QED
  BY <1>1, InboxInvariant, PTL

-----------------------------------------------------------------------------
\* Marking one entry keeps the arrival order when the entry is unfinished and
\* nothing before it is.
LEMMA MarkOrder ==
  ASSUME TypeOK, ArrivalOrder, NEW i \in DOMAIN entries, NEW s \in Status, Mark(i, s),
         entries[i].status \in Active,
         \A a \in DOMAIN entries : a < i => entries[a].status \notin Active
  PROVE  ArrivalOrder'
<1>1. entries \in Seq(Entry)
  BY DEF TypeOK
<1>2. /\ DOMAIN entries' = DOMAIN entries
      /\ entries'[i].status = s
      /\ \A j \in DOMAIN entries : j # i => entries'[j] = entries[j]
  BY <1>1, MarkFacts
<1>3. QED
  BY <1>1, <1>2 DEF ArrivalOrder

\* The entry in the loop's hands is the first unfinished one.
LEMMA InHandIsFirst ==
  ASSUME TypeOK, InboxInv, ArrivalOrder, at \notin {"idle", "pick"}
  PROVE  /\ cur \in DOMAIN entries /\ entries[cur].status \in Active \ {"pending"}
         /\ \A a \in DOMAIN entries : a < cur => entries[a].status \notin Active
<1>1. cur \in DOMAIN entries
  BY DEF TypeOK
<1>2. entries[cur].status \in Active \ {"pending"}
  BY DEF InboxInv, LoopHoldsEntry, TypeOK, Sync, Awaiting, Active
<1>3. QED
  BY <1>1, <1>2 DEF ArrivalOrder

\* So is the entry the loop picks.
LEMMA PickedIsFirst ==
  ASSUME TypeOK, InboxInv, Pick
  PROVE  /\ First(Runnable) \in DOMAIN entries /\ entries[First(Runnable)].status \in Active
         /\ \A a \in DOMAIN entries : a < First(Runnable) => entries[a].status \notin Active
<1> DEFINE i == First(Runnable)
<1>1. entries \in Seq(Entry) /\ at = "pick" /\ phase = "up" /\ Runnable # {}
  BY DEF TypeOK, Pick, Stopped
<1>2. /\ i \in DOMAIN entries /\ entries[i].status \in {"pending", "ready"}
      /\ \A j \in Runnable : i <= j
  BY <1>1, FirstFacts
<1>3. \A a \in DOMAIN entries : entries[a].status \notin {"running", "sending"}
  BY <1>1 DEF InboxInv, OneInHand
<1>4. \A a \in DOMAIN entries : entries[a].status \in Active => a \in Runnable
  BY <1>3 DEF Active, Runnable, With
<1>5. i \in Nat /\ \A a \in DOMAIN entries : a \in Nat
  BY <1>1, <1>2
<1> HIDE DEF i
<1>6. \A a \in DOMAIN entries : a < i => entries[a].status \notin Active
  BY <1>2, <1>4, <1>5
<1>7. QED
  BY <1>2, <1>6 DEF Active, i

\* Requests are worked on in the order they were accepted.
THEOREM ArrivalOrderHolds == Spec => []ArrivalOrder
<1>1. Init => ArrivalOrder
  BY DEF Init, ArrivalOrder
<1>2. TypeOK /\ InboxInv /\ ArrivalOrder /\ [Next]_vars => ArrivalOrder'
  <2> SUFFICES ASSUME TypeOK, InboxInv, ArrivalOrder, [Next]_vars PROVE ArrivalOrder'
    OBVIOUS
  <2>a. entries \in Seq(Entry)
    BY DEF TypeOK
  <2>b. {"pending", "running", "ready", "sending", "sent", "failed",
         "uncertain", "blocked", "skipped"} \subseteq Status
    BY DEF Status, Active, Settled
  <2>c. ASSUME NEW s \in Status, Mark(cur, s), at \notin {"idle", "pick"}
        PROVE  ArrivalOrder'
    BY <2>c, InHandIsFirst, MarkOrder
  <2>1. CASE \E m \in Msgs : Accept(m)
    <3> PICK m \in Msgs : Accept(m)
      BY <2>1
    <3>1. /\ DOMAIN entries' = 1..(Len(entries) + 1) /\ DOMAIN entries = 1..Len(entries)
          /\ Len(entries) \in Nat
          /\ entries'[Len(entries) + 1] = [msg |-> m, status |-> "pending"]
          /\ \A j \in DOMAIN entries : entries'[j] = entries[j]
      BY <2>a, AcceptFacts
    <3>2. QED
      BY <3>1 DEF ArrivalOrder
  <2>2. CASE Pick
    <3> DEFINE i == First(Runnable)
    <3>1. Mark(i, "blocked") \/ Mark(i, "running") \/ UNCHANGED entries
      BY <2>2 DEF Pick
    <3>2. /\ i \in DOMAIN entries /\ entries[i].status \in Active
          /\ \A a \in DOMAIN entries : a < i => entries[a].status \notin Active
      BY <2>2, PickedIsFirst
    <3> HIDE DEF i
    <3>3. QED
      BY <2>b, <3>1, <3>2, MarkOrder DEF ArrivalOrder
  <2>3. CASE Verify
    BY <2>b, <2>c, <2>3 DEF Verify, ArrivalOrder
  <2>4. CASE ThreadBusy
    BY <2>b, <2>c, <2>4 DEF ThreadBusy
  <2>5. CASE Fails
    BY <2>b, <2>c, <2>5 DEF Fails
  <2>6. CASE Answered
    BY <2>b, <2>c, <2>6 DEF Answered
  <2>7. CASE MarkSending
    BY <2>b, <2>c, <2>7 DEF MarkSending
  <2>8. CASE SendReturns
    BY <2>b, <2>c, <2>8 DEF SendReturns
  <2>9. CASE Boot
    <3>1. /\ DOMAIN entries' = DOMAIN entries
          /\ \A j \in DOMAIN entries : entries'[j].status = Reloaded(entries[j].status)
      BY <2>a, <2>9, BootFacts
    <3>2. \A s \in Status : /\ Reloaded(s) \in Active => s \in Active
                           /\ Reloaded("pending") = "pending"
      BY DEF Reloaded, Active
    <3>3. \A j \in DOMAIN entries : entries[j].status \in Status
      <4>1. \A j \in DOMAIN entries : entries[j] \in Entry
        BY <2>a
      <4>2. QED
        BY <4>1 DEF Entry
    <3>4. QED
      BY <3>1, <3>2, <3>3 DEF ArrivalOrder
  <2>10. CASE UNCHANGED entries
    BY <2>10 DEF ArrivalOrder
  <2>11. QED
    BY <2>1, <2>2, <2>3, <2>4, <2>5, <2>6, <2>7, <2>8, <2>9, <2>10
       DEF Next, Loop, Process, RunEnds, Prepared, WriteReply, HubPosts, RetryFires,
           Start, Stop, Exit, Crash, EditGrants, Reconfigure, vars
<1>3. QED
  BY <1>1, <1>2, TypeCorrect, InboxInvariant, PTL DEF Spec

\* No lost wake-up: an idle loop with no timer armed leaves nothing to do.
THEOREM NothingStrandedHolds == Spec => []NothingStranded
<1>1. Init => NothingStranded
  BY DEF Init, NothingStranded
<1>2. TypeOK /\ NothingStranded /\ [Next]_vars => NothingStranded'
  <2> SUFFICES ASSUME TypeOK, NothingStranded, [Next]_vars,
                      phase' = "up", at' = "idle", ~retry'
               PROVE  Runnable' = {}
    BY DEF NothingStranded
  <2> USE DEF NothingStranded
  <2>0. UNCHANGED entries => (Runnable = {} => Runnable' = {})
    BY DEF Runnable, With
  <2>1. CASE \E m \in Msgs : Accept(m)
    BY <2>1 DEF Accept
  <2>2. CASE Loop
    BY <2>0, <2>2 DEF Loop, RunEnds, Pick, Verify, Prepared, ThreadBusy, Fails, Answered,
                MarkSending, WriteReply, SendReturns, Stopped
  <2>3. CASE Process
    BY <2>3 DEF Process, Boot, Start, Stop, Exit, Crash
  <2>4. CASE RetryFires
    BY <2>4 DEF RetryFires
  <2>5. CASE UNCHANGED <<entries, phase, at, retry>>
    BY <2>0, <2>5
  <2>6. QED
    BY <2>1, <2>2, <2>3, <2>4, <2>5 DEF Next, HubPosts, EditGrants, Reconfigure, vars
<1>3. QED
  BY <1>1, <1>2, TypeCorrect, PTL DEF Spec

-----------------------------------------------------------------------------
\* The fate ReplyOnce sees of a message is that of its one entry, or none yet.
FateRecorded ==
  /\ \A i \in DOMAIN entries : FateOf(entries[i].msg) = Fate(entries[i].status)
  /\ \A m \in Msgs : (\A i \in DOMAIN entries : entries[i].msg # m) => FateOf(m) = "unseen"

LEMMA FateAt == NoDuplicates => FateRecorded
<1> SUFFICES ASSUME NoDuplicates, NEW i \in DOMAIN entries
             PROVE  FateOf(entries[i].msg) = Fate(entries[i].status)
  BY DEF FateOf, FateRecorded
<1>1. (CHOOSE j \in DOMAIN entries : entries[j].msg = entries[i].msg) = i
  BY DistinctMsgs
<1>2. QED
  BY <1>1 DEF FateOf

\* A step that leaves every entry's message alone and no more than one entry's
\* fate changed is a step of ReplyOnce's fate record on that entry's message.
LEMMA FateMoves ==
  ASSUME TypeOK, InboxInv, InboxInv', NEW i \in DOMAIN entries,
         DOMAIN entries' = DOMAIN entries,
         \A j \in DOMAIN entries : entries'[j].msg = entries[j].msg,
         \A j \in DOMAIN entries : j # i => Fate(entries'[j].status) = Fate(entries[j].status)
  PROVE  /\ entries[i].msg \in Msgs
         /\ FateOf(entries[i].msg) = Fate(entries[i].status)
         /\ [m \in Msgs |-> FateOf(m)]' =
              [[m \in Msgs |-> FateOf(m)] EXCEPT ![entries[i].msg] = Fate(entries'[i].status)]
<1> DEFINE k == entries[i].msg
<1>1. NoDuplicates /\ NoDuplicates'
  BY DEF InboxInv
<1>2. FateRecorded
  BY <1>1, FateAt
<1>a. NoDuplicates' => FateRecorded'
  BY FateAt, PTL
<1>3. FateRecorded'
  BY <1>1, <1>a
<1>4. k \in Msgs
  <2>1. entries \in Seq(Entry)
    BY DEF TypeOK
  <2>2. entries[i] \in Entry
    BY <2>1
  <2>3. QED
    BY <2>2 DEF Entry
<1>5. ASSUME NEW m \in Msgs PROVE FateOf(m)' = IF m = k THEN Fate(entries'[i].status) ELSE FateOf(m)
  <2>1. CASE \E j \in DOMAIN entries : entries[j].msg = m
    <3> PICK j \in DOMAIN entries : entries[j].msg = m
      BY <2>1
    <3>1. FateOf(m)' = Fate(entries'[j].status)
      BY <1>3 DEF FateRecorded
    <3>2. FateOf(m) = Fate(entries[j].status)
      BY <1>2 DEF FateRecorded
    <3>3. m = k <=> j = i
      BY <1>1, DistinctMsgs
    <3>4. QED
      BY <3>1, <3>2, <3>3
  <2>2. CASE \A j \in DOMAIN entries : entries[j].msg # m
    BY <1>2, <1>3, <2>2 DEF FateRecorded
  <2>3. QED
    BY <2>1, <2>2
<1>6. [m \in Msgs |-> FateOf(m)]' = [m \in Msgs |-> IF m = k THEN Fate(entries'[i].status) ELSE FateOf(m)]
  BY <1>5
<1>7. QED
  BY <1>2, <1>4, <1>6 DEF FateRecorded
\* A step that marks one entry, after or without giving up the work for it, is a
\* step of ReplyOnce: the message stays open, or is closed with a true record.
LEMMA MarkKeeps ==
  ASSUME TypeOK, InboxInv, InboxInv', NEW i \in DOMAIN entries, NEW s \in Status, Mark(i, s),
         UNCHANGED net,
         entries[i].status \in Active,
         s = "sent" => posted[entries[i].msg] = 1,
         s \in {"failed", "blocked", "skipped"} => written[entries[i].msg] = 0
  PROVE  [Promise!Next]_(Promise!vars)
<1> DEFINE k == entries[i].msg
           fate == [m \in Msgs |-> FateOf(m)]
<1>0. entries \in Seq(Entry)
  BY DEF TypeOK
<1>1. /\ DOMAIN entries' = DOMAIN entries /\ entries'[i].status = s
      /\ \A j \in DOMAIN entries : entries'[j].msg = entries[j].msg
      /\ \A j \in DOMAIN entries : j # i => entries'[j] = entries[j]
  BY <1>0, MarkFacts
<1>2. k \in Msgs /\ FateOf(k) = "open" /\ fate' = [fate EXCEPT ![k] = Fate(s)]
  <2>1. k \in Msgs /\ FateOf(k) = Fate(entries[i].status) /\ fate' = [fate EXCEPT ![k] = Fate(s)]
    BY <1>1, FateMoves
  <2>2. QED
    BY <2>1 DEF Fate, Active
<1>3. UNCHANGED <<written, posted>>
  BY DEF net
<1>4. CASE s \in Active
  <2>1. Fate(s) = "open"
    BY <1>4 DEF Fate, Active
  <2>2. fate[k] = "open"
    BY <1>2
  <2> HIDE DEF fate, k
  <2>3. fate' = fate
    <3>1. fate = [m \in Msgs |-> fate[m]]
      BY DEF fate
    <3>2. QED
      BY <1>2, <2>1, <2>2, <3>1
  <2>4. QED
    BY <1>3, <2>3 DEF Promise!vars, fate
<1>5. CASE s \notin Active
  <2>1. /\ Fate(s) \in Promise!Closed
        /\ Fate(s) = "replied" => posted[k] = 1
        /\ Fate(s) = "none" => written[k] = 0
    BY <1>5 DEF Fate, Promise!Closed, Status, Settled, Active
  <2>2. Promise!Close(k, Fate(s))
    BY <1>2, <1>3, <2>1 DEF Promise!Close
  <2>3. QED
    BY <1>2, <2>1, <2>2 DEF Promise!Next
<1>6. QED
  BY <1>4, <1>5
\* A restart closes at most one message: by ArrivalOrder at most one entry was in hand.
LEMMA BootKeeps ==
  ASSUME TypeOK, InboxInv, InboxInv', ArrivalOrder, Boot
  PROVE  [Promise!Next]_(Promise!vars)
<1> DEFINE fate == [m \in Msgs |-> FateOf(m)]
           hand == {i \in DOMAIN entries : entries[i].status \in {"running", "sending"}}
<1>0. entries \in Seq(Entry) /\ UNCHANGED <<written, posted>> /\ phase = "down" /\ at = "idle"
  BY DEF TypeOK, Boot, net
<1>1. /\ DOMAIN entries' = DOMAIN entries
      /\ \A j \in DOMAIN entries : /\ entries'[j].msg = entries[j].msg
                                   /\ entries'[j].status = Reloaded(entries[j].status)
  BY <1>0, BootFacts
<1>2. \A j \in DOMAIN entries : j \notin hand => entries'[j].status = entries[j].status
  BY <1>1 DEF Reloaded
<1>3. \A i, j \in hand : i = j
  <2>1. \A i, j \in hand : ~(i < j)
    BY DEF ArrivalOrder, Active
  <2>2. hand \subseteq Nat
    BY <1>0
  <2>3. QED
    BY <2>1, <2>2
<1>4. CASE hand = {}
  <2>1. NoDuplicates /\ NoDuplicates'
    BY DEF InboxInv
  <2>2. FateRecorded /\ (NoDuplicates' => FateRecorded')
    BY <2>1, FateAt, PTL
  <2>3. \A m \in Msgs : FateOf(m)' = FateOf(m)
    BY <1>1, <1>2, <1>4, <2>1, <2>2 DEF FateRecorded
  <2>4. fate' = fate
    BY <2>3
  <2>5. QED
    BY <1>0, <2>4 DEF Promise!vars
<1>5. CASE hand # {}
  <2> PICK i \in hand : TRUE
    BY <1>5
  <2> DEFINE k == entries[i].msg
  <2>1. i \in DOMAIN entries /\ entries[i].status \in {"running", "sending"}
    OBVIOUS
  <2>2. \A j \in DOMAIN entries : j # i => entries'[j].status = entries[j].status
    BY <1>2, <1>3
  <2>3. k \in Msgs /\ FateOf(k) = Fate(entries[i].status) /\ fate' = [fate EXCEPT ![k] = Fate(entries'[i].status)]
    BY <1>1, <2>1, <2>2, FateMoves
  <2>4. Fate(entries[i].status) = "open"
    BY <2>1 DEF Fate, Active
  <2>5. \/ entries[i].status = "running" /\ Fate(entries'[i].status) = "none"
        \/ entries[i].status = "sending" /\ Fate(entries'[i].status) = "unknown"
    BY <1>1, <2>1 DEF Reloaded, Fate, Active
  <2>6. entries[i].status = "running" => written[k] = 0
    BY <1>0, <2>1 DEF InboxInv, WorkMatches
  <2>7. Fate(entries'[i].status) \in Promise!Closed
    BY <2>5 DEF Promise!Closed
  <2>8. Promise!Close(k, Fate(entries'[i].status))
    BY <1>0, <2>3, <2>4, <2>5, <2>6 DEF Promise!Close
  <2>9. QED
    BY <2>3, <2>7, <2>8 DEF Promise!Next
<1>6. QED
  BY <1>4, <1>5

\* Accepting is taking the responsibility for an unseen message.
LEMMA AcceptKeeps ==
  ASSUME TypeOK, InboxInv, InboxInv', NEW m \in Msgs, Accept(m)
  PROVE  Promise!Take(m)
<1> DEFINE n == Len(entries) + 1
           fate == [k \in Msgs |-> FateOf(k)]
<1>0. entries \in Seq(Entry) /\ UNCHANGED <<written, posted>>
  BY DEF TypeOK, Accept, net
<1>1. /\ DOMAIN entries' = 1..n /\ DOMAIN entries = 1..Len(entries) /\ Len(entries) \in Nat
      /\ entries'[n] = [msg |-> m, status |-> "pending"]
      /\ \A j \in DOMAIN entries : entries'[j] = entries[j]
  BY <1>0, AcceptFacts
<1>2. n \in DOMAIN entries' /\ \A j \in DOMAIN entries' : j \in DOMAIN entries \/ j = n
  BY <1>1
<1>1a. DOMAIN entries \subseteq DOMAIN entries'
  BY <1>1
<1>3. FateRecorded /\ FateRecorded'
  <2>1. NoDuplicates /\ NoDuplicates'
    BY DEF InboxInv
  <2>2. FateRecorded /\ (NoDuplicates' => FateRecorded')
    BY <2>1, FateAt, PTL
  <2>3. QED
    BY <2>1, <2>2
<1>4. FateOf(m) = "unseen"
  BY <1>3 DEF Accept, Accepts, Known, SameWork, FateRecorded
<1>5. FateOf(m)' = "open"
  <2>1. entries'[n].msg = m /\ Fate(entries'[n].status) = "open"
    BY <1>1 DEF Fate, Active
  <2>2. QED
    BY <1>2, <1>3, <2>1 DEF FateRecorded
<1>6. ASSUME NEW k \in Msgs, k # m PROVE FateOf(k)' = FateOf(k)
  <2> HIDE DEF n
  <2>1. CASE \E j \in DOMAIN entries : entries[j].msg = k
    <3> PICK j \in DOMAIN entries : entries[j].msg = k
      BY <2>1
    <3>1. j \in DOMAIN entries' /\ entries'[j] = entries[j]
      BY <1>1, <1>1a
    <3>2. QED
      BY <1>3, <3>1 DEF FateRecorded
  <2>2. CASE \A j \in DOMAIN entries : entries[j].msg # k
    <3>1. \A j \in DOMAIN entries' : entries'[j].msg # k
      BY <1>1, <1>2, <1>6, <2>2
    <3>2. QED
      BY <1>3, <2>2, <3>1 DEF FateRecorded
  <2>3. QED
    BY <2>1, <2>2
<1>7. fate' = [fate EXCEPT ![m] = "open"]
  BY <1>5, <1>6
<1>8. QED
  BY <1>0, <1>4, <1>7 DEF Promise!Take

\* The bridge implements ReplyOnce: each step of the journal, the network and
\* the process takes, tries, delivers or closes one message, or stutters.
THEOREM KeepsPromiseHolds == Spec => KeepsPromise
<1>1. Init => Promise!Init
  BY DEF Init, Promise!Init, FateOf
<1>2. /\ TypeOK /\ InboxInv /\ ArrivalOrder
      /\ TypeOK' /\ InboxInv' /\ [Next]_vars
      => [Promise!Next]_(Promise!vars)
  <2> SUFFICES ASSUME TypeOK, InboxInv, ArrivalOrder, InboxInv', [Next]_vars
               PROVE  [Promise!Next]_(Promise!vars)
    OBVIOUS
  <2> USE DEF net
  <2>a. {"pending", "running", "ready", "sending", "sent", "failed",
         "uncertain", "blocked", "skipped"} \subseteq Status
    BY DEF Status, Active, Settled
  <2>b. at \notin {"idle", "pick"} =>
          /\ cur \in DOMAIN entries /\ entries[cur].status \in Active
          /\ entries[cur].msg \in Msgs
    <3>1. at \notin {"idle", "pick"} => cur \in DOMAIN entries /\ entries[cur].status \in Active
      BY InHandIsFirst
    <3>2. entries \in Seq(Entry)
      BY DEF TypeOK
    <3>3. cur \in DOMAIN entries => entries[cur] \in Entry
      BY <3>2
    <3>4. QED
      BY <3>1, <3>3 DEF Entry
  <2>c. ASSUME NEW s \in Status, Mark(cur, s), at \notin {"idle", "pick"},
               UNCHANGED <<written, posted>>,
               s = "sent" => posted[entries[cur].msg] = 1,
               s \in {"failed", "blocked", "skipped"} => written[entries[cur].msg] = 0
        PROVE  [Promise!Next]_(Promise!vars)
    BY <2>b, <2>c, MarkKeeps
  <2>d. at \in {"verify", "prepare", "turn", "toSend", "write"} => written[entries[cur].msg] = 0
    BY <2>b DEF InboxInv, WorkMatches, LoopHoldsEntry
  <2>1. CASE \E m \in Msgs : Accept(m)
    BY <2>1, AcceptKeeps DEF Promise!Next
  <2>2. CASE \E m \in Msgs : HubPosts(m)
    <3> PICK m \in Msgs : HubPosts(m)
      BY <2>2
    <3>1. [k \in Msgs |-> FateOf(k)]' = [k \in Msgs |-> FateOf(k)]
      BY DEF HubPosts, FateOf
    <3>2. Promise!Deliver(m)
      BY <3>1 DEF HubPosts, Promise!Deliver
    <3>3. QED
      BY <3>2 DEF Promise!Next
  <2>3. CASE Pick
    <3> DEFINE i == First(Runnable)
    <3>1. i \in DOMAIN entries /\ entries[i].status \in {"pending", "ready"}
      <4>1. entries \in Seq(Entry) /\ Runnable # {}
        BY <2>3 DEF TypeOK, Pick
      <4>2. QED
        BY <4>1, FirstFacts
    <3>2. Mark(i, "blocked") \/ Mark(i, "running") \/ UNCHANGED entries
      BY <2>3 DEF Pick
    <3>3. written[entries[i].msg] = 0
      <4>1. at = "pick"
        BY <2>3 DEF Pick
      <4>2. QED
        BY <3>1, <4>1 DEF InboxInv, WorkMatches
    <3>4. UNCHANGED <<written, posted>>
      BY <2>3 DEF Pick
    <3> HIDE DEF i
    <3>5. CASE UNCHANGED entries
      BY <3>4, <3>5 DEF Promise!vars, FateOf
    <3>6. CASE Mark(i, "blocked") \/ Mark(i, "running")
      BY <2>a, <3>1, <3>3, <3>4, <3>6, MarkKeeps DEF Active
    <3>7. QED
      BY <3>2, <3>5, <3>6
  <2>4. CASE Verify
    BY <2>a, <2>c, <2>d, <2>4 DEF Verify, Promise!vars, FateOf
  <2>5. CASE ThreadBusy
    BY <2>a, <2>c, <2>5 DEF ThreadBusy
  <2>6. CASE Fails
    BY <2>a, <2>c, <2>d, <2>6 DEF Fails
  <2>7. CASE Answered
    BY <2>a, <2>c, <2>d, <2>7 DEF Answered
  <2>8. CASE MarkSending
    BY <2>a, <2>c, <2>8 DEF MarkSending
  <2>9. CASE WriteReply
    <3> DEFINE m == entries[cur].msg
    <3>1. m \in Msgs /\ written[m] = 0 /\ cur \in DOMAIN entries /\ entries[cur].status \in Active
      BY <2>b, <2>d, <2>9 DEF WriteReply
    <3>2. FateOf(m) = "open"
      <4>1. FateOf(m) = Fate(entries[cur].status)
        BY <3>1, FateAt DEF InboxInv, FateRecorded
      <4>2. QED
        BY <3>1, <4>1 DEF Fate, Active
    <3>3. [k \in Msgs |-> FateOf(k)]' = [k \in Msgs |-> FateOf(k)]
      BY <2>9 DEF WriteReply, FateOf
    <3>4. written' = [written EXCEPT ![m] = 1] /\ UNCHANGED posted
      BY <2>9, <3>1 DEF WriteReply, TypeOK
    <3>5. Promise!Try(m)
      BY <3>1, <3>2, <3>3, <3>4 DEF Promise!Try
    <3>6. QED
      BY <3>1, <3>5 DEF Promise!Next
  <2>10. CASE SendReturns
    <3>1. at = "send" => written[entries[cur].msg] = 1
      BY <2>b DEF InboxInv, WorkMatches
    <3>2. QED
      BY <2>a, <2>c, <2>10, <3>1 DEF SendReturns
  <2>11. CASE Boot
    BY <2>11, BootKeeps
  <2>12. CASE UNCHANGED <<entries, written, posted>>
    BY <2>12 DEF Promise!vars, FateOf
  <2>13. QED
    BY <2>1, <2>2, <2>3, <2>4, <2>5, <2>6, <2>7, <2>8, <2>9, <2>10, <2>11, <2>12
       DEF Next, Loop, Process, RunEnds, Prepared, RetryFires,
           Start, Stop, Exit, Crash, EditGrants, Reconfigure, vars
<1>3. QED
  BY <1>1, <1>2, TypeCorrect, InboxInvariant, ArrivalOrderHolds, PTL
     DEF Spec, KeepsPromise, Promise!Spec

-----------------------------------------------------------------------------
\* There are at most as many unfinished messages as unfinished entries.
LEMMA OpenBound ==
  ASSUME entries \in Seq(Entry)
  PROVE  LET open == {entries[i].msg : i \in With(Active)} IN
           /\ IsFiniteSet(open) /\ IsFiniteSet(With(Active))
           /\ Cardinality(open) <= Cardinality(With(Active))
<1> DEFINE W == With(Active)
           open == {entries[i].msg : i \in W}
           f == [i \in W |-> entries[i].msg]
<1>1. IsFiniteSet(W)
  <2>1. IsFiniteSet(1..Len(entries)) /\ W \subseteq 1..Len(entries)
    BY FS_Interval DEF With
  <2>2. QED
    BY <2>1, FS_Subset
<1>2. f \in Surjection(W, open)
  BY DEF Surjection
<1> HIDE DEF f, W, open
<1>3. IsFiniteSet(open) /\ Cardinality(open) <= Cardinality(W)
  BY <1>1, <1>2, FS_Surjection
<1>4. QED
  BY <1>1, <1>3 DEF open, W

\* A step that keeps the journal's messages and reopens none finishes some.
LEMMA OnlyFinishes ==
  ASSUME TypeOK, DOMAIN entries' = DOMAIN entries,
         \A j \in DOMAIN entries : /\ entries'[j].msg = entries[j].msg
                                   /\ entries'[j].status \in Active => entries[j].status \in Active
  PROVE  Inbox!Next
<1> DEFINE taken == {entries[i].msg : i \in DOMAIN entries}
           open == {entries[i].msg : i \in With(Active)}
<1>1. \A j \in DOMAIN entries : entries[j].msg \in Msgs
  <2>1. entries \in Seq(Entry)
    BY DEF TypeOK
  <2>2. \A j \in DOMAIN entries : entries[j] \in Entry
    BY <2>1
  <2>3. QED
    BY <2>2 DEF Entry
<1>2. taken' = taken
  OBVIOUS
<1>3. open' \subseteq open
  BY DEF With
<1>4. open \ open' \in SUBSET Msgs
  BY <1>1 DEF With
<1> HIDE DEF taken, open
<1> PICK S \in SUBSET Msgs : S = open \ open'
  BY <1>4
<1>5. Inbox!Finish(S)
  BY <1>2, <1>3 DEF Inbox!Finish, taken, open
<1>6. QED
  BY <1>5 DEF Inbox!Next

\* Counting inside the instance is counting.
LEMMA InboxCounts == \A S : Inbox!Cardinality(S) = Cardinality(S)
  BY DEF Cardinality, Inbox!Cardinality

\* Accepting takes one message while fewer than Cap are unfinished.
LEMMA AcceptTakes ==
  ASSUME TypeOK, NEW m \in Msgs, Accept(m)
  PROVE  Inbox!Take({m})
<1> DEFINE taken == {entries[i].msg : i \in DOMAIN entries}
           open == {entries[i].msg : i \in With(Active)}
           n == Len(entries) + 1
<1>0. entries \in Seq(Entry)
  BY DEF TypeOK
<1>1. /\ DOMAIN entries' = 1..n /\ DOMAIN entries = 1..Len(entries) /\ Len(entries) \in Nat
      /\ entries'[n] = [msg |-> m, status |-> "pending"]
      /\ \A j \in DOMAIN entries : entries'[j] = entries[j]
  BY <1>0, AcceptFacts
<1>2. n \notin DOMAIN entries /\ DOMAIN entries' = DOMAIN entries \cup {n}
  BY <1>1
<1>3. entries'[n].msg = m /\ entries'[n].status \in Active
  BY <1>1 DEF Active
<1> HIDE DEF n
<1>4. With(Active)' = With(Active) \cup {n}
  BY <1>1, <1>2, <1>3 DEF With
<1>5. taken' = taken \cup {m}
  BY <1>1, <1>2, <1>3
<1>6. open' = open \cup {m}
  <2>1. \A i \in With(Active) : entries'[i] = entries[i]
    BY <1>1 DEF With
  <2> HIDE DEF With
  <2>2. QED
    BY <1>3, <1>4, <2>1
<1>7. m \notin taken
  BY DEF Accept, Accepts, Known, SameWork
<1>8. Cardinality(open) + Cardinality({m}) <= Cap
  <2>1. Cardinality(With(Active)) < Cap
    BY DEF Accept, Accepts
  <2>2. /\ IsFiniteSet(open) /\ IsFiniteSet(With(Active))
        /\ Cardinality(open) <= Cardinality(With(Active))
    BY <1>0, OpenBound
  <2>3. Cardinality(open) \in Nat /\ Cardinality(With(Active)) \in Nat /\ Cardinality({m}) = 1
    BY <2>2, FS_CardinalityType, FS_Singleton
  <2> HIDE DEF open
  <2>4. QED
    BY <2>1, <2>2, <2>3, CodexBridgeAssumption
<1>9. QED
  BY <1>5, <1>6, <1>7, <1>8, InboxCounts DEF Inbox!Take, Inbox!Room

\* The bridge implements the inbox its catch-up is built on: a message enters
\* the journal once, only while there is room, and is never opened again.
THEOREM FillsIntakeHolds == Spec => FillsIntake
<1>1. Init => Inbox!Init
  <2>1. ASSUME Init PROVE DOMAIN entries = {} /\ With(Active) = {}
    BY <2>1 DEF Init, With
  <2>2. QED
    BY <2>1 DEF Inbox!Init
<1>2. /\ TypeOK /\ InboxInv /\ ArrivalOrder /\ [Next]_vars
      => [Inbox!Next]_(Inbox!vars)
  <2> SUFFICES ASSUME TypeOK, InboxInv, ArrivalOrder, [Next]_vars
               PROVE  [Inbox!Next]_(Inbox!vars)
    OBVIOUS
  <2>a. entries \in Seq(Entry)
    BY DEF TypeOK
  <2>b. {"pending", "running", "ready", "sending", "sent", "failed",
         "uncertain", "blocked", "skipped"} \subseteq Status
    BY DEF Status, Active, Settled
  <2>c. ASSUME NEW i \in DOMAIN entries, entries[i].status \in Active,
               NEW s \in Status, Mark(i, s)
        PROVE  Inbox!Next
    BY <2>a, <2>c, MarkFacts, OnlyFinishes
  <2>d. at \notin {"idle", "pick"} => cur \in DOMAIN entries /\ entries[cur].status \in Active
    BY InHandIsFirst
  <2>1. CASE \E m \in Msgs : Accept(m)
    <3> PICK m \in Msgs : Accept(m)
      BY <2>1
    <3>1. Inbox!Take({m}) /\ {m} \in SUBSET Msgs
      BY AcceptTakes
    <3>2. QED
      BY <3>1 DEF Inbox!Next
  <2>2. CASE Pick
    <3> DEFINE i == First(Runnable)
    <3>1. Mark(i, "blocked") \/ Mark(i, "running") \/ UNCHANGED entries
      BY <2>2 DEF Pick
    <3>2. i \in DOMAIN entries /\ entries[i].status \in Active
      BY <2>2, PickedIsFirst
    <3> HIDE DEF i
    <3>3. QED
      BY <2>b, <2>c, <3>1, <3>2 DEF Inbox!vars, With
  <2>3. CASE Verify
    BY <2>b, <2>c, <2>d, <2>3 DEF Verify, Inbox!vars, With
  <2>4. CASE ThreadBusy
    BY <2>b, <2>c, <2>d, <2>4 DEF ThreadBusy
  <2>5. CASE Fails
    BY <2>b, <2>c, <2>d, <2>5 DEF Fails
  <2>6. CASE Answered
    BY <2>b, <2>c, <2>d, <2>6 DEF Answered
  <2>7. CASE MarkSending
    BY <2>b, <2>c, <2>d, <2>7 DEF MarkSending
  <2>8. CASE SendReturns
    BY <2>b, <2>c, <2>d, <2>8 DEF SendReturns
  <2>9. CASE Boot
    <3>1. /\ DOMAIN entries' = DOMAIN entries
          /\ \A j \in DOMAIN entries : /\ entries'[j].msg = entries[j].msg
                                       /\ entries'[j].status = Reloaded(entries[j].status)
      BY <2>a, <2>9, BootFacts
    <3>2. \A s \in Status : Reloaded(s) \in Active => s \in Active
      BY DEF Reloaded, Active
    <3>3. \A j \in DOMAIN entries : entries[j].status \in Status
      <4>1. \A j \in DOMAIN entries : entries[j] \in Entry
        BY <2>a
      <4>2. QED
        BY <4>1 DEF Entry
    <3>4. QED
      BY <3>1, <3>2, <3>3, OnlyFinishes
  <2>10. CASE UNCHANGED entries
    BY <2>10 DEF Inbox!vars, With
  <2>11. QED
    BY <2>1, <2>2, <2>3, <2>4, <2>5, <2>6, <2>7, <2>8, <2>9, <2>10
       DEF Next, Loop, Process, RunEnds, Prepared, WriteReply, HubPosts, RetryFires,
           Start, Stop, Exit, Crash, EditGrants, Reconfigure, vars
<1>3. QED
  BY <1>1, <1>2, TypeCorrect, InboxInvariant, ArrivalOrderHolds, PTL
     DEF Spec, FillsIntake, Inbox!Spec
=============================================================================
