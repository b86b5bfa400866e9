------------------------ MODULE SessionRoutingProofs ------------------------
(***************************************************************************)
(* Proofs about the identity of the MCP processes.  What a segment of a     *)
(* process does is a function of what it read (a world), so that most        *)
(* lemmas are about worlds, and one carries them over to the processes.      *)
(***************************************************************************)
EXTENDS SessionRoutingProps, NaturalsInduction, WellFoundedInduction, TLAPS

-----------------------------------------------------------------------------
(* Induction over the numbers, and the slots that are kept.                  *)

LEMMA FromZero ==
  ASSUME NEW S, 0 \in S, \A n \in Nat : n \in S => n + 1 \in S
  PROVE  Nat \subseteq S
<1> SUFFICES ASSUME Nat \ S # {} PROVE FALSE
  OBVIOUS
<1>1. IsWellFoundedOn(OpToRel(<, Nat), Nat)
  BY NatLessThanWellFounded
<1>2. PICK n \in Nat \ S : \A k \in Nat \ S : <<k, n>> \notin OpToRel(<, Nat)
  BY <1>1, WFMin
<1>3. \A k \in Nat : k < n => k \in S
  BY <1>2 DEF OpToRel
<1>4. CASE n = 0
  BY <1>4
<1>5. CASE n # 0
  <2>1. n - 1 \in Nat /\ n - 1 < n /\ (n - 1) + 1 = n
    BY <1>5
  <2>2. n - 1 \in S
    BY <1>3, <2>1
  <2>3. QED
    BY <1>2, <2>1, <2>2
<1>6. QED
  BY <1>4, <1>5

\* No profile has two slots.
Distinct(ss) == \A i, j \in DOMAIN ss : ss[i].prof = ss[j].prof => i = j

\* One more slot, of a profile that has none.
LEMMA OneMoreSlot ==
  ASSUME NEW ss \in Seq(Slot), NEW s \in Slot
  PROVE  /\ Append(ss, s) \in Seq(Slot) /\ Range(Append(ss, s)) = Range(ss) \cup {s}
         /\ Distinct(ss) /\ (\A t \in Range(ss) : t.prof # s.prof) => Distinct(Append(ss, s))
<1> DEFINE t == Append(ss, s)
           n == Len(ss)
<1>1. /\ t \in Seq(Slot) /\ DOMAIN t = 1..(n + 1) /\ t[n + 1] = s /\ DOMAIN ss = 1..n /\ n \in Nat
      /\ \A i \in 1..n : t[i] = ss[i]
  OBVIOUS
<1> HIDE DEF t, n
<1>2. \A i \in DOMAIN t : i \in DOMAIN ss \/ i = n + 1
  BY <1>1
<1>3. Range(t) = Range(ss) \cup {s}
  BY <1>1, <1>2 DEF Range
<1>4. ASSUME Distinct(ss), \A u \in Range(ss) : u.prof # s.prof PROVE Distinct(t)
  <2> SUFFICES ASSUME NEW i \in DOMAIN t, NEW j \in DOMAIN t, t[i].prof = t[j].prof PROVE i = j
    BY DEF Distinct
  <2>1. \A k \in DOMAIN ss : t[k] = ss[k] /\ t[k].prof # s.prof
    BY <1>1, <1>4 DEF Range
  <2>2. CASE i \in DOMAIN ss /\ j \in DOMAIN ss
    BY <1>4, <2>1, <2>2 DEF Distinct
  <2>3. CASE i = n + 1 \/ j = n + 1
    BY <1>1, <1>2, <2>1, <2>3
  <2>4. QED
    BY <1>2, <2>2, <2>3
<1>5. QED
  BY <1>1, <1>3, <1>4 DEF t

\* What is kept are the slots that shall be.
LEMMA KeptFacts ==
  ASSUME NEW ss \in Seq(Slot), Distinct(ss), NEW K
  PROVE  /\ Kept(ss, K) \in Seq(Slot) /\ Range(Kept(ss, K)) = Range(ss) \cap K
         /\ Distinct(Kept(ss, K))
<1> DEFINE F(g, i) == IF i = 0 THEN <<>>
                      ELSE IF ss[i] \in K THEN Append(g[i - 1], ss[i]) ELSE g[i - 1]
           Right(r, i) == /\ r \in Seq(Slot) /\ Distinct(r)
                          /\ Range(r) = {ss[j] : j \in 1..i} \cap K
           Good(g, m) == /\ g = [i \in 0..m |-> F(g, i)]
                         /\ \A i \in 0..m : Right(g[i], i)
           n == Len(ss)
           U == {m \in Nat : m <= n => \E g : Good(g, m)}
           h[i \in 0..Len(ss)] == F(h, i)
<1>1. n \in Nat /\ DOMAIN ss = 1..n
  OBVIOUS
<1>2. Right(<<>>, 0)
  <2>1. 1..0 = {} /\ <<>> \in Seq(Slot) /\ DOMAIN <<>> = {}
    OBVIOUS
  <2>2. QED
    BY <2>1 DEF Range, Distinct
<1>3. ASSUME NEW i \in 1..n, NEW r, Right(r, i - 1)
      PROVE  Right(IF ss[i] \in K THEN Append(r, ss[i]) ELSE r, i)
  <2>1. ss[i] \in Slot /\ {ss[j] : j \in 1..i} = {ss[j] : j \in 1..(i - 1)} \cup {ss[i]}
    BY <1>1
  <2>2. CASE ss[i] \in K
    <3>1. \A t \in Range(r) : t.prof # ss[i].prof
      <4> SUFFICES ASSUME NEW t \in Range(r) PROVE t.prof # ss[i].prof
        OBVIOUS
      <4>1. PICK j \in 1..(i - 1) : t = ss[j]
        BY <1>3
      <4>2. j \in DOMAIN ss /\ i \in DOMAIN ss /\ j # i
        BY <1>1
      <4>3. QED
        BY <4>1, <4>2 DEF Distinct
    <3>2. QED
      BY <1>3, <2>1, <2>2, <3>1, OneMoreSlot
  <2>3. CASE ss[i] \notin K
    BY <1>3, <2>1, <2>3
  <2>4. QED
    BY <2>2, <2>3
<1> HIDE DEF Right
<1>4. 0 \in U
  <2> DEFINE g == [i \in 0..0 |-> <<>>]
  <2>1. \A i \in 0..0 : i = 0
    OBVIOUS
  <2>2. g = [i \in 0..0 |-> F(g, i)] /\ \A i \in 0..0 : Right(g[i], i)
    BY <1>2, <2>1
  <2>3. Good(g, 0)
    BY <2>2
  <2>4. QED
    BY <2>3
<1>5. ASSUME NEW m \in Nat, m \in U PROVE m + 1 \in U
  <2> HIDE DEF Good, n
  <2> SUFFICES ASSUME m + 1 <= n PROVE \E g : Good(g, m + 1)
    OBVIOUS
  <2> USE DEF Good, n
  <2>1. PICK g : Good(g, m)
    BY <1>1, <1>5
  <2> DEFINE k == [i \in 0..(m + 1) |-> IF i <= m THEN g[i] ELSE F(g, i)]
  <2>2. \A i \in 0..m : g[i] = F(g, i) /\ Right(g[i], i)
    BY <2>1
  <2>3. Right(F(g, m + 1), m + 1)
    <3>1. Right(g[m], m) /\ (m + 1) - 1 = m /\ m + 1 # 0 /\ m + 1 \in 1..n
      BY <1>1, <2>2
    <3>2. F(g, m + 1) = IF ss[m + 1] \in K THEN Append(g[m], ss[m + 1]) ELSE g[m]
      BY <3>1
    <3>3. QED
      BY <3>1, <3>2, <1>3
  <2>4. \A i \in 0..(m + 1) : k[i] = F(k, i) /\ Right(k[i], i)
    <3> SUFFICES ASSUME NEW i \in 0..(m + 1) PROVE k[i] = F(k, i) /\ Right(k[i], i)
      OBVIOUS
    <3>1. i # 0 => i - 1 \in 0..m /\ i - 1 \in 0..(m + 1) /\ i - 1 <= m
      OBVIOUS
    <3>2. i # 0 => k[i - 1] = g[i - 1]
      BY <3>1
    <3>3. F(k, i) = F(g, i)
      <4> HIDE DEF k
      <4>1. QED
        BY <3>2
    <3>4. CASE i <= m
      <4>1. i \in 0..m /\ k[i] = g[i]
        BY <3>4
      <4> HIDE DEF k, F
      <4>2. QED
        BY <4>1, <3>3, <2>2
    <3>5. CASE i = m + 1
      <4>1. k[i] = F(g, i)
        BY <3>5
      <4> HIDE DEF k, F
      <4>2. QED
        BY <4>1, <3>3, <3>5, <2>3
    <3>6. QED
      BY <3>4, <3>5
  <2>5. k = [i \in 0..(m + 1) |-> F(k, i)]
    <3>1. k = [i \in 0..(m + 1) |-> k[i]]
      OBVIOUS
    <3> HIDE DEF k, F
    <3>2. QED
      BY <3>1, <2>4
  <2>6. Good(k, m + 1)
    <3> HIDE DEF k, F
    <3>1. QED
      BY <2>4, <2>5
  <2>7. QED
    <3> HIDE DEF Good
    <3>1. QED
      BY <2>6
<1>6. n \in U
  <2> HIDE DEF U
  <2>1. QED
    BY <1>1, <1>4, <1>5, FromZero
<1>7. PICK g : Good(g, n)
  BY <1>1, <1>6
<1>8. h = [i \in 0..n |-> F(h, i)]
  <2>1. g = [i \in 0..n |-> F(g, i)]
    BY <1>7
  <2>2. QED
    BY <2>1
<1>9. Nat \subseteq {i \in Nat : i <= n => Right(h[i], i)}
  <2> DEFINE V == {i \in Nat : i <= n => Right(h[i], i)}
  <2> HIDE DEF h, n
  <2>1. 0 \in V
    <3>1. 0 \in 0..n
      BY <1>1
    <3>2. h[0] = F(h, 0)
      BY <3>1, <1>8
    <3>3. QED
      BY <3>2, <1>2
  <2>2. ASSUME NEW i \in Nat, i \in V PROVE i + 1 \in V
    <3> SUFFICES ASSUME i + 1 <= n PROVE Right(h[i + 1], i + 1)
      OBVIOUS
    <3>1. i + 1 \in 0..n /\ i <= n /\ (i + 1) - 1 = i /\ i + 1 # 0 /\ i + 1 \in 1..n
      BY <1>1
    <3>2. h[i + 1] = F(h, i + 1) /\ Right(h[i], i)
      BY <3>1, <1>8, <2>2
    <3>3. h[i + 1] = IF ss[i + 1] \in K THEN Append(h[i], ss[i + 1]) ELSE h[i]
      BY <3>1, <3>2
    <3>4. Right(h[i], (i + 1) - 1)
      BY <3>1, <3>2
    <3>5. QED
      BY <3>1, <3>3, <3>4, <1>3
  <2> HIDE DEF V
  <2>3. Nat \subseteq V
    BY <2>1, <2>2, FromZero
  <2>4. QED
    BY <2>3 DEF V
<1>10. Right(h[n], n)
  <2> HIDE DEF h, n
  <2>1. QED
    BY <1>1, <1>9
<1>11. Kept(ss, K) = h[n]
  BY DEF Kept
<1>12. {ss[j] : j \in 1..n} = Range(ss)
  BY <1>1 DEF Range
<1>13. QED
  BY <1>10, <1>11, <1>12 DEF Right

-----------------------------------------------------------------------------
(* Worlds.                                                                  *)

World ==
  [file : [Profiles -> Agents \cup Bad], binds : [Sessions -> Profiles \cup {None}],
   lock : [Agents -> [pid : Procs \cup {None}, sid : Sessions \cup {None}]],
   trust : Agents \cup {None}, slots : Seq(Slot), active : Profiles \cup {None},
   rsid : Sessions \cup {None}]
Sids == Sessions \cup {None}
Serves(w, a) == \E s \in Range(w.slots) : s.agent = a
\* What a process finds: its slots are of different profiles, the active one is among
\* them, and it holds the lock of no agent that it does not serve, a tool-only one none.
Sound(p, w, tool) ==
  /\ w \in World /\ Distinct(w.slots)
  /\ w.active # None => HasSlot(w, w.active)
  /\ \A a \in Agents : w.lock[a].pid = p => ~tool /\ Serves(w, a)
\* From v to w no other process is given a lock.
Spares(p, v, w) == \A a \in Agents : w.lock[a].pid \in {None, p, v.lock[a].pid}

LEMMA SlotsAre ==
  ASSUME NEW w \in World
  PROVE  /\ w.slots \in Seq(Slot) /\ Range(w.slots) \subseteq Slot
         /\ \A s \in Range(w.slots) : s \in Slot /\ s.prof \in Profiles /\ s.agent \in Agents /\ s.sid \in Sids
<1>1. w.slots \in Seq(Slot)
  BY DEF World
<1>2. Range(w.slots) \subseteq Slot
  BY <1>1 DEF Range
<1>3. QED
  BY <1>1, <1>2 DEF Slot, Sids

\* The slot that is active is the one of its profile.
LEMMA AgentIs ==
  ASSUME NEW w \in World, Distinct(w.slots), NEW s \in Range(w.slots), s.prof = w.active
  PROVE  AgentIn(w) = s.agent /\ SlotOf(w, w.active) = {s}
<1>1. s.prof \in Profiles /\ w.active # None
  BY SlotsAre, RoutingAssumption DEF RoutingAssumption
<1>2. SlotOf(w, w.active) = {s}
  BY DEF SlotOf, Range, Distinct
<1>3. (CHOOSE t \in {s} : TRUE) = s
  OBVIOUS
<1>4. QED
  BY <1>1, <1>2, <1>3 DEF AgentIn

LEMMA ActiveAgent ==
  ASSUME NEW p, NEW w, NEW tool, Sound(p, w, tool)
  PROVE  /\ AgentIn(w) \in Agents \cup {None} /\ (AgentIn(w) = None <=> w.active = None)
         /\ w.active # None => Serves(w, AgentIn(w))
<1>1. CASE w.active = None
  BY <1>1 DEF AgentIn
<1>2. CASE w.active # None
  <2>1. PICK s \in Range(w.slots) : s.prof = w.active
    BY <1>2 DEF Sound, HasSlot, SlotOf
  <2>2. AgentIn(w) = s.agent /\ s.agent \in Agents
    BY <2>1, AgentIs, SlotsAre DEF Sound
  <2>3. QED
    BY <1>2, <2>2, RoutingAssumption DEF Serves, RoutingAssumption
<1>3. QED
  BY <1>1, <1>2

LEMMA AcquireSound ==
  ASSUME NEW p \in Procs, NEW w, Sound(p, w, FALSE), NEW a \in Agents, Serves(w, a), NEW sid \in Sids
  PROVE  /\ Sound(p, Acquire(w, p, a, sid), FALSE) /\ Spares(p, w, Acquire(w, p, a, sid))
         /\ Acquire(w, p, a, sid).slots = w.slots /\ Acquire(w, p, a, sid).active = w.active
         /\ Acquire(w, p, a, sid).binds = w.binds /\ Acquire(w, p, a, sid).rsid = w.rsid
         /\ Acquire(w, p, a, sid).file = w.file
<1> DEFINE v == Acquire(w, p, a, sid)
           k == [pid |-> p, sid |-> sid]
<1>1. w \in World /\ k \in [pid : Procs \cup {None}, sid : Sessions \cup {None}] /\ k.pid = p
  BY DEF Sound, Sids
<1>2. v = [w EXCEPT !.lock = [w.lock EXCEPT ![a] = k]]
  BY <1>1 DEF Acquire, World
<1> HIDE DEF k
<1> DEFINE lk == [w.lock EXCEPT ![a] = k]
<1>3. /\ lk \in [Agents -> [pid : Procs \cup {None}, sid : Sessions \cup {None}]] /\ lk[a].pid = p
      /\ \A b \in Agents : b # a => lk[b] = w.lock[b]
  BY <1>1 DEF World
<1> HIDE DEF lk
<1>4. v = [w EXCEPT !.lock = lk]
  BY <1>2 DEF lk
<1> HIDE DEF v
<1>5. /\ v \in World /\ v.slots = w.slots /\ v.active = w.active /\ v.binds = w.binds /\ v.rsid = w.rsid
      /\ v.file = w.file /\ v.lock = lk
  BY <1>1, <1>3, <1>4 DEF World
<1>6. Sound(p, v, FALSE)
  BY <1>3, <1>5 DEF Sound, HasSlot, SlotOf, Serves
<1>7. Spares(p, w, v)
  BY <1>3, <1>5 DEF Spares
<1>8. QED
  BY <1>5, <1>6, <1>7 DEF v

\* The binds, the trusted agent and the profile files may change.
LEMMA OthersSound ==
  ASSUME NEW p, NEW w, NEW tool, Sound(p, w, tool), NEW v \in World,
         v.slots = w.slots, v.active = w.active, v.lock = w.lock
  PROVE  Sound(p, v, tool) /\ Spares(p, w, v)
BY DEF Sound, HasSlot, SlotOf, Serves, Spares

LEMMA SaveBindIs ==
  ASSUME NEW b \in [Sessions -> Profiles \cup {None}], NEW s \in Sessions, NEW q \in Profiles
  PROVE  /\ SaveBind(b, s, q) \in [Sessions -> Profiles \cup {None}]
         /\ \A t \in Sessions : SaveBind(b, s, q)[t] = IF t = s THEN q ELSE IF b[t] = q THEN None ELSE b[t]
BY DEF SaveBind

LEMMA BoundSidIs ==
  ASSUME NEW b \in [Sessions -> Profiles \cup {None}], NEW q
  PROVE  /\ BoundSid(b, q) \in Sids
         /\ BoundSid(b, q) # None => b[BoundSid(b, q)] = q
         /\ (\E s \in Sessions : b[s] = q) => BoundSid(b, q) # None
<1> DEFINE S == {s \in Sessions : b[s] = q}
<1>1. CASE S = {}
  BY <1>1 DEF BoundSid, Sids
<1>2. CASE S # {}
  <2>1. BoundSid(b, q) = CHOOSE s \in S : TRUE
    BY <1>2 DEF BoundSid
  <2>2. BoundSid(b, q) \in S
    BY <1>2, <2>1
  <2>3. QED
    BY <2>2, RoutingAssumption DEF Sids, RoutingAssumption
<1>3. QED
  BY <1>1, <1>2

\* A slot becomes the active one.
LEMMA ActivateSound ==
  ASSUME NEW p, NEW w, NEW tool, Sound(p, w, tool), NEW q \in Profiles, HasSlot(w, q), NEW sid \in Sids
  PROVE  /\ Sound(p, Activate(w, q, sid), tool) /\ Spares(p, w, Activate(w, q, sid))
         /\ Activate(w, q, sid).active = q /\ Activate(w, q, sid).binds = w.binds
         /\ Activate(w, q, sid).file = w.file /\ Activate(w, q, sid).rsid = sid
         /\ \A s \in Range(Activate(w, q, sid).slots) :
              \E t \in Range(w.slots) : s.prof = t.prof /\ s.agent = t.agent /\ s.sid = IF s.prof = q THEN sid ELSE t.sid
         /\ \A t \in Range(w.slots) :
              \E s \in Range(Activate(w, q, sid).slots) : s.prof = t.prof /\ s.agent = t.agent
<1> DEFINE v == Activate(w, q, sid)
           ss == w.slots
           Set(s) == IF s.prof = q THEN [s EXCEPT !.sid = sid] ELSE s
           r == [i \in DOMAIN ss |-> Set(ss[i])]
<1>1. w \in World /\ ss \in Seq(Slot) /\ \A i \in DOMAIN ss : ss[i] \in Slot
  BY SlotsAre DEF Sound
<1>2. \A s \in Slot : Set(s) \in Slot /\ Set(s).prof = s.prof /\ Set(s).agent = s.agent
                      /\ Set(s).sid = IF s.prof = q THEN sid ELSE s.sid
  BY DEF Slot, Sids
<1>3. v = [w EXCEPT !.active = q, !.rsid = sid, !.slots = r]
  BY DEF Activate
<1> HIDE DEF Set
<1>4. r \in Seq(Slot) /\ DOMAIN r = DOMAIN ss /\ \A i \in DOMAIN ss : r[i] = Set(ss[i])
  BY <1>1, <1>2
<1> HIDE DEF r, v
<1>5. /\ v \in World /\ v.slots = r /\ v.active = q /\ v.binds = w.binds /\ v.file = w.file
      /\ v.rsid = sid /\ v.lock = w.lock
  BY <1>1, <1>3, <1>4 DEF World, Sids
<1>6. Distinct(r)
  BY <1>1, <1>2, <1>4 DEF Distinct, Sound
<1>7. \A s \in Range(r) : \E t \in Range(ss) :
        s.prof = t.prof /\ s.agent = t.agent /\ s.sid = IF s.prof = q THEN sid ELSE t.sid
  BY <1>1, <1>2, <1>4 DEF Range
<1>8. \A t \in Range(ss) : \E s \in Range(r) : s.prof = t.prof /\ s.agent = t.agent
  <2> SUFFICES ASSUME NEW t \in Range(ss) PROVE \E s \in Range(r) : s.prof = t.prof /\ s.agent = t.agent
    OBVIOUS
  <2>1. PICK i \in DOMAIN ss : t = ss[i]
    BY DEF Range
  <2>2. r[i] \in Range(r) /\ r[i].prof = t.prof /\ r[i].agent = t.agent
    BY <1>1, <1>2, <1>4, <2>1 DEF Range
  <2>3. QED
    BY <2>2
<1>9. HasSlot(v, q)
  <2>1. PICK t \in Range(ss) : t.prof = q
    BY DEF HasSlot, SlotOf
  <2>2. PICK s \in Range(r) : s.prof = q
    BY <1>8, <2>1
  <2>3. QED
    BY <1>5, <2>2 DEF HasSlot, SlotOf
<1>10. \A a \in Agents : Serves(w, a) => Serves(v, a)
  BY <1>5, <1>8 DEF Serves
<1>11. Sound(p, v, tool) /\ Spares(p, w, v)
  BY <1>5, <1>6, <1>9, <1>10 DEF Sound, Spares
<1>12. QED
  BY <1>5, <1>7, <1>8, <1>11 DEF v

Lock == [pid : Procs \cup {None}, sid : Sessions \cup {None}]

\* A lock that is freed is nobody's.
LEMMA FreedIs ==
  ASSUME NEW p \in Procs, NEW w \in World, NEW S
  PROVE  /\ Freed(w, p, S) \in [Agents -> Lock]
         /\ \A a \in Agents : Freed(w, p, S)[a] = NoLock \/ Freed(w, p, S)[a] = w.lock[a]
         /\ \A a \in Agents : (\E s \in S : s.agent = a) => Freed(w, p, S)[a].pid # p
<1>1. NoLock \in Lock /\ NoLock.pid = None /\ None \notin Procs /\ p # None
  BY RoutingAssumption DEF NoLock, Lock, RoutingAssumption
<1>2. \A a \in Agents : w.lock[a] \in Lock
  BY DEF World, Lock
<1>3. \A a \in Agents : Freed(w, p, S)[a] = NoLock \/ Freed(w, p, S)[a] = w.lock[a]
  BY DEF Freed
<1>4. Freed(w, p, S) \in [Agents -> Lock]
  BY <1>1, <1>2 DEF Freed
<1>5. ASSUME NEW a \in Agents, NEW s \in S, s.agent = a PROVE Freed(w, p, S)[a].pid # p
  <2>1. CASE w.lock[a].pid = p
    BY <1>1, <1>5, <2>1 DEF Freed
  <2>2. CASE w.lock[a].pid # p
    BY <1>1, <1>3, <2>2
  <2>3. QED
    BY <2>1, <2>2
<1>6. QED
  BY <1>3, <1>4, <1>5

LEMMA TargetIs ==
  ASSUME NEW w \in World, NEW q, NEW sid \in Sids
  PROVE  Target(w, q, sid) \in Sids
BY BoundSidIs DEF Target, World, Sids

\* What a profile that is applied for the session t leaves.
Applied(p, w, l, q, t, v) ==
  LET new == [prof |-> q, agent |-> w.file[q], sid |-> t]
  IN  /\ v \in World /\ Distinct(v.slots) /\ v.active = q /\ v.file = w.file /\ v.rsid = t
      /\ new \in Range(v.slots) /\ Range(v.slots) \subseteq Range(w.slots) \cup {new}
      /\ v.binds = IF l.tool \/ t = None THEN w.binds ELSE SaveBind(w.binds, t, q)
      /\ \A a \in Agents : v.lock[a].pid = p => ~l.tool /\ Serves(v, a)
      /\ Spares(p, w, v)

LEMMA ApplyIs ==
  ASSUME NEW p \in Procs, NEW w, NEW l \in Launches, Sound(p, w, l.tool),
         NEW q \in Profiles, w.file[q] \in Agents, NEW sid \in Sids
  PROVE  Applied(p, w, l, q, Target(w, q, sid), Apply(w, p, l, q, sid))
<1> DEFINE a == w.file[q]
           t == Target(w, q, sid)
           new == [prof |-> q, agent |-> a, sid |-> t]
           gone == {w.slots[i] : i \in {j \in DOMAIN w.slots : GivesWay(w, q, t, j)}}
           K == Range(w.slots) \ gone
           ss == Append(Kept(w.slots, K), new)
           other == {s \in gone : s.agent # a}
           fr == Freed(w, p, other)
           bs == IF t = None THEN w.binds ELSE SaveBind(w.binds, t, q)
           k == [pid |-> p, sid |-> t]
           v == Apply(w, p, l, q, sid)
<1>0. w \in World /\ Distinct(w.slots) /\ w.slots \in Seq(Slot) /\ t \in Sids /\ l.tool \in BOOLEAN
      /\ p # None /\ None \notin Procs
  BY SlotsAre, TargetIs, RoutingAssumption DEF Sound, RoutingAssumption, Launch
<1>1. new \in Slot /\ new.prof = q /\ new.agent = a
  BY <1>0 DEF Slot, Sids
<1>2. \A s \in K : s.prof # q
  BY DEF GivesWay, Range
<1> HIDE DEF gone, new, a, t
<1>3. /\ Kept(w.slots, K) \in Seq(Slot) /\ Range(Kept(w.slots, K)) = K /\ Distinct(Kept(w.slots, K))
  <2>1. Range(w.slots) \cap K = K
    OBVIOUS
  <2> HIDE DEF K
  <2>2. QED
    BY <1>0, <2>1, KeptFacts
<1>4. ss \in Seq(Slot) /\ Range(ss) = K \cup {new} /\ Distinct(ss)
  <2> HIDE DEF K
  <2>1. QED
    BY <1>1, <1>2, <1>3, OneMoreSlot
<1>5. fr \in [Agents -> Lock] /\ \A b \in Agents : fr[b] = NoLock \/ fr[b] = w.lock[b]
  BY <1>0, FreedIs
<1>6. \A b \in Agents : (\E s \in other : s.agent = b) => fr[b].pid # p
  BY <1>0, FreedIs
<1>7. bs \in [Sessions -> Profiles \cup {None}]
  BY <1>0, SaveBindIs DEF World, Sids
<1>8. k \in Lock /\ k.pid = p
  BY <1>0 DEF Lock, Sids
<1>9. IF l.tool
      THEN v = [w EXCEPT !.slots = ss, !.active = q, !.rsid = t, !.trust = a]
      ELSE v = [w EXCEPT !.slots = ss, !.active = q, !.rsid = t, !.trust = a, !.lock = [fr EXCEPT ![a] = k],
                         !.binds = bs]
  <2> DEFINE w1 == [w EXCEPT !.slots = ss, !.active = q, !.rsid = t, !.trust = a]
             w2 == [w1 EXCEPT !.lock = fr, !.binds = bs]
  <2>1. v = IF l.tool THEN w1 ELSE Acquire(w2, p, a, t)
    BY DEF Apply, a, t, gone, new
  <2>2. w1 = [w EXCEPT !.slots = ss, !.active = q, !.rsid = t, !.trust = a]
    OBVIOUS
  <2> HIDE DEF ss, fr, bs
  <2>3. [w2 EXCEPT !.lock[a] = k] = [w EXCEPT !.slots = ss, !.active = q, !.rsid = t, !.trust = a,
                                       !.lock = [fr EXCEPT ![a] = k], !.binds = bs]
    BY <1>0 DEF World
  <2>4. Acquire(w2, p, a, t) = [w2 EXCEPT !.lock[a] = k]
    BY DEF Acquire
  <2> HIDE DEF v, w1, w2
  <2>5. QED
    BY <2>1, <2>2, <2>3, <2>4
<1> DEFINE lk == IF l.tool THEN w.lock ELSE [fr EXCEPT ![a] = k]
<1> HIDE DEF ss, fr, bs, k, v
<1>10. a \in Agents
  BY DEF a
<1>11. lk \in [Agents -> Lock]
  BY <1>0, <1>5, <1>8, <1>10 DEF World, Lock
<1>12. /\ v.slots = ss /\ v.active = q /\ v.file = w.file /\ v.rsid = t /\ v.lock = lk
       /\ v.binds = IF l.tool THEN w.binds ELSE bs
       /\ v \in World
  <2>1. CASE l.tool
    BY <1>0, <1>4, <1>9, <1>10, <1>11, <2>1 DEF World, Lock, Sids
  <2>2. CASE ~l.tool
    <3>1. lk = [fr EXCEPT ![a] = k]
      BY <2>2
    <3> HIDE DEF lk
    <3>2. v = [w EXCEPT !.slots = ss, !.active = q, !.rsid = t, !.trust = a, !.lock = lk, !.binds = bs]
      BY <1>9, <2>2, <3>1
    <3>3. QED
      BY <1>0, <1>4, <1>7, <1>10, <1>11, <2>2, <3>2 DEF World, Lock, Sids
  <2>3. QED
    BY <1>0, <2>1, <2>2
<1>13. ASSUME NEW b \in Agents, v.lock[b].pid = p PROVE ~l.tool /\ Serves(v, b)
  <2>1. ~l.tool
    BY <1>0, <1>12, <1>13 DEF Sound
  <2>2. CASE b = a
    BY <1>1, <1>4, <1>12, <2>1, <2>2 DEF Serves
  <2>3. CASE b # a
    <3>1. fr[b].pid = p /\ fr[b] = w.lock[b]
      BY <1>0, <1>5, <1>12, <1>13, <1>10, <2>1, <2>3 DEF NoLock
    <3>2. PICK s \in Range(w.slots) : s.agent = b
      BY <3>1 DEF Sound, Serves
    <3>3. s \notin gone
      BY <1>6, <2>3, <3>1, <3>2
    <3>4. QED
      BY <1>4, <1>12, <2>1, <3>2, <3>3 DEF Serves
  <2>4. QED
    BY <2>1, <2>2, <2>3
<1>14. Spares(p, w, v)
  BY <1>0, <1>5, <1>8, <1>10, <1>12 DEF Spares, NoLock
<1>15. Distinct(v.slots) /\ new \in Range(v.slots) /\ Range(v.slots) \subseteq Range(w.slots) \cup {new}
  BY <1>4, <1>12
<1>16. QED
  BY <1>12, <1>13, <1>14, <1>15 DEF v, new, a, t, bs, Applied

LEMMA ApplySound ==
  ASSUME NEW p \in Procs, NEW w, NEW l \in Launches, Sound(p, w, l.tool),
         NEW q \in Profiles, w.file[q] \in Agents, NEW sid \in Sids
  PROVE  LET v == Apply(w, p, l, q, sid)
         IN  Sound(p, v, l.tool) /\ Spares(p, w, v) /\ AgentIn(v) = w.file[q] /\ v.file = w.file
<1> DEFINE v == Apply(w, p, l, q, sid)
           new == [prof |-> q, agent |-> w.file[q], sid |-> Target(w, q, sid)]
<1>1. /\ v \in World /\ Distinct(v.slots) /\ v.active = q /\ v.file = w.file
      /\ new \in Range(v.slots) /\ Spares(p, w, v)
      /\ \A a \in Agents : v.lock[a].pid = p => ~l.tool /\ Serves(v, a)
  <2>1. Applied(p, w, l, q, Target(w, q, sid), v)
    BY ApplyIs
  <2> HIDE DEF v
  <2>2. QED
    BY <2>1 DEF Applied
<1>2. new.prof = q /\ new.agent = w.file[q]
  OBVIOUS
<1> HIDE DEF v, new
<1>3. AgentIn(v) = new.agent
  BY <1>1, <1>2, AgentIs
<1>4. Sound(p, v, l.tool)
  BY <1>1, <1>2 DEF Sound, HasSlot, SlotOf
<1>5. QED
  BY <1>1, <1>2, <1>3, <1>4 DEF v

\* A profile that is disconnected.
LEMMA DisconnectSound ==
  ASSUME NEW p \in Procs, NEW w, NEW l \in Launches, Sound(p, w, l.tool), NEW keep \in BOOLEAN
  PROVE  LET v == Disconnect(w, p, l, keep)
         IN  /\ Sound(p, v, l.tool) /\ Spares(p, w, v) /\ v.active = None
             /\ Range(v.slots) \subseteq Range(w.slots)
             /\ \A s \in Sessions : v.binds[s] \in {None, w.binds[s]}
<1> DEFINE cur == SlotOf(w, w.active)
           own == {s.sid : s \in cur} \ {None}
           sid == IF own # {} THEN CHOOSE s \in own : TRUE ELSE w.rsid
           K   == Range(w.slots) \ cur
           ss  == Kept(w.slots, K)
           lk  == IF l.tool THEN w.lock ELSE Freed(w, p, cur)
           bs  == IF keep \/ sid = None THEN w.binds ELSE Unbound(w.binds, sid)
           v   == Disconnect(w, p, l, keep)
<1>0. w \in World /\ Distinct(w.slots) /\ w.slots \in Seq(Slot) /\ p # None /\ l.tool \in BOOLEAN
  BY SlotsAre, RoutingAssumption DEF Sound, RoutingAssumption, Launch
<1>1. cur \subseteq Range(w.slots)
  BY DEF SlotOf
<1>2. sid \in Sids
  <2>1. own \subseteq Sids
    BY <1>0, <1>1, SlotsAre
  <2>2. w.rsid \in Sids
    BY <1>0 DEF World, Sids
  <2> HIDE DEF own
  <2>3. QED
    BY <2>1, <2>2
<1>3. v = [w EXCEPT !.slots = ss, !.lock = lk, !.binds = bs, !.active = None]
  BY <1>0 DEF Disconnect, World
<1> HIDE DEF cur, sid, v
<1>4. ss \in Seq(Slot) /\ Range(ss) = K /\ Distinct(ss)
  <2>1. Range(w.slots) \cap K = K
    OBVIOUS
  <2> HIDE DEF K
  <2>2. QED
    BY <1>0, <2>1, KeptFacts
<1>5. lk \in [Agents -> Lock] /\ \A a \in Agents : lk[a] = NoLock \/ lk[a] = w.lock[a]
  <2>1. CASE l.tool
    BY <1>0, <2>1 DEF World, Lock
  <2>2. CASE ~l.tool
    <3>1. lk = Freed(w, p, cur)
      BY <2>2
    <3> HIDE DEF lk
    <3>2. QED
      BY <1>0, <3>1, FreedIs
  <2>3. QED
    BY <2>1, <2>2
<1>6. bs \in [Sessions -> Profiles \cup {None}] /\ \A s \in Sessions : bs[s] \in {None, w.binds[s]}
  BY <1>0, <1>2 DEF World, Unbound, Sids
<1> HIDE DEF ss, bs
<1>7. v \in World /\ v.slots = ss /\ v.lock = lk /\ v.binds = bs /\ v.active = None
  <2> HIDE DEF lk
  <2>1. QED
    BY <1>0, <1>3, <1>4, <1>5, <1>6 DEF World, Lock
<1>8. ASSUME NEW a \in Agents, v.lock[a].pid = p PROVE ~l.tool /\ Serves(v, a)
  <2>1. lk[a].pid = p /\ w.lock[a].pid = p /\ ~l.tool
    BY <1>0, <1>5, <1>7, <1>8 DEF NoLock, Sound
  <2>2. PICK s \in Range(w.slots) : s.agent = a
    BY <2>1 DEF Sound, Serves
  <2>3. s \notin cur
    BY <1>0, <2>1, <2>2, FreedIs
  <2>4. QED
    BY <1>4, <1>7, <2>1, <2>2, <2>3 DEF Serves
<1>9. Spares(p, w, v)
  BY <1>5, <1>7 DEF Spares, NoLock
<1>10. Sound(p, v, l.tool)
  BY <1>4, <1>7, <1>8 DEF Sound
<1>11. QED
  BY <1>4, <1>6, <1>7, <1>9, <1>10 DEF v

LEMMA SparesTwice ==
  ASSUME NEW p, NEW u, NEW v, NEW w, Spares(p, u, v), Spares(p, v, w)
  PROVE  Spares(p, u, w)
BY DEF Spares

LEMMA SameAgent ==
  ASSUME NEW v, NEW w, v.slots = w.slots, v.active = w.active
  PROVE  AgentIn(v) = AgentIn(w)
BY DEF AgentIn, SlotOf

LEMMA RsidSound ==
  ASSUME NEW p, NEW w, NEW tool, Sound(p, w, tool), NEW c \in Sids
  PROVE  LET v == [w EXCEPT !.rsid = c]
         IN  /\ Sound(p, v, tool) /\ Spares(p, w, v) /\ v.slots = w.slots /\ v.active = w.active
             /\ v.binds = w.binds /\ v.file = w.file
<1> DEFINE v == [w EXCEPT !.rsid = c]
<1>1. /\ v \in World /\ v.slots = w.slots /\ v.active = w.active /\ v.lock = w.lock /\ v.binds = w.binds
      /\ v.file = w.file
  BY DEF Sound, World, Sids
<1> HIDE DEF v
<1>2. Sound(p, v, tool) /\ Spares(p, w, v)
  BY <1>1, OthersSound
<1>3. QED
  BY <1>1, <1>2 DEF v

LEMMA AnonymousSound ==
  ASSUME NEW p, NEW w, NEW tool, Sound(p, w, tool), NEW c \in Sids
  PROVE  LET v == Anonymous(w, c)
         IN  /\ Sound(p, v, tool) /\ Spares(p, w, v) /\ v.slots = w.slots /\ v.active = None
             /\ v.binds = w.binds
<1> DEFINE v == Anonymous(w, c)
<1>1. /\ v \in World /\ v.slots = w.slots /\ v.active = None /\ v.lock = w.lock /\ v.binds = w.binds
  BY DEF Anonymous, Sound, World, Sids
<1> HIDE DEF v
<1>2. Sound(p, v, tool) /\ Spares(p, w, v)
  BY <1>1 DEF Sound, Serves, Spares
<1>3. QED
  BY <1>1, <1>2 DEF v

LEMMA UnservedSound ==
  ASSUME NEW p, NEW w, NEW tool, Sound(p, w, tool), NEW given, NEW c \in Sids
  PROVE  LET v == Unserved(w, given, c)
         IN  /\ Sound(p, v, tool) /\ Spares(p, w, v) /\ v.slots = w.slots /\ v.binds = w.binds
             /\ given # None => v.active = None
BY RsidSound, AnonymousSound DEF Unserved

\* A conversation that opens.
LEMMA OpenedSound ==
  ASSUME NEW p \in Procs, NEW w, NEW tool, Sound(p, w, tool), ~tool, NEW s \in Sessions,
         w.binds[s] # None, ~HasSlot(w, w.binds[s]), w.file[w.binds[s]] \in Agents
  PROVE  LET v == Opened(w, p, s)
         IN  /\ Sound(p, v, tool) /\ Spares(p, w, v) /\ v.binds = w.binds
             /\ w.active # None => AgentIn(v) = AgentIn(w)
             /\ \A t \in Range(v.slots) : t \in Range(w.slots) \/ (t.prof = w.binds[s] /\ t.sid = s)
<1> DEFINE q == w.binds[s]
           a == w.file[q]
           new == [prof |-> q, agent |-> a, sid |-> s]
           w0 == [w EXCEPT !.slots = Append(@, new)]
           w1 == [Acquire(w, p, a, s) EXCEPT !.slots = Append(@, new)]
           v == Opened(w, p, s)
<1>1. /\ w \in World /\ q \in Profiles /\ w.slots \in Seq(Slot) /\ Distinct(w.slots) /\ s \in Sids
      /\ new \in Slot /\ new.prof = q /\ new.agent = a /\ new.sid = s /\ a \in Agents
  BY SlotsAre DEF Sound, World, Slot, Sids
<1>2. v = IF w.active = None THEN Activate(w1, q, s) ELSE w1
  BY DEF Opened
<1>3. w1 = Acquire(w0, p, a, s)
  <2> HIDE DEF new
  <2>1. QED
    BY <1>1 DEF Acquire, World
<1> HIDE DEF new, a
<1> DEFINE ss == Append(w.slots, new)
<1>4. ss \in Seq(Slot) /\ Range(ss) = Range(w.slots) \cup {new} /\ Distinct(ss)
  <2>1. \A t \in Range(w.slots) : t.prof # new.prof
    BY <1>1 DEF HasSlot, SlotOf
  <2>2. QED
    BY <1>1, <2>1, OneMoreSlot
<1> HIDE DEF ss
<1>5. w0 = [w EXCEPT !.slots = ss]
  BY DEF ss
<1> HIDE DEF w0, w1, v
<1>6. /\ w0 \in World /\ w0.slots = ss /\ w0.active = w.active /\ w0.lock = w.lock /\ w0.binds = w.binds
  BY <1>1, <1>4, <1>5 DEF World
<1>7. Sound(p, w0, tool) /\ Spares(p, w, w0) /\ Serves(w0, a)
  BY <1>1, <1>4, <1>6 DEF Sound, HasSlot, SlotOf, Serves, Spares
<1>8. w.active # None => AgentIn(w0) = AgentIn(w)
  <2> SUFFICES ASSUME w.active # None PROVE AgentIn(w0) = AgentIn(w)
    OBVIOUS
  <2>1. PICK t \in Range(w.slots) : t.prof = w.active
    BY DEF Sound, HasSlot, SlotOf
  <2>2. AgentIn(w) = t.agent
    BY <1>1, <2>1, AgentIs
  <2>3. AgentIn(w0) = t.agent
    BY <1>4, <1>6, <2>1, AgentIs
  <2>4. QED
    BY <2>2, <2>3
<1>9. /\ Sound(p, w1, tool) /\ Spares(p, w0, w1) /\ w1.slots = ss /\ w1.active = w.active /\ w1.binds = w.binds
  <2> DEFINE x == Acquire(w0, p, a, s)
  <2>1. /\ Sound(p, x, FALSE) /\ Spares(p, w0, x) /\ x.slots = w0.slots /\ x.active = w0.active
        /\ x.binds = w0.binds
    <3>1. a \in Agents /\ s \in Sids /\ Sound(p, w0, FALSE)
      BY <1>1, <1>7 DEF Sound
    <3> HIDE DEF q
    <3>2. QED
      BY <1>7, <3>1, AcquireSound
  <2> HIDE DEF x
  <2>2. w1 = x
    BY <1>3 DEF x
  <2>3. Sound(p, x, tool)
    BY <2>1 DEF Sound
  <2>4. QED
    BY <1>6, <2>1, <2>2, <2>3
<1>10. AgentIn(w1) = AgentIn(w0)
  BY <1>6, <1>9, SameAgent
<1>11. Spares(p, w, w1)
  BY <1>7, <1>9, SparesTwice
<1>12. HasSlot(w1, q)
  BY <1>1, <1>4, <1>9 DEF HasSlot, SlotOf
<1>13. CASE w.active # None
  BY <1>1, <1>2, <1>4, <1>8, <1>9, <1>10, <1>11, <1>13 DEF v
<1>14. CASE w.active = None
  <2>1. v = Activate(w1, q, s)
    BY <1>2, <1>14
  <2>2. /\ Sound(p, v, tool) /\ Spares(p, w1, v) /\ v.binds = w1.binds
        /\ \A u \in Range(v.slots) :
             \E t \in Range(w1.slots) : u.prof = t.prof /\ u.agent = t.agent /\ u.sid = IF u.prof = q THEN s ELSE t.sid
    <3> DEFINE x == Activate(w1, q, s)
    <3>1. /\ Sound(p, x, tool) /\ Spares(p, w1, x) /\ x.binds = w1.binds
          /\ \A u \in Range(x.slots) :
               \E t \in Range(w1.slots) : u.prof = t.prof /\ u.agent = t.agent /\ u.sid = IF u.prof = q THEN s ELSE t.sid
      <4>1. q \in Profiles /\ s \in Sids
        BY <1>1
      <4>2. Sound(p, w1, tool) /\ HasSlot(w1, q)
        BY <1>9, <1>12
      <4> HIDE DEF q
      <4>3. Sound(p, x, tool) /\ Spares(p, w1, x) /\ x.binds = w1.binds
        BY <4>1, <4>2, ActivateSound
      <4>4. \A u \in Range(x.slots) :
              \E t \in Range(w1.slots) : u.prof = t.prof /\ u.agent = t.agent /\ u.sid = IF u.prof = q THEN s ELSE t.sid
        BY <4>1, <4>2, ActivateSound
      <4>5. QED
        BY <4>3, <4>4
    <3>2. QED
      BY <2>1, <3>1
  <2>3. \A u \in Range(v.slots) : u \in Range(w.slots) \/ (u.prof = q /\ u.sid = s)
    <3> SUFFICES ASSUME NEW u \in Range(v.slots), u.prof # q PROVE u \in Range(w.slots)
      BY <1>1, <2>2
    <3>1. PICK t \in Range(ss) : u.prof = t.prof /\ u.agent = t.agent /\ u.sid = t.sid
      BY <1>9, <2>2
    <3>2. t \in Range(w.slots) /\ t \in Slot /\ u \in Slot
      BY <1>1, <1>4, <2>2, <3>1, SlotsAre DEF Sound
    <3>3. u = t
      BY <3>1, <3>2 DEF Slot
    <3>4. QED
      BY <3>2, <3>3
  <2>4. Spares(p, w, v)
    BY <1>11, <2>2, SparesTwice
  <2>5. QED
    BY <1>9, <1>14, <2>2, <2>3, <2>4 DEF v
<1>15. QED
  BY <1>13, <1>14

LEMMA CallerIs ==
  ASSUME NEW w \in World, NEW l \in Launches, NEW given \in Sids
  PROVE  Caller(w, l, given) \in Sids /\ (given # None => Caller(w, l, given) = given)
BY RoutingAssumption DEF Caller, World, Launch, Sids, RoutingAssumption

\* A slot is activated for the caller and its lock is taken.
LEMMA TakenSound ==
  ASSUME NEW p \in Procs, NEW w, NEW tool, Sound(p, w, tool), ~tool, NEW q \in Profiles, HasSlot(w, q), NEW c \in Sids
  PROVE  LET w1 == Activate(w, q, c)
             v == Acquire(w1, p, AgentIn(w1), c)
         IN  Sound(p, v, tool) /\ Spares(p, w, v) /\ v.slots = w1.slots /\ v.binds = w.binds /\ v.active = q
<1> DEFINE w1 == Activate(w, q, c)
           v == Acquire(w1, p, AgentIn(w1), c)
<1>1. Sound(p, w1, tool) /\ Spares(p, w, w1) /\ w1.active = q /\ w1.binds = w.binds
  BY ActivateSound
<1> HIDE DEF w1
<1>2. q # None
  BY RoutingAssumption DEF RoutingAssumption
<1>3. AgentIn(w1) \in Agents /\ Serves(w1, AgentIn(w1))
  BY <1>1, <1>2, ActiveAgent
<1>4. Sound(p, w1, FALSE)
  BY <1>1 DEF Sound
<1>5. Sound(p, v, FALSE) /\ Spares(p, w1, v) /\ v.slots = w1.slots /\ v.binds = w1.binds /\ v.active = w1.active
  BY <1>3, <1>4, AcquireSound
<1> HIDE DEF v
<1>6. Sound(p, v, tool)
  BY <1>5 DEF Sound
<1>7. QED
  BY <1>1, <1>5, <1>6, SparesTwice DEF v, w1

\* A caller whose session is bound.
LEMMA RoutedBoundSound ==
  ASSUME NEW p \in Procs, NEW w, NEW l \in Launches, Sound(p, w, l.tool),
         NEW given \in Sids, NEW c \in Sids, NEW b \in Profiles, NEW tool
  PROVE  LET v == RoutedBound(w, p, l, given, c, b, tool)
         IN  Sound(p, v, l.tool) /\ Spares(p, w, v)
<1> DEFINE v == RoutedBound(w, p, l, given, c, b, tool)
           w1 == Activate(w, b, c)
           wc == [w EXCEPT !.rsid = c]
<1>0. l.tool \in BOOLEAN
  BY RoutingAssumption DEF RoutingAssumption, Launch
<1>1. CASE HasSlot(w, b)
  <2>1. v = IF l.tool THEN w1 ELSE Acquire(w1, p, AgentIn(w1), c)
    BY <1>1 DEF RoutedBound
  <2>2. CASE l.tool
    <3>1. PICK t : t = l.tool
      OBVIOUS
    <3>2. Sound(p, w, t) /\ HasSlot(w, b)
      BY <1>1, <3>1
    <3>3. Sound(p, w1, t) /\ Spares(p, w, w1)
      BY <3>2, ActivateSound
    <3>4. QED
      BY <2>1, <2>2, <3>1, <3>3
  <2>3. CASE ~l.tool
    BY <1>1, <2>1, <2>3, TakenSound
  <2>4. QED
    BY <2>2, <2>3
<1>2. CASE ~HasSlot(w, b) /\ (tool = "connect" \/ w.file[b] = "missing" \/ v = Unserved(w, given, c))
  <2>1. v = Unserved(w, given, c)
    BY <1>2 DEF RoutedBound
  <2>2. QED
    BY <2>1, UnservedSound
<1>3. CASE ~HasSlot(w, b) /\ Lost(w, b, tool) /\ tool # "connect" /\ w.file[b] # "missing"
  <2>1. v = wc
    BY <1>3 DEF RoutedBound
  <2>2. QED
    BY <2>1, RsidSound
<1>4. CASE /\ ~HasSlot(w, b) /\ ~Lost(w, b, tool) /\ tool # "connect" /\ w.file[b] # "missing"
           /\ ~Locked(w, p, w.file[b], c)
  <2>1. v = Apply(wc, p, l, b, c)
    BY <1>4 DEF RoutedBound
  <2>2. Sound(p, wc, l.tool) /\ Spares(p, w, wc) /\ wc.file = w.file
    BY RsidSound
  <2>3. w.file[b] \in Agents
    BY <1>4, RoutingAssumption DEF Lost, Control, Sound, World, Bad, RoutingAssumption
  <2> HIDE DEF wc, v
  <2>4. Sound(p, v, l.tool) /\ Spares(p, wc, v)
    <3>1. wc.file[b] \in Agents /\ Sound(p, wc, l.tool)
      BY <2>2, <2>3
    <3>2. Sound(p, Apply(wc, p, l, b, c), l.tool) /\ Spares(p, wc, Apply(wc, p, l, b, c))
      BY <3>1, ApplySound
    <3>3. QED
      BY <2>1, <3>2
  <2>5. QED
    BY <2>2, <2>4, SparesTwice DEF v
<1>5. CASE /\ ~HasSlot(w, b) /\ ~Lost(w, b, tool) /\ tool # "connect" /\ w.file[b] # "missing"
           /\ Locked(w, p, w.file[b], c)
  <2>1. v = Unserved(w, given, c)
    BY <1>5 DEF RoutedBound
  <2>2. QED
    BY <2>1, UnservedSound
<1>6. QED
  BY <1>1, <1>2, <1>3, <1>4, <1>5

\* The first of some positions.
LEMMA LeastOf ==
  ASSUME NEW S \in SUBSET Nat, S # {}
  PROVE  (CHOOSE i \in S : \A j \in S : i <= j) \in S
<1>1. \E i \in S : \A j \in S : i <= j
  <2>1. PICK i \in S : ~ \E j \in S : <<j, i>> \in OpToRel(<, Nat)
    BY NatLessThanWellFounded, WFMin
  <2>2. \A j \in S : i <= j
    BY <2>1 DEF OpToRel
  <2>3. QED
    BY <2>2
<1>2. QED
  BY <1>1

\* A caller without a bind is served by the slot of q.
Claimed(w, p, c, q) ==
  LET w1 == Activate(w, q, c)
      w2 == [w1 EXCEPT !.binds = IF BoundSid(@, q) = None THEN SaveBind(@, c, q) ELSE @]
  IN  Acquire(w2, p, AgentIn(w2), c)
Serving(w, p, l, c, tool, q) ==
  IF l.tool \/ tool \in Control THEN Activate(w, q, c) ELSE Claimed(w, p, c, q)

\* A caller without a bind: what the slot that serves it was.
LEMMA RoutedUnboundIs ==
  ASSUME NEW p \in Procs, NEW w, NEW l \in Launches, Sound(p, w, l.tool),
         NEW given \in Sids, NEW c \in Sessions, NEW tool
  PROVE  LET v == RoutedUnbound(w, p, l, given, c, tool)
         IN  \/ v = Unserved(w, given, c)
             \/ \E s \in Range(w.slots) : SidOf(w, s) \in {None, c} /\ v = Serving(w, p, l, c, tool, s.prof)
<1> DEFINE v == RoutedUnbound(w, p, l, given, c, tool)
           mine == {i \in DOMAIN w.slots : SidOf(w, w.slots[i]) \in {None, c}}
           k == CHOOSE i \in mine : \A j \in mine : i <= j
<1>1. CASE mine = {}
  BY <1>1 DEF RoutedUnbound
<1>2. CASE mine # {}
  <2>1. w.slots \in Seq(Slot)
    BY SlotsAre DEF Sound
  <2>2. mine \in SUBSET Nat
    BY <2>1
  <2>3. k \in mine
    <3> HIDE DEF mine
    <3>1. QED
      BY <1>2, <2>2, LeastOf
  <2>4. w.slots[k] \in Range(w.slots) /\ SidOf(w, w.slots[k]) \in {None, c}
    BY <2>3 DEF Range
  <2>5. v = Serving(w, p, l, c, tool, w.slots[k].prof)
    BY <1>2 DEF RoutedUnbound, Serving, Claimed
  <2> HIDE DEF k, v
  <2>6. QED
    BY <2>4, <2>5 DEF v
<1>3. QED
  BY <1>1, <1>2

\* A slot is activated, its profile bound to the caller if it was nobody's, and its
\* lock is taken.
LEMMA ClaimedSound ==
  ASSUME NEW p \in Procs, NEW w, NEW tool, Sound(p, w, tool), ~tool, NEW q \in Profiles, HasSlot(w, q), NEW c \in Sessions
  PROVE  LET v == Claimed(w, p, c, q)
         IN  /\ Sound(p, v, tool) /\ Spares(p, w, v) /\ v.slots = Activate(w, q, c).slots /\ v.active = q
             /\ v.binds = IF BoundSid(w.binds, q) = None THEN SaveBind(w.binds, c, q) ELSE w.binds
<1> DEFINE w1 == Activate(w, q, c)
           bs == IF BoundSid(w.binds, q) = None THEN SaveBind(w.binds, c, q) ELSE w.binds
           w2 == [w1 EXCEPT !.binds = IF BoundSid(@, q) = None THEN SaveBind(@, c, q) ELSE @]
           v == Claimed(w, p, c, q)
<1>0. c \in Sids /\ w \in World /\ q # None
  BY RoutingAssumption DEF Sound, Sids, RoutingAssumption
<1>1. Sound(p, w1, tool) /\ Spares(p, w, w1) /\ w1.active = q /\ w1.binds = w.binds
  BY <1>0, ActivateSound
<1>10. v = Acquire(w2, p, AgentIn(w2), c)
  BY DEF Claimed
<1> HIDE DEF w1, v
<1>2. w2 = [w1 EXCEPT !.binds = bs] /\ bs \in [Sessions -> Profiles \cup {None}]
  BY <1>0, <1>1, SaveBindIs DEF World
<1> HIDE DEF bs, w2
<1>3. w2 \in World /\ w2.slots = w1.slots /\ w2.active = w1.active /\ w2.lock = w1.lock /\ w2.binds = bs
  BY <1>1, <1>2 DEF Sound, World
<1>4. Sound(p, w2, tool) /\ Spares(p, w1, w2)
  BY <1>1, <1>3, OthersSound
<1>5. AgentIn(w2) \in Agents /\ Serves(w2, AgentIn(w2))
  BY <1>0, <1>1, <1>3, <1>4, ActiveAgent
<1>11. Sound(p, w2, FALSE)
  BY <1>4 DEF Sound
<1>6. Sound(p, v, FALSE) /\ Spares(p, w2, v) /\ v.slots = w2.slots /\ v.binds = w2.binds /\ v.active = w2.active
  BY <1>10, <1>0, <1>11, <1>5, AcquireSound
<1>7. Spares(p, w, v)
  BY <1>1, <1>4, <1>6, SparesTwice
<1>8. Sound(p, v, tool)
  BY <1>6 DEF Sound
<1>9. QED
  BY <1>1, <1>3, <1>6, <1>7, <1>8 DEF v, w1, w2, bs

LEMMA RoutedUnboundSound ==
  ASSUME NEW p \in Procs, NEW w, NEW l \in Launches, Sound(p, w, l.tool),
         NEW given \in Sids, NEW c \in Sessions, NEW tool
  PROVE  LET v == RoutedUnbound(w, p, l, given, c, tool)
         IN  Sound(p, v, l.tool) /\ Spares(p, w, v)
<1> DEFINE v == RoutedUnbound(w, p, l, given, c, tool)
<1>0. c \in Sids /\ l.tool \in BOOLEAN
  BY RoutingAssumption DEF Sids, RoutingAssumption, Launch
<1>1. CASE v = Unserved(w, given, c)
  BY <1>0, <1>1, UnservedSound
<1>2. CASE v # Unserved(w, given, c)
  <2>1. PICK s \in Range(w.slots) : SidOf(w, s) \in {None, c} /\ v = Serving(w, p, l, c, tool, s.prof)
    BY <1>2, RoutedUnboundIs
  <2> DEFINE w1 == Activate(w, s.prof, c)
             va == Claimed(w, p, c, s.prof)
  <2>2. s.prof \in Profiles /\ HasSlot(w, s.prof)
    BY SlotsAre DEF Sound, HasSlot, SlotOf
  <2>3. Sound(p, w1, l.tool) /\ Spares(p, w, w1)
    <3>1. PICK t : t = l.tool
      OBVIOUS
    <3>2. Sound(p, w, t)
      BY <3>1
    <3>3. Sound(p, w1, t) /\ Spares(p, w, w1)
      BY <1>0, <2>2, <3>2, ActivateSound
    <3>4. QED
      BY <3>1, <3>3
  <2>4. CASE l.tool \/ tool \in Control
    BY <2>1, <2>3, <2>4 DEF Serving
  <2>5. CASE ~(l.tool \/ tool \in Control)
    <3>1. ~l.tool
      BY <2>5
    <3>2. Sound(p, va, l.tool) /\ Spares(p, w, va)
      BY <2>2, <3>1, ClaimedSound
    <3>3. v = va
      BY <2>1, <2>5 DEF Serving
    <3> HIDE DEF va, v
    <3>4. QED
      BY <3>2, <3>3 DEF v
  <2>6. QED
    BY <2>4, <2>5
<1>3. QED
  BY <1>1, <1>2

\* What a call finds is sound, whoever makes it.
LEMMA RoutedSound ==
  ASSUME NEW p \in Procs, NEW w, NEW l \in Launches, Sound(p, w, l.tool), NEW given \in Sids, NEW tool
  PROVE  LET v == Routed(w, p, l, given, tool)
         IN  Sound(p, v, l.tool) /\ Spares(p, w, v)
<1> DEFINE v == Routed(w, p, l, given, tool)
           c == Caller(w, l, given)
<1>1. w \in World /\ c \in Sids
  BY CallerIs DEF Sound
<1> HIDE DEF c
<1>2. CASE c = None
  BY <1>2 DEF Routed, Spares, c
<1>3. CASE c # None /\ w.binds[c] # None
  <2>1. v = RoutedBound(w, p, l, given, c, w.binds[c], tool)
    BY <1>3 DEF Routed, c
  <2>2. w.binds[c] \in Profiles
    BY <1>1, <1>3 DEF World, Sids
  <2>3. QED
    BY <1>1, <2>1, <2>2, RoutedBoundSound
<1>4. CASE c # None /\ w.binds[c] = None
  <2>1. v = RoutedUnbound(w, p, l, given, c, tool)
    BY <1>4 DEF Routed, c
  <2>2. c \in Sessions
    BY <1>1, <1>4 DEF Sids
  <2>3. QED
    BY <2>1, <2>2, RoutedUnboundSound
<1>5. QED
  BY <1>2, <1>3, <1>4

-----------------------------------------------------------------------------
(* The inductive invariant.                                                 *)

\* Every process finds a sound world, one that is down has no slot, a conversation
\* that drifts has its bind, and a process that runs has one call at most.
Typed ==
  /\ file \in [Profiles -> Agents \cup Bad]
  /\ binds \in [Sessions -> Profiles \cup {None}]
  /\ lock \in [Agents -> Lock]
  /\ trust \in Agents \cup {None} /\ alarm \subseteq Agents
  /\ up \in [Procs -> {"down", "checked", "taken", "up"}] /\ launch \in [Procs -> Launches]
  /\ src \in [Procs -> {"select", "name", "grok", "env", "bind", "default"}]
  /\ gate \in [Procs -> BOOLEAN]
  /\ slots \in [Procs -> Seq(Slot)] /\ active \in [Procs -> Profiles \cup {None}] /\ rsid \in [Procs -> Sids]
  /\ calls \in [Procs -> SUBSET Call]
SoundProcs ==
  \A p \in Procs :
    /\ Sound(p, Here(p), launch[p].tool)
    /\ up[p] = "down" => slots[p] = <<>> /\ active[p] = None
    /\ src[p] = "grok" => launch[p].grok # None
CallsApart ==
  \A p \in Procs : /\ calls[p] # {} => up[p] = "up"
                   /\ \A c, d \in calls[p] : c = d
RoutingInv == Typed /\ SoundProcs /\ CallsApart

LEMMA HereIs ==
  ASSUME Typed, NEW p \in Procs
  PROVE  /\ Here(p) \in World /\ launch[p] \in Launches
         /\ Here(p).file = file /\ Here(p).binds = binds /\ Here(p).lock = lock /\ Here(p).trust = trust
         /\ Here(p).slots = slots[p] /\ Here(p).active = active[p] /\ Here(p).rsid = rsid[p]
BY DEF Typed, Here, World, Lock, Sids

\* A process that leaves a sound world disturbs no other.
LEMMA LeaveKeeps ==
  ASSUME Typed, SoundProcs, NEW p \in Procs, NEW w, Leave(p, w), launch' = launch,
         Sound(p, w, launch[p].tool), Spares(p, Here(p), w)
  PROVE  /\ file' \in [Profiles -> Agents \cup Bad] /\ binds' \in [Sessions -> Profiles \cup {None}]
         /\ lock' \in [Agents -> Lock] /\ trust' \in Agents \cup {None}
         /\ slots' \in [Procs -> Seq(Slot)] /\ active' \in [Procs -> Profiles \cup {None}] /\ rsid' \in [Procs -> Sids]
         /\ Here(p)' = w /\ slots'[p] = w.slots /\ active'[p] = w.active
         /\ \A r \in Procs : Sound(r, Here(r)', launch'[r].tool)
         /\ \A r \in Procs : r # p => slots'[r] = slots[r] /\ active'[r] = active[r] /\ AgentIn(Here(r)') = AgentIn(Here(r))
<1>0. w \in World
  BY DEF Sound
<1>1. /\ file' = w.file /\ binds' = w.binds /\ lock' = w.lock /\ trust' = w.trust
      /\ slots' = [slots EXCEPT ![p] = w.slots] /\ active' = [active EXCEPT ![p] = w.active]
      /\ rsid' = [rsid EXCEPT ![p] = w.rsid]
  BY DEF Leave
<1>2. /\ file' \in [Profiles -> Agents \cup Bad] /\ binds' \in [Sessions -> Profiles \cup {None}]
      /\ lock' \in [Agents -> Lock] /\ trust' \in Agents \cup {None}
  BY <1>0, <1>1 DEF World, Lock
<1>3. slots' \in [Procs -> Seq(Slot)] /\ active' \in [Procs -> Profiles \cup {None}] /\ rsid' \in [Procs -> Sids]
  BY <1>0, <1>1 DEF Typed, World, Sids
<1>4. /\ slots'[p] = w.slots /\ active'[p] = w.active /\ rsid'[p] = w.rsid
      /\ \A r \in Procs : r # p => slots'[r] = slots[r] /\ active'[r] = active[r] /\ rsid'[r] = rsid[r]
  BY <1>1 DEF Typed
<1>5. Here(p)' = w
  BY <1>0, <1>1, <1>4 DEF Here, World
<1>6. ASSUME NEW r \in Procs, r # p
      PROVE  Sound(r, Here(r)', launch'[r].tool) /\ AgentIn(Here(r)') = AgentIn(Here(r))
  <2> DEFINE v == Here(r)'
             u == Here(r)
  <2>1. /\ v \in World /\ v.lock = w.lock /\ v.slots = slots[r] /\ v.active = active[r]
    BY <1>1, <1>2, <1>3, <1>4, <1>6 DEF Here, World, Lock, Sids
  <2>2. u.slots = slots[r] /\ u.active = active[r] /\ u.lock = lock /\ Sound(r, u, launch[r].tool)
    BY HereIs DEF SoundProcs
  <2>3. Here(p).lock = lock
    BY HereIs
  <2>4. \A a \in Agents : v.lock[a].pid = r => u.lock[a].pid = r
    BY <1>6, <2>1, <2>2, <2>3, RoutingAssumption DEF Spares, RoutingAssumption
  <2> HIDE DEF u, v
  <2>5. AgentIn(v) = AgentIn(u)
    BY <2>1, <2>2, SameAgent
  <2>6. Sound(r, v, launch[r].tool)
    BY <2>1, <2>2, <2>4 DEF Sound, HasSlot, SlotOf, Serves
  <2>7. QED
    BY <2>5, <2>6 DEF u, v
<1>7. Sound(p, Here(p)', launch'[p].tool)
  BY <1>5
<1>8. QED
  BY <1>2, <1>3, <1>4, <1>5, <1>6, <1>7

\* What a call finds in its process.
LEMMA HealedSound ==
  ASSUME Typed, SoundProcs, NEW p \in Procs, NEW w, Sound(p, w, launch[p].tool), ~HealFails(p, w)
  PROVE  Sound(p, Healed(p, w), launch[p].tool) /\ Spares(p, w, Healed(p, w))
<1>0. launch[p] \in Launches /\ None \in Sids
  BY DEF Typed, Sids
<1>1. CASE ~Drifted(p, w)
  BY <1>1 DEF Healed, Spares
<1>2. CASE Drifted(p, w)
  <2> DEFINE q == launch[p].grok
  <2>1. q \in Profiles
    BY <1>0, <1>2, RoutingAssumption DEF Drifted, SoundProcs, Launch, RoutingAssumption
  <2>2. w.file[q] \in Agents
    BY <1>2, <2>1 DEF Drifted, HealFails, Sound, World, Bad
  <2>3. Healed(p, w) = Apply(w, p, launch[p], q, None)
    BY <1>2 DEF Healed
  <2> HIDE DEF q
  <2>4. QED
    BY <1>0, <2>1, <2>2, <2>3, ApplySound
<1>3. QED
  BY <1>1, <1>2

LEMMA EnteredSound ==
  ASSUME Typed, SoundProcs, NEW p \in Procs, NEW given \in Sids, NEW tool,
         ~HealFails(p, Routed(Here(p), p, launch[p], given, tool))
  PROVE  /\ Sound(p, Entered(p, given, tool), launch[p].tool)
         /\ Spares(p, Here(p), Entered(p, given, tool))
<1> DEFINE w == Routed(Here(p), p, launch[p], given, tool)
<1>1. launch[p] \in Launches /\ Sound(p, Here(p), launch[p].tool)
  BY HereIs DEF SoundProcs
<1>2. Sound(p, w, launch[p].tool) /\ Spares(p, Here(p), w)
  BY <1>1, RoutedSound
<1>3. Entered(p, given, tool) = Healed(p, w)
  BY DEF Entered
<1> HIDE DEF w
<1>4. ~HealFails(p, w)
  BY DEF w
<1>5. Sound(p, Healed(p, w), launch[p].tool) /\ Spares(p, w, Healed(p, w))
  BY <1>2, <1>4, HealedSound
<1>6. QED
  BY <1>2, <1>3, <1>5, SparesTwice

\* A call keeps the agent it started with; one that writes started in a process that
\* was not gated, as the agent that process is pinned to; one that registers has a profile.
CallsKeep ==
  \A p \in Procs : \A c \in calls[p] :
    /\ c.as # None => AgentIn(Here(p)) = c.as
    /\ c.tool = "write" => ~gate[p] /\ launch[p].expect \in {None, c.as}
    /\ c.tool = "register" => c.prof # None

\* A process that nothing touches.
LEMMA ProcKeeps ==
  ASSUME Typed, Typed', SoundProcs, NEW r \in Procs, slots'[r] = slots[r], active'[r] = active[r],
         launch'[r] = launch[r], \A a \in Agents : lock'[a].pid = r => lock[a].pid = r
  PROVE  Sound(r, Here(r)', launch'[r].tool) /\ AgentIn(Here(r)') = AgentIn(Here(r))
<1> DEFINE v == Here(r)'
           u == Here(r)
<1>1. v \in World /\ v.lock = lock' /\ v.slots = slots[r] /\ v.active = active[r]
  BY DEF Typed, Here, World, Lock, Sids
<1>2. u.slots = slots[r] /\ u.active = active[r] /\ u.lock = lock /\ Sound(r, u, launch[r].tool)
  BY HereIs DEF SoundProcs
<1> HIDE DEF u, v
<1>3. AgentIn(v) = AgentIn(u)
  BY <1>1, <1>2, SameAgent
<1>4. Sound(r, v, launch[r].tool)
  BY <1>1, <1>2 DEF Sound, HasSlot, SlotOf, Serves
<1>5. QED
  BY <1>3, <1>4 DEF u, v

\* A segment of a process that runs on.
LEMMA LeaveStep ==
  ASSUME RoutingInv, CallsKeep, NEW p \in Procs, NEW w, Leave(p, w), Sound(p, w, launch[p].tool), Spares(p, Here(p), w),
         launch' = launch, src' = src,
         up' \in [Procs -> {"down", "checked", "taken", "up"}], up'[p] # "down",
         gate' \in [Procs -> BOOLEAN], alarm' \subseteq Agents, calls' \in [Procs -> SUBSET Call],
         \A r \in Procs : r # p => up'[r] = up[r] /\ gate'[r] = gate[r] /\ calls'[r] = calls[r],
         calls'[p] # {} => up'[p] = "up", \A c, d \in calls'[p] : c = d,
         \A c \in calls'[p] : /\ c.as # None => AgentIn(w) = c.as
                              /\ c.tool = "write" => ~gate'[p] /\ launch[p].expect \in {None, c.as}
                              /\ c.tool = "register" => c.prof # None
  PROVE  RoutingInv' /\ CallsKeep'
<1>0. Typed /\ SoundProcs /\ CallsApart
  BY DEF RoutingInv
<1>1. /\ file' \in [Profiles -> Agents \cup Bad] /\ binds' \in [Sessions -> Profiles \cup {None}]
      /\ lock' \in [Agents -> Lock] /\ trust' \in Agents \cup {None}
      /\ slots' \in [Procs -> Seq(Slot)] /\ active' \in [Procs -> Profiles \cup {None}] /\ rsid' \in [Procs -> Sids]
  BY <1>0, LeaveKeeps
<1>2. /\ Here(p)' = w
      /\ \A r \in Procs : Sound(r, Here(r)', launch'[r].tool)
      /\ \A r \in Procs : r # p => slots'[r] = slots[r] /\ active'[r] = active[r] /\ AgentIn(Here(r)') = AgentIn(Here(r))
  BY <1>0, LeaveKeeps
<1>3. Typed'
  BY <1>0, <1>1 DEF Typed
<1>4. SoundProcs'
  BY <1>0, <1>2 DEF SoundProcs
<1>5. CallsApart'
  BY <1>0 DEF CallsApart
<1>6. CallsKeep'
  BY <1>2 DEF CallsKeep
<1>7. QED
  BY <1>3, <1>4, <1>5, <1>6 DEF RoutingInv

\* A segment that leaves the world as it found it.
LEMMA StayIs ==
  ASSUME Typed, NEW p \in Procs
  PROVE  (UNCHANGED <<shared, self>> => Leave(p, Here(p))) /\ Spares(p, Here(p), Here(p))
<1>1. /\ Here(p).file = file /\ Here(p).binds = binds /\ Here(p).lock = lock /\ Here(p).trust = trust
      /\ Here(p).slots = slots[p] /\ Here(p).active = active[p] /\ Here(p).rsid = rsid[p]
  BY HereIs
<1>2. ASSUME UNCHANGED <<shared, self>> PROVE Leave(p, Here(p))
  BY <1>1, <1>2 DEF Leave, shared, self, Typed
<1>3. Spares(p, Here(p), Here(p))
  BY DEF Spares
<1>4. QED
  BY <1>2, <1>3

LEMMA InitSound == Init => RoutingInv /\ CallsKeep
<1> SUFFICES ASSUME Init PROVE RoutingInv /\ CallsKeep
  OBVIOUS
<1>1. Typed
  BY RoutingAssumption DEF Init, Typed, Lock, NoLock, Sids, RoutingAssumption
<1>2. ASSUME NEW p \in Procs PROVE Sound(p, Here(p), launch[p].tool)
  <2>1. Here(p).lock = lock /\ Here(p).slots = <<>> /\ Here(p).active = None /\ Here(p) \in World
    BY <1>1, HereIs DEF Init
  <2>2. \A a \in Agents : lock[a].pid # p
    BY RoutingAssumption DEF Init, NoLock, RoutingAssumption
  <2>3. QED
    BY <2>1, <2>2 DEF Sound, Distinct
<1>3. SoundProcs
  BY <1>2 DEF SoundProcs, Init
<1>4. CallsApart /\ CallsKeep
  BY DEF CallsApart, CallsKeep, Init
<1>5. QED
  BY <1>1, <1>3, <1>4 DEF RoutingInv

LEMMA ResolvedIs ==
  ASSUME Typed, NEW l \in Launches, NEW s \in Sids
  PROVE  /\ Resolved(l, s)[1] \in Profiles
         /\ Resolved(l, s)[2] \in {"select", "name", "grok", "env", "bind", "default"}
         /\ Resolved(l, s)[2] = "grok" => l.grok # None
<1> DEFINE b == IF s = None THEN None ELSE binds[s]
<1>1. /\ l.select \in Profiles \cup {None} /\ l.grok \in Profiles \cup {None} /\ l.env \in Profiles \cup {None}
      /\ b \in Profiles \cup {None} /\ Default \in Profiles
  BY RoutingAssumption DEF RoutingAssumption, Launch, Typed, Sids
<1> HIDE DEF b
<1>2. Resolved(l, s) =
        CASE l.select # None -> <<l.select, IF l.create THEN "name" ELSE "select">>
          [] l.select = None /\ l.grok # None -> <<l.grok, "grok">>
          [] l.select = None /\ l.grok = None /\ l.env # None -> <<l.env, "env">>
          [] OTHER -> IF b # None /\ file[b] # "missing" THEN <<b, "bind">> ELSE <<Default, "default">>
  BY DEF Resolved, b
<1>3. CASE l.select # None
  BY <1>1, <1>2, <1>3
<1>4. CASE l.select = None /\ l.grok # None
  BY <1>1, <1>2, <1>4
<1>5. CASE l.select = None /\ l.grok = None /\ l.env # None
  BY <1>1, <1>2, <1>5
<1>6. CASE l.select = None /\ l.grok = None /\ l.env = None
  BY <1>1, <1>2, <1>6
<1>7. QED
  BY <1>3, <1>4, <1>5, <1>6

LEMMA RegisteredIs ==
  ASSUME Typed, NEW q \in Profiles, NEW f \in Registered(q)
  PROVE  f \in [Profiles -> Agents \cup Bad] /\ f[q] \in Agents
BY DEF Registered, Typed

\* The identity is settled.
LEMMA CheckSound ==
  ASSUME RoutingInv, CallsKeep, NEW p \in Procs, NEW l \in Launches, NEW s \in Sids, BootCheck(p, l, s)
  PROVE  RoutingInv' /\ CallsKeep'
<1> DEFINE q == Resolved(l, s)[1]
           from == Resolved(l, s)[2]
<1>0. Typed /\ SoundProcs /\ CallsApart
  BY DEF RoutingInv
<1>1. /\ q \in Profiles /\ from \in {"select", "name", "grok", "env", "bind", "default"}
      /\ from = "grok" => l.grok # None
  BY <1>0, ResolvedIs
<1>2. /\ up[p] = "down" /\ up' = [up EXCEPT ![p] = "checked"] /\ launch' = [launch EXCEPT ![p] = l]
      /\ src' = [src EXCEPT ![p] = from] /\ rsid' = [rsid EXCEPT ![p] = s]
      /\ UNCHANGED <<binds, lock, trust, gate, calls, alarm>>
      /\ \/ file[q] \in Agents /\ LoadOrHide(p, l, q, s)
         \/ file[q] = "missing" /\ from = "name" /\ LoadNew(p, q, s)
         \/ Migrate(p, q, from, s)
         \/ file[q] = "missing" /\ from = "default" /\ UNCHANGED <<file, slots, active>>
  BY DEF BootCheck
<1> HIDE DEF q, from
<1>3. slots[p] = <<>> /\ active[p] = None /\ calls[p] = {}
  BY <1>0, <1>2 DEF SoundProcs, CallsApart
<1>4. /\ file' \in [Profiles -> Agents \cup Bad] /\ slots' \in [Procs -> Seq(Slot)]
      /\ active' \in [Procs -> Profiles \cup {None}]
      /\ \A r \in Procs : r # p => slots'[r] = slots[r] /\ active'[r] = active[r]
      /\ \/ slots'[p] = <<>> /\ active'[p] = None
         \/ \E a \in Agents : slots'[p] = <<[prof |-> q, agent |-> a, sid |-> s]>> /\ active'[p] = q
  <2>1. \A a \in Agents : <<[prof |-> q, agent |-> a, sid |-> s]>> \in Seq(Slot)
    <3>1. \A a \in Agents : [prof |-> q, agent |-> a, sid |-> s] \in Slot
      BY <1>1 DEF Slot, Sids
    <3>2. QED
      BY <3>1
  <2>2. CASE LoadNew(p, q, s)
    <3>1. PICK f \in Registered(q) :
            /\ file' = f
            /\ slots' = [slots EXCEPT ![p] = <<[prof |-> q, agent |-> f[q], sid |-> s]>>]
            /\ active' = [active EXCEPT ![p] = q]
      BY <2>2 DEF LoadNew
    <3>2. f \in [Profiles -> Agents \cup Bad] /\ f[q] \in Agents
      BY <1>0, <1>1, RegisteredIs
    <3>3. QED
      BY <1>0, <1>1, <2>1, <3>1, <3>2 DEF Typed
  <2>3. CASE file[q] \in Agents /\ LoadOrHide(p, l, q, s)
    <3>1. PICK hidden \in BOOLEAN :
            /\ file' = file
            /\ slots' = [slots EXCEPT ![p] =
                           IF hidden THEN <<>> ELSE <<[prof |-> q, agent |-> file[q], sid |-> s]>>]
            /\ active' = [active EXCEPT ![p] = IF hidden THEN None ELSE q]
      BY <2>3 DEF LoadOrHide
    <3>2. CASE hidden
      <4>1. slots' = [slots EXCEPT ![p] = <<>>] /\ active' = [active EXCEPT ![p] = None] /\ <<>> \in Seq(Slot)
        BY <3>1, <3>2
      <4>2. QED
        BY <1>0, <3>1, <4>1 DEF Typed
    <3>3. CASE ~hidden
      <4>1. slots' = [slots EXCEPT ![p] = <<[prof |-> q, agent |-> file[q], sid |-> s]>>]
            /\ active' = [active EXCEPT ![p] = q]
        BY <3>1, <3>3
      <4>2. QED
        BY <1>0, <1>1, <2>1, <2>3, <3>1, <4>1 DEF Typed
    <3>4. QED
      BY <3>2, <3>3
  <2>4. CASE UNCHANGED <<file, slots, active>>
    BY <1>0, <1>3, <2>4 DEF Typed
  <2>5. QED
    BY <1>2, <2>2, <2>3, <2>4 DEF Migrate
<1>5. Typed'
  BY <1>0, <1>1, <1>2, <1>4 DEF Typed
<1>6. ASSUME NEW r \in Procs, r # p PROVE Sound(r, Here(r)', launch'[r].tool) /\ AgentIn(Here(r)') = AgentIn(Here(r))
  BY <1>0, <1>2, <1>4, <1>5, <1>6, ProcKeeps DEF Typed
<1>7. Sound(p, Here(p)', launch'[p].tool)
  <2> DEFINE v == Here(p)'
  <2>1. v \in World /\ v.lock = lock /\ v.slots = slots'[p] /\ v.active = active'[p]
    BY <1>2, <1>5 DEF Typed, Here, World, Lock, Sids
  <2>2. \A a \in Agents : lock[a].pid # p
    <3>1. Sound(p, Here(p), launch[p].tool) /\ Here(p).lock = lock /\ Here(p).slots = <<>>
      BY <1>0, <1>3, HereIs DEF SoundProcs
    <3>2. QED
      BY <3>1 DEF Sound, Serves, Range
  <2> HIDE DEF v
  <2>3. Distinct(v.slots) /\ (v.active # None => HasSlot(v, v.active))
    <3>1. CASE slots'[p] = <<>> /\ active'[p] = None
      BY <2>1, <3>1 DEF Distinct
    <3>2. CASE \E a \in Agents : slots'[p] = <<[prof |-> q, agent |-> a, sid |-> s]>> /\ active'[p] = q
      <4>1. PICK a \in Agents : slots'[p] = <<[prof |-> q, agent |-> a, sid |-> s]>> /\ active'[p] = q
        BY <3>2
      <4>2. Range(v.slots) = {[prof |-> q, agent |-> a, sid |-> s]} /\ Distinct(v.slots)
        BY <2>1, <4>1 DEF Range, Distinct
      <4>3. [prof |-> q, agent |-> a, sid |-> s].prof = q
        OBVIOUS
      <4>4. QED
        BY <2>1, <4>1, <4>2, <4>3 DEF HasSlot, SlotOf
    <3>3. QED
      BY <1>4, <3>1, <3>2
  <2>4. QED
    BY <2>1, <2>2, <2>3 DEF Sound, v
<1>8. SoundProcs'
  <2>1. \A r \in Procs : r # p => up'[r] = up[r] /\ src'[r] = src[r] /\ launch'[r] = launch[r] /\ slots'[r] = slots[r] /\ active'[r] = active[r]
    BY <1>0, <1>2, <1>4 DEF Typed
  <2>2. up'[p] = "checked" /\ src'[p] = from /\ launch'[p] = l
    BY <1>0, <1>2 DEF Typed
  <2>3. QED
    BY <1>0, <1>1, <1>6, <1>7, <2>1, <2>2 DEF SoundProcs
<1>9. CallsApart' /\ CallsKeep'
  <2>1. calls' = calls /\ calls[p] = {} /\ gate' = gate
    BY <1>2, <1>3
  <2>2. \A r \in Procs : r # p => up'[r] = up[r] /\ launch'[r] = launch[r]
    BY <1>0, <1>2 DEF Typed
  <2>3. QED
    BY <1>0, <1>6, <2>1, <2>2 DEF CallsApart, CallsKeep
<1>10. QED
  BY <1>5, <1>8, <1>9 DEF RoutingInv

\* The trusted agent changes.
LEMMA TrustSound ==
  ASSUME NEW p, NEW w, NEW tool, Sound(p, w, tool), NEW a \in Agents \cup {None}
  PROVE  LET v == [w EXCEPT !.trust = a]
         IN  /\ Sound(p, v, tool) /\ Spares(p, w, v) /\ v.slots = w.slots /\ v.active = w.active
             /\ v.binds = w.binds /\ v.file = w.file /\ v.lock = w.lock /\ v.rsid = w.rsid /\ v.trust = a
<1> DEFINE v == [w EXCEPT !.trust = a]
<1>1. /\ v \in World /\ v.slots = w.slots /\ v.active = w.active /\ v.lock = w.lock /\ v.binds = w.binds
      /\ v.file = w.file /\ v.rsid = w.rsid /\ v.trust = a
  BY DEF Sound, World
<1> HIDE DEF v
<1>2. Sound(p, v, tool) /\ Spares(p, w, v)
  BY <1>1, OthersSound
<1>3. QED
  BY <1>1, <1>2 DEF v

\* What the identity of a process is when it is taken, before it is trusted.
Taking(p, w, l, s) ==
  LET w1 == Activate(w, w.active, s)
      w2 == [w1 EXCEPT !.binds = IF s = None THEN @ ELSE SaveBind(@, s, w.active)]
  IN  IF l.tool THEN w1 ELSE Acquire(w2, p, AgentIn(w), s)

LEMMA TakingSound ==
  ASSUME NEW p \in Procs, NEW w, NEW l \in Launches, Sound(p, w, l.tool), w.active # None, NEW s \in Sids
  PROVE  LET v == Taking(p, w, l, s)
         IN  /\ Sound(p, v, l.tool) /\ Spares(p, w, v)
             /\ v.slots = Activate(w, w.active, s).slots
             /\ v.binds = IF l.tool \/ s = None THEN w.binds ELSE SaveBind(w.binds, s, w.active)
<1> DEFINE q == w.active
           a == AgentIn(w)
           w1 == Activate(w, q, s)
           bs == IF s = None THEN w.binds ELSE SaveBind(w.binds, s, q)
           w2 == [w1 EXCEPT !.binds = IF s = None THEN @ ELSE SaveBind(@, s, q)]
           v == Taking(p, w, l, s)
<1>. PICK tool : tool = l.tool
  OBVIOUS
<1>0. /\ Sound(p, w, tool) /\ w \in World /\ q \in Profiles /\ HasSlot(w, q) /\ a \in Agents /\ Serves(w, a)
      /\ l.tool \in BOOLEAN
  <2>1. Sound(p, w, tool) /\ l.tool \in BOOLEAN
    BY RoutingAssumption DEF RoutingAssumption, Launch
  <2>2. a \in Agents \cup {None} /\ (a = None <=> q = None) /\ (q # None => Serves(w, a))
    <3> HIDE DEF a, q
    <3>1. QED
      BY <2>1, ActiveAgent DEF a, q
  <2>3. w \in World /\ (q # None => HasSlot(w, q))
    BY DEF Sound
  <2>4. q \in Profiles
    BY <2>3 DEF World
  <2>5. QED
    BY <2>1, <2>2, <2>3, <2>4
<1>1. v = IF l.tool THEN w1 ELSE Acquire(w2, p, a, s)
  BY DEF Taking
<1> HIDE DEF q, a
<1>2. /\ Sound(p, w1, tool) /\ Spares(p, w, w1) /\ w1.active = q /\ w1.binds = w.binds
  BY <1>0, ActivateSound
<1>3. \A t \in Range(w.slots) : \E u \in Range(w1.slots) : u.prof = t.prof /\ u.agent = t.agent
  BY <1>0, ActivateSound
<1>4. Serves(w1, a)
  BY <1>0, <1>3 DEF Serves
<1> HIDE DEF w1, v
<1>5. w2 = [w1 EXCEPT !.binds = bs] /\ bs \in [Sessions -> Profiles \cup {None}]
  BY <1>0, <1>2, SaveBindIs DEF World, Sids
<1> HIDE DEF bs, w2
<1>6. w2 \in World /\ w2.slots = w1.slots /\ w2.active = w1.active /\ w2.lock = w1.lock /\ w2.binds = bs
  BY <1>2, <1>5 DEF Sound, World
<1>7. Sound(p, w2, tool) /\ Spares(p, w1, w2) /\ Serves(w2, a)
  BY <1>2, <1>4, <1>6, OthersSound DEF Serves
<1>8. CASE l.tool
  <2>1. Sound(p, v, l.tool) /\ v = w1 /\ Spares(p, w, v) /\ v.binds = w.binds
    BY <1>1, <1>2, <1>8
  <2>2. QED
    BY <1>8, <2>1 DEF v, w1, q
<1>9. CASE ~l.tool
  <2>1. tool = FALSE /\ Sound(p, w2, FALSE)
    BY <1>0, <1>7, <1>9
  <2> DEFINE x == Acquire(w2, p, a, s)
  <2>2. Sound(p, x, FALSE) /\ Spares(p, w2, x) /\ x.slots = w2.slots /\ x.binds = w2.binds
    BY <1>0, <1>7, <2>1, AcquireSound
  <2> HIDE DEF x
  <2>3. v = x
    BY <1>1, <1>9 DEF x
  <2>4. Spares(p, w, v)
    BY <1>2, <1>7, <2>2, <2>3, SparesTwice
  <2>5. Sound(p, v, l.tool)
    BY <2>1, <2>2, <2>3
  <2>6. v.slots = w1.slots /\ v.binds = bs
    BY <1>6, <2>2, <2>3
  <2>7. QED
    BY <1>9, <2>4, <2>5, <2>6 DEF v, bs, w1, q
<1>10. QED
  BY <1>8, <1>9 DEF v

\* The identity is taken.
LEMMA TakeSound ==
  ASSUME RoutingInv, CallsKeep, NEW p \in Procs, BootTake(p)
  PROVE  RoutingInv' /\ CallsKeep'
<1> DEFINE w == Here(p)
           a == AgentIn(w)
           l == launch[p]
           old == BoundSid(binds, w.active)
           s == IF l.host /\ l.pin = None /\ w.rsid # None /\ old # None THEN old ELSE w.rsid
           g == Gates(p, a)
           v == [Taking(p, w, l, s) EXCEPT !.trust = IF g THEN @ ELSE a]
<1>0. /\ Typed /\ SoundProcs /\ CallsApart /\ l \in Launches /\ w \in World /\ Sound(p, w, l.tool)
      /\ w.binds = binds
  BY HereIs DEF RoutingInv, SoundProcs
<1>1. /\ up[p] = "checked" /\ up' = [up EXCEPT ![p] = "taken"] /\ launch' = launch /\ src' = src /\ calls' = calls
      /\ IF a = None
         THEN UNCHANGED <<shared, self, gate, alarm>>
         ELSE /\ Leave(p, v)
              /\ gate' = [gate EXCEPT ![p] = g]
              /\ alarm' = IF g THEN alarm \cup {a} ELSE IF src[p] = "bind" THEN alarm ELSE alarm \ {a}
  <2> USE DEF BootTake, Taking
  <2>1. QED
    OBVIOUS
<1>2. s \in Sids /\ g \in BOOLEAN /\ (a = None <=> w.active = None) /\ a \in Agents \cup {None}
  BY <1>0, BoundSidIs, ActiveAgent DEF World, Gates, Sids
<1>3. calls[p] = {} /\ calls'[p] = {}
  BY <1>0, <1>1 DEF CallsApart
<1>4. up' \in [Procs -> {"down", "checked", "taken", "up"}] /\ up'[p] = "taken" /\ \A r \in Procs : r # p => up'[r] = up[r]
  BY <1>0, <1>1 DEF Typed
<1> DEFINE tk == Taking(p, w, l, s)
<1> HIDE DEF w, a, l, s, g, tk
<1>5. CASE a = None
  <2>1. Leave(p, Here(p)) /\ Spares(p, Here(p), Here(p)) /\ gate' = gate /\ alarm' = alarm
    BY <1>0, <1>1, <1>5, StayIs
  <2>2. Sound(p, Here(p), launch[p].tool) /\ gate' \in [Procs -> BOOLEAN] /\ alarm' \subseteq Agents
        /\ calls' \in [Procs -> SUBSET Call]
    BY <1>0, <1>1, <2>1 DEF Typed, SoundProcs
  <2>3. QED
    BY <1>0, <1>1, <1>3, <1>4, <2>1, <2>2, LeaveStep
<1>6. CASE a # None
  <2>1. Sound(p, tk, l.tool) /\ Spares(p, w, tk)
    BY <1>0, <1>2, <1>6, TakingSound DEF tk
  <2> DEFINE tr == IF g THEN tk.trust ELSE a
  <2>2. tr \in Agents \cup {None} /\ v = [tk EXCEPT !.trust = tr]
    BY <1>2, <2>1 DEF Sound, World, tk
  <2> HIDE DEF v, tr
  <2>3. Sound(p, v, l.tool) /\ Spares(p, tk, v)
    <3>. PICK t : t = l.tool
      OBVIOUS
    <3>1. Sound(p, tk, t)
      BY <2>1
    <3>2. Sound(p, v, t) /\ Spares(p, tk, v)
      BY <2>2, <3>1, TrustSound
    <3>3. QED
      BY <3>2
  <2>4. Spares(p, w, v)
    BY <2>1, <2>3, SparesTwice
  <2>5. Sound(p, v, launch[p].tool) /\ Spares(p, Here(p), v)
    BY <2>3, <2>4 DEF l, w
  <2>6. Leave(p, v) /\ gate' \in [Procs -> BOOLEAN] /\ alarm' \subseteq Agents /\ calls' \in [Procs -> SUBSET Call]
        /\ \A r \in Procs : r # p => gate'[r] = gate[r]
    BY <1>0, <1>1, <1>2, <1>6 DEF Typed
  <2>7. QED
    BY <1>0, <1>1, <1>3, <1>4, <2>5, <2>6, LeaveStep
<1>7. QED
  BY <1>5, <1>6

\* A segment of a process that is up.
LEMMA RunStep ==
  ASSUME RoutingInv, CallsKeep, NEW p \in Procs, up[p] = "up",
         NEW w, Leave(p, w), Sound(p, w, launch[p].tool), Spares(p, Here(p), w),
         UNCHANGED <<start, gate>>, alarm' \subseteq Agents,
         NEW C \in SUBSET Call, calls' = [calls EXCEPT ![p] = C], \A c, d \in C : c = d,
         \A c \in C : /\ c.as # None => AgentIn(w) = c.as
                      /\ c.tool = "write" => ~gate[p] /\ launch[p].expect \in {None, c.as}
                      /\ c.tool = "register" => c.prof # None
  PROVE  RoutingInv' /\ CallsKeep'
<1>1. Typed
  BY DEF RoutingInv
<1>2. /\ calls' \in [Procs -> SUBSET Call] /\ calls'[p] = C
      /\ \A r \in Procs : r # p => calls'[r] = calls[r]
      /\ launch' = launch /\ src' = src /\ gate' = gate /\ up' = up
      /\ gate \in [Procs -> BOOLEAN] /\ up \in [Procs -> {"down", "checked", "taken", "up"}]
  BY <1>1 DEF Typed, start
<1>3. QED
  BY <1>2, LeaveStep

\* A conversation opens beside the one that may be waiting.
LEMMA OpenStep ==
  ASSUME RoutingInv, NEW p \in Procs, NEW s \in Sessions, MayOpen(p, s)
  PROVE  LET w == Opened(Here(p), p, s)
         IN  /\ Sound(p, w, launch[p].tool) /\ Spares(p, Here(p), w)
             /\ AgentIn(Here(p)) # None => AgentIn(w) = AgentIn(Here(p))
<1> DEFINE h == Here(p)
           w == Opened(h, p, s)
<1>1. /\ h \in World /\ launch[p] \in Launches /\ Sound(p, h, launch[p].tool) /\ h.binds = binds /\ h.file = file
  BY HereIs DEF RoutingInv, SoundProcs
<1>2. ~launch[p].tool /\ binds[s] # None /\ ~HasSlot(h, binds[s]) /\ Readable(h, binds[s])
  BY DEF MayOpen
<1>3. launch[p].tool = FALSE
  BY <1>1, <1>2, RoutingAssumption DEF RoutingAssumption, Launch
<1> HIDE DEF h
<1>4. h.file[h.binds[s]] \in Agents /\ h.binds[s] # None /\ ~HasSlot(h, h.binds[s])
  BY <1>1, <1>2 DEF Readable, World
<1> DEFINE tool == launch[p].tool
<1> HIDE DEF tool
<1>5. ~tool /\ Sound(p, h, tool)
  BY <1>1, <1>3 DEF tool
<1>6. Sound(p, w, tool) /\ Spares(p, h, w) /\ (h.active # None => AgentIn(w) = AgentIn(h))
  BY <1>4, <1>5, OpenedSound
<1>7. AgentIn(h) # None => h.active # None
  BY DEF AgentIn
<1>8. QED
  BY <1>6, <1>7 DEF h, tool

LEMMA SyncSound ==
  ASSUME RoutingInv, CallsKeep, NEW p \in Procs, NEW s \in Sessions, Sync(p, s)
  PROVE  RoutingInv' /\ CallsKeep'
<1> DEFINE w == Opened(Here(p), p, s)
<1>1. up[p] = "up" /\ MayOpen(p, s) /\ Leave(p, w) /\ UNCHANGED <<start, gate, calls, alarm>>
  BY DEF Sync
<1>2. /\ Sound(p, w, launch[p].tool) /\ Spares(p, Here(p), w)
      /\ AgentIn(Here(p)) # None => AgentIn(w) = AgentIn(Here(p))
  BY <1>1, OpenStep
<1> DEFINE C == calls[p]
<1>3. /\ C \in SUBSET Call /\ calls' = [calls EXCEPT ![p] = C] /\ alarm' \subseteq Agents
      /\ \A c, d \in C : c = d
  BY <1>1 DEF RoutingInv, Typed, CallsApart
<1>4. \A c \in C : /\ c.as # None => AgentIn(w) = c.as
                   /\ c.tool = "write" => ~gate[p] /\ launch[p].expect \in {None, c.as}
                   /\ c.tool = "register" => c.prof # None
  BY <1>2 DEF CallsKeep
<1> HIDE DEF w, C
<1>5. UNCHANGED <<start, gate>> /\ up[p] = "up" /\ Leave(p, w)
  BY <1>1
<1>6. Sound(p, w, launch[p].tool) /\ Spares(p, Here(p), w)
  BY <1>2
<1>7. QED
  BY <1>3, <1>4, <1>5, <1>6, RunStep

LEMMA MainSound ==
  ASSUME RoutingInv, CallsKeep, NEW p \in Procs, Main(p)
  PROVE  RoutingInv' /\ CallsKeep'
<1>0. Typed /\ SoundProcs /\ CallsApart
  BY DEF RoutingInv
<1>1. /\ up[p] = "taken" /\ up' = [up EXCEPT ![p] = "up"] /\ UNCHANGED <<launch, src, gate, calls, alarm>>
      /\ \/ \E s \in Sessions : MayOpen(p, s) /\ Leave(p, Opened(Here(p), p, s))
         \/ UNCHANGED <<shared, self>>
  BY DEF Main
<1>2. \E w : Leave(p, w) /\ Sound(p, w, launch[p].tool) /\ Spares(p, Here(p), w)
  <2>1. CASE UNCHANGED <<shared, self>>
    <3>1. Leave(p, Here(p)) /\ Sound(p, Here(p), launch[p].tool) /\ Spares(p, Here(p), Here(p))
      BY <1>0, <2>1, StayIs DEF SoundProcs
    <3>2. QED
      BY <3>1
  <2>2. ASSUME NEW s \in Sessions, MayOpen(p, s), Leave(p, Opened(Here(p), p, s))
        PROVE  \E w : Leave(p, w) /\ Sound(p, w, launch[p].tool) /\ Spares(p, Here(p), w)
    BY <2>2, OpenStep
  <2>3. QED
    BY <1>1, <2>1, <2>2
<1>3. PICK w : Leave(p, w) /\ Sound(p, w, launch[p].tool) /\ Spares(p, Here(p), w)
  BY <1>2
<1>4. /\ up' \in [Procs -> {"down", "checked", "taken", "up"}] /\ up'[p] = "up"
      /\ \A r \in Procs : r # p => up'[r] = up[r]
      /\ calls'[p] = {} /\ gate' = gate /\ calls' = calls
      /\ gate' \in [Procs -> BOOLEAN] /\ alarm' \subseteq Agents /\ calls' \in [Procs -> SUBSET Call]
  BY <1>0, <1>1 DEF Typed, CallsApart
<1>5. QED
  BY <1>1, <1>3, <1>4, LeaveStep

\* A call that starts: what it found, and how its call is recorded.
LEMMA StartsIs ==
  ASSUME RoutingInv, NEW p \in Procs, NEW given \in Sids, NEW tool, Starts(p, given, tool)
  PROVE  LET w == Entered(p, given, tool)
         IN  /\ up[p] = "up" /\ calls[p] = {} /\ launch[p] \in Launches
             /\ Sound(p, w, launch[p].tool) /\ Spares(p, Here(p), w)
             /\ tool = "write" => ~gate[p] /\ launch[p].expect \in {None, AgentIn(w)}
<1> DEFINE w == Entered(p, given, tool)
<1>1. /\ up[p] = "up" /\ calls[p] = {} /\ ~HealFails(p, Routed(Here(p), p, launch[p], given, tool))
      /\ ~Refused(p, w, tool)
  BY DEF Starts, Queued
<1>2. Typed /\ SoundProcs
  BY DEF RoutingInv
<1>3. Sound(p, w, launch[p].tool) /\ Spares(p, Here(p), w)
  BY <1>1, <1>2, EnteredSound
<1> HIDE DEF w
<1>4. tool = "write" => ~gate[p] /\ launch[p].expect \in {None, AgentIn(w)}
  BY <1>1 DEF Refused, Pinned, Control
<1>5. QED
  BY <1>1, <1>2, <1>3, <1>4 DEF w, Typed

LEMMA RunningIs ==
  ASSUME RoutingInv, NEW p \in Procs, NEW w, Sound(p, w, launch[p].tool), NEW given \in Sids,
         NEW tool \in {"read", "write", "whoami", "register"}, NEW q \in Profiles \cup {None}
  PROVE  LET c == Running(p, w, tool, given, q)
         IN  c \in Call /\ c.tool = tool /\ c.as = AgentIn(w) /\ c.prof = q /\ c.sid = given
<1> DEFINE owner == IF w.active = None THEN None ELSE BoundSid(w.binds, w.active)
           k == Caller(Here(p), launch[p], given)
           lost == k # None /\ Lost(Here(p), binds[k], tool)
           c == Running(p, w, tool, given, q)
<1>1. c = [tool |-> tool, sid |-> given, as |-> AgentIn(w), prof |-> q, owner |-> owner, lost |-> lost]
  BY DEF Running
<1>2. AgentIn(w) \in Agents \cup {None}
  <2>. PICK t : t = launch[p].tool
    OBVIOUS
  <2>1. Sound(p, w, t)
    OBVIOUS
  <2>2. QED
    BY <2>1, ActiveAgent
<1>3. owner \in Sids
  BY BoundSidIs DEF Sound, World, Sids
<1>4. lost \in BOOLEAN
  OBVIOUS
<1> HIDE DEF owner, lost, c
<1>5. c \in Call /\ c.tool = tool /\ c.as = AgentIn(w) /\ c.prof = q /\ c.sid = given
  BY <1>1, <1>2, <1>3, <1>4 DEF Call, Sids
<1>6. QED
  BY <1>5 DEF c

\* A call that waits alone.
LEMMA OneCall ==
  ASSUME RoutingInv, CallsKeep, NEW p \in Procs, up[p] = "up",
         NEW w, Leave(p, w), Sound(p, w, launch[p].tool), Spares(p, Here(p), w),
         UNCHANGED <<start, gate>>, alarm' \subseteq Agents,
         NEW c \in Call, calls' = [calls EXCEPT ![p] = {c}], c.as # None => AgentIn(w) = c.as,
         c.tool = "write" => ~gate[p] /\ launch[p].expect \in {None, c.as},
         c.tool = "register" => c.prof # None
  PROVE  RoutingInv' /\ CallsKeep'
<1>1. Typed
  BY DEF RoutingInv
<1>2. /\ calls' \in [Procs -> SUBSET Call] /\ calls'[p] = {c}
      /\ \A r \in Procs : r # p => calls'[r] = calls[r]
      /\ launch' = launch /\ src' = src /\ gate' = gate /\ up' = up
      /\ gate \in [Procs -> BOOLEAN] /\ up \in [Procs -> {"down", "checked", "taken", "up"}]
  BY <1>1 DEF Typed, start
<1>3. /\ \A x, y \in calls'[p] : x = y
      /\ \A x \in calls'[p] : /\ x.as # None => AgentIn(w) = x.as
                              /\ x.tool = "write" => ~gate'[p] /\ launch[p].expect \in {None, x.as}
                              /\ x.tool = "register" => x.prof # None
  BY <1>2
<1>4. QED
  BY <1>2, <1>3, LeaveStep

\* A call that is made, and waits.
LEMMA CallMade ==
  ASSUME RoutingInv, CallsKeep, NEW p \in Procs, NEW given \in Sids, NEW tool, Starts(p, given, tool),
         NEW t \in {"read", "write", "whoami", "register"}, t = "write" => tool = "write",
         NEW q \in Profiles \cup {None}, t = "register" => q # None,
         LET w == Entered(p, given, tool)
         IN  Leave(p, w) /\ calls' = [calls EXCEPT ![p] = @ \cup {Running(p, w, t, given, q)}],
         UNCHANGED <<start, gate, alarm>>
  PROVE  RoutingInv' /\ CallsKeep'
<1> DEFINE w == Entered(p, given, tool)
           c == Running(p, w, t, given, q)
<1>1. /\ up[p] = "up" /\ calls[p] = {} /\ Sound(p, w, launch[p].tool) /\ Spares(p, Here(p), w)
      /\ tool = "write" => ~gate[p] /\ launch[p].expect \in {None, AgentIn(w)}
  BY StartsIs
<1>2. Leave(p, w)
  OBVIOUS
<1>3. c \in Call /\ c.tool = t /\ c.as = AgentIn(w) /\ c.prof = q
  <2> HIDE DEF w
  <2>1. QED
    BY <1>1, RunningIs
<1>4. calls' = [calls EXCEPT ![p] = {c}]
  BY <1>1 DEF RoutingInv, Typed
<1> HIDE DEF w, c
<1>5. alarm' \subseteq Agents /\ UNCHANGED <<start, gate>>
  BY DEF RoutingInv, Typed
<1>6. /\ c.as # None => AgentIn(w) = c.as
      /\ c.tool = "write" => ~gate[p] /\ launch[p].expect \in {None, c.as}
      /\ c.tool = "register" => c.prof # None
  BY <1>1, <1>3
<1>7. up[p] = "up" /\ Sound(p, w, launch[p].tool) /\ Spares(p, Here(p), w) /\ c \in Call
  BY <1>1, <1>3
<1>8. QED
  BY <1>2, <1>4, <1>5, <1>6, <1>7, OneCall

\* A call that is over at once.
LEMMA NoCall ==
  ASSUME RoutingInv, CallsKeep, NEW p \in Procs, up[p] = "up", calls[p] = {} \/ calls' = [calls EXCEPT ![p] = {}],
         NEW w, Leave(p, w), Sound(p, w, launch[p].tool), Spares(p, Here(p), w),
         calls' = calls \/ calls' = [calls EXCEPT ![p] = {}], UNCHANGED <<start, gate>>, alarm' \subseteq Agents
  PROVE  RoutingInv' /\ CallsKeep'
<1> DEFINE C == {}
<1>1. C \in SUBSET Call /\ calls' = [calls EXCEPT ![p] = C]
  BY DEF RoutingInv, Typed
<1>2. /\ \A x, y \in C : x = y
      /\ \A x \in C : /\ x.as # None => AgentIn(w) = x.as
                      /\ x.tool = "write" => ~gate[p] /\ launch[p].expect \in {None, x.as}
                      /\ x.tool = "register" => x.prof # None
  OBVIOUS
<1> HIDE DEF C
<1>3. QED
  BY <1>1, <1>2, RunStep

LEMMA RefuseSound ==
  ASSUME RoutingInv, CallsKeep, NEW p \in Procs, NEW given \in Sids, NEW tool, Refuse(p, tool, given)
  PROVE  RoutingInv' /\ CallsKeep'
<1> DEFINE w == Routed(Here(p), p, launch[p], given, tool)
<1>0. /\ Typed /\ SoundProcs /\ launch[p] \in Launches /\ Sound(p, Here(p), launch[p].tool)
  BY HereIs DEF RoutingInv, SoundProcs
<1>1. Sound(p, w, launch[p].tool) /\ Spares(p, Here(p), w)
  BY <1>0, RoutedSound
<1>2. /\ up[p] = "up" /\ calls[p] = {} /\ UNCHANGED <<start, gate, calls, alarm>>
      /\ (HealFails(p, w) /\ Leave(p, w)) \/ (~HealFails(p, w) /\ Leave(p, Healed(p, w)))
  BY DEF Refuse, Queued
<1>3. alarm' \subseteq Agents /\ UNCHANGED <<start, gate>> /\ calls' = calls
  BY <1>0, <1>2 DEF Typed
<1> HIDE DEF w
<1>4. CASE HealFails(p, w) /\ Leave(p, w)
  BY <1>1, <1>2, <1>3, <1>4, NoCall
<1>5. CASE ~HealFails(p, w) /\ Leave(p, Healed(p, w))
  <2>1. Sound(p, Healed(p, w), launch[p].tool) /\ Spares(p, w, Healed(p, w))
    BY <1>0, <1>1, <1>5, HealedSound
  <2>2. Spares(p, Here(p), Healed(p, w))
    BY <1>1, <2>1, SparesTwice
  <2>3. QED
    BY <1>2, <1>3, <1>5, <2>1, <2>2, NoCall
<1>6. QED
  BY <1>2, <1>4, <1>5

LEMMA ConnectSound ==
  ASSUME RoutingInv, CallsKeep, NEW p \in Procs, NEW given \in Sids, NEW q \in Profiles, Connect(p, given, q)
  PROVE  RoutingInv' /\ CallsKeep'
<1> DEFINE w == Entered(p, given, "connect")
           goes == /\ MaySwitch(p, w, q) /\ Readable(w, q)
                   /\ ~Locked(w, p, w.file[q], w.rsid)
           v == Apply(w, p, launch[p], q, given)
<1>1. /\ Starts(p, given, "connect") /\ Leave(p, IF goes THEN v ELSE w)
      /\ alarm' = (IF goes THEN alarm \ {w.file[q]} ELSE alarm) /\ UNCHANGED <<start, gate, calls>>
  BY DEF Connect
<1>2. /\ up[p] = "up" /\ calls[p] = {} /\ launch[p] \in Launches
      /\ Sound(p, w, launch[p].tool) /\ Spares(p, Here(p), w)
  BY <1>1, StartsIs
<1>3. alarm' \subseteq Agents /\ UNCHANGED <<start, gate>> /\ calls' = calls
  BY <1>1 DEF RoutingInv, Typed
<1> HIDE DEF w
<1>4. CASE ~goes
  BY <1>1, <1>2, <1>3, <1>4, NoCall
<1>5. CASE goes
  <2>1. w.file[q] \in Agents
    BY <1>2, <1>5 DEF Readable, Sound, World
  <2>2. Sound(p, v, launch[p].tool) /\ Spares(p, w, v)
    BY <1>2, <2>1, ApplySound
  <2>3. Leave(p, v)
    BY <1>1, <1>5
  <2> HIDE DEF v
  <2>4. Spares(p, Here(p), v)
    BY <1>2, <2>2, SparesTwice
  <2>5. QED
    BY <1>2, <1>3, <2>2, <2>3, <2>4, NoCall
<1>6. QED
  BY <1>4, <1>5

LEMMA DisconnectToolSound ==
  ASSUME RoutingInv, CallsKeep, NEW p \in Procs, NEW given \in Sids, NEW keep \in BOOLEAN, DisconnectTool(p, given, keep)
  PROVE  RoutingInv' /\ CallsKeep'
<1> DEFINE w == Entered(p, given, "disconnect")
           v == Disconnect(w, p, launch[p], keep)
<1>1. Starts(p, given, "disconnect") /\ Leave(p, v) /\ UNCHANGED <<start, gate, calls, alarm>>
  BY DEF DisconnectTool
<1>2. /\ up[p] = "up" /\ calls[p] = {} /\ launch[p] \in Launches
      /\ Sound(p, w, launch[p].tool) /\ Spares(p, Here(p), w)
  BY <1>1, StartsIs
<1>3. alarm' \subseteq Agents /\ UNCHANGED <<start, gate>> /\ calls' = calls
  BY <1>1 DEF RoutingInv, Typed
<1> HIDE DEF w
<1>4. Sound(p, v, launch[p].tool) /\ Spares(p, w, v)
  BY <1>2, DisconnectSound
<1> HIDE DEF v
<1>5. Spares(p, Here(p), v)
  BY <1>2, <1>4, SparesTwice
<1>6. QED
  BY <1>1, <1>2, <1>3, <1>4, <1>5, NoCall

\* A call that is answered was the only one.
LEMMA Answered ==
  ASSUME RoutingInv, NEW p \in Procs, NEW c \in calls[p]
  PROVE  up[p] = "up" /\ calls[p] \ {c} = {} /\ launch[p] \in Launches /\ c \in Call /\ Sound(p, Here(p), launch[p].tool)
BY DEF RoutingInv, CallsApart, Typed, SoundProcs

LEMMA AnswerSound ==
  ASSUME RoutingInv, CallsKeep, NEW p \in Procs, NEW c \in calls[p], Finish(p, c) \/ WhoAmI(p, c) \/ Register(p, c)
  PROVE  RoutingInv' /\ CallsKeep'
<1> DEFINE h == Here(p)
<1>0. /\ Typed /\ up[p] = "up" /\ calls[p] \ {c} = {} /\ launch[p] \in Launches /\ c \in Call
      /\ Sound(p, h, launch[p].tool) /\ alarm \subseteq Agents
  BY Answered DEF RoutingInv, Typed
<1>1. CASE Finish(p, c)
  <2>1. /\ calls' = [calls EXCEPT ![p] = {}] /\ UNCHANGED <<shared, start, self, gate, alarm>>
    BY <1>0, <1>1 DEF Finish
  <2>2. Leave(p, h) /\ Spares(p, h, h)
    BY <1>0, <2>1, StayIs
  <2>3. alarm' \subseteq Agents /\ UNCHANGED <<start, gate>>
    BY <1>0, <2>1
  <2> HIDE DEF h
  <2>4. Sound(p, h, launch[p].tool) /\ Spares(p, Here(p), h)
    BY <1>0, <2>2 DEF h
  <2>5. QED
    BY <1>0, <2>1, <2>2, <2>3, <2>4, NoCall
<1>2. CASE WhoAmI(p, c)
  <2> DEFINE a == AgentIn(h)
             x == IF gate[p] /\ a # None THEN a ELSE trust
             w == [h EXCEPT !.trust = x]
  <2>1. /\ calls' = [calls EXCEPT ![p] = {}] /\ gate' = [gate EXCEPT ![p] = FALSE]
        /\ IF gate[p] /\ a # None THEN trust' = a /\ alarm' = alarm \ {a} ELSE UNCHANGED <<trust, alarm>>
        /\ UNCHANGED <<file, binds, lock, start, self>>
    BY <1>0, <1>2 DEF WhoAmI
  <2>2. a \in Agents \cup {None}
    <3>. PICK t : t = launch[p].tool
      OBVIOUS
    <3>1. Sound(p, h, t)
      BY <1>0
    <3> HIDE DEF h
    <3>2. QED
      BY <3>1, ActiveAgent
  <2>3. /\ h.file = file /\ h.binds = binds /\ h.lock = lock
        /\ h.slots = slots[p] /\ h.active = active[p] /\ h.rsid = rsid[p]
    BY <1>0, HereIs
  <2> HIDE DEF a
  <2>4. x \in Agents \cup {None} /\ trust' = x /\ alarm' \subseteq Agents
    BY <1>0, <2>1, <2>2 DEF Typed
  <2> HIDE DEF x, h
  <2>5. /\ Sound(p, w, launch[p].tool) /\ Spares(p, h, w) /\ w.slots = h.slots /\ w.active = h.active
        /\ w.binds = h.binds /\ w.file = h.file /\ w.lock = h.lock /\ w.rsid = h.rsid /\ w.trust = x
    <3>. PICK t : t = launch[p].tool
      OBVIOUS
    <3>1. Sound(p, h, t)
      BY <1>0
    <3>2. /\ Sound(p, w, t) /\ Spares(p, h, w) /\ w.slots = h.slots /\ w.active = h.active
          /\ w.binds = h.binds /\ w.file = h.file /\ w.lock = h.lock /\ w.rsid = h.rsid /\ w.trust = x
      BY <2>4, <3>1, TrustSound
    <3>3. QED
      BY <3>2
  <2> HIDE DEF w
  <2>6. Leave(p, w)
    BY <1>0, <2>1, <2>3, <2>4, <2>5 DEF Leave, self, Typed
  <2>7. /\ launch' = launch /\ src' = src /\ up' = up /\ gate' \in [Procs -> BOOLEAN]
        /\ calls' \in [Procs -> SUBSET Call] /\ calls'[p] = {}
        /\ up \in [Procs -> {"down", "checked", "taken", "up"}]
        /\ \A r \in Procs : r # p => up'[r] = up[r] /\ gate'[r] = gate[r] /\ calls'[r] = calls[r]
    BY <1>0, <2>1 DEF start, Typed
  <2>8. Spares(p, Here(p), w)
    BY <2>5 DEF h
  <2>9. QED
    BY <1>0, <2>4, <2>5, <2>6, <2>7, <2>8, LeaveStep
<1>3. CASE Register(p, c)
  <2>1. /\ c.tool = "register" /\ calls' = [calls EXCEPT ![p] = {}] /\ UNCHANGED <<start, gate>>
        /\ \/ UNCHANGED <<shared, self, alarm>>
           \/ \E f \in Registered(c.prof) :
                LET a == f[c.prof]
                    g == IF f[Default] = "missing" THEN [f EXCEPT ![Default] = a] ELSE f
                IN  /\ Leave(p, Apply([h EXCEPT !.file = g], p, launch[p], c.prof, c.sid))
                    /\ alarm' = alarm \ {a}
    BY <1>0, <1>3 DEF Register
  <2>2. CASE UNCHANGED <<shared, self, alarm>>
    <3>1. Leave(p, h) /\ Spares(p, h, h)
      BY <1>0, <2>2, StayIs
    <3>2. alarm' \subseteq Agents /\ Leave(p, h) /\ Sound(p, h, launch[p].tool) /\ Spares(p, Here(p), h)
      BY <1>0, <2>2, <3>1
    <3> HIDE DEF h
    <3>3. QED
      BY <1>0, <2>1, <3>2, NoCall
  <2>3. CASE ~ UNCHANGED <<shared, self, alarm>>
    <3> DEFINE q == c.prof
    <3>1. PICK f \in Registered(q) :
            LET a == f[q]
                g == IF f[Default] = "missing" THEN [f EXCEPT ![Default] = a] ELSE f
            IN  /\ Leave(p, Apply([h EXCEPT !.file = g], p, launch[p], q, c.sid))
                /\ alarm' = alarm \ {a}
      BY <2>1, <2>3
    <3> DEFINE a == f[q]
               g == IF f[Default] = "missing" THEN [f EXCEPT ![Default] = a] ELSE f
               u == [h EXCEPT !.file = g]
               v == Apply(u, p, launch[p], q, c.sid)
    <3>2. Leave(p, v) /\ alarm' = alarm \ {a}
      BY <3>1
    <3>3. q \in Profiles /\ c.sid \in Sids
      BY <1>0, <2>1 DEF CallsKeep, Call, Sids
    <3>4. f \in [Profiles -> Agents \cup Bad] /\ a \in Agents
      BY <1>0, <3>3, RegisteredIs
    <3>5. g \in [Profiles -> Agents \cup Bad] /\ g[q] \in Agents
      <4>1. a = f[q]
        OBVIOUS
      <4> HIDE DEF a, q
      <4>2. CASE f[Default] = "missing"
        <5>1. g = [f EXCEPT ![Default] = a]
          BY <4>2
        <5>2. QED
          BY <3>3, <3>4, <4>1, <5>1
      <4>3. CASE f[Default] # "missing"
        BY <3>4, <4>1, <4>3
      <4>4. QED
        BY <4>2, <4>3
    <3> HIDE DEF g, h, q
    <3>6. /\ u \in World /\ u.file = g /\ u.slots = h.slots /\ u.active = h.active /\ u.lock = h.lock
      BY <1>0, <3>5 DEF Sound, World
    <3> HIDE DEF u
    <3>7. Sound(p, u, launch[p].tool) /\ Spares(p, h, u)
      <4>. PICK t : t = launch[p].tool
        OBVIOUS
      <4>1. Sound(p, h, t)
        BY <1>0
      <4>2. Sound(p, u, t) /\ Spares(p, h, u)
        BY <3>6, <4>1, OthersSound
      <4>3. QED
        BY <4>2
    <3>8. Sound(p, v, launch[p].tool) /\ Spares(p, u, v)
      <4>1. u.file[q] \in Agents
        BY <3>5, <3>6
      <4>2. QED
        BY <1>0, <3>3, <3>7, <4>1, ApplySound
    <3> HIDE DEF v
    <3>9. Leave(p, v) /\ alarm' \subseteq Agents
      BY <1>0, <3>2
    <3>10. Spares(p, Here(p), v)
      BY <3>7, <3>8, SparesTwice DEF h
    <3>11. QED
      BY <1>0, <2>1, <3>8, <3>9, <3>10, NoCall
  <2>4. QED
    BY <2>2, <2>3
<1>4. QED
  BY <1>1, <1>2, <1>3

LEMMA CallStepSound ==
  ASSUME RoutingInv, CallsKeep, NEW p \in Procs, NEW given \in Sids, CallStep(p, given)
  PROVE  RoutingInv' /\ CallsKeep'
<1>1. ASSUME NEW t \in {"read", "write", "whoami"}, Start(p, t, given) PROVE RoutingInv' /\ CallsKeep'
  <2>1. /\ Starts(p, given, t) /\ UNCHANGED <<start, gate, alarm>>
        /\ LET w == Entered(p, given, t)
           IN  Leave(p, w) /\ calls' = [calls EXCEPT ![p] = @ \cup {Running(p, w, t, given, None)}]
    BY <1>1 DEF Start
  <2>2. QED
    BY <2>1, CallMade
<1>2. ASSUME NEW q \in Profiles, ConnectNew(p, given, q) PROVE RoutingInv' /\ CallsKeep'
  <2>1. /\ Starts(p, given, "connect") /\ UNCHANGED <<start, gate, alarm>>
        /\ LET w == Entered(p, given, "connect")
           IN  Leave(p, w) /\ calls' = [calls EXCEPT ![p] = @ \cup {Running(p, w, "register", given, q)}]
    BY <1>2 DEF ConnectNew
  <2>2. q \in Profiles \cup {None} /\ q # None
    BY RoutingAssumption DEF RoutingAssumption
  <2>3. QED
    BY <2>1, <2>2, CallMade
<1>3. QED
  BY <1>1, <1>2, RefuseSound, ConnectSound, DisconnectToolSound DEF CallStep

\* A process that ends leaves no lock behind.
LEMMA EndSound ==
  ASSUME RoutingInv, CallsKeep, NEW p \in Procs, Stop(p) \/ Crash(p)
  PROVE  RoutingInv' /\ CallsKeep'
<1>0. Typed /\ SoundProcs /\ CallsApart
  BY DEF RoutingInv
<1>1. /\ up' = [up EXCEPT ![p] = "down"]
      /\ slots' = [slots EXCEPT ![p] = <<>>] /\ active' = [active EXCEPT ![p] = None]
      /\ rsid' = [rsid EXCEPT ![p] = None] /\ gate' = [gate EXCEPT ![p] = FALSE]
      /\ calls' = [calls EXCEPT ![p] = {}]
      /\ UNCHANGED <<file, binds, trust, launch, src, alarm>>
  BY DEF Stop, Crash, Ended
<1>2. /\ Sound(p, Here(p), launch[p].tool) /\ Here(p).lock = lock /\ Here(p) \in World
      /\ launch[p].tool \in BOOLEAN /\ NoLock \in Lock /\ NoLock.pid = None /\ p # None /\ None \notin Procs
  BY <1>0, HereIs, RoutingAssumption DEF SoundProcs, RoutingAssumption, Launch, NoLock, Lock
<1>3. ASSUME NEW k \in [Agents -> Lock] 
      PROVE  /\ Mine(p, k) \in [Agents -> Lock]
             /\ \A a \in Agents : Mine(p, k)[a].pid # p /\ Mine(p, k)[a] \in {NoLock, k[a]}
  BY <1>2 DEF Mine
<1>4. /\ lock' \in [Agents -> Lock]
      /\ \A a \in Agents : lock'[a].pid # p /\ lock'[a] \in {NoLock, lock[a]}
  <2>1. CASE Crash(p)
    BY <1>0, <1>3, <2>1 DEF Crash, Typed
  <2>2. CASE Stop(p) /\ launch[p].tool
    <3>1. lock' = lock
      BY <2>2 DEF Stop
    <3>2. QED
      BY <1>0, <1>2, <2>2, <3>1 DEF Sound, Typed
  <2>3. CASE Stop(p) /\ ~launch[p].tool
    <3> DEFINE fr == Freed(Here(p), p, Range(slots[p]))
    <3>1. lock' = Mine(p, fr)
      BY <2>3 DEF Stop
    <3>2. fr \in [Agents -> Lock] /\ \A a \in Agents : fr[a] = NoLock \/ fr[a] = lock[a]
      BY <1>2, FreedIs
    <3> HIDE DEF fr
    <3>3. QED
      BY <1>3, <3>1, <3>2
  <2>4. QED
    BY <2>1, <2>2, <2>3
<1>5. Typed'
  <2>1. <<>> \in Seq(Slot) /\ None \in Sids
    BY DEF Sids
  <2>2. QED
    BY <1>0, <1>1, <1>4, <2>1 DEF Typed
<1>6. \A r \in Procs : r # p => /\ slots'[r] = slots[r] /\ active'[r] = active[r] /\ up'[r] = up[r]
                                /\ gate'[r] = gate[r] /\ calls'[r] = calls[r]
  BY <1>0, <1>1 DEF Typed
<1>7. slots'[p] = <<>> /\ active'[p] = None /\ calls'[p] = {}
  BY <1>0, <1>1 DEF Typed
<1>8. ASSUME NEW r \in Procs, r # p PROVE Sound(r, Here(r)', launch'[r].tool) /\ AgentIn(Here(r)') = AgentIn(Here(r))
  <2>1. \A a \in Agents : lock'[a].pid = r => lock[a].pid = r
    BY <1>2, <1>4
  <2>2. launch'[r] = launch[r]
    BY <1>1
  <2>3. QED
    BY <1>0, <1>5, <1>6, <1>8, <2>1, <2>2, ProcKeeps
<1>9. Sound(p, Here(p)', launch'[p].tool)
  <2> DEFINE v == Here(p)'
  <2>1. v \in World /\ v.lock = lock' /\ v.slots = <<>> /\ v.active = None
    BY <1>5, <1>7 DEF Typed, Here, World, Lock, Sids
  <2> HIDE DEF v
  <2>2. Sound(p, v, launch'[p].tool)
    BY <1>4, <2>1 DEF Sound, Distinct
  <2>3. QED
    BY <2>2 DEF v
<1>10. SoundProcs'
  BY <1>0, <1>1, <1>6, <1>7, <1>8, <1>9 DEF SoundProcs
<1>11. CallsApart' /\ CallsKeep'
  BY <1>0, <1>1, <1>6, <1>7, <1>8 DEF CallsApart, CallsKeep
<1>12. QED
  BY <1>5, <1>10, <1>11 DEF RoutingInv

LEMMA EditSound ==
  ASSUME RoutingInv, CallsKeep, NEW q \in Profiles, Edit(q)
  PROVE  RoutingInv' /\ CallsKeep'
<1>0. Typed /\ SoundProcs /\ CallsApart
  BY DEF RoutingInv
<1>1. file' \in [Profiles -> Agents \cup Bad] /\ UNCHANGED <<binds, lock, trust, start, self, gate, calls, alarm>>
  BY <1>0 DEF Edit, Typed
<1>2. Typed'
  BY <1>0, <1>1 DEF Typed, start, self
<1>3. ASSUME NEW r \in Procs PROVE Sound(r, Here(r)', launch'[r].tool) /\ AgentIn(Here(r)') = AgentIn(Here(r))
  BY <1>0, <1>1, <1>2, ProcKeeps DEF start, self
<1>4. SoundProcs' /\ CallsApart' /\ CallsKeep'
  BY <1>0, <1>1, <1>3 DEF SoundProcs, CallsApart, CallsKeep, start, self
<1>5. QED
  BY <1>2, <1>4 DEF RoutingInv

LEMMA StepSound == RoutingInv /\ CallsKeep /\ [Next]_vars => RoutingInv' /\ CallsKeep'
<1> SUFFICES ASSUME RoutingInv, CallsKeep, [Next]_vars PROVE RoutingInv' /\ CallsKeep'
  OBVIOUS
<1>1. ASSUME NEW p \in Procs, Boot(p) PROVE RoutingInv' /\ CallsKeep'
  BY <1>1, CheckSound, TakeSound, MainSound DEF Boot, Sids
<1>2. ASSUME NEW p \in Procs, Answer(p) PROVE RoutingInv' /\ CallsKeep'
  BY <1>2, AnswerSound DEF Answer
<1>3. ASSUME NEW p \in Procs, NEW s \in Sessions, Sync(p, s) PROVE RoutingInv' /\ CallsKeep'
  BY <1>3, SyncSound
<1>4. ASSUME NEW p \in Procs, NEW s \in Sids, CallStep(p, s) PROVE RoutingInv' /\ CallsKeep'
  BY <1>4, CallStepSound
<1>5. CASE UNCHANGED vars
  <2>1. /\ file' = file /\ binds' = binds /\ lock' = lock /\ trust' = trust /\ up' = up /\ launch' = launch
        /\ src' = src /\ slots' = slots /\ active' = active /\ rsid' = rsid /\ gate' = gate /\ calls' = calls
        /\ alarm' = alarm
    BY <1>5 DEF vars, shared, start, self
  <2>2. QED
    BY <2>1 DEF RoutingInv, Typed, SoundProcs, CallsApart, CallsKeep, Here
<1>6. QED
  BY <1>1, <1>2, <1>3, <1>4, <1>5, EndSound, EditSound DEF Next, Sids

-----------------------------------------------------------------------------
(* The theorems.                                                            *)

LEMMA Always == Spec => []RoutingInv /\ []CallsKeep
<1>1. Init => RoutingInv /\ CallsKeep
  BY InitSound
<1>2. (RoutingInv /\ CallsKeep) /\ [Next]_vars => (RoutingInv /\ CallsKeep)'
  BY StepSound
<1>3. QED
  BY <1>1, <1>2, PTL DEF Spec

LEMMA TypesAre == RoutingInv => TypeOK
<1> SUFFICES ASSUME RoutingInv PROVE TypeOK
  OBVIOUS
<1>1. Typed /\ SoundProcs
  BY DEF RoutingInv
<1>2. ASSUME NEW p \in Procs
      PROVE  /\ active[p] # None => HasSlot(Here(p), active[p])
             /\ \A i, j \in DOMAIN slots[p] : slots[p][i].prof = slots[p][j].prof => i = j
  <2>1. Sound(p, Here(p), launch[p].tool) /\ Here(p).slots = slots[p] /\ Here(p).active = active[p]
    BY <1>1, HereIs DEF SoundProcs
  <2>2. QED
    BY <2>1 DEF Sound, Distinct
<1>3. QED
  BY <1>1, <1>2 DEF Typed, TypeOK, Lock, Sids

\* The variables keep their types, a profile has one slot in a process, and the active
\* one is among them.
THEOREM TypeCorrect == Spec => []TypeOK
BY Always, TypesAre, PTL

\* A live process serves every agent whose lock it holds: where a slot is given up, its
\* lock is freed.
THEOREM LockIsServedHolds == Spec => []LockIsServed
<1>1. RoutingInv => LockIsServed
  <2> SUFFICES ASSUME RoutingInv, NEW p \in Procs, NEW a \in Agents, lock[a].pid = p
               PROVE  \E i \in DOMAIN slots[p] : slots[p][i].agent = a
    BY DEF LockIsServed
  <2>1. Sound(p, Here(p), launch[p].tool) /\ Here(p).slots = slots[p] /\ Here(p).lock = lock
    BY HereIs DEF RoutingInv, SoundProcs
  <2>2. Serves(Here(p), a)
    BY <2>1 DEF Sound
  <2>3. QED
    BY <2>1, <2>2 DEF Serves, Range
<1>2. QED
  BY <1>1, Always, PTL

\* A call that waits for the hub keeps the agent it started as.
THEOREM CallKeepsIdentityHolds == Spec => []CallKeepsIdentity
<1>1. CallsKeep => CallKeepsIdentity
  BY DEF CallsKeep, CallKeepsIdentity
<1>2. QED
  BY <1>1, Always, PTL

\* No call writes in a gated process, or as another agent than the pinned one.
THEOREM NoWriteUnderAlarmHolds == Spec => []NoWriteUnderAlarm
<1>1. CallsKeep => NoWriteUnderAlarm
  <2> SUFFICES ASSUME CallsKeep, NEW p \in Procs, NEW c \in calls[p], c.tool = "write"
               PROVE  ~gate[p] /\ launch[p].expect \in {None, AgentIn(Here(p))}
    BY DEF NoWriteUnderAlarm
  <2>1. /\ ~gate[p] /\ launch[p].expect \in {None, c.as} /\ (c.as # None => AgentIn(Here(p)) = c.as)
    BY DEF CallsKeep
  <2>2. QED
    BY <2>1
<1>2. QED
  BY <1>1, Always, PTL

-----------------------------------------------------------------------------
(* Whose profile a call acts as, in a process that shares its host with none.   *)

\* A profile is bound to one session, and a slot that has one to that session.
OneEach(b) == \A s, t \in Sessions : b[s] = b[t] /\ b[s] # None => s = t
SlotsFit(b, ss) == \A x \in Range(ss), s \in Sessions : x.sid # None /\ b[s] = x.prof => s = x.sid
Fits(w, tool) == OneEach(w.binds) /\ (~tool => SlotsFit(w.binds, w.slots))

LEMMA SaveBindOne ==
  ASSUME NEW b \in [Sessions -> Profiles \cup {None}], NEW s \in Sessions, NEW q \in Profiles, OneEach(b)
  PROVE  OneEach(SaveBind(b, s, q))
<1> DEFINE c == SaveBind(b, s, q)
<1>1. \A t \in Sessions : c[t] = IF t = s THEN q ELSE IF b[t] = q THEN None ELSE b[t]
  BY SaveBindIs
<1> HIDE DEF c
<1>2. OneEach(c)
  BY <1>1 DEF OneEach
<1>3. QED
  BY <1>2 DEF c

\* A profile that is bound anew: the slots of the others fit as before.
LEMMA SaveBindFits ==
  ASSUME NEW b \in [Sessions -> Profiles \cup {None}], NEW s \in Sessions, NEW q \in Profiles, NEW ss, NEW rr,
         SlotsFit(b, ss),
         \A x \in Range(rr) : /\ x.prof \in Profiles
                             /\ IF x.prof = q THEN x.sid = s
                                ELSE \E y \in Range(ss) : y.prof = x.prof /\ y.sid = x.sid
  PROVE  SlotsFit(SaveBind(b, s, q), rr)
<1> DEFINE c == SaveBind(b, s, q)
<1>1. \A t \in Sessions : c[t] = IF t = s THEN q ELSE IF b[t] = q THEN None ELSE b[t]
  BY SaveBindIs
<1> HIDE DEF c
<1>2. ASSUME NEW x \in Range(rr), NEW t \in Sessions, x.sid # None, c[t] = x.prof
      PROVE  t = x.sid
  <2>1. CASE x.prof = q
    BY <1>1, <1>2, <2>1, RoutingAssumption DEF RoutingAssumption
  <2>2. CASE x.prof # q
    <3>1. PICK y \in Range(ss) : y.prof = x.prof /\ y.sid = x.sid
      BY <2>2
    <3>2. b[t] = y.prof
      BY <1>1, <1>2, <2>2, <3>1, RoutingAssumption DEF RoutingAssumption
    <3>3. QED
      BY <1>2, <3>1, <3>2 DEF SlotsFit
  <2>3. QED
    BY <2>1, <2>2
<1>3. SlotsFit(c, rr)
  BY <1>2 DEF SlotsFit
<1>4. QED
  BY <1>3 DEF c

\* The binds stay, and no slot gets a session but one whose profile is that session's.
LEMMA SameBindsFit ==
  ASSUME NEW b, NEW ss, NEW rr, OneEach(b), SlotsFit(b, ss),
         \A x \in Range(rr) :
           /\ x.prof # None
           /\ \/ x.sid = None
              \/ \E y \in Range(ss) : y.prof = x.prof /\ y.sid = x.sid
              \/ x.sid \in Sessions /\ b[x.sid] = x.prof
              \/ \A s \in Sessions : b[s] # x.prof
  PROVE  SlotsFit(b, rr)
<1> SUFFICES ASSUME NEW x \in Range(rr), NEW s \in Sessions, x.sid # None, b[s] = x.prof
             PROVE  s = x.sid
  BY DEF SlotsFit
<1>1. CASE \E y \in Range(ss) : y.prof = x.prof /\ y.sid = x.sid
  BY <1>1 DEF SlotsFit
<1>2. CASE x.sid \in Sessions /\ b[x.sid] = x.prof
  BY <1>2 DEF OneEach
<1>3. QED
  BY <1>1, <1>2

\* The session of a profile that is bound.
LEMMA BoundOf ==
  ASSUME NEW b \in [Sessions -> Profiles \cup {None}], OneEach(b), NEW q \in Profiles, NEW s \in Sessions, b[s] = q
  PROVE  BoundSid(b, q) = s
<1>1. BoundSid(b, q) # None /\ BoundSid(b, q) \in Sids /\ b[BoundSid(b, q)] = q
  BY BoundSidIs
<1>2. q # None
  BY RoutingAssumption DEF RoutingAssumption
<1>3. QED
  BY <1>1, <1>2 DEF OneEach, Sids

\* Slots of different profiles: the one of q is the one.
LEMMA OnlyOne ==
  ASSUME NEW ss, Distinct(ss), NEW x \in Range(ss), NEW y \in Range(ss), x.prof = y.prof
  PROVE  x = y
BY DEF Distinct, Range

LEMMA ApplyFits ==
  ASSUME NEW p \in Procs, NEW w, NEW l \in Launches, Sound(p, w, l.tool), Fits(w, l.tool),
         NEW q \in Profiles, w.file[q] \in Agents, NEW sid \in Sids
  PROVE  LET v == Apply(w, p, l, q, sid)
         IN  /\ Fits(v, l.tool) /\ v.active = q
             /\ ~l.tool /\ sid # None => BoundSid(v.binds, q) = sid
<1> DEFINE v == Apply(w, p, l, q, sid)
           t == Target(w, q, sid)
           new == [prof |-> q, agent |-> w.file[q], sid |-> t]
<1>1. /\ v \in World /\ Distinct(v.slots) /\ v.active = q
      /\ new \in Range(v.slots) /\ Range(v.slots) \subseteq Range(w.slots) \cup {new}
      /\ v.binds = IF l.tool \/ t = None THEN w.binds ELSE SaveBind(w.binds, t, q)
  <2>1. Applied(p, w, l, q, t, v)
    BY ApplyIs
  <2> HIDE DEF v, t
  <2>2. QED
    BY <2>1 DEF Applied
<1>2. /\ w \in World /\ t \in Sids /\ new.prof = q /\ new.sid = t
      /\ w.binds \in [Sessions -> Profiles \cup {None}] /\ (sid # None => t = sid)
  BY TargetIs DEF Sound, World, Target
<1> HIDE DEF v, t, new
<1>3. /\ \A x \in Range(v.slots) : x.prof \in Profiles
      /\ \A x \in Range(v.slots) : IF x.prof = q THEN x.sid = t ELSE x \in Range(w.slots)
  BY <1>1, <1>2, OnlyOne, SlotsAre
<1>4. CASE l.tool
  BY <1>1, <1>4 DEF Fits, v
<1>5. CASE ~l.tool /\ t = None
  <2>1. v.binds = w.binds
    BY <1>1, <1>5
  <2>2. \A x \in Range(v.slots) :
          /\ x.prof # None
          /\ x.sid = None \/ \E y \in Range(w.slots) : y.prof = x.prof /\ y.sid = x.sid
    BY <1>3, <1>5, RoutingAssumption DEF RoutingAssumption
  <2>3. OneEach(w.binds) /\ SlotsFit(w.binds, w.slots)
    BY <1>5 DEF Fits
  <2>4. SlotsFit(w.binds, v.slots)
    BY <2>2, <2>3, SameBindsFit
  <2>5. QED
    BY <1>1, <1>2, <1>5, <2>1, <2>3, <2>4 DEF Fits, v
<1>6. CASE ~l.tool /\ t # None
  <2>1. v.binds = SaveBind(w.binds, t, q) /\ t \in Sessions
    BY <1>1, <1>2, <1>6 DEF Sids
  <2>2. \A x \in Range(v.slots) :
          /\ x.prof \in Profiles
          /\ IF x.prof = q THEN x.sid = t ELSE \E y \in Range(w.slots) : y.prof = x.prof /\ y.sid = x.sid
    BY <1>3
  <2>3. OneEach(w.binds) /\ SlotsFit(w.binds, w.slots)
    BY <1>6 DEF Fits
  <2>4. SlotsFit(v.binds, v.slots) /\ OneEach(v.binds)
    BY <1>2, <2>1, <2>2, <2>3, SaveBindFits, SaveBindOne
  <2>5. v.binds[t] = q /\ v.binds \in [Sessions -> Profiles \cup {None}]
    BY <1>2, <2>1, SaveBindIs
  <2>6. BoundSid(v.binds, q) = t
    BY <2>1, <2>4, <2>5, BoundOf
  <2>7. QED
    BY <1>1, <1>2, <2>4, <2>6 DEF Fits, v
<1>7. QED
  BY <1>4, <1>5, <1>6

LEMMA ActivateFits ==
  ASSUME NEW p, NEW w, NEW tool, Sound(p, w, tool), NEW q \in Profiles, HasSlot(w, q), NEW c \in Sids,
         OneEach(w.binds), SlotsFit(w.binds, w.slots),
         c = None \/ w.binds[c] = q \/ \A s \in Sessions : w.binds[s] # q
  PROVE  SlotsFit(w.binds, Activate(w, q, c).slots)
<1> DEFINE v == Activate(w, q, c)
<1>1. /\ Sound(p, v, tool)
      /\ \A x \in Range(v.slots) : \E y \in Range(w.slots) :
           x.prof = y.prof /\ x.agent = y.agent /\ x.sid = IF x.prof = q THEN c ELSE y.sid
  BY ActivateSound
<1> HIDE DEF v
<1>2. \A x \in Range(v.slots) : x.prof # None
  BY <1>1, SlotsAre, RoutingAssumption DEF Sound, RoutingAssumption
<1>3. ASSUME NEW x \in Range(v.slots)
      PROVE  \/ x.sid = None
             \/ \E y \in Range(w.slots) : y.prof = x.prof /\ y.sid = x.sid
             \/ x.sid \in Sessions /\ w.binds[x.sid] = x.prof
             \/ \A s \in Sessions : w.binds[s] # x.prof
  <2>1. PICK y \in Range(w.slots) : x.prof = y.prof /\ x.sid = IF x.prof = q THEN c ELSE y.sid
    BY <1>1
  <2>2. QED
    BY <2>1 DEF Sids
<1>4. SlotsFit(w.binds, v.slots)
  BY <1>2, <1>3, SameBindsFit
<1>5. QED
  BY <1>4 DEF v

\* A call acts as nobody, or as a profile that is its own session's.
Owned(v, given) == v.active # None => BoundSid(v.binds, v.active) \in {None, given}

\* A call that names its session, and that session cannot be served.
LEMMA UnservedFits ==
  ASSUME NEW p, NEW w, NEW tool, Sound(p, w, tool), Fits(w, tool), NEW given, NEW c \in Sids
  PROVE  Fits(Unserved(w, given, c), tool) /\ (given # None => Owned(Unserved(w, given, c), given))
<1> DEFINE v == Unserved(w, given, c)
<1>1. v.slots = w.slots /\ v.binds = w.binds /\ (given # None => v.active = None)
  BY UnservedSound
<1> HIDE DEF v
<1>2. QED
  BY <1>1 DEF Fits, Owned, v

\* What is not a matter of the slots and binds.
LEMMA LikeFits ==
  ASSUME NEW w, NEW tool, Fits(w, tool), NEW v, v.slots = w.slots, v.binds = w.binds
  PROVE  Fits(v, tool)
BY DEF Fits

LEMMA RoutedBoundFits ==
  ASSUME NEW p \in Procs, NEW w, NEW l \in Launches, Sound(p, w, l.tool), Fits(w, l.tool),
         NEW given \in Sids, NEW c \in Sessions, given # None => c = given,
         NEW b \in Profiles, w.binds[c] = b, NEW tool
  PROVE  LET v == RoutedBound(w, p, l, given, c, b, tool)
         IN  Fits(v, l.tool) /\ (~l.tool /\ given # None /\ ~Lost(w, b, tool) => Owned(v, given))
<1> DEFINE v == RoutedBound(w, p, l, given, c, b, tool)
           w1 == Activate(w, b, c)
           wc == [w EXCEPT !.rsid = c]
           lt == l.tool
<1>0. /\ lt \in BOOLEAN /\ c \in Sids /\ c # None /\ b # None /\ w \in World /\ OneEach(w.binds)
      /\ w.binds \in [Sessions -> Profiles \cup {None}]
  BY RoutingAssumption DEF RoutingAssumption, Launch, Sids, Sound, Fits, World
<1> HIDE DEF lt
<1>7. Sound(p, w, lt) /\ Fits(w, lt)
  BY DEF lt
<1>8. BoundSid(w.binds, b) = c
  BY <1>0, BoundOf
<1>1. CASE HasSlot(w, b)
  <2>1. v = IF lt THEN w1 ELSE Acquire(w1, p, AgentIn(w1), c)
    BY <1>1 DEF RoutedBound, lt
  <2>2. Sound(p, w1, lt) /\ w1.binds = w.binds /\ w1.active = b
    BY <1>0, <1>7, <1>1, ActivateSound
  <2>3. CASE lt
    BY <1>0, <2>1, <2>2, <2>3 DEF Fits, lt
  <2>4. CASE ~lt
    <3>1. v.slots = w1.slots /\ v.binds = w.binds /\ v.active = b
      BY <1>0, <1>7, <1>1, <2>1, <2>4, TakenSound
    <3>2. SlotsFit(w.binds, w1.slots)
      <4>1. SlotsFit(w.binds, w.slots) /\ OneEach(w.binds) /\ w.binds[c] = b
        BY <1>0, <1>7, <2>4 DEF Fits
      <4>2. QED
        BY <1>0, <1>7, <1>1, <4>1, ActivateFits
    <3> HIDE DEF v, w1
    <3>3. QED
      BY <1>0, <1>8, <3>1, <3>2 DEF Fits, Owned, v, lt
  <2>5. QED
    BY <2>3, <2>4
<1>2. CASE v = Unserved(w, given, c)
  <2>1. Fits(Unserved(w, given, c), lt) /\ (given # None => Owned(Unserved(w, given, c), given))
    BY <1>0, <1>7, UnservedFits
  <2>2. QED
    BY <1>2, <2>1 DEF lt
<1>3. CASE v = wc /\ Lost(w, b, tool)
  <2>1. wc.slots = w.slots /\ wc.binds = w.binds
    BY <1>0 DEF World
  <2> HIDE DEF wc
  <2>2. Fits(wc, lt)
    BY <1>7, <2>1, LikeFits
  <2>3. QED
    BY <1>3, <2>2 DEF lt
<1>4. CASE v = Apply(wc, p, l, b, c) /\ w.file[b] \in Agents
  <2>1. wc.slots = w.slots /\ wc.binds = w.binds /\ wc.file = w.file
    BY <1>0 DEF World
  <2>2. Sound(p, wc, lt)
    BY <1>0, <1>7, RsidSound
  <2> HIDE DEF wc
  <2>3. Fits(wc, lt)
    BY <1>7, <2>1, LikeFits
  <2>4. Sound(p, wc, l.tool) /\ Fits(wc, l.tool) /\ wc.file[b] \in Agents /\ c \in Sids /\ c # None
    BY <1>0, <1>4, <2>1, <2>2, <2>3 DEF lt
  <2> DEFINE x == Apply(wc, p, l, b, c)
  <2>5. Fits(x, l.tool) /\ x.active = b /\ (~l.tool /\ c # None => BoundSid(x.binds, b) = c)
    BY <2>4, ApplyFits
  <2>6. v = x
    BY <1>4
  <2> HIDE DEF x, v
  <2>7. QED
    BY <1>0, <2>5, <2>6 DEF Owned, v
<1>5. v = Unserved(w, given, c) \/ (v = wc /\ Lost(w, b, tool)) \/ HasSlot(w, b)
      \/ (v = Apply(wc, p, l, b, c) /\ w.file[b] \in Agents)
  <2>1. ~Lost(w, b, tool) /\ ~HasSlot(w, b) /\ tool # "connect" /\ w.file[b] # "missing" => w.file[b] \in Agents
    BY <1>0, RoutingAssumption DEF Lost, Control, World, Bad, RoutingAssumption
  <2>2. QED
    BY <2>1 DEF RoutedBound
<1>6. QED
  BY <1>1, <1>2, <1>3, <1>4, <1>5

\* A caller without a bind is served by a slot whose profile is bound to nobody.
LEMMA FreeProfile ==
  ASSUME NEW w \in World, SlotsFit(w.binds, w.slots), NEW s \in Range(w.slots), NEW c \in Sessions,
         w.binds[c] = None, SidOf(w, s) \in {None, c}
  PROVE  BoundSid(w.binds, s.prof) = None /\ \A t \in Sessions : w.binds[t] # s.prof
<1>0. w.binds \in [Sessions -> Profiles \cup {None}] /\ s.prof \in Profiles /\ s.prof # None /\ c # None
  BY SlotsAre, RoutingAssumption DEF World, RoutingAssumption
<1>1. ASSUME NEW t \in Sessions, w.binds[t] = s.prof PROVE FALSE
  <2>1. CASE s.sid # None
    <3>1. t = s.sid /\ s.sid = c
      BY <1>1, <2>1 DEF SlotsFit, SidOf
    <3>2. QED
      BY <1>0, <1>1, <3>1
  <2>2. CASE s.sid = None
    <3>1. BoundSid(w.binds, s.prof) = c
      BY <1>0, <1>1, <2>2, BoundSidIs DEF SidOf
    <3>2. w.binds[c] = s.prof
      BY <1>0, <3>1, BoundSidIs
    <3>3. QED
      BY <1>0, <3>2
  <2>3. QED
    BY <2>1, <2>2
<1>2. BoundSid(w.binds, s.prof) = None
  <2>1. \/ BoundSid(w.binds, s.prof) = None
        \/ BoundSid(w.binds, s.prof) \in Sessions /\ w.binds[BoundSid(w.binds, s.prof)] = s.prof
    BY <1>0, BoundSidIs DEF Sids
  <2>2. QED
    BY <1>1, <2>1
<1>3. QED
  BY <1>1, <1>2

LEMMA RoutedUnboundFits ==
  ASSUME NEW p \in Procs, NEW w, NEW l \in Launches, Sound(p, w, l.tool), Fits(w, l.tool),
         NEW given \in Sids, NEW c \in Sessions, given # None => c = given, w.binds[c] = None, NEW tool
  PROVE  LET v == RoutedUnbound(w, p, l, given, c, tool)
         IN  Fits(v, l.tool) /\ (~l.tool /\ given # None => Owned(v, given))
<1> DEFINE v == RoutedUnbound(w, p, l, given, c, tool)
           lt == l.tool
<1>0. /\ lt \in BOOLEAN /\ c \in Sids /\ c # None /\ w \in World /\ OneEach(w.binds)
      /\ w.binds \in [Sessions -> Profiles \cup {None}]
  BY RoutingAssumption DEF RoutingAssumption, Launch, Sids, Sound, Fits, World
<1> HIDE DEF lt
<1>7. Sound(p, w, lt) /\ Fits(w, lt)
  BY DEF lt
<1>1. CASE v = Unserved(w, given, c)
  <2>1. Fits(Unserved(w, given, c), lt) /\ (given # None => Owned(Unserved(w, given, c), given))
    BY <1>0, <1>7, UnservedFits
  <2>2. QED
    BY <1>1, <2>1 DEF lt
<1>2. CASE v # Unserved(w, given, c)
  <2>1. PICK s \in Range(w.slots) : SidOf(w, s) \in {None, c} /\ v = Serving(w, p, l, c, tool, s.prof)
    BY <1>2, RoutedUnboundIs
  <2> DEFINE q == s.prof
             w1 == Activate(w, q, c)
  <2>2. q \in Profiles /\ HasSlot(w, q) /\ q # None
    BY <1>0, SlotsAre, RoutingAssumption DEF HasSlot, SlotOf, RoutingAssumption
  <2>3. ~lt => SlotsFit(w.binds, w.slots)
    BY <1>7 DEF Fits
  <2>4. ~lt => BoundSid(w.binds, q) = None /\ \A t \in Sessions : w.binds[t] # q
    BY <1>0, <2>1, <2>3, FreeProfile
  <2> HIDE DEF q
  <2>5. Sound(p, w1, lt) /\ w1.binds = w.binds /\ w1.active = q
    BY <1>0, <1>7, <2>2, ActivateSound
  <2>6. \A x \in Range(w1.slots) : \E y \in Range(w.slots) :
           x.prof = y.prof /\ x.agent = y.agent /\ x.sid = IF x.prof = q THEN c ELSE y.sid
    BY <1>0, <1>7, <2>2, ActivateSound
  <2>7. CASE lt
    <3>1. v = w1
      BY <2>1, <2>7 DEF Serving, lt, q
    <3>2. QED
      BY <1>0, <2>5, <2>7, <3>1 DEF Fits, lt
  <2>8. CASE ~lt /\ tool \in Control
    <3>1. v = w1
      BY <2>1, <2>8 DEF Serving, lt, q
    <3>2. SlotsFit(w.binds, w1.slots)
      BY <1>0, <1>7, <2>2, <2>3, <2>4, <2>8, ActivateFits
    <3> HIDE DEF v, w1
    <3>3. QED
      BY <1>0, <2>4, <2>5, <2>8, <3>1, <3>2 DEF Fits, Owned, v, lt
  <2>9. CASE ~lt /\ tool \notin Control
    <3>1. v = Claimed(w, p, c, q)
      BY <1>7, <2>1, <2>9 DEF Serving, lt, q
    <3>2. v.slots = w1.slots /\ v.active = q /\ v.binds = SaveBind(w.binds, c, q)
      BY <1>7, <2>2, <2>4, <2>9, <3>1, ClaimedSound
    <3> HIDE DEF v
    <3>3. \A x \in Range(w1.slots) : x.prof \in Profiles
      BY <2>5, SlotsAre DEF Sound
    <3> HIDE DEF w1
    <3>4. \A x \in Range(v.slots) :
            /\ x.prof \in Profiles
            /\ IF x.prof = q THEN x.sid = c ELSE \E y \in Range(w.slots) : y.prof = x.prof /\ y.sid = x.sid
      <4> SUFFICES ASSUME NEW x \in Range(w1.slots)
                   PROVE  IF x.prof = q THEN x.sid = c ELSE \E y \in Range(w.slots) : y.prof = x.prof /\ y.sid = x.sid
        BY <3>2, <3>3
      <4>1. PICK y \in Range(w.slots) : x.prof = y.prof /\ x.sid = IF x.prof = q THEN c ELSE y.sid
        BY <2>6
      <4>2. QED
        BY <4>1
    <3>5. SlotsFit(w.binds, w.slots)
      BY <2>3, <2>9
    <3>6. SlotsFit(v.binds, v.slots) /\ OneEach(v.binds)
      BY <1>0, <2>2, <3>2, <3>4, <3>5, SaveBindFits, SaveBindOne
    <3>7. v.binds[c] = q /\ v.binds \in [Sessions -> Profiles \cup {None}]
      BY <1>0, <2>2, <3>2, SaveBindIs
    <3>8. BoundSid(v.binds, q) = c
      BY <2>2, <3>6, <3>7, BoundOf
    <3>9. QED
      BY <1>0, <3>2, <3>6, <3>8 DEF Fits, Owned, v
  <2>10. QED
    BY <2>7, <2>8, <2>9
<1>3. QED
  BY <1>1, <1>2

\* What a call finds still fits, and it acts as nobody or for its own session.
LEMMA RoutedFits ==
  ASSUME NEW p \in Procs, NEW w, NEW l \in Launches, Sound(p, w, l.tool), Fits(w, l.tool), NEW given \in Sids, NEW tool
  PROVE  LET v == Routed(w, p, l, given, tool)
         IN  /\ Fits(v, l.tool)
             /\ ~l.tool /\ given # None /\ ~Lost(w, w.binds[given], tool) => Owned(v, given)
<1> DEFINE v == Routed(w, p, l, given, tool)
           c == Caller(w, l, given)
<1>1. w \in World /\ c \in Sids /\ (given # None => c = given)
  BY CallerIs DEF Sound
<1> HIDE DEF c
<1>2. CASE c = None
  BY <1>1, <1>2 DEF Routed, c
<1>3. CASE c # None /\ w.binds[c] # None
  <2> DEFINE b == w.binds[c]
             x == RoutedBound(w, p, l, given, c, b, tool)
  <2>1. v = x
    BY <1>3 DEF Routed, c
  <2>2. b \in Profiles /\ c \in Sessions
    BY <1>1, <1>3 DEF World, Sids
  <2>3. b = w.binds[c]
    OBVIOUS
  <2> HIDE DEF b
  <2>4. Fits(x, l.tool)
    BY <1>1, <2>2, <2>3, RoutedBoundFits
  <2>5. ~l.tool /\ given # None /\ ~Lost(w, b, tool) => Owned(x, given)
    BY <1>1, <2>2, <2>3, RoutedBoundFits
  <2> HIDE DEF x, v
  <2>6. QED
    BY <1>1, <2>1, <2>3, <2>4, <2>5 DEF v
<1>4. CASE c # None /\ w.binds[c] = None
  <2> DEFINE x == RoutedUnbound(w, p, l, given, c, tool)
  <2>1. v = x
    BY <1>4 DEF Routed, c
  <2>2. c \in Sessions
    BY <1>1, <1>4 DEF Sids
  <2>3. Fits(x, l.tool)
    BY <1>1, <1>4, <2>2, RoutedUnboundFits
  <2>4. ~l.tool /\ given # None => Owned(x, given)
    BY <1>1, <1>4, <2>2, RoutedUnboundFits
  <2> HIDE DEF x, v
  <2>5. QED
    BY <2>1, <2>3, <2>4 DEF v
<1>5. QED
  BY <1>2, <1>3, <1>4

LEMMA DisconnectFits ==
  ASSUME NEW p \in Procs, NEW w, NEW l \in Launches, Sound(p, w, l.tool), Fits(w, l.tool), NEW keep \in BOOLEAN
  PROVE  Fits(Disconnect(w, p, l, keep), l.tool)
<1> DEFINE v == Disconnect(w, p, l, keep)
<1>1. Range(v.slots) \subseteq Range(w.slots) /\ \A s \in Sessions : v.binds[s] \in {None, w.binds[s]}
  BY DisconnectSound
<1> HIDE DEF v
<1>2. \A x \in Range(v.slots) : x.prof # None
  BY <1>1, SlotsAre, RoutingAssumption DEF Sound, RoutingAssumption
<1>3. OneEach(v.binds)
  BY <1>1 DEF Fits, OneEach
<1>4. SlotsFit(w.binds, w.slots) => SlotsFit(v.binds, v.slots)
  BY <1>1, <1>2 DEF SlotsFit
<1>5. QED
  BY <1>3, <1>4 DEF Fits, v

LEMMA OpenedFits ==
  ASSUME NEW p \in Procs, NEW w, NEW tool, Sound(p, w, tool), ~tool, Fits(w, tool), NEW s \in Sessions,
         w.binds[s] # None, ~HasSlot(w, w.binds[s]), w.file[w.binds[s]] \in Agents
  PROVE  Fits(Opened(w, p, s), tool)
<1> DEFINE v == Opened(w, p, s)
<1>1. /\ v.binds = w.binds /\ Sound(p, v, tool)
      /\ \A t \in Range(v.slots) : t \in Range(w.slots) \/ (t.prof = w.binds[s] /\ t.sid = s)
  BY OpenedSound
<1> HIDE DEF v
<1>2. \A x \in Range(v.slots) : x.prof # None
  BY <1>1, SlotsAre, RoutingAssumption DEF Sound, RoutingAssumption
<1>3. OneEach(w.binds) /\ SlotsFit(w.binds, w.slots)
  BY DEF Fits
<1>4. SlotsFit(w.binds, v.slots)
  BY <1>1, <1>2, <1>3, SameBindsFit
<1>5. QED
  BY <1>1, <1>3, <1>4 DEF Fits, v

LEMMA TakingFits ==
  ASSUME NEW p \in Procs, NEW w, NEW l \in Launches, Sound(p, w, l.tool), w.active # None, NEW s \in Sids,
         OneEach(w.binds), \A x \in Range(w.slots) : x.prof = w.active
  PROVE  Fits(Taking(p, w, l, s), l.tool)
<1> DEFINE q == w.active
           w1 == Activate(w, q, s)
           v == Taking(p, w, l, s)
           lt == l.tool
<1>0. lt \in BOOLEAN /\ w \in World /\ w.binds \in [Sessions -> Profiles \cup {None}] /\ q \in Profiles /\ HasSlot(w, q)
  BY RoutingAssumption DEF RoutingAssumption, Launch, Sound, World
<1>1. v.slots = w1.slots /\ Sound(p, v, l.tool)
  BY TakingSound
<1>2. v.binds = IF l.tool \/ s = None THEN w.binds ELSE SaveBind(w.binds, s, w.active)
  BY TakingSound
<1> HIDE DEF lt
<1>3. Sound(p, w, lt) /\ Sound(p, v, lt)
  BY <1>1 DEF lt
<1> HIDE DEF q
<1>4. \A x \in Range(w1.slots) : \E y \in Range(w.slots) :
        x.prof = y.prof /\ x.agent = y.agent /\ x.sid = IF x.prof = q THEN s ELSE y.sid
  BY <1>0, <1>3, ActivateSound
<1>5. \A x \in Range(w1.slots) : x.prof = q /\ x.sid = s
  BY <1>4 DEF q
<1> HIDE DEF w1, v
<1>6. CASE lt
  BY <1>2, <1>6 DEF Fits, lt, v
<1>7. CASE ~lt /\ s = None
  <2>1. SlotsFit(v.binds, v.slots) /\ v.binds = w.binds
    BY <1>1, <1>2, <1>5, <1>7 DEF SlotsFit, lt
  <2>2. QED
    BY <1>7, <2>1 DEF Fits, lt, v
<1>8. CASE ~lt /\ s # None
  <2>1. v.binds = SaveBind(w.binds, s, q) /\ s \in Sessions
    BY <1>2, <1>8 DEF lt, q, Sids
  <2>2. OneEach(v.binds)
    BY <1>0, <2>1, SaveBindOne
  <2>3. \A t \in Sessions : v.binds[t] = IF t = s THEN q ELSE IF w.binds[t] = q THEN None ELSE w.binds[t]
    BY <1>0, <2>1, SaveBindIs
  <2>4. q # None
    BY <1>0, RoutingAssumption DEF RoutingAssumption
  <2>5. SlotsFit(v.binds, v.slots)
    BY <1>1, <1>5, <2>3, <2>4 DEF SlotsFit
  <2>6. QED
    BY <2>2, <2>5 DEF Fits, lt, v
<1>9. QED
  BY <1>0, <1>6, <1>7, <1>8

LEMMA HealedFits ==
  ASSUME Typed, SoundProcs, NEW p \in Procs, NEW w, Sound(p, w, launch[p].tool), ~HealFails(p, w), Fits(w, launch[p].tool)
  PROVE  Fits(Healed(p, w), launch[p].tool) /\ (src[p] # "grok" => Healed(p, w) = w)
<1>0. launch[p] \in Launches /\ None \in Sids
  BY DEF Typed, Sids
<1>1. CASE ~Drifted(p, w)
  BY <1>1 DEF Healed
<1>2. CASE Drifted(p, w)
  <2> DEFINE q == launch[p].grok
             x == Apply(w, p, launch[p], q, None)
  <2>1. q \in Profiles
    BY <1>0, <1>2, RoutingAssumption DEF Drifted, SoundProcs, Launch, RoutingAssumption
  <2>2. w.file[q] \in Agents
    BY <1>2, <2>1 DEF Drifted, HealFails, Sound, World, Bad
  <2>3. Healed(p, w) = x /\ src[p] = "grok"
    BY <1>2 DEF Healed, Drifted
  <2> HIDE DEF q
  <2>4. Fits(x, launch[p].tool)
    BY <1>0, <2>1, <2>2, ApplyFits
  <2> HIDE DEF x
  <2>5. QED
    BY <2>3, <2>4
<1>3. QED
  BY <1>1, <1>2

LEMMA EnteredFits ==
  ASSUME Typed, SoundProcs, NEW p \in Procs, NEW given \in Sids, NEW tool, Fits(Here(p), launch[p].tool),
         ~HealFails(p, Routed(Here(p), p, launch[p], given, tool))
  PROVE  LET w == Entered(p, given, tool)
         IN  /\ Fits(w, launch[p].tool)
             /\ src[p] # "grok" /\ ~launch[p].tool /\ given # None /\ ~Lost(Here(p), binds[given], tool) => Owned(w, given)
<1> DEFINE w == Routed(Here(p), p, launch[p], given, tool)
           h == Here(p)
<1>1. launch[p] \in Launches /\ Sound(p, h, launch[p].tool) /\ h.binds = binds
  BY HereIs DEF SoundProcs
<1>2. Sound(p, w, launch[p].tool)
  BY <1>1, RoutedSound
<1>3. Entered(p, given, tool) = Healed(p, w) /\ Fits(h, launch[p].tool)
  BY DEF Entered
<1>4. ~HealFails(p, w)
  OBVIOUS
<1>5. Fits(w, launch[p].tool)
  <2> HIDE DEF h
  <2>1. Fits(Routed(h, p, launch[p], given, tool), launch[p].tool)
    BY <1>1, <1>3, RoutedFits
  <2>2. QED
    BY <2>1 DEF h
<1>6. ~launch[p].tool /\ given # None /\ ~Lost(h, h.binds[given], tool) => Owned(w, given)
  <2> HIDE DEF h
  <2>1. ~launch[p].tool /\ given # None /\ ~Lost(h, h.binds[given], tool) => Owned(Routed(h, p, launch[p], given, tool), given)
    BY <1>1, <1>3, RoutedFits
  <2>2. QED
    BY <2>1 DEF h
<1> HIDE DEF w
<1>7. Fits(Healed(p, w), launch[p].tool) /\ (src[p] # "grok" => Healed(p, w) = w)
  BY <1>2, <1>4, <1>5, HealedFits
<1>8. QED
  BY <1>1, <1>3, <1>6, <1>7

\* A process that has taken its identity fits the binds; one that has only settled it
\* has the slot of its profile.
FitInv ==
  /\ OneEach(binds)
  /\ \A p \in Procs :
       /\ up[p] \in {"taken", "up"} => Fits(Here(p), launch[p].tool)
       /\ up[p] = "checked" => \A x \in Range(slots[p]) : x.prof = active[p]
\* What CallActsForItsSession says of one call of p.
ActsFor(p, c) ==
  src[p] # "grok" /\ ~launch[p].tool /\ c.sid # None /\ ~c.lost /\ c.as # None => c.owner \in {None, c.sid}
Invs == RoutingInv /\ CallsKeep /\ FitInv /\ CallActsForItsSession

LEMMA FitLeave ==
  ASSUME RoutingInv, NEW p \in Procs, \A r \in Procs : r = p,
         NEW w, Leave(p, w), Sound(p, w, launch[p].tool), Spares(p, Here(p), w), Fits(w, launch[p].tool),
         launch' = launch, src' = src, up'[p] \in {"taken", "up"}, \A c \in calls'[p] : ActsFor(p, c)
  PROVE  FitInv' /\ CallActsForItsSession'
<1>0. Typed /\ SoundProcs
  BY DEF RoutingInv
<1>1. Here(p)' = w
  BY <1>0, LeaveKeeps
<1>2. binds' = w.binds
  BY DEF Leave
<1>3. FitInv'
  BY <1>1, <1>2 DEF FitInv, Fits
<1>4. CallActsForItsSession'
  BY DEF CallActsForItsSession, ActsFor
<1>5. QED
  BY <1>3, <1>4

\* A segment after which no other call runs than before.
LEMMA FitRun ==
  ASSUME Invs, NEW p \in Procs, \A r \in Procs : r = p, up[p] = "up",
         NEW w, Leave(p, w), Sound(p, w, launch[p].tool), Spares(p, Here(p), w), Fits(w, launch[p].tool),
         UNCHANGED start, NEW C \in SUBSET calls[p], calls' = calls \/ calls' = [calls EXCEPT ![p] = C]
  PROVE  FitInv' /\ CallActsForItsSession'
<1>1. launch' = launch /\ src' = src /\ up'[p] \in {"taken", "up"}
  BY DEF start
<1>2. \A c \in calls'[p] : ActsFor(p, c)
  BY DEF Invs, CallActsForItsSession, ActsFor, RoutingInv, Typed
<1>3. RoutingInv
  BY DEF Invs
<1>4. QED
  BY <1>1, <1>2, <1>3, FitLeave

LEMMA OpenFits ==
  ASSUME RoutingInv, NEW p \in Procs, NEW s \in Sessions, MayOpen(p, s), Fits(Here(p), launch[p].tool)
  PROVE  Fits(Opened(Here(p), p, s), launch[p].tool)
<1> DEFINE h == Here(p)
           tool == launch[p].tool
<1>1. /\ h \in World /\ Sound(p, h, tool) /\ h.binds = binds /\ h.file = file /\ Fits(h, tool)
  BY HereIs DEF RoutingInv, SoundProcs
<1>2. ~tool /\ binds[s] # None /\ ~HasSlot(h, binds[s]) /\ Readable(h, binds[s])
  BY DEF MayOpen
<1> HIDE DEF h, tool
<1>3. h.file[h.binds[s]] \in Agents /\ h.binds[s] # None /\ ~HasSlot(h, h.binds[s])
  BY <1>1, <1>2 DEF Readable, World
<1>4. Fits(Opened(h, p, s), tool)
  BY <1>1, <1>2, <1>3, OpenedFits
<1>5. QED
  BY <1>4 DEF h, tool

LEMMA FitBoot ==
  ASSUME Invs, NEW p \in Procs, \A r \in Procs : r = p, Boot(p)
  PROVE  FitInv' /\ CallActsForItsSession'
<1>0. /\ RoutingInv /\ Typed /\ SoundProcs /\ CallsApart /\ OneEach(binds)
      /\ Sound(p, Here(p), launch[p].tool) /\ launch[p] \in Launches
      /\ Here(p).binds = binds /\ Here(p).active = active[p] /\ Here(p).slots = slots[p] /\ Here(p).rsid = rsid[p]
  BY HereIs DEF Invs, RoutingInv, FitInv, SoundProcs
<1>1. ASSUME NEW l \in Launches, NEW s \in Sids, BootCheck(p, l, s) PROVE FitInv' /\ CallActsForItsSession'
  <2> DEFINE q == Resolved(l, s)[1]
  <2>1. /\ up[p] = "down" /\ up' = [up EXCEPT ![p] = "checked"] /\ UNCHANGED <<binds, calls>>
        /\ \/ LoadOrHide(p, l, q, s) \/ LoadNew(p, q, s) \/ UNCHANGED <<file, slots, active>>
    BY <1>1 DEF BootCheck, Migrate
  <2> HIDE DEF q
  <2>2. slots[p] = <<>> /\ calls[p] = {} /\ up'[p] = "checked"
    BY <1>0, <2>1 DEF SoundProcs, CallsApart, Typed
  <2>3. \A x \in Range(slots'[p]) : x.prof = active'[p]
    <3>1. CASE LoadNew(p, q, s)
      <4>1. PICK f : /\ slots' = [slots EXCEPT ![p] = <<[prof |-> q, agent |-> f[q], sid |-> s]>>]
                     /\ active' = [active EXCEPT ![p] = q]
        BY <3>1 DEF LoadNew
      <4>2. slots'[p] = <<[prof |-> q, agent |-> f[q], sid |-> s]>> /\ active'[p] = q
        BY <1>0, <4>1 DEF Typed
      <4>3. QED
        BY <4>2 DEF Range
    <3>2. CASE LoadOrHide(p, l, q, s)
      <4>1. PICK hidden \in BOOLEAN :
              /\ slots' = [slots EXCEPT ![p] =
                             IF hidden THEN <<>> ELSE <<[prof |-> q, agent |-> file[q], sid |-> s]>>]
              /\ active' = [active EXCEPT ![p] = IF hidden THEN None ELSE q]
        BY <3>2 DEF LoadOrHide
      <4>2. CASE hidden
        <5>1. slots'[p] = <<>>
          BY <1>0, <4>1, <4>2 DEF Typed
        <5>2. QED
          BY <5>1 DEF Range
      <4>3. CASE ~hidden
        <5>1. slots'[p] = <<[prof |-> q, agent |-> file[q], sid |-> s]>> /\ active'[p] = q
          BY <1>0, <4>1, <4>3 DEF Typed
        <5>2. QED
          BY <5>1 DEF Range
      <4>4. QED
        BY <4>2, <4>3
    <3>3. CASE UNCHANGED <<file, slots, active>>
      BY <2>2, <3>3 DEF Range
    <3>4. QED
      BY <2>1, <3>1, <3>2, <3>3
  <2>4. FitInv'
    BY <1>0, <2>1, <2>2, <2>3 DEF FitInv
  <2>5. CallActsForItsSession'
    BY <2>1, <2>2 DEF CallActsForItsSession
  <2>6. QED
    BY <2>4, <2>5
<1>2. CASE BootTake(p)
  <2> DEFINE w == Here(p)
             a == AgentIn(w)
             l == launch[p]
             old == BoundSid(binds, w.active)
             s == IF l.host /\ l.pin = None /\ w.rsid # None /\ old # None THEN old ELSE w.rsid
             g == Gates(p, a)
             tk == Taking(p, w, l, s)
             v == [tk EXCEPT !.trust = IF g THEN @ ELSE a]
  <2>1. /\ up[p] = "checked" /\ up' = [up EXCEPT ![p] = "taken"] /\ launch' = launch /\ src' = src /\ calls' = calls
        /\ IF a = None THEN UNCHANGED <<shared, self>> ELSE Leave(p, v)
    BY <1>2 DEF BootTake, Taking
  <2>2. s \in Sids /\ g \in BOOLEAN /\ (a = None <=> w.active = None) /\ a \in Agents \cup {None}
    BY <1>0, BoundSidIs, ActiveAgent DEF Sound, World, Gates, Sids
  <2>3. calls'[p] = {} /\ up'[p] = "taken"
    BY <1>0, <2>1 DEF CallsApart, Typed
  <2>4. \A x \in Range(w.slots) : x.prof = w.active
    BY <1>0, <2>1 DEF Invs, FitInv
  <2>5. w.binds = binds /\ Sound(p, w, l.tool) /\ l \in Launches
    BY <1>0
  <2>6. \A c \in calls'[p] : ActsFor(p, c)
    BY <2>3
  <2> HIDE DEF w, a, l, s, g
  <2>7. CASE a = None
    <3>1. Leave(p, Here(p)) /\ Spares(p, Here(p), Here(p)) /\ Sound(p, Here(p), launch[p].tool)
      BY <1>0, <2>1, <2>7, StayIs
    <3>2. Range(w.slots) = {}
      BY <2>2, <2>4, <2>5, <2>7, SlotsAre, RoutingAssumption DEF Sound, RoutingAssumption
    <3>3. Fits(w, l.tool)
      BY <1>0, <2>5, <3>2 DEF Fits, SlotsFit
    <3>4. Fits(Here(p), launch[p].tool)
      BY <3>3 DEF w, l
    <3>5. QED
      BY <1>0, <2>1, <2>3, <2>6, <3>1, <3>4, FitLeave
  <2>8. CASE a # None
    <3>1. Sound(p, tk, l.tool) /\ Spares(p, w, tk)
      BY <2>2, <2>5, <2>8, TakingSound
    <3>2. Fits(tk, l.tool)
      BY <1>0, <2>2, <2>4, <2>5, <2>8, TakingFits
    <3> HIDE DEF tk
    <3> DEFINE tr == IF g THEN tk.trust ELSE a
    <3>3. tr \in Agents \cup {None} /\ v = [tk EXCEPT !.trust = tr]
      BY <2>2, <3>1 DEF Sound, World
    <3> HIDE DEF v, tr
    <3>4. Sound(p, v, l.tool) /\ Spares(p, tk, v) /\ v.slots = tk.slots /\ v.binds = tk.binds
      <4>. PICK t : t = l.tool
        OBVIOUS
      <4>1. Sound(p, tk, t)
        BY <3>1
      <4>2. Sound(p, v, t) /\ Spares(p, tk, v) /\ v.slots = tk.slots /\ v.binds = tk.binds
        BY <3>3, <4>1, TrustSound
      <4>3. QED
        BY <4>2
    <3>5. Spares(p, w, v)
      BY <3>1, <3>4, SparesTwice
    <3>6. Fits(v, l.tool)
      BY <3>2, <3>4, LikeFits
    <3>7. Leave(p, v) /\ Sound(p, v, launch[p].tool) /\ Spares(p, Here(p), v) /\ Fits(v, launch[p].tool)
      BY <2>1, <2>8, <3>4, <3>5, <3>6 DEF l, w
    <3>8. QED
      BY <1>0, <2>1, <2>3, <2>6, <3>7, FitLeave
  <2>9. QED
    BY <2>7, <2>8
<1>3. CASE Main(p)
  <2>1. /\ up[p] = "taken" /\ up' = [up EXCEPT ![p] = "up"] /\ launch' = launch /\ src' = src /\ calls' = calls
        /\ \/ \E s \in Sessions : MayOpen(p, s) /\ Leave(p, Opened(Here(p), p, s))
           \/ UNCHANGED <<shared, self>>
    BY <1>3 DEF Main
  <2>2. up'[p] = "up" /\ calls'[p] = {} /\ Fits(Here(p), launch[p].tool)
    BY <1>0, <2>1 DEF Invs, FitInv, Typed, CallsApart
  <2>3. \A c \in calls'[p] : ActsFor(p, c)
    BY <2>2
  <2>4. CASE UNCHANGED <<shared, self>>
    <3>1. Leave(p, Here(p)) /\ Spares(p, Here(p), Here(p))
      BY <1>0, <2>4, StayIs
    <3>2. QED
      BY <1>0, <2>1, <2>2, <2>3, <3>1, FitLeave
  <2>5. ASSUME NEW s \in Sessions, MayOpen(p, s), Leave(p, Opened(Here(p), p, s)) PROVE FitInv' /\ CallActsForItsSession'
    <3> DEFINE w == Opened(Here(p), p, s)
    <3>1. Sound(p, w, launch[p].tool) /\ Spares(p, Here(p), w) /\ Leave(p, w)
      BY <1>0, <2>5, OpenStep
    <3>2. Fits(w, launch[p].tool)
      BY <1>0, <2>2, <2>5, OpenFits
    <3> HIDE DEF w
    <3>3. QED
      BY <1>0, <2>1, <2>2, <2>3, <3>1, <3>2, FitLeave
  <2>6. QED
    BY <2>1, <2>4, <2>5
<1>4. QED
  BY <1>1, <1>2, <1>3 DEF Boot, Sids

LEMMA StartsFit ==
  ASSUME Invs, NEW p \in Procs, NEW given \in Sids, NEW tool, Starts(p, given, tool)
  PROVE  LET w == Entered(p, given, tool)
         IN  /\ up[p] = "up" /\ launch[p] \in Launches
             /\ Sound(p, w, launch[p].tool) /\ Spares(p, Here(p), w) /\ Fits(w, launch[p].tool)
             /\ src[p] # "grok" /\ ~launch[p].tool /\ given # None /\ ~Lost(Here(p), binds[given], tool) => Owned(w, given)
<1> DEFINE w == Entered(p, given, tool)
<1>1. /\ up[p] = "up" /\ launch[p] \in Launches /\ Sound(p, w, launch[p].tool) /\ Spares(p, Here(p), w)
  BY StartsIs DEF Invs
<1>2. Typed /\ SoundProcs /\ Fits(Here(p), launch[p].tool)
  BY <1>1 DEF Invs, RoutingInv, FitInv
<1>3. ~HealFails(p, Routed(Here(p), p, launch[p], given, tool))
  BY DEF Starts
<1>4. Fits(w, launch[p].tool)
  BY <1>2, <1>3, EnteredFits
<1>5. src[p] # "grok" /\ ~launch[p].tool /\ given # None /\ ~Lost(Here(p), binds[given], tool) => Owned(w, given)
  BY <1>2, <1>3, EnteredFits
<1> HIDE DEF w
<1>6. QED
  BY <1>1, <1>4, <1>5 DEF w

LEMMA MadeFits ==
  ASSUME Invs, NEW p \in Procs, \A r \in Procs : r = p,
         NEW given \in Sids, NEW tool, Starts(p, given, tool), NEW t, NEW q,
         Lost(Here(p), binds[given], tool) => Lost(Here(p), binds[given], t),
         Leave(p, Entered(p, given, tool)),
         calls' = [calls EXCEPT ![p] = @ \cup {Running(p, Entered(p, given, tool), t, given, q)}],
         UNCHANGED start
  PROVE  FitInv' /\ CallActsForItsSession'
<1> DEFINE w == Entered(p, given, tool)
           k == Caller(Here(p), launch[p], given)
           owner == IF w.active = None THEN None ELSE BoundSid(w.binds, w.active)
           lost == k # None /\ Lost(Here(p), binds[k], t)
           c == Running(p, w, t, given, q)
<1>1. /\ up[p] = "up" /\ launch[p] \in Launches
      /\ Sound(p, w, launch[p].tool) /\ Spares(p, Here(p), w) /\ Fits(w, launch[p].tool)
  BY StartsFit
<1>2. src[p] # "grok" /\ ~launch[p].tool /\ given # None /\ ~Lost(Here(p), binds[given], tool) => Owned(w, given)
  BY StartsFit
<1>3. c.sid = given /\ c.owner = owner /\ c.lost = lost
  BY DEF Running
<1>4. given # None => k = given
  BY DEF Caller
<1>5. ActsFor(p, c)
  <2> HIDE DEF w, c, k
  <2> SUFFICES ASSUME src[p] # "grok", ~launch[p].tool, given # None, ~lost PROVE owner \in {None, given}
    BY <1>3 DEF ActsFor
  <2>1. Owned(w, given)
    BY <1>2, <1>4
  <2>2. QED
    BY <2>1 DEF Owned
<1>6. Leave(p, w)
  OBVIOUS
<1>7. calls' = [calls EXCEPT ![p] = @ \cup {c}]
  OBVIOUS
<1> HIDE DEF w, c
<1>8. \A x \in calls'[p] : ActsFor(p, x)
  BY <1>5, <1>7 DEF Invs, CallActsForItsSession, ActsFor, RoutingInv, Typed
<1>9. launch' = launch /\ src' = src /\ up'[p] \in {"taken", "up"} /\ RoutingInv
  BY <1>1 DEF start, Invs
<1>10. QED
  BY <1>1, <1>6, <1>8, <1>9, FitLeave

LEMMA FitCall ==
  ASSUME Invs, NEW p \in Procs, \A r \in Procs : r = p, NEW given \in Sids, CallStep(p, given)
  PROVE  FitInv' /\ CallActsForItsSession'
<1>0. /\ RoutingInv /\ Typed /\ SoundProcs /\ launch[p] \in Launches /\ Sound(p, Here(p), launch[p].tool)
      /\ calls[p] \in SUBSET calls[p]
  BY HereIs DEF Invs, RoutingInv, SoundProcs
<1>1. ASSUME NEW t \in {"read", "write", "whoami"}, Start(p, t, given) PROVE FitInv' /\ CallActsForItsSession'
  <2>1. /\ Starts(p, given, t) /\ UNCHANGED start /\ Leave(p, Entered(p, given, t))
        /\ calls' = [calls EXCEPT ![p] = @ \cup {Running(p, Entered(p, given, t), t, given, None)}]
    BY <1>1 DEF Start
  <2>2. QED
    BY <2>1, MadeFits
<1>2. ASSUME NEW q \in Profiles, ConnectNew(p, given, q) PROVE FitInv' /\ CallActsForItsSession'
  <2>1. /\ Starts(p, given, "connect") /\ UNCHANGED start /\ Leave(p, Entered(p, given, "connect"))
        /\ calls' = [calls EXCEPT ![p] = @ \cup {Running(p, Entered(p, given, "connect"), "register", given, q)}]
    BY <1>2 DEF ConnectNew
  <2>2. ~Lost(Here(p), binds[given], "connect")
    BY DEF Lost, Control
  <2>3. QED
    BY <2>1, <2>2, MadeFits
<1>3. ASSUME NEW tool, Refuse(p, tool, given) PROVE FitInv' /\ CallActsForItsSession'
  <2> DEFINE w == Routed(Here(p), p, launch[p], given, tool)
             h == Here(p)
  <2>1. /\ up[p] = "up" /\ UNCHANGED <<start, calls>>
        /\ (HealFails(p, w) /\ Leave(p, w)) \/ (~HealFails(p, w) /\ Leave(p, Healed(p, w)))
    BY <1>3 DEF Refuse
  <2>2. Sound(p, w, launch[p].tool) /\ Spares(p, Here(p), w)
    BY <1>0, RoutedSound
  <2>3. Fits(h, launch[p].tool)
    BY <2>1 DEF Invs, FitInv
  <2>4. Fits(Routed(h, p, launch[p], given, tool), launch[p].tool)
    <3>1. Sound(p, h, launch[p].tool)
      BY <1>0
    <3> HIDE DEF h
    <3>2. QED
      BY <1>0, <2>3, <3>1, RoutedFits
  <2>5. Fits(w, launch[p].tool)
    BY <2>4
  <2> HIDE DEF w
  <2>6. CASE HealFails(p, w) /\ Leave(p, w)
    BY <1>0, <2>1, <2>2, <2>5, <2>6, FitRun
  <2>7. CASE ~HealFails(p, w) /\ Leave(p, Healed(p, w))
    <3>1. Sound(p, Healed(p, w), launch[p].tool) /\ Spares(p, w, Healed(p, w))
      BY <1>0, <2>2, <2>7, HealedSound
    <3>2. Fits(Healed(p, w), launch[p].tool)
      BY <1>0, <2>2, <2>5, <2>7, HealedFits
    <3>3. Spares(p, Here(p), Healed(p, w))
      BY <2>2, <3>1, SparesTwice
    <3>4. QED
      BY <1>0, <2>1, <2>7, <3>1, <3>2, <3>3, FitRun
  <2>8. QED
    BY <2>1, <2>6, <2>7
<1>4. ASSUME NEW q \in Profiles, Connect(p, given, q) PROVE FitInv' /\ CallActsForItsSession'
  <2> DEFINE w == Entered(p, given, "connect")
             goes == /\ MaySwitch(p, w, q) /\ Readable(w, q)
                     /\ ~Locked(w, p, w.file[q], w.rsid)
             v == Apply(w, p, launch[p], q, given)
  <2>1. Starts(p, given, "connect") /\ Leave(p, IF goes THEN v ELSE w) /\ UNCHANGED <<start, calls>>
    BY <1>4 DEF Connect
  <2>2. /\ up[p] = "up" /\ Sound(p, w, launch[p].tool) /\ Spares(p, Here(p), w) /\ Fits(w, launch[p].tool)
    BY <2>1, StartsFit
  <2> HIDE DEF w
  <2>3. CASE ~goes
    BY <1>0, <2>1, <2>2, <2>3, FitRun
  <2>4. CASE goes
    <3>1. w.file[q] \in Agents
      BY <2>2, <2>4 DEF Readable, Sound, World
    <3>2. Sound(p, v, launch[p].tool) /\ Spares(p, w, v)
      BY <1>0, <2>2, <3>1, ApplySound
    <3>3. Fits(v, launch[p].tool)
      BY <1>0, <2>2, <3>1, ApplyFits
    <3>4. Leave(p, v)
      BY <2>1, <2>4
    <3> HIDE DEF v
    <3>5. Spares(p, Here(p), v)
      BY <2>2, <3>2, SparesTwice
    <3>6. QED
      BY <1>0, <2>1, <2>2, <3>2, <3>3, <3>4, <3>5, FitRun
  <2>5. QED
    BY <2>3, <2>4
<1>5. ASSUME NEW keep \in BOOLEAN, DisconnectTool(p, given, keep) PROVE FitInv' /\ CallActsForItsSession'
  <2> DEFINE w == Entered(p, given, "disconnect")
             v == Disconnect(w, p, launch[p], keep)
  <2>1. Starts(p, given, "disconnect") /\ Leave(p, v) /\ UNCHANGED <<start, calls>>
    BY <1>5 DEF DisconnectTool
  <2>2. /\ up[p] = "up" /\ Sound(p, w, launch[p].tool) /\ Spares(p, Here(p), w) /\ Fits(w, launch[p].tool)
    BY <2>1, StartsFit
  <2> HIDE DEF w
  <2>3. Sound(p, v, launch[p].tool) /\ Spares(p, w, v)
    BY <1>0, <2>2, DisconnectSound
  <2>4. Fits(v, launch[p].tool)
    BY <1>0, <2>2, DisconnectFits
  <2> HIDE DEF v
  <2>5. Spares(p, Here(p), v)
    BY <2>2, <2>3, SparesTwice
  <2>6. QED
    BY <1>0, <2>1, <2>2, <2>3, <2>4, <2>5, FitRun
<1>6. QED
  BY <1>1, <1>2, <1>3, <1>4, <1>5 DEF CallStep

LEMMA FitAnswer ==
  ASSUME Invs, NEW p \in Procs, \A r \in Procs : r = p, NEW c \in calls[p],
         Finish(p, c) \/ WhoAmI(p, c) \/ Register(p, c)
  PROVE  FitInv' /\ CallActsForItsSession'
<1> DEFINE h == Here(p)
<1>0. /\ RoutingInv /\ Typed /\ up[p] = "up" /\ calls[p] \ {c} \in SUBSET calls[p] /\ launch[p] \in Launches
      /\ c \in Call /\ Sound(p, h, launch[p].tool) /\ Fits(h, launch[p].tool) /\ OneEach(binds)
      /\ h.binds = binds /\ h.slots = slots[p]
  BY Answered, HereIs DEF Invs, FitInv, RoutingInv
<1>1. CASE Finish(p, c) \/ WhoAmI(p, c)
  <2>1. /\ calls' = [calls EXCEPT ![p] = @ \ {c}] /\ UNCHANGED <<binds, start, self>>
    BY <1>1 DEF Finish, WhoAmI, shared
  <2>2. up' = up /\ launch' = launch /\ src' = src /\ slots' = slots /\ active' = active /\ binds' = binds
    BY <2>1 DEF start, self
  <2>3. FitInv'
    <3>1. Here(p)'.binds = Here(p).binds /\ Here(p)'.slots = Here(p).slots
      BY <2>2 DEF Here
    <3>2. Fits(Here(p)', launch[p].tool)
      BY <1>0, <3>1, LikeFits
    <3>3. QED
      BY <1>0, <2>2, <3>2 DEF FitInv
  <2>4. CallActsForItsSession'
    BY <2>1, <2>2 DEF Invs, CallActsForItsSession, RoutingInv, Typed
  <2>5. QED
    BY <2>3, <2>4
<1>2. CASE Register(p, c)
  <2>1. /\ c.tool = "register" /\ calls' = [calls EXCEPT ![p] = @ \ {c}] /\ UNCHANGED start
        /\ \/ UNCHANGED <<shared, self, alarm>>
           \/ \E f \in Registered(c.prof) :
                LET a == f[c.prof]
                    g == IF f[Default] = "missing" THEN [f EXCEPT ![Default] = a] ELSE f
                IN  Leave(p, Apply([h EXCEPT !.file = g], p, launch[p], c.prof, c.sid))
    BY <1>2 DEF Register
  <2> DEFINE C == calls[p] \ {c}
  <2>2. calls' = [calls EXCEPT ![p] = C] /\ C \in SUBSET calls[p]
    BY <2>1
  <2> HIDE DEF C
  <2>3. CASE UNCHANGED <<shared, self, alarm>>
    <3>1. Leave(p, h) /\ Spares(p, h, h)
      BY <1>0, <2>3, StayIs
    <3>2. Leave(p, h) /\ Sound(p, h, launch[p].tool) /\ Spares(p, Here(p), h) /\ Fits(h, launch[p].tool)
      BY <1>0, <3>1
    <3> HIDE DEF h
    <3>3. QED
      BY <1>0, <2>1, <2>2, <3>2, FitRun
  <2>4. CASE ~ UNCHANGED <<shared, self, alarm>>
    <3> DEFINE q == c.prof
    <3>1. PICK f \in Registered(q) :
            LET a == f[q]
                g == IF f[Default] = "missing" THEN [f EXCEPT ![Default] = a] ELSE f
            IN  Leave(p, Apply([h EXCEPT !.file = g], p, launch[p], q, c.sid))
      BY <2>1, <2>4
    <3> DEFINE a == f[q]
               g == IF f[Default] = "missing" THEN [f EXCEPT ![Default] = a] ELSE f
               u == [h EXCEPT !.file = g]
               v == Apply(u, p, launch[p], q, c.sid)
    <3>2. Leave(p, v)
      BY <3>1
    <3>3. q \in Profiles /\ c.sid \in Sids
      BY <1>0, <2>1 DEF Invs, CallsKeep, Call, Sids
    <3>4. f \in [Profiles -> Agents \cup Bad] /\ a \in Agents
      BY <1>0, <3>3, RegisteredIs
    <3>5. g \in [Profiles -> Agents \cup Bad] /\ g[q] \in Agents
      <4>1. a = f[q]
        OBVIOUS
      <4> HIDE DEF a, q
      <4>2. CASE f[Default] = "missing"
        <5>1. g = [f EXCEPT ![Default] = a]
          BY <4>2
        <5>2. QED
          BY <3>3, <3>4, <4>1, <5>1
      <4>3. CASE f[Default] # "missing"
        BY <3>4, <4>1, <4>3
      <4>4. QED
        BY <4>2, <4>3
    <3> HIDE DEF g, h, q
    <3>6. /\ u \in World /\ u.file = g /\ u.slots = h.slots /\ u.active = h.active /\ u.lock = h.lock /\ u.binds = h.binds
      BY <1>0, <3>5 DEF Sound, World
    <3> HIDE DEF u
    <3>7. Sound(p, u, launch[p].tool) /\ Spares(p, h, u)
      <4>. PICK t : t = launch[p].tool
        OBVIOUS
      <4>1. Sound(p, h, t)
        BY <1>0
      <4>2. Sound(p, u, t) /\ Spares(p, h, u)
        BY <3>6, <4>1, OthersSound
      <4>3. QED
        BY <4>2
    <3>8. Fits(u, launch[p].tool) /\ u.file[q] \in Agents
      BY <1>0, <3>5, <3>6, LikeFits
    <3>9. Sound(p, v, launch[p].tool) /\ Spares(p, u, v)
      BY <1>0, <3>3, <3>7, <3>8, ApplySound
    <3>10. Fits(v, launch[p].tool)
      BY <1>0, <3>3, <3>7, <3>8, ApplyFits
    <3> HIDE DEF v
    <3>11. Spares(p, Here(p), v)
      BY <3>7, <3>9, SparesTwice DEF h
    <3>12. QED
      BY <1>0, <2>1, <2>2, <3>2, <3>9, <3>10, <3>11, FitRun
  <2>5. QED
    BY <2>3, <2>4
<1>3. QED
  BY <1>1, <1>2

LEMMA FitStep ==
  ASSUME \A p, q \in Procs : p = q, Invs, [Next]_vars
  PROVE  FitInv' /\ CallActsForItsSession'
<1>0. RoutingInv /\ Typed /\ FitInv /\ CallActsForItsSession
  BY DEF Invs, RoutingInv
<1>1. ASSUME NEW p \in Procs, Stop(p) \/ Crash(p) PROVE FitInv' /\ CallActsForItsSession'
  <2>1. /\ up' = [up EXCEPT ![p] = "down"] /\ calls' = [calls EXCEPT ![p] = {}] /\ binds' = binds
    BY <1>1 DEF Stop, Crash, Ended
  <2>2. up'[p] = "down" /\ calls'[p] = {} /\ \A r \in Procs : r = p
    BY <1>0, <2>1 DEF Typed
  <2>3. QED
    BY <1>0, <2>1, <2>2 DEF FitInv, CallActsForItsSession
<1>2. ASSUME NEW p \in Procs, NEW s \in Sessions, Sync(p, s) PROVE FitInv' /\ CallActsForItsSession'
  <2> DEFINE w == Opened(Here(p), p, s)
  <2>1. up[p] = "up" /\ MayOpen(p, s) /\ Leave(p, w) /\ UNCHANGED start /\ calls' = calls
    BY <1>2 DEF Sync
  <2>2. Sound(p, w, launch[p].tool) /\ Spares(p, Here(p), w)
    BY <1>0, <2>1, OpenStep
  <2>3. Fits(Here(p), launch[p].tool)
    BY <1>0, <2>1 DEF FitInv
  <2>4. Fits(w, launch[p].tool)
    BY <1>0, <2>1, <2>3, OpenFits
  <2> HIDE DEF w
  <2>5. \A r \in Procs : r = p
    OBVIOUS
  <2> DEFINE C == calls[p]
  <2>6. C \in SUBSET calls[p]
    OBVIOUS
  <2> HIDE DEF C
  <2>7. QED
    BY <2>1, <2>2, <2>4, <2>5, <2>6, FitRun
<1>3. ASSUME NEW q \in Profiles, Edit(q) PROVE FitInv' /\ CallActsForItsSession'
  <2>1. UNCHANGED <<binds, start, self, calls>>
    BY <1>3 DEF Edit
  <2>2. QED
    BY <1>0, <2>1 DEF start, self, FitInv, Fits, Here, CallActsForItsSession
<1>4. CASE UNCHANGED vars
  <2>1. UNCHANGED <<binds, start, self, calls>>
    BY <1>4 DEF vars, shared
  <2>2. QED
    BY <1>0, <2>1 DEF start, self, FitInv, Fits, Here, CallActsForItsSession
<1>5. ASSUME NEW p \in Procs, Boot(p) \/ Answer(p) \/ \E s \in Sids : CallStep(p, s)
      PROVE  FitInv' /\ CallActsForItsSession'
  <2>1. \A r \in Procs : r = p
    OBVIOUS
  <2>2. QED
    BY <1>5, <2>1, FitBoot, FitAnswer, FitCall DEF Answer
<1>6. QED
  BY <1>1, <1>2, <1>3, <1>4, <1>5 DEF Next, Sids

\* Where one process serves the host: a call that names its session acts as nobody, or
\* as a profile that is that session's or no session's.  (Two processes that start
\* together may bind each other's profiles away.)
THEOREM CallActsForItsSessionHolds ==
  ASSUME \A p, q \in Procs : p = q
  PROVE  Spec => []CallActsForItsSession
<1>1. Init => Invs
  <2>1. Init => RoutingInv /\ CallsKeep
    BY InitSound
  <2>2. Init => FitInv /\ CallActsForItsSession
    BY DEF Init, FitInv, OneEach, CallActsForItsSession
  <2>3. QED
    BY <2>1, <2>2 DEF Invs
<1>2. Invs /\ [Next]_vars => Invs'
  <2> SUFFICES ASSUME Invs, [Next]_vars PROVE Invs'
    OBVIOUS
  <2>1. RoutingInv' /\ CallsKeep'
    BY StepSound DEF Invs
  <2>2. FitInv' /\ CallActsForItsSession'
    BY FitStep
  <2>3. QED
    BY <2>1, <2>2 DEF Invs
<1>3. Invs => CallActsForItsSession
  BY DEF Invs
<1>4. QED
  BY <1>1, <1>2, <1>3, PTL DEF Spec
=============================================================================
