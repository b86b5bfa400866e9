-------------------------- MODULE DshInboundProofs --------------------------
(***************************************************************************)
(* The safety of the DSH wake queue, for every set of messages and every   *)
(* pair of limits with MaxPending <= MaxSeen.                              *)
(***************************************************************************)
EXTENDS DshInboundProps, TLAPS

LEMMA EmptyFacts == ASSUME NEW S PROVE <<>> \in Seq(S) /\ Len(<<>>) = 0
  OBVIOUS

\* What Append and Tail do to the elements of a sequence.
LEMMA AppendFacts ==
  ASSUME NEW S, NEW s \in Seq(S), NEW x \in S
  PROVE  /\ Append(s, x) \in Seq(S) /\ Len(Append(s, x)) = Len(s) + 1
         /\ \A i \in 1..Len(s) : Append(s, x)[i] = s[i]
         /\ Append(s, x)[Len(s) + 1] = x
  OBVIOUS

LEMMA TailFacts ==
  ASSUME NEW S, NEW s \in Seq(S), s # <<>>
  PROVE  /\ Tail(s) \in Seq(S) /\ Len(Tail(s)) = Len(s) - 1 /\ Len(s) \in Nat \ {0}
         /\ \A i \in 1..(Len(s) - 1) : Tail(s)[i] = s[i + 1]
         /\ Head(s) \in S /\ Head(s) = s[1]
  OBVIOUS

\* A remembered id becomes the youngest claim; the older ones keep their place
\* counted from the end.
LEMMA RememberedFacts ==
  ASSUME NEW m \in Msgs, seen \in Seq(Msgs), Len(seen) <= MaxSeen, NEW R, R = Remembered(m)
  PROVE  /\ R \in Seq(Msgs)
         /\ Len(R) = IF Len(seen) + 1 > MaxSeen THEN Len(seen) ELSE Len(seen) + 1
         /\ \A i \in 1..(Len(R) - 1) : R[i] = seen[Len(seen) - (Len(R) - 1) + i]
         /\ Len(R) > 0 => R[Len(R)] = m
  <1> DEFINE s == Append(seen, m)
  <1>1. /\ s \in Seq(Msgs) /\ Len(s) = Len(seen) + 1
        /\ \A i \in 1..Len(seen) : s[i] = seen[i]
        /\ s[Len(seen) + 1] = m
    BY AppendFacts
  <1>2. Len(seen) \in Nat /\ MaxSeen \in Nat
    BY DshAssumption
  <1>3. CASE Len(s) > MaxSeen
    <2>1. s # <<>>
      BY <1>1, <1>2
    <2>2. /\ Tail(s) \in Seq(Msgs) /\ Len(Tail(s)) = Len(s) - 1
          /\ \A i \in 1..(Len(s) - 1) : Tail(s)[i] = s[i + 1]
      BY <1>1, <2>1, TailFacts
    <2>3. R = Tail(s)
      BY <1>3 DEF Remembered
    <2> HIDE DEF s
    <2>4. R \in Seq(Msgs) /\ Len(R) = Len(seen)
      BY <1>1, <1>2, <2>2, <2>3
    <2>5. \A i \in 1..(Len(R) - 1) : R[i] = seen[i + 1]
      BY <1>1, <1>2, <2>2, <2>3, <2>4
    <2>6. Len(R) > 0 => R[Len(R)] = m
      BY <1>1, <1>2, <2>2, <2>3, <2>4
    <2>7. \A i \in 1..(Len(R) - 1) : Len(seen) - (Len(R) - 1) + i = i + 1
      BY <1>2, <2>4
    <2> QED BY <1>1, <1>2, <1>3, <2>4, <2>5, <2>6, <2>7
  <1>4. CASE ~(Len(s) > MaxSeen)
    <2>1. R = s
      BY <1>4 DEF Remembered
    <2> HIDE DEF s
    <2>2. \A i \in 1..(Len(R) - 1) : i \in 1..Len(seen) /\ Len(seen) - (Len(R) - 1) + i = i
      BY <1>1, <1>2, <2>1
    <2> QED BY <1>1, <1>2, <1>4, <2>1, <2>2
  <1> QED BY <1>3, <1>4

-----------------------------------------------------------------------------
\* The steps that leave the queue alone, and those that shift its head.
LEMMA ShiftFacts ==
  ASSUME pending \in Seq(Msgs), Shift
  PROVE  /\ pending' \in Seq(Msgs)
         /\ pending # <<>> => Len(pending') = Len(pending) - 1
         /\ pending = <<>> => pending' = <<>>
         /\ \A i \in 1..Len(pending') : pending'[i] = pending[i + 1] /\ i + 1 \in 1..Len(pending)
  <1>1. CASE pending = <<>>
    <2>1. pending' = <<>>
      BY <1>1 DEF Shift
    <2> QED BY <1>1, <2>1
  <1>2. CASE pending # <<>>
    <2>1. pending' = Tail(pending)
      BY <1>2 DEF Shift
    <2> QED BY <1>2, <2>1, TailFacts
  <1> QED BY <1>1, <1>2

LEMMA WakeFacts ==
  ASSUME TypeOK, NEW m \in Msgs, Wake(m)
  PROVE  /\ pending' \in Seq(Msgs) /\ Len(pending') <= MaxPending /\ Len(pending') > 0
         /\ pending'[Len(pending')] = m
         /\ \A i \in 1..(Len(pending') - 1) :
              /\ pending'[i] = pending[Len(pending) - (Len(pending') - 1) + i]
              /\ Len(pending) - (Len(pending') - 1) + i \in 1..Len(pending)
         /\ Len(pending) >= MaxPending => Len(pending') = Len(pending)
         /\ Len(pending) < MaxPending => Len(pending') = Len(pending) + 1
  <1> DEFINE P == IF Len(pending) >= MaxPending THEN Tail(pending) ELSE pending
  <1>1. pending \in Seq(Msgs) /\ Len(pending) \in Nat /\ Len(pending) <= MaxPending
        /\ MaxPending \in Nat \ {0}
    BY DshAssumption DEF TypeOK
  <1>2. pending' = Append(P, m)
    BY DEF Wake
  <1>3. CASE Len(pending) >= MaxPending
    <2>1. pending # <<>> /\ P = Tail(pending)
      BY <1>1, <1>3
    <2>2. /\ Tail(pending) \in Seq(Msgs) /\ Len(Tail(pending)) = Len(pending) - 1
          /\ \A i \in 1..(Len(pending) - 1) : Tail(pending)[i] = pending[i + 1]
      BY <1>1, <2>1, TailFacts
    <2> DEFINE T == Tail(pending)
    <2>3. pending' = Append(T, m) /\ T \in Seq(Msgs) /\ Len(T) = Len(pending) - 1
          /\ \A i \in 1..(Len(pending) - 1) : T[i] = pending[i + 1]
      BY <1>2, <2>1, <2>2
    <2> HIDE DEF T, P
    <2>4. /\ pending' \in Seq(Msgs) /\ Len(pending') = Len(pending)
          /\ \A i \in 1..Len(T) : pending'[i] = T[i]
          /\ pending'[Len(T) + 1] = m
      BY <2>3, AppendFacts
    <2>5. \A i \in 1..(Len(pending') - 1) : Len(pending) - (Len(pending') - 1) + i = i + 1
      BY <1>1, <2>4
    <2>6. pending'[Len(pending')] = m
      BY <1>1, <2>3, <2>4
    <2>7. \A i \in 1..(Len(pending') - 1) : pending'[i] = pending[i + 1] /\ i + 1 \in 1..Len(pending)
      BY <1>1, <2>3, <2>4
    <2> QED BY <1>1, <1>3, <2>4, <2>5, <2>6, <2>7
  <1>4. CASE Len(pending) < MaxPending
    <2>1. pending' = Append(pending, m)
      BY <1>1, <1>2, <1>4
    <2>2. /\ pending' \in Seq(Msgs) /\ Len(pending') = Len(pending) + 1
          /\ \A i \in 1..Len(pending) : pending'[i] = pending[i]
          /\ pending'[Len(pending) + 1] = m
      BY <1>1, <2>1, AppendFacts
    <2>3. \A i \in 1..(Len(pending') - 1) :
            Len(pending) - (Len(pending') - 1) + i = i /\ i \in 1..Len(pending)
      BY <1>1, <2>2
    <2>4. pending'[Len(pending')] = m
      BY <2>2
    <2>5. \A i \in 1..(Len(pending') - 1) : pending'[i] = pending[i]
      BY <2>2, <2>3
    <2> QED BY <1>1, <1>4, <2>2, <2>3, <2>4, <2>5
  <1> QED BY <1>1, <1>3, <1>4

LEMMA WithoutFacts ==
  ASSUME seen \in Seq(Msgs), NEW k \in 1..Len(seen), NEW R, R = Without(k)
  PROVE  /\ R \in Seq(Msgs) /\ Len(R) = Len(seen) - 1
         /\ \A i \in 1..Len(R) : R[i] = IF i < k THEN seen[i] ELSE seen[i + 1]
  <1>1. Len(seen) \in Nat \ {0} /\ \A i \in 1..Len(seen) : seen[i] \in Msgs
    OBVIOUS
  <1>2. R = [i \in 1..(Len(seen) - 1) |-> IF i < k THEN seen[i] ELSE seen[i + 1]]
    BY DEF Without
  <1>3. \A i \in 1..(Len(seen) - 1) : (IF i < k THEN seen[i] ELSE seen[i + 1]) \in Msgs
    BY <1>1
  <1>4. R \in [1..(Len(seen) - 1) -> Msgs]
    BY <1>2, <1>3
  <1>5. R \in Seq(Msgs)
    BY <1>1, <1>4
  <1>6. Len(R) = Len(seen) - 1
    BY <1>1, <1>4, <1>5
  <1> QED BY <1>2, <1>5, <1>6

-----------------------------------------------------------------------------
LEMMA TypeStep == TypeOK /\ [Next]_vars => TypeOK'
  <1> SUFFICES ASSUME TypeOK, [Next]_vars PROVE TypeOK'
    OBVIOUS
  <1>0. /\ pending \in Seq(Msgs) /\ Len(pending) \in Nat /\ Len(pending) <= MaxPending
        /\ seen \in Seq(Msgs) /\ Len(seen) \in Nat /\ Len(seen) <= MaxSeen
        /\ MaxPending \in Nat \ {0} /\ MaxSeen \in Nat
    BY DshAssumption DEF TypeOK
  <1>h. ASSUME pending # <<>>
        PROVE  Head(pending) \in Msgs
    BY <1>0, <1>h
  <1>s. ASSUME Shift
        PROVE  /\ pending' \in Seq(Msgs) /\ Len(pending') <= MaxPending
               /\ flight' = "none" => (flight' = "head" => pending' # <<>>)
    <2>1. CASE pending = <<>>
      BY <1>0, <1>s, <2>1, ShiftFacts
    <2>2. CASE pending # <<>>
      BY <1>0, <1>s, <2>2, ShiftFacts
    <2> QED BY <2>1, <2>2
  <1>1. ASSUME NEW m \in Msgs, Wake(m)
        PROVE  TypeOK'
    <2>1. pending' \in Seq(Msgs) /\ Len(pending') <= MaxPending /\ pending' # <<>>
      <3>1. pending' \in Seq(Msgs) /\ Len(pending') <= MaxPending /\ Len(pending') > 0
        BY <1>1, WakeFacts
      <3> QED BY <3>1
    <2>2. seen' \in Seq(Msgs) /\ Len(seen') <= MaxSeen
      <3>1. seen' = Remembered(m)
        BY <1>1 DEF Wake
      <3>2. /\ seen' \in Seq(Msgs)
            /\ Len(seen') = IF Len(seen) + 1 > MaxSeen THEN Len(seen) ELSE Len(seen) + 1
        BY <1>0, <3>1, RememberedFacts
      <3> QED BY <1>0, <3>2
    <2>3. /\ draining' = TRUE /\ timer' \in BOOLEAN /\ flight' \in {"none", "head", "gone"}
      BY <1>1 DEF Wake, TypeOK
    <2>4. /\ posts' \in [Msgs -> Nat] /\ claims' \in [Msgs -> Nat]
      BY <1>1 DEF Wake, TypeOK
    <2>5. landed' \in [Msgs -> Nat] /\ reloads' \in Nat /\ tried' \subseteq Msgs
      BY <1>1 DEF Wake, TypeOK
    <2> QED BY <2>1, <2>2, <2>3, <2>4, <2>5 DEF TypeOK
  <1>2. ASSUME NEW m \in Msgs, Duplicate(m)
        PROVE  TypeOK'
    <2>1. posts' \in [Msgs -> Nat]
      BY <1>2 DEF Duplicate, TypeOK
    <2>2. UNCHANGED <<seen, pending, draining, flight, timer, reloads, claims, landed, tried>>
      BY <1>2 DEF Duplicate, queue, past
    <2> QED BY <2>1, <2>2 DEF TypeOK
  <1>3. CASE Drop
    <2>1. Shift /\ flight = "none" /\ tried' \subseteq Msgs
      BY <1>3, <1>h DEF Drop, AtHead, Tries, TypeOK
    <2>2. UNCHANGED <<seen, draining, flight, timer, posts, reloads, claims, landed>>
      BY <1>3 DEF Drop, bound
    <2> QED BY <1>s, <2>1, <2>2 DEF TypeOK
  <1>4. CASE LandNow
    <2>1. Shift /\ flight = "none" /\ tried' \subseteq Msgs
      BY <1>4, <1>h DEF LandNow, AtHead, Tries, TypeOK
    <2>2. UNCHANGED <<seen, draining, flight, timer, posts, reloads, claims>>
      BY <1>4 DEF LandNow, bound
    <2>3. landed' \in [Msgs -> Nat]
      <3>1. Head(pending) \in Msgs
        BY <1>4, <1>h DEF LandNow, AtHead
      <3> QED BY <1>4, <3>1 DEF LandNow, Lands, TypeOK
    <2> QED BY <1>s, <2>1, <2>2, <2>3 DEF TypeOK
  <1>5. CASE Splice
    <2>1. flight' = "head" /\ draining /\ pending # <<>> /\ tried' \subseteq Msgs
      BY <1>5, <1>h DEF Splice, AtHead, Tries, TypeOK
    <2>2. UNCHANGED <<seen, pending, draining, timer, posts, reloads, claims>>
      BY <1>5 DEF Splice, bound
    <2>3. landed' \in [Msgs -> Nat]
      <3>1. Head(pending) \in Msgs
        BY <1>5, <1>h DEF Splice, AtHead
      <3> QED BY <1>5, <3>1 DEF Splice, Lands, TypeOK
    <2> QED BY <2>1, <2>2, <2>3 DEF TypeOK
  <1>6. CASE SpliceFails
    <2>1. Shift /\ flight = "none" /\ tried' \subseteq Msgs
      BY <1>6, <1>h DEF SpliceFails, AtHead, Tries, TypeOK
    <2>2. UNCHANGED <<draining, flight, timer, posts, reloads, claims, landed>>
      BY <1>6 DEF SpliceFails, bound
    <2>3. seen' \in Seq(Msgs) /\ Len(seen') <= MaxSeen
      <3>1. CASE seen' = seen
        BY <1>0, <3>1
      <3>2. ASSUME NEW k \in 1..Len(seen), seen' = Without(k)
            PROVE  seen' \in Seq(Msgs) /\ Len(seen') <= MaxSeen
        <4>1. seen' \in Seq(Msgs) /\ Len(seen') = Len(seen) - 1
          BY <1>0, <3>2, WithoutFacts
        <4> QED BY <1>0, <4>1
      <3> QED BY <1>6, <3>1, <3>2 DEF SpliceFails, Forget
    <2> QED BY <1>s, <2>1, <2>2, <2>3 DEF TypeOK
  <1>7. CASE Defer \/ Throws
    <2>1. /\ UNCHANGED <<seen, pending, flight, posts, reloads, claims, landed>>
          /\ draining' = FALSE /\ timer' = TRUE /\ flight = "none" /\ tried' \subseteq Msgs
      BY <1>7, <1>h DEF Defer, Throws, AtHead, Tries, Leaves, bound, TypeOK
    <2> QED BY <2>1 DEF TypeOK
  <1>8. CASE FlushEnds
    <2>1. /\ Shift /\ flight' = "none"
          /\ UNCHANGED <<seen, draining, timer, posts, reloads, claims, landed, tried>>
      BY <1>8 DEF FlushEnds, bound, past
    <2> QED BY <1>s, <2>1 DEF TypeOK
  <1>9. CASE DrainEnds
    <2>1. /\ draining' = FALSE /\ flight = "none"
          /\ UNCHANGED <<seen, pending, flight, timer, posts, reloads, claims, landed, tried>>
      BY <1>9 DEF DrainEnds, bound, past
    <2> QED BY <2>1 DEF TypeOK
  <1>10. CASE TimerFires
    <2>1. /\ draining' = TRUE /\ timer' = FALSE
          /\ UNCHANGED <<seen, pending, flight, posts, reloads, claims, landed, tried>>
      BY <1>10 DEF TimerFires, bound, past
    <2> QED BY <2>1 DEF TypeOK
  <1>11. CASE Reload
    <2>1. /\ pending' = <<>> /\ draining' = FALSE /\ flight' = "none" /\ timer' = FALSE
          /\ reloads' = reloads + 1 /\ UNCHANGED <<seen, posts, claims, landed, tried>>
      BY <1>11 DEF Reload, past
    <2>2. pending' \in Seq(Msgs) /\ Len(pending') <= MaxPending
      BY <1>0, <2>1, EmptyFacts
    <2>3. reloads' \in Nat
      BY <2>1 DEF TypeOK
    <2>4. flight' \in {"none", "head", "gone"} /\ flight' # "head"
      BY <2>1
    <2> QED BY <2>1, <2>2, <2>3, <2>4 DEF TypeOK
  <1>12. CASE UNCHANGED vars
    <2>1. UNCHANGED <<seen, pending, draining, flight, timer, posts, reloads, claims, landed, tried>>
      BY <1>12 DEF vars, queue, bound, past
    <2> QED BY <2>1 DEF TypeOK
  <1> QED BY <1>1, <1>2, <1>3, <1>4, <1>5, <1>6, <1>7, <1>8, <1>9, <1>10, <1>11, <1>12
         DEF Next, Attempt, Settles

-----------------------------------------------------------------------------
\* One position for each id among the claims, and the queue at their end.
LEMMA QueueStep == TypeOK /\ QueueIsClaimed /\ [Next]_vars => QueueIsClaimed'
  <1> SUFFICES ASSUME TypeOK, QueueIsClaimed, [Next]_vars PROVE QueueIsClaimed'
    OBVIOUS
  <1>0. /\ pending \in Seq(Msgs) /\ Len(pending) \in Nat /\ Len(pending) <= MaxPending
        /\ seen \in Seq(Msgs) /\ Len(seen) \in Nat /\ Len(seen) <= MaxSeen
        /\ MaxPending \in Nat \ {0} /\ MaxSeen \in Nat /\ MaxPending <= MaxSeen
    BY DshAssumption DEF TypeOK
  <1>q. /\ Len(pending) <= Len(seen)
        /\ \A i \in 1..Len(pending) : pending[i] = seen[Len(seen) - Len(pending) + i]
        /\ \A i, j \in 1..Len(seen) : seen[i] = seen[j] => i = j
    BY DEF QueueIsClaimed
  <1>s. ASSUME Shift, seen' = seen
        PROVE  QueueIsClaimed'
    <2>1. CASE pending = <<>>
      <3>1. Len(pending') = 0
        BY <1>s, <1>0, <2>1, ShiftFacts, EmptyFacts
      <3> QED BY <1>0, <1>q, <1>s, <3>1 DEF QueueIsClaimed
    <2>2. CASE pending # <<>>
      <3>1. /\ Len(pending') = Len(pending) - 1
            /\ \A i \in 1..Len(pending') : pending'[i] = pending[i + 1] /\ i + 1 \in 1..Len(pending)
        BY <1>s, <1>0, <2>2, ShiftFacts
      <3>2. \A i \in 1..Len(pending') :
              pending'[i] = seen[Len(seen) - Len(pending) + (i + 1)]
        BY <1>q, <3>1
      <3>3. \A i \in 1..Len(pending') :
              Len(seen) - Len(pending) + (i + 1) = Len(seen) - Len(pending') + i
        BY <1>0, <3>1
      <3>4. Len(pending') <= Len(seen)
        BY <1>0, <1>q, <3>1
      <3> QED BY <1>q, <1>s, <3>2, <3>3, <3>4 DEF QueueIsClaimed
    <2> QED BY <2>1, <2>2
  <1>1. ASSUME NEW m \in Msgs, Wake(m)
        PROVE  QueueIsClaimed'
    <2>1. seen' = Remembered(m) /\ \A i \in 1..Len(seen) : seen[i] # m
      BY <1>1 DEF Wake, Claimed
    <2>2. /\ seen' \in Seq(Msgs)
          /\ Len(seen') = IF Len(seen) + 1 > MaxSeen THEN Len(seen) ELSE Len(seen) + 1
          /\ \A i \in 1..(Len(seen') - 1) : seen'[i] = seen[Len(seen) - (Len(seen') - 1) + i]
          /\ Len(seen') > 0 => seen'[Len(seen')] = m
      BY <1>0, <2>1, RememberedFacts
    <2>3. /\ Len(pending') \in Nat /\ Len(pending') <= MaxPending /\ Len(pending') > 0
          /\ pending'[Len(pending')] = m
          /\ \A i \in 1..(Len(pending') - 1) :
               /\ pending'[i] = pending[Len(pending) - (Len(pending') - 1) + i]
               /\ Len(pending) - (Len(pending') - 1) + i \in 1..Len(pending)
          /\ Len(pending) >= MaxPending => Len(pending') = Len(pending)
          /\ Len(pending) < MaxPending => Len(pending') = Len(pending) + 1
      <3>1. pending' \in Seq(Msgs)
        BY <1>1, WakeFacts
      <3>2. Len(pending') \in Nat
        BY <3>1
      <3> QED BY <1>1, <3>2, WakeFacts
    <2>4. Len(seen') \in Nat /\ Len(pending') <= Len(seen') /\ Len(seen') > 0
      BY <1>0, <1>q, <2>2, <2>3
    <2>5. \A i \in 1..Len(pending') : pending'[i] = seen'[Len(seen') - Len(pending') + i]
      <3> SUFFICES ASSUME NEW i \in 1..Len(pending')
                   PROVE  pending'[i] = seen'[Len(seen') - Len(pending') + i]
        OBVIOUS
      <3>1. CASE i = Len(pending')
        BY <2>2, <2>3, <2>4, <3>1
      <3>2. CASE i # Len(pending')
        <4> DEFINE j == Len(pending) - (Len(pending') - 1) + i
                   k == Len(seen') - Len(pending') + i
        <4>1. i \in 1..(Len(pending') - 1)
          BY <2>3, <3>2
        <4>2. pending'[i] = pending[j] /\ j \in 1..Len(pending)
          BY <2>3, <4>1
        <4>3. pending[j] = seen[Len(seen) - Len(pending) + j]
          BY <1>q, <4>2
        <4>4. k \in 1..(Len(seen') - 1)
          BY <2>3, <2>4, <4>1
        <4>5. seen'[k] = seen[Len(seen) - (Len(seen') - 1) + k]
          BY <2>2, <4>4
        <4>6. Len(seen) - (Len(seen') - 1) + k = Len(seen) - Len(pending) + j
          BY <1>0, <2>3, <2>4
        <4> QED BY <4>2, <4>3, <4>5, <4>6
      <3> QED BY <3>1, <3>2
    <2>6. \A i \in 1..(Len(seen') - 1) : Len(seen) - (Len(seen') - 1) + i \in 1..Len(seen)
      BY <1>0, <2>2, <2>4
    <2>7. \A i, j \in 1..Len(seen') : seen'[i] = seen'[j] => i = j
      <3> SUFFICES ASSUME NEW i \in 1..Len(seen'), NEW j \in 1..Len(seen'), seen'[i] = seen'[j]
                   PROVE  i = j
        OBVIOUS
      <3>1. CASE i = Len(seen') /\ j = Len(seen')
        BY <3>1
      <3>2. CASE i # Len(seen') /\ j # Len(seen')
        <4> DEFINE p == Len(seen) - (Len(seen') - 1) + i
                   q == Len(seen) - (Len(seen') - 1) + j
        <4>1. i \in 1..(Len(seen') - 1) /\ j \in 1..(Len(seen') - 1)
          BY <2>4, <3>2
        <4>2. seen'[i] = seen[p] /\ seen'[j] = seen[q] /\ p \in 1..Len(seen) /\ q \in 1..Len(seen)
          BY <2>2, <2>6, <4>1
        <4>3. p = q
          BY <1>q, <4>2
        <4> QED BY <1>0, <2>4, <4>1, <4>3
      <3>3. CASE i = Len(seen') /\ j # Len(seen')
        <4>1. j \in 1..(Len(seen') - 1)
          BY <2>4, <3>3
        <4> QED BY <2>1, <2>2, <2>4, <2>6, <3>3, <4>1
      <3>4. CASE i # Len(seen') /\ j = Len(seen')
        <4>1. i \in 1..(Len(seen') - 1)
          BY <2>4, <3>4
        <4> QED BY <2>1, <2>2, <2>4, <2>6, <3>4, <4>1
      <3> QED BY <3>1, <3>2, <3>3, <3>4
    <2> QED BY <2>4, <2>5, <2>7 DEF QueueIsClaimed
  <1>2. CASE SpliceFails
    <2>1. /\ Shift /\ Forget(Head(pending)) /\ pending # <<>>
      BY <1>2 DEF SpliceFails, AtHead
    <2>2. /\ Len(pending) > 0 /\ Len(pending') = Len(pending) - 1
          /\ \A i \in 1..Len(pending') : pending'[i] = pending[i + 1] /\ i + 1 \in 1..Len(pending)
          /\ Head(pending) = pending[1]
      BY <1>0, <2>1, ShiftFacts, TailFacts
    <2> DEFINE k == Len(seen) - Len(pending) + 1
    <2>3. k \in 1..Len(seen) /\ seen[k] = Head(pending)
      BY <1>0, <1>q, <2>2
    <2>4. seen' = Without(k)
      <3>1. Claimed(Head(pending))
        BY <2>3 DEF Claimed
      <3>2. PICK l \in 1..Len(seen) : seen[l] = Head(pending) /\ seen' = Without(l)
        BY <2>1, <3>1 DEF Forget
      <3>3. l = k
        BY <1>q, <2>3, <3>2
      <3> QED BY <3>2, <3>3
    <2>5. /\ Len(seen') = Len(seen) - 1
          /\ \A i \in 1..Len(seen') : seen'[i] = IF i < k THEN seen[i] ELSE seen[i + 1]
      BY <1>0, <2>3, <2>4, WithoutFacts
    <2> HIDE DEF k
    <2>6. k = Len(seen) - Len(pending) + 1
      BY DEF k
    <2>7. \A i \in 1..Len(pending') : pending'[i] = seen'[Len(seen') - Len(pending') + i]
      <3> SUFFICES ASSUME NEW i \in 1..Len(pending')
                   PROVE  pending'[i] = seen'[Len(seen') - Len(pending') + i]
        OBVIOUS
      <3>1. pending'[i] = seen[Len(seen) - Len(pending) + (i + 1)]
        BY <1>q, <2>2
      <3>2. /\ Len(seen') - Len(pending') + i = Len(seen) - Len(pending) + i
            /\ Len(seen) - Len(pending) + i \in 1..Len(seen')
            /\ ~(Len(seen) - Len(pending) + i < k)
            /\ Len(seen) - Len(pending) + i + 1 = Len(seen) - Len(pending) + (i + 1)
        BY <1>0, <1>q, <2>2, <2>5, <2>6
      <3> QED BY <2>5, <3>1, <3>2
    <2>8. \A i, j \in 1..Len(seen') : seen'[i] = seen'[j] => i = j
      <3> SUFFICES ASSUME NEW i \in 1..Len(seen'), NEW j \in 1..Len(seen'), seen'[i] = seen'[j]
                   PROVE  i = j
        OBVIOUS
      <3> DEFINE at(n) == IF n < k THEN n ELSE n + 1
      <3>1. seen'[i] = seen[at(i)] /\ seen'[j] = seen[at(j)]
        BY <2>5
      <3>2. at(i) \in 1..Len(seen) /\ at(j) \in 1..Len(seen)
        BY <1>0, <2>3, <2>5
      <3>3. at(i) = at(j)
        BY <1>q, <3>1, <3>2
      <3> QED BY <1>0, <2>3, <2>5, <3>3
    <2>9. Len(pending') <= Len(seen')
      BY <1>0, <1>q, <2>2, <2>5
    <2> QED BY <2>7, <2>8, <2>9 DEF QueueIsClaimed
  <1>3. CASE Drop \/ LandNow \/ FlushEnds
    BY <1>3, <1>s DEF Drop, LandNow, FlushEnds
  <1>4. ASSUME UNCHANGED <<seen, pending>>
        PROVE  QueueIsClaimed'
    BY <1>4 DEF QueueIsClaimed
  <1>5. ASSUME NEW m \in Msgs, Duplicate(m)
        PROVE  QueueIsClaimed'
    BY <1>4, <1>5 DEF Duplicate, queue
  <1>6. CASE Splice \/ Defer \/ Throws \/ DrainEnds \/ TimerFires
    BY <1>4, <1>6 DEF Splice, Defer, Throws, DrainEnds, TimerFires
  <1>7. CASE Reload
    <2>1. seen' = seen /\ Len(pending') = 0
      BY <1>7, EmptyFacts DEF Reload
    <2> QED BY <1>0, <1>q, <2>1 DEF QueueIsClaimed
  <1>8. CASE UNCHANGED vars
    BY <1>4, <1>8 DEF vars, queue
  <1> QED BY <1>1, <1>2, <1>3, <1>5, <1>6, <1>7, <1>8 DEF Next, Attempt, Settles

-----------------------------------------------------------------------------
\* No message is queued twice.
LEMMA QueuedOnce ==
  ASSUME TypeOK, QueueIsClaimed, NEW i \in 1..Len(pending), NEW j \in 1..Len(pending),
         pending[i] = pending[j]
  PROVE  i = j
  <1> DEFINE p == Len(seen) - Len(pending) + i
             q == Len(seen) - Len(pending) + j
  <1>0. pending \in Seq(Msgs) /\ seen \in Seq(Msgs) /\ Len(pending) <= Len(seen)
    BY DEF TypeOK, QueueIsClaimed
  <1>1. Len(pending) \in Nat /\ Len(seen) \in Nat /\ Len(pending) <= Len(seen)
    BY <1>0
  <1>2. seen[p] = seen[q] /\ p \in 1..Len(seen) /\ q \in 1..Len(seen)
    BY <1>1 DEF QueueIsClaimed
  <1>3. p = q
    BY <1>2 DEF QueueIsClaimed
  <1> QED BY <1>1, <1>3

\* A step that takes wakes off the waiting list and lands none.
LEMMA FewerWaiting ==
  ASSUME TypeOK, OneLandingPerClaim, \A n \in Msgs : Waiting(n)' => Waiting(n),
         UNCHANGED <<claims, landed>>
  PROVE  OneLandingPerClaim'
  <1> SUFFICES ASSUME NEW n \in Msgs
               PROVE  landed[n] + (IF Waiting(n)' THEN 1 ELSE 0) <= claims[n]
    BY DEF OneLandingPerClaim
  <1>1. landed[n] \in Nat /\ claims[n] \in Nat
    BY DEF TypeOK
  <1>2. landed[n] + (IF Waiting(n) THEN 1 ELSE 0) <= claims[n]
    BY DEF OneLandingPerClaim
  <1>3. CASE Waiting(n)'
    <2>1. Waiting(n)
      BY <1>3
    <2> QED BY <1>1, <1>2, <1>3, <2>1
  <1>4. CASE ~Waiting(n)'
    BY <1>1, <1>2, <1>4
  <1> QED BY <1>3, <1>4

\* A step that lands the head of the queue and takes it off the waiting list.
LEMMA HeadLands ==
  ASSUME TypeOK, OneLandingPerClaim, AtHead, Lands, claims' = claims,
         \A n \in Msgs : Waiting(n)' => Waiting(n) /\ n # Head(pending)
  PROVE  OneLandingPerClaim'
  <1> DEFINE h == Head(pending)
  <1>1. pending \in Seq(Msgs) /\ pending # <<>> /\ flight = "none"
    BY DEF TypeOK, AtHead
  <1>2. h \in Msgs /\ Waiting(h)
    <2>1. Len(pending) \in Nat \ {0} /\ h \in Msgs /\ h = pending[1]
      BY <1>1, TailFacts
    <2> QED BY <1>1, <2>1 DEF Waiting
  <1> HIDE DEF h
  <1>3. landed' = [landed EXCEPT ![h] = @ + 1]
    BY DEF Lands, h
  <1> SUFFICES ASSUME NEW n \in Msgs
               PROVE  landed'[n] + (IF Waiting(n)' THEN 1 ELSE 0) <= claims[n]
    BY DEF OneLandingPerClaim
  <1>4. landed[n] \in Nat /\ claims[n] \in Nat
    BY DEF TypeOK
  <1>5. landed[n] + (IF Waiting(n) THEN 1 ELSE 0) <= claims[n]
    BY DEF OneLandingPerClaim
  <1>6. CASE n = h
    <2>1. landed'[n] = landed[n] + 1
      BY <1>2, <1>3, <1>6 DEF TypeOK
    <2>2. ~Waiting(n)' /\ Waiting(n)
      BY <1>2, <1>6 DEF h
    <2> QED BY <1>4, <1>5, <2>1, <2>2
  <1>7. CASE n # h
    <2>1. landed'[n] = landed[n]
      BY <1>3, <1>7 DEF TypeOK
    <2>2. CASE Waiting(n)'
      <3>1. Waiting(n)
        BY <2>2
      <3> QED BY <1>4, <1>5, <2>1, <2>2, <3>1
    <2>3. CASE ~Waiting(n)'
      BY <1>4, <1>5, <2>1, <2>3
    <2> QED BY <2>2, <2>3
  <1> QED BY <1>6, <1>7

\* A shift with nothing in flight, or at the end of a flight.
LEMMA ShiftWaits ==
  ASSUME TypeOK, QueueIsClaimed, Shift, flight' = "none"
  PROVE  /\ \A n \in Msgs : Waiting(n)' => Waiting(n)
         /\ pending # <<>> => \A n \in Msgs : Waiting(n)' => n # Head(pending)
  <1>1. /\ pending \in Seq(Msgs) /\ Len(pending) \in Nat
        /\ \A i \in 1..Len(pending') : pending'[i] = pending[i + 1] /\ i + 1 \in 1..Len(pending)
    BY ShiftFacts DEF TypeOK
  <1>2. ASSUME NEW n \in Msgs, Waiting(n)'
        PROVE  \E i \in 1..Len(pending) : pending[i] = n /\ i # 1
    <2>1. PICK i \in 1..Len(pending') : pending'[i] = n
      BY <1>2 DEF Waiting
    <2>2. pending[i + 1] = n /\ i + 1 \in 1..Len(pending) /\ i + 1 # 1
      BY <1>1, <2>1
    <2> QED BY <2>2
  <1>3. ASSUME NEW n \in Msgs, Waiting(n)'
        PROVE  Waiting(n)
    BY <1>2, <1>3 DEF Waiting
  <1>4. ASSUME pending # <<>>, NEW n \in Msgs, Waiting(n)'
        PROVE  n # Head(pending)
    <2>1. PICK i \in 1..Len(pending) : pending[i] = n /\ i # 1
      BY <1>2, <1>4
    <2>2. Head(pending) = pending[1] /\ 1 \in 1..Len(pending)
      BY <1>1, <1>4, TailFacts
    <2> QED BY <2>1, <2>2, QueuedOnce
  <1> QED BY <1>3, <1>4

\* Where an entry of the queue was before a wake was appended.
LEMMA OneOn ==
  ASSUME NEW p \in Nat, NEW q \in Nat, NEW i \in 1..(q - 1)
  PROVE  (q = p => p - (q - 1) + i = i + 1) /\ (q = p + 1 => p - (q - 1) + i = i)
  OBVIOUS

LEMMA LandingStep ==
  TypeOK /\ QueueIsClaimed /\ OneLandingPerClaim /\ [Next]_vars => OneLandingPerClaim'
  <1> SUFFICES ASSUME TypeOK, QueueIsClaimed, OneLandingPerClaim, [Next]_vars
               PROVE  OneLandingPerClaim'
    OBVIOUS
  <1>0. pending \in Seq(Msgs) /\ Len(pending) \in Nat
    BY DEF TypeOK
  <1>s. ASSUME UNCHANGED <<pending, flight, claims, landed>>
        PROVE  OneLandingPerClaim'
    <2>1. \A n \in Msgs : Waiting(n)' => Waiting(n)
      BY <1>s DEF Waiting
    <2> QED BY <1>s, <2>1, FewerWaiting
  <1>1. ASSUME NEW m \in Msgs, Wake(m)
        PROVE  OneLandingPerClaim'
    <2>1. claims' = [claims EXCEPT ![m] = @ + 1] /\ landed' = landed
      BY <1>1 DEF Wake
    <2>2. ASSUME NEW n \in Msgs, n # m, Waiting(n)'
          PROVE  Waiting(n)
      <3>1. PICK i \in 1..Len(pending') : pending'[i] = n /\ (flight' = "head" => i # 1)
        BY <2>2 DEF Waiting
      <3>2. /\ Len(pending') \in Nat /\ pending'[Len(pending')] = m
            /\ \A l \in 1..(Len(pending') - 1) :
                 /\ pending'[l] = pending[Len(pending) - (Len(pending') - 1) + l]
                 /\ Len(pending) - (Len(pending') - 1) + l \in 1..Len(pending)
            /\ Len(pending) >= MaxPending => Len(pending') = Len(pending)
            /\ Len(pending) < MaxPending => Len(pending') = Len(pending) + 1
        <4>1. pending' \in Seq(Msgs)
          BY <1>1, WakeFacts
        <4>2. Len(pending') \in Nat
          BY <4>1
        <4> QED BY <1>1, <4>2, WakeFacts
      <3>3. i \in 1..(Len(pending') - 1)
        BY <2>2, <3>1, <3>2
      <3> DEFINE j == Len(pending) - (Len(pending') - 1) + i
      <3>4. pending[j] = n /\ j \in 1..Len(pending)
        BY <3>1, <3>2, <3>3
      <3>5. flight = "head" => j # 1
        <4>1. CASE Len(pending) >= MaxPending
          <5>1. j = i + 1
            BY <1>0, <3>1, <3>2, <3>3, <4>1, OneOn
          <5> QED BY <3>1, <5>1
        <4>2. CASE ~(Len(pending) >= MaxPending)
          <5>1. flight' = flight
            BY <1>1, <4>2 DEF Wake
          <5>2. Len(pending) < MaxPending
            BY <1>0, <4>2, DshAssumption
          <5>3. j = i
            BY <1>0, <3>1, <3>2, <3>3, <5>2, OneOn
          <5> QED BY <3>1, <5>1, <5>3
        <4> QED BY <4>1, <4>2
      <3> QED BY <3>4, <3>5 DEF Waiting
    <2> SUFFICES ASSUME NEW n \in Msgs
                 PROVE  landed'[n] + (IF Waiting(n)' THEN 1 ELSE 0) <= claims'[n]
      BY DEF OneLandingPerClaim
    <2>3. landed[n] \in Nat /\ claims[n] \in Nat
      BY DEF TypeOK
    <2>4. landed[n] + (IF Waiting(n) THEN 1 ELSE 0) <= claims[n]
      BY DEF OneLandingPerClaim
    <2>5. CASE n = m
      <3>1. claims'[n] = claims[n] + 1
        BY <2>1, <2>5 DEF TypeOK
      <3>2. landed[n] <= claims[n]
        BY <2>3, <2>4
      <3> QED BY <2>1, <2>3, <3>1, <3>2
    <2>6. CASE n # m
      <3>1. claims'[n] = claims[n]
        BY <2>1, <2>6 DEF TypeOK
      <3>2. CASE Waiting(n)'
        <4>1. Waiting(n)
          BY <2>2, <2>6, <3>2
        <4> QED BY <2>1, <2>3, <2>4, <3>1, <3>2, <4>1
      <3>3. CASE ~Waiting(n)'
        BY <2>1, <2>3, <2>4, <3>1, <3>3
      <3> QED BY <3>2, <3>3
    <2> QED BY <2>5, <2>6
  <1>2. ASSUME NEW m \in Msgs, Duplicate(m)
        PROVE  OneLandingPerClaim'
    BY <1>s, <1>2 DEF Duplicate, queue, past
  <1>3. CASE Drop \/ SpliceFails
    <2>1. Shift /\ flight' = "none" /\ UNCHANGED <<claims, landed>>
      BY <1>3 DEF Drop, SpliceFails, AtHead
    <2> QED BY <2>1, ShiftWaits, FewerWaiting
  <1>4. CASE LandNow
    <2>1. AtHead /\ Lands /\ Shift /\ flight' = "none" /\ claims' = claims /\ pending # <<>>
      BY <1>4 DEF LandNow, AtHead
    <2> QED BY <2>1, ShiftWaits, HeadLands
  <1>5. CASE Splice
    <2>1. AtHead /\ Lands /\ flight' = "head" /\ claims' = claims /\ pending' = pending
          /\ flight = "none" /\ pending # <<>>
      BY <1>5 DEF Splice, AtHead
    <2>2. ASSUME NEW n \in Msgs, Waiting(n)'
          PROVE  Waiting(n) /\ n # Head(pending)
      <3>1. PICK i \in 1..Len(pending) : pending[i] = n /\ i # 1
        BY <2>1, <2>2 DEF Waiting
      <3>2. Head(pending) = pending[1] /\ 1 \in 1..Len(pending)
        BY <1>0, <2>1, TailFacts
      <3>3. n # Head(pending)
        BY <3>1, <3>2, QueuedOnce
      <3> QED BY <2>1, <3>1, <3>3 DEF Waiting
    <2> QED BY <2>1, <2>2, HeadLands
  <1>6. CASE FlushEnds
    <2>1. Shift /\ flight' = "none" /\ UNCHANGED <<claims, landed>>
      BY <1>6 DEF FlushEnds, past
    <2> QED BY <2>1, ShiftWaits, FewerWaiting
  <1>7. CASE Defer \/ Throws \/ DrainEnds \/ TimerFires
    BY <1>s, <1>7 DEF Defer, Throws, DrainEnds, TimerFires, past
  <1>8. CASE Reload
    <2>1. pending' = <<>> /\ UNCHANGED <<claims, landed>>
      BY <1>8 DEF Reload, past
    <2>2. \A n \in Msgs : ~Waiting(n)'
      BY <2>1, EmptyFacts DEF Waiting
    <2> QED BY <2>1, <2>2, FewerWaiting
  <1>9. CASE UNCHANGED vars
    BY <1>s, <1>9 DEF vars, queue, past
  <1> QED BY <1>1, <1>2, <1>3, <1>4, <1>5, <1>6, <1>7, <1>8, <1>9 DEF Next, Attempt, Settles

LEMMA StrandedStep == TypeOK /\ NothingStranded /\ [Next]_vars => NothingStranded'
  <1> SUFFICES ASSUME TypeOK, NothingStranded, [Next]_vars PROVE NothingStranded'
    OBVIOUS
  <1> USE DEF NothingStranded
  <1>1. ASSUME NEW m \in Msgs, Wake(m)
        PROVE  NothingStranded'
    BY <1>1 DEF Wake
  <1>2. ASSUME NEW m \in Msgs, Duplicate(m)
        PROVE  NothingStranded'
    BY <1>2 DEF Duplicate, queue
  <1>3. CASE Drop \/ LandNow \/ Splice \/ SpliceFails
    BY <1>3 DEF Drop, LandNow, Splice, SpliceFails, AtHead
  <1>4. CASE Defer \/ Throws
    BY <1>4 DEF Defer, Throws, Leaves
  <1>5. CASE FlushEnds
    BY <1>5 DEF FlushEnds, TypeOK
  <1>6. CASE DrainEnds \/ TimerFires \/ Reload
    BY <1>6 DEF DrainEnds, TimerFires, Reload
  <1>7. CASE UNCHANGED vars
    BY <1>7 DEF vars, queue
  <1> QED BY <1>1, <1>2, <1>3, <1>4, <1>5, <1>6, <1>7 DEF Next, Attempt, Settles

LEMMA InitFacts == Init => TypeOK /\ QueueIsClaimed /\ OneLandingPerClaim /\ NothingStranded
  <1> SUFFICES ASSUME Init PROVE TypeOK /\ QueueIsClaimed /\ OneLandingPerClaim /\ NothingStranded
    OBVIOUS
  <1>1. seen = <<>> /\ pending = <<>> /\ flight = "none" /\ draining = FALSE /\ timer = FALSE
    BY DEF Init
  <1>2. TypeOK
    <2>1. /\ seen \in Seq(Msgs) /\ Len(seen) <= MaxSeen
          /\ pending \in Seq(Msgs) /\ Len(pending) <= MaxPending
      BY <1>1, EmptyFacts, DshAssumption
    <2>2. posts \in [Msgs -> Nat] /\ claims \in [Msgs -> Nat] /\ landed \in [Msgs -> Nat]
      BY DEF Init
    <2>3. tried \subseteq Msgs /\ reloads \in Nat
      BY DEF Init
    <2> QED BY <1>1, <2>1, <2>2, <2>3 DEF TypeOK
  <1>3. QueueIsClaimed
    BY <1>1, EmptyFacts DEF QueueIsClaimed
  <1>4. OneLandingPerClaim
    <2>1. \A m \in Msgs : ~Waiting(m)
      BY <1>1, EmptyFacts DEF Waiting
    <2>2. \A m \in Msgs : landed[m] = 0 /\ claims[m] = 0
      BY DEF Init
    <2> SUFFICES ASSUME NEW m \in Msgs
                 PROVE  landed[m] + (IF Waiting(m) THEN 1 ELSE 0) <= claims[m]
      BY DEF OneLandingPerClaim
    <2>3. (IF Waiting(m) THEN 1 ELSE 0) = 0
      BY <2>1
    <2> QED BY <2>2, <2>3
  <1>5. NothingStranded
    BY <1>1 DEF NothingStranded
  <1> QED BY <1>2, <1>3, <1>4, <1>5

\* The queue keeps its shape and its limits (MAX_PENDING, MAX_SEEN_IDS).
THEOREM QueueTypeCorrect == Spec => []TypeOK
  BY InitFacts, TypeStep, PTL DEF Spec

\* No wake is queued twice, whatever is evicted, given back or repeated.
THEOREM QueueIsClaimedHolds == Spec => []QueueIsClaimed
  BY InitFacts, TypeStep, QueueStep, PTL DEF Spec

\* One claim, at most one landing.
THEOREM OneLandingPerClaimHolds == Spec => []OneLandingPerClaim
  BY InitFacts, TypeStep, QueueStep, LandingStep, PTL DEF Spec

\* No queued wake is left without a drain loop or a timer.
THEOREM NothingStrandedHolds == Spec => []NothingStranded
  BY InitFacts, TypeStep, StrandedStep, PTL DEF Spec
=============================================================================
