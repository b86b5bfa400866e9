-------------------------- MODULE DshInboundProps --------------------------
(***************************************************************************)
(* Correctness of the DSH wake queue.                                      *)
(***************************************************************************)
EXTENDS DshInbound

\* Shape of the state; the queue and the claims stay within their limits, and
\* only a drain loop awaits a flush.
TypeOK ==
  /\ seen \in Seq(Msgs) /\ Len(seen) <= MaxSeen
  /\ pending \in Seq(Msgs) /\ Len(pending) <= MaxPending
  /\ draining \in BOOLEAN /\ timer \in BOOLEAN
  /\ flight \in {"none", "head", "gone"}
  /\ flight # "none" => draining
  /\ flight = "head" => pending # <<>>
  /\ posts \in [Msgs -> Nat] /\ reloads \in Nat
  /\ claims \in [Msgs -> Nat] /\ landed \in [Msgs -> Nat]
  /\ tried \subseteq Msgs

\* What is queued are the youngest claims, in order, and no id is claimed twice:
\* hence no wake is queued twice, however often the daemon repeats it and
\* however many claims are evicted (firstDelivery, forgetDelivery).
QueueIsClaimed ==
  /\ Len(pending) <= Len(seen)
  /\ \A i \in 1..Len(pending) : pending[i] = seen[Len(seen) - Len(pending) + i]
  /\ \A i, j \in 1..Len(seen) : seen[i] = seen[j] => i = j

\* m is queued and its attempt, if any, has not landed.
Waiting(m) == \E i \in 1..Len(pending) : pending[i] = m /\ (flight = "head" => i # 1)

\* A claim is good for one landing, and a wake still to be attempted has a claim
\* of its own left: a retry timer, an overflow or a slow flush never delivers one
\* claimed wake twice.
OneLandingPerClaim ==
  \A m \in Msgs : landed[m] + (IF Waiting(m) THEN 1 ELSE 0) <= claims[m]

\* Queued wakes are being drained, or a timer will see to it (drain's finally).
NothingStranded == pending # <<>> => draining \/ timer

\* "Bounded, not lossless: drop the oldest so the newest inbound [...] still gets
\* delivered" (inject): a wake that leaves the queue untried does so in the step
\* in which a new one arrives.
OnlyOverflowDrops ==
  [][\A m \in Queued : m \notin Queued' => m \in tried' \/ posts' # posts]_vars

\* Every queued wake leaves the queue in the end.
Served == \A m \in Msgs : (m \in Queued) ~> (m \notin Queued)
=============================================================================
