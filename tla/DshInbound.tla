----------------------------- MODULE DshInbound -----------------------------
(***************************************************************************)
(* The wake queue of the DSH inbound plugin                                *)
(* (mcp-plugin/dsh/inbound-bridge/index.js): signed wakes are claimed by   *)
(* message id, queued, and delivered one after the other into the session  *)
(* they are bound to.                                                      *)
(*                                                                         *)
(* One action is one stretch of code between two awaits.  The state of the *)
(* sessions is the host's: every outcome of an attempt is possible at every*)
(* attempt.                                                                *)
(***************************************************************************)
EXTENDS Naturals, Sequences

CONSTANTS Msgs,
          MaxPending,    \* queued wakes (100)
          MaxSeen,       \* remembered claims (200)
          MaxWakes,      \* bound: posts of one wake
          MaxReloads     \* bound: reloads of the plugin

ASSUME DshAssumption == /\ MaxPending \in Nat \ {0} /\ MaxSeen \in Nat
                        /\ MaxPending <= MaxSeen
                        /\ MaxWakes \in Nat /\ MaxReloads \in Nat

VARIABLES seen,       \* claimed ids, oldest first; survives a reload
          pending,    \* queued wakes, oldest first
          draining,   \* a drain loop is at work
          flight,     \* the attempt whose flush is awaited: "none", of the queue's
                      \* "head", or of an entry no longer queued: "gone"
          timer,      \* the retry timer is armed
          posts, reloads,        \* wakes received; reloads
          claims, landed, tried  \* history: claims and landings of a message, and
                                 \* whether it was attempted since it was queued

queue == <<seen, pending, draining, flight, timer>>
bound == <<posts, reloads>>
past  == <<claims, landed, tried>>
vars  == <<queue, bound, past>>

Queued     == {pending[i] : i \in 1..Len(pending)}
Claimed(m) == \E i \in 1..Len(seen) : seen[i] = m

\* firstDelivery remembers an id at the cost of the oldest.
Remembered(m) == LET s == Append(seen, m) IN IF Len(s) > MaxSeen THEN Tail(s) ELSE s

\* forgetDelivery: seen without its k-th element.
Without(k) == [i \in 1..(Len(seen) - 1) |-> IF i < k THEN seen[i] ELSE seen[i + 1]]
Forget(m)  == IF Claimed(m)
              THEN \E k \in 1..Len(seen) : seen[k] = m /\ seen' = Without(k)
              ELSE seen' = seen

\* A drain loop runs without a break up to the next flush.
Quiet  == draining => flight # "none"
AtHead == draining /\ flight = "none" /\ pending # <<>>

-----------------------------------------------------------------------------

\* inject: a wake is claimed and queued, at the cost of the oldest if the queue
\* is full, and the queue is drained.
Wake(m) ==
  /\ Quiet /\ posts[m] < MaxWakes /\ ~Claimed(m)
  /\ posts' = [posts EXCEPT ![m] = @ + 1]
  /\ seen' = Remembered(m) /\ claims' = [claims EXCEPT ![m] = @ + 1]
  /\ tried' = tried \ {m} /\ draining' = TRUE
  /\ LET full == Len(pending) >= MaxPending IN
       /\ pending' = Append(IF full THEN Tail(pending) ELSE pending, m)
       /\ flight' = IF full /\ flight = "head" THEN "gone" ELSE flight
  /\ UNCHANGED <<timer, reloads, landed>>

Duplicate(m) ==
  /\ Quiet /\ posts[m] < MaxWakes /\ Claimed(m)
  /\ posts' = [posts EXCEPT ![m] = @ + 1]
  /\ UNCHANGED <<queue, reloads, past>>

-----------------------------------------------------------------------------
\* attempt(pending[0]).
Tries  == tried' = tried \cup {Head(pending)}
Lands  == landed' = [landed EXCEPT ![Head(pending)] = @ + 1]
Shift  == pending' = IF pending = <<>> THEN <<>> ELSE Tail(pending)
\* drain's finally: the loop is over, and what is left is tried later.
Leaves == draining' = FALSE /\ timer' = TRUE

\* No session is bound, or it is not live.
Drop == /\ AtHead /\ Tries /\ Shift
        /\ UNCHANGED <<seen, draining, flight, timer, bound, claims, landed>>

\* Steered into the running turn; or spliced, with no session log to flush.
LandNow == /\ AtHead /\ Tries /\ Lands /\ Shift
           /\ UNCHANGED <<seen, draining, flight, timer, bound, claims>>

\* Spliced into an idle session; the flush of its log is awaited.
Splice == /\ AtHead /\ Tries /\ Lands
          /\ flight' = "head"
          /\ UNCHANGED <<seen, pending, draining, timer, bound, claims>>

\* followup threw: the claim is given back.
SpliceFails == /\ AtHead /\ Tries /\ Shift /\ Forget(Head(pending))
               /\ UNCHANGED <<draining, flight, timer, bound, claims, landed>>

\* The session is busy and cannot be steered.
Defer == /\ AtHead /\ Tries /\ Leaves
         /\ UNCHANGED <<seen, pending, flight, bound, claims, landed>>

\* Mutation of Throws: the retry is armed at the end of the try block.
ThrowsUnscheduled == /\ AtHead /\ Tries /\ draining' = FALSE
                     /\ UNCHANGED <<seen, pending, flight, timer, bound, claims, landed>>

\* attempt threw.
Throws == /\ AtHead /\ Tries /\ Leaves
          /\ UNCHANGED <<seen, pending, flight, bound, claims, landed>>

\* The flush settled, failed or timed out; whatever is in front is shifted.
FlushEnds == /\ flight # "none" /\ flight' = "none" /\ Shift
             /\ UNCHANGED <<seen, draining, timer, bound, past>>

DrainEnds == /\ draining /\ flight = "none" /\ pending = <<>>
             /\ draining' = FALSE
             /\ UNCHANGED <<seen, pending, flight, timer, bound, past>>

-----------------------------------------------------------------------------
\* Mutation of TimerFires: drain does not look at its flag.
TimerFiresAnyway == /\ Quiet /\ timer /\ timer' = FALSE
                    /\ draining' = TRUE /\ flight' = "none"
                    /\ UNCHANGED <<seen, pending, bound, past>>

\* The retry timer starts a drain, unless one is at work.
TimerFires == /\ Quiet /\ timer /\ timer' = FALSE /\ draining' = TRUE
              /\ UNCHANGED <<seen, pending, flight, bound, past>>

\* The plugin is disposed of and applied again; the module is not loaded again,
\* so that its claims stay.
Reload == /\ Quiet /\ reloads < MaxReloads
          /\ reloads' = reloads + 1
          /\ pending' = <<>> /\ draining' = FALSE /\ flight' = "none" /\ timer' = FALSE
          /\ UNCHANGED <<seen, posts, past>>

Init == /\ seen = <<>> /\ pending = <<>> /\ draining = FALSE /\ flight = "none"
        /\ timer = FALSE /\ reloads = 0 /\ tried = {}
        /\ posts = [m \in Msgs |-> 0]
        /\ claims = [m \in Msgs |-> 0] /\ landed = [m \in Msgs |-> 0]

Settles == Drop \/ LandNow \/ Splice \/ SpliceFails
Attempt == Settles \/ Defer \/ Throws

Next == \/ \E m \in Msgs : Wake(m) \/ Duplicate(m)
        \/ Attempt \/ FlushEnds \/ DrainEnds \/ TimerFires \/ Reload

Spec == Init /\ [][Next]_vars

\* Timers fire, a flush has a deadline, code runs; and a busy session is found
\* idle, steerable or gone by one of many retries.
Fairness == /\ WF_vars(Attempt) /\ WF_vars(FlushEnds) /\ WF_vars(DrainEnds)
            /\ WF_vars(TimerFires) /\ SF_vars(Settles)

FairSpec == Spec /\ Fairness
=============================================================================
