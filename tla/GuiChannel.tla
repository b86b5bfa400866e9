----------------------------- MODULE GuiChannel -----------------------------
(***************************************************************************)
(* The durable outbox for a desktop task (mcp-plugin/codex/gui-channel.ts): *)
(* a delivery is a file, dispatch of it happens under a lock directory, in    *)
(* any process that an authorized desktop host runs.  Processes die, the     *)
(* desktop may accept what it never acknowledges, and a read of the thread   *)
(* is the only proof of delivery.                                            *)
(***************************************************************************)
EXTENDS Naturals, FiniteSets

CONSTANTS Letters, Hosts, None,
          Pages   \* pages of history that dispatch reads, at most

Status == {"pending", "sending", "submitted", "delivered", "uncertain"}
GuiAssumption == None \notin Letters \cup Hosts \cup Status /\ Pages \in Nat \ {0}

VARIABLES letter,    \* status of each delivery on disk, None before enqueue
          held,      \* the lock directory of each delivery: who made it
          host,      \* where each process is in its dispatch
          flying,    \* external: sends that the desktop may still accept
          accepted   \* external: how often the desktop took each prompt

gui == <<letter, held, host, flying, accepted>>

Away == [at |-> "away", id |-> None, page |-> 0]

Enqueue(id) ==
  /\ letter[id] = None /\ letter' = [letter EXCEPT ![id] = "pending"]
  /\ UNCHANGED <<held, host, flying, accepted>>

Reads(h, id, page) == host' = [host EXCEPT ![h] = [at |-> "read", id |-> id, page |-> page]]
\* finally: the lock directory is removed.
Leaves(h) == /\ host' = [host EXCEPT ![h] = Away]
             /\ held' = [held EXCEPT ![host[h].id] = None]

\* dispatch: an existing lock, a refused target and a delivered entry end it at once.
\* Only a pending entry is sent; one found sending was sent by a process that is gone.
Dispatch(h, id) ==
  /\ host[h] = Away /\ held[id] = None /\ letter[id] \notin {None, "delivered"}
  /\ held' = [held EXCEPT ![id] = h]
  /\ IF letter[id] = "pending"
     THEN /\ letter' = [letter EXCEPT ![id] = "sending"]
          /\ host' = [host EXCEPT ![h] = [at |-> "send", id |-> id, page |-> 0]]
          /\ flying' = [flying EXCEPT ![id] = @ + 1]
     ELSE /\ letter' = [letter EXCEPT ![id] = IF @ = "sending" THEN "uncertain" ELSE @]
          /\ Reads(h, id, 1) /\ UNCHANGED flying
  /\ UNCHANGED accepted

\* Mutation of AfterError: an unacknowledged send is tried again.
AfterErrorRetries == "pending"
\* The status that an error or a timeout of the send leaves.
AfterError == "uncertain"

\* The send's outcome; a receipt is written after the desktop accepted.
Sent(h, receipt) ==
  /\ host[h].at = "send"
  /\ receipt => accepted[host[h].id] > 0
  /\ letter' = [letter EXCEPT ![host[h].id] = IF receipt THEN "submitted" ELSE AfterError]
  /\ Reads(h, host[h].id, 1)
  /\ UNCHANGED <<held, flying, accepted>>
\* Neither status can be written: the entry stays as it is.
SaveFails(h) ==
  /\ host[h].at = "send" /\ Leaves(h)
  /\ UNCHANGED <<letter, flying, accepted>>

\* read_thread: the prompt is found, is not on this page, or the read fails.
Found(h) ==
  /\ host[h].at = "read" /\ accepted[host[h].id] > 0
  /\ letter' = [letter EXCEPT ![host[h].id] = "delivered"]
  /\ Leaves(h) /\ UNCHANGED <<flying, accepted>>
NextPage(h) ==
  /\ host[h].at = "read" /\ host[h].page < Pages
  /\ Reads(h, host[h].id, host[h].page + 1)
  /\ UNCHANGED <<letter, held, flying, accepted>>
NotFound(h) ==
  /\ host[h].at = "read" /\ Leaves(h)
  /\ UNCHANGED <<letter, flying, accepted>>

\* A process that dies leaves its lock directory; an operator removes it by hand.
Dies(h) ==
  /\ host[h] # Away /\ host' = [host EXCEPT ![h] = Away]
  /\ UNCHANGED <<letter, held, flying, accepted>>
LockRemoved(id) ==
  /\ held[id] # None /\ host[held[id]].id # id
  /\ held' = [held EXCEPT ![id] = None]
  /\ UNCHANGED <<letter, host, flying, accepted>>

\* External: the desktop accepts a send, before or after the caller gave up on it.
Accepts(id) ==
  /\ flying[id] > 0
  /\ flying' = [flying EXCEPT ![id] = @ - 1]
  /\ accepted' = [accepted EXCEPT ![id] = @ + 1]
  /\ UNCHANGED <<letter, held, host>>

Init ==
  /\ letter = [id \in Letters |-> None] /\ held = [id \in Letters |-> None]
  /\ host = [h \in Hosts |-> Away]
  /\ flying = [id \in Letters |-> 0] /\ accepted = [id \in Letters |-> 0]

Next ==
  \/ \E id \in Letters : Enqueue(id) \/ LockRemoved(id) \/ Accepts(id)
  \/ \E h \in Hosts :
       \/ \E id \in Letters : Dispatch(h, id)
       \/ \E receipt \in BOOLEAN : Sent(h, receipt)
       \/ SaveFails(h) \/ Found(h) \/ NextPage(h) \/ NotFound(h) \/ Dies(h)
=============================================================================
