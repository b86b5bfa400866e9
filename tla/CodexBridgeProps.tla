-------------------------- MODULE CodexBridgeProps --------------------------
(***************************************************************************)
(* Correctness of the Codex bridge's inbox.                                *)
(***************************************************************************)
EXTENDS CodexBridge

\* Shape of the state.
TypeOK ==
  /\ entries \in Seq(Entry)
  /\ permits \subseteq Msgs
  /\ phase \in {"down", "boot", "up", "stopping"}
  /\ at \in Sync \cup Awaiting \cup {"idle"}
  /\ phase \in {"down", "boot"} => at = "idle"
  /\ cur \in Nat
  /\ IF at \in {"idle", "pick"} THEN cur = 0 ELSE cur \in DOMAIN entries
  /\ retry \in BOOLEAN
  /\ retry => phase = "up"
  /\ starts \in Nat
  /\ turns \in [Msgs -> Nat]
  /\ written \in [Msgs -> Nat]
  /\ posted \in [Msgs -> Nat]

\* No message gets two replies in its channel, whatever crashes, lost
\* acknowledgements and restarts do (bridge.ts run, send and the constructor).
AtMostOneReply == \A m \in Msgs : posted[m] <= 1

\* No message, and no tick of a loop under a second message id, is run by the
\* model twice: an interrupted turn is never repeated after a restart.
OneTurnPerTask ==
  \A m, n \in Msgs : turns[m] > 0 /\ turns[n] > 0 /\ SameWork(m, n) => m = n /\ turns[m] = 1

\* The journal is truthful at every moment, also as a crash would leave it: a
\* sent entry has its reply posted, and an entry in a status that the code or
\* the operator may still resend or has given up has handed nothing to the net.
JournalTruthful ==
  \A i \in DOMAIN entries :
    LET m == entries[i].msg IN
      /\ entries[i].status = "sent" => posted[m] = 1
      /\ entries[i].status \notin {"sending", "sent", "uncertain"} => written[m] = 0

\* Messages are worked on in the order they were accepted: nothing behind an
\* unfinished entry has been started, across retries and restarts too.
ArrivalOrder ==
  \A i, j \in DOMAIN entries :
    i < j /\ entries[i].status \in Active => entries[j].status = "pending"

\* The bridge is the inbox CodexInbox is built on: each message enters the
\* journal once, only while fewer than Cap are unfinished, and a finished one is
\* never opened again, by a retry, a restart or the settling of a crash.
Inbox == INSTANCE Intake WITH taken <- {entries[i].msg : i \in DOMAIN entries},
                              open  <- {entries[i].msg : i \in With(Active)}
FillsIntake == Inbox!Spec

\* No lost wake-up: with the process up, no drain loop running and no retry
\* timer armed, nothing is waiting.
NothingStranded == phase = "up" /\ at = "idle" /\ ~retry => Runnable = {}

\* ---- The inductive invariant behind the safety properties. ----
\* The drain loop's place and the status of the entry in its hands agree.
LoopHoldsEntry ==
  /\ at \in {"verify", "prepare", "turn"} => entries[cur].status = "running"
  /\ at = "toSend" => entries[cur].status = "ready"
  /\ at \in {"write", "send"} => entries[cur].status = "sending"

\* Only that entry is running or sending; after a crash one may still be so.
OneInHand ==
  \A i \in DOMAIN entries :
    /\ entries[i].status = "running" =>
         phase = "down" \/ (at \in {"verify", "prepare", "turn"} /\ cur = i)
    /\ entries[i].status = "sending" =>
         phase = "down" \/ (at \in {"write", "send"} /\ cur = i)

\* The journal holds each piece of work once.
NoDuplicates ==
  \A i, j \in DOMAIN entries : SameWork(entries[i].msg, entries[j].msg) => i = j

\* What was done for an entry agrees with its status and the loop's place.
WorkMatches ==
  \A i \in DOMAIN entries :
    LET m == entries[i].msg
        s == entries[i].status IN
      /\ s = "pending" \/ (at \in {"verify", "prepare"} /\ cur = i) => turns[m] = 0
      /\ s \notin {"sending", "sent", "uncertain"} \/ (at = "write" /\ cur = i) => written[m] = 0
      /\ at = "send" /\ cur = i => written[m] = 1
      /\ s = "sent" => posted[m] = 1

\* Nothing is done for a message that is not in the journal, and never twice.
WorkBounded ==
  \A m \in Msgs :
    /\ turns[m] <= 1 /\ written[m] <= 1 /\ posted[m] <= written[m]
    /\ (\A i \in DOMAIN entries : entries[i].msg # m) => turns[m] = 0 /\ written[m] = 0

\* Together with TypeOK these are preserved by every step of the bridge; they
\* say why neither a crash nor a restart can make the loop repeat its work.
InboxInv == LoopHoldsEntry /\ OneInHand /\ NoDuplicates /\ WorkMatches /\ WorkBounded

\* Every accepted message is settled in the end.
AcceptedSettles ==
  \A m \in Msgs : (\E i \in DOMAIN entries : entries[i].msg = m)
               ~> (\E i \in DOMAIN entries : entries[i].msg = m /\ entries[i].status \in Settled)

\* What the journal says of a message, in the vocabulary of ReplyOnce.
Fate(s) == CASE s \in Active -> "open"
             [] s = "sent" -> "replied"
             [] s = "uncertain" -> "unknown"
             [] OTHER -> "none"
FateOf(m) == IF \E i \in DOMAIN entries : entries[i].msg = m
             THEN Fate(entries[CHOOSE i \in DOMAIN entries : entries[i].msg = m].status)
             ELSE "unseen"

\* The bridge keeps the promise of ReplyOnce.
Promise == INSTANCE ReplyOnce WITH fate <- [m \in Msgs |-> FateOf(m)],
                                   tries <- written, deliveries <- posted
KeepsPromise == Promise!Spec
=============================================================================
