-------------------------- MODULE CodexInboxProps --------------------------
(***************************************************************************)
(* Correctness of the Codex bridge's intake: nothing is skipped.           *)
(***************************************************************************)
EXTENDS CodexInbox

\* Shape of the state; a checkpoint never lies in the future of the hub.
TypeOK ==
  /\ clock \in Nat \ {0} /\ stamp \in [Msgs -> 0..clock]
  /\ member \subseteq Chans /\ news \subseteq member
  /\ up \in BOOLEAN /\ link \in BOOLEAN /\ starts \in Nat
  /\ listing \in {"none", "asked", "served"} /\ listed \subseteq member
  /\ watched \subseteq Chans
  /\ mark \in [Chans -> 0..clock] /\ from \in [Chans -> 0..clock]
  /\ \A c \in watched \cup todo \cup asked : mark[c] > 0
  /\ todo \subseteq Chans /\ asked \subseteq Chans
  /\ page \subseteq {m \in Msgs : stamp[m] > 0}
  /\ open \subseteq taken /\ taken \subseteq Addressed
  /\ link => up

\* The checkpoint of a channel never passes an addressed message the journal
\* does not hold: whatever was lost live, refused by a full inbox or cut off by
\* a crash between two rows is still ahead of it (inbox-sync.ts run).
PassedMeansTaken ==
  \A m \in Addressed :
    LET c == Chan[m] IN
      mark[c] > 0 /\ from[c] < stamp[m] /\ stamp[m] <= mark[c] => m \in taken

\* Every addressed message posted after the bot first watched its channel gets
\* into the journal, whatever is lost on the way, unless the channel drops out of the
\* watched ones for good (a list older than the invitation does that).
Recovered ==
  \A m \in Addressed :
    []<>(Chan[m] \in watched) =>
      ((mark[Chan[m]] > 0 /\ from[Chan[m]] < stamp[m]) ~> (m \in taken))

\* ---- The inductive invariant behind PassedMeansTaken. ----
\* A page on its way is an initial part of what lies behind the checkpoint: no
\* message of the channel is older than a row of the page and newer than the
\* checkpoint without being a row itself.
PageIsPrefix ==
  \A c \in asked : page # {} =>
    /\ \A m \in page : Chan[m] = c /\ stamp[m] > mark[c]
    /\ \A m \in Msgs \ page, n \in page :
         Chan[m] = c /\ stamp[m] > mark[c] => stamp[m] >= stamp[n]

\* Without ties a timestamp names a message of its channel.
StampsDiffer ==
  ~Ties => \A m, n \in Msgs : Chan[m] = Chan[n] /\ stamp[m] = stamp[n] /\ stamp[m] > 0 => m = n

\* A channel's first checkpoint is not after its current one.
FromBeforeMark == \A c \in Chans : from[c] <= mark[c] /\ (mark[c] > 0 => from[c] > 0)

OneChannelAsked == \A c, d \in asked : c = d

\* With TypeOK and PassedMeansTaken preserved by every step (if ~Ties): why a
\* checkpoint that jumps over a whole page jumps over nothing else.
IntakeInv == PageIsPrefix /\ StampsDiffer /\ FromBeforeMark /\ OneChannelAsked
=============================================================================
