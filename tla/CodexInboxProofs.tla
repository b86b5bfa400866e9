-------------------------- MODULE CodexInboxProofs --------------------------
(***************************************************************************)
(* The checkpoint of a channel skips nothing, for any number of channels   *)
(* and messages, any page and inbox size and any crashes, as long as no    *)
(* two messages of a channel carry one timestamp.                          *)
(***************************************************************************)
EXTENDS CodexInboxProps, TLAPS

USE DEF hub, conn, lists, marks, pass, inbox

LEMMA InitType == Init => TypeOK
<1> SUFFICES ASSUME Init PROVE TypeOK
  OBVIOUS
<1> USE CodexInboxAssumption DEF Init
<1>1. clock \in Nat \ {0} /\ 0 \in 0..clock
  OBVIOUS
<1>2. stamp \in [Msgs -> 0..clock] /\ mark \in [Chans -> 0..clock] /\ from \in [Chans -> 0..clock]
  BY <1>1
<1>3. open \subseteq taken /\ taken \subseteq Addressed
  BY DEF Bridge!Init
<1> QED
  BY <1>1, <1>2, <1>3 DEF TypeOK

\* Every step keeps the shape of the state.
LEMMA StepType == TypeOK /\ [Next]_vars => TypeOK'
<1> SUFFICES ASSUME TypeOK, [Next]_vars PROVE TypeOK'
  OBVIOUS
<1> USE CodexInboxAssumption DEF TypeOK
<1>1. ASSUME NEW m \in Msgs, Post(m) PROVE TypeOK'
  <2>1. PICK t \in {clock, clock + 1} : clock' = t /\ stamp' = [stamp EXCEPT ![m] = t]
    BY <1>1 DEF Post
  <2>2. clock' \in Nat \ {0} /\ clock <= clock' /\ t \in 0..clock'
    BY <2>1
  <2>3. stamp' \in [Msgs -> 0..clock']
    BY <2>1, <2>2
  <2>4. mark \in [Chans -> 0..clock'] /\ from \in [Chans -> 0..clock']
    BY <2>2
  <2>5. page \subseteq {n \in Msgs : stamp'[n] > 0}
    BY <2>1, <1>1 DEF Post
  <2> QED
    BY <1>1, <2>2, <2>3, <2>4, <2>5 DEF Post
<1>2. ASSUME NEW m \in Msgs, Live(m) PROVE TypeOK'
  BY <1>2 DEF Live, Bridge!Take
<1>3. ASSUME NEW m \in Msgs, Settle(m) PROVE TypeOK'
  BY <1>3 DEF Settle, Bridge!Finish
<1>4. ASSUME NEW c \in Chans, Invite(c) PROVE TypeOK'
  BY <1>4 DEF Invite
<1>5. ASSUME NEW C \in SUBSET Chans, Started(C), UNCHANGED hub
      PROVE /\ mark' \in [Chans -> 0..clock] /\ from' \in [Chans -> 0..clock]
            /\ \A c \in C : mark'[c] > 0
            /\ \A c \in Chans : mark[c] > 0 => mark'[c] > 0
  BY <1>5 DEF Started
<1>6. ASSUME NEW c \in Chans, Created(c) PROVE TypeOK'
  <2>1. watched' = watched \cup {c} /\ Started({c}) /\ UNCHANGED hub
    BY <1>6 DEF Created
  <2>2. /\ mark' \in [Chans -> 0..clock] /\ from' \in [Chans -> 0..clock]
        /\ \A d \in watched' \cup todo \cup asked : mark'[d] > 0
    BY <2>1, <1>5
  <2> QED
    BY <1>6, <2>2 DEF Created
<1>7. ASSUME Listed PROVE TypeOK'
  <2>1. listed \subseteq Chans /\ watched' = listed /\ Started(listed) /\ UNCHANGED hub
    BY <1>7 DEF Listed
  <2>2. /\ mark' \in [Chans -> 0..clock] /\ from' \in [Chans -> 0..clock]
        /\ \A d \in watched' \cup todo \cup asked : mark'[d] > 0
    BY <2>1, <1>5
  <2>3. /\ todo' \subseteq todo \cup listed /\ listing' = "none" /\ listed' = {}
        /\ UNCHANGED <<clock, stamp, member, news, up, starts, link, asked, page, taken, open>>
    BY <2>1, <1>7 DEF Listed
  <2> QED
    BY <2>1, <2>2, <2>3
<1>8. CASE Auth \/ HubLists \/ Drop \/ Sync \/ PassAborts \/ Boot \/ Crash
  <2>1. CASE Auth
    BY <2>1 DEF Auth
  <2>2. CASE HubLists
    BY <2>2 DEF HubLists
  <2>3. CASE Drop
    BY <2>3 DEF Drop
  <2>4. CASE Sync \/ PassAborts
    BY <2>4 DEF Sync, PassAborts
  <2>5. CASE Boot
    BY CodexInboxAssumption, <2>5 DEF Boot
  <2>6. CASE Crash
    BY <2>6 DEF Crash, Gone
  <2> QED
    BY <1>8, <2>1, <2>2, <2>3, <2>4, <2>5, <2>6
<1>9. ASSUME NEW c \in Chans, Fetch(c) \/ NoPage(c) \/ PageDropped(c) PROVE TypeOK'
  BY <1>9 DEF Fetch, NoPage, PageDropped
<1>10. ASSUME NEW c \in Chans, Serve(c) PROVE TypeOK'
  BY <1>10 DEF Serve, Posted, Prefix
<1>11. ASSUME NEW S \in SUBSET New(page), Bridge!Take(S)
       PROVE open' \subseteq taken' /\ taken' \subseteq Addressed
  BY <1>11 DEF Bridge!Take, New
<1>12. ASSUME NEW c \in Chans, PageDone(c) PROVE TypeOK'
  <2>1. open' \subseteq taken' /\ taken' \subseteq Addressed
    BY <1>11, <1>12 DEF PageDone
  <2>2. \A n \in page : stamp[n] \in 0..clock /\ stamp[n] > 0
    OBVIOUS
  <2>3. mark' \in [Chans -> 0..clock] /\ \A d \in watched \cup todo \cup asked : mark'[d] > 0
    BY <2>2, <1>12 DEF PageDone, LastRow
  <2> QED
    BY <1>12, <2>1, <2>3 DEF PageDone
<1>13. ASSUME NEW c \in Chans, PageCut(c) PROVE TypeOK'
  <2>1. open' \subseteq taken' /\ taken' \subseteq Addressed
    BY <1>11, <1>13 DEF PageCut
  <2> QED
    BY <1>13, <2>1 DEF PageCut, Gone
<1>14. CASE UNCHANGED vars
  BY <1>14 DEF vars
<1> QED
  BY <1>1, <1>2, <1>3, <1>4, <1>6, <1>7, <1>8, <1>9, <1>10, <1>12, <1>13, <1>14 DEF Next, Row

\* The inbox's intake has its type in every reachable state.
THEOREM IntakeTypeCorrect == Spec => []TypeOK
  BY InitType, StepType, PTL DEF Spec

-----------------------------------------------------------------------------
Inv == TypeOK /\ IntakeInv /\ PassedMeansTaken

LEMMA InitInv == Init => Inv
<1> SUFFICES ASSUME Init PROVE Inv
  OBVIOUS
<1>1. asked = {} /\ page = {}
  BY DEF Init
<1>2. \A m \in Msgs : stamp[m] = 0 /\ mark[Chan[m]] = 0
  BY CodexInboxAssumption DEF Init
<1>3. \A c \in Chans : mark[c] = 0 /\ from[c] = 0
  BY DEF Init
<1>4. IntakeInv
  BY <1>1, <1>2, <1>3 DEF IntakeInv, PageIsPrefix, StampsDiffer, FromBeforeMark, OneChannelAsked
<1>5. PassedMeansTaken
  BY CodexInboxAssumption, <1>2 DEF PassedMeansTaken
<1> QED
  BY <1>4, <1>5, InitType DEF Inv

\* A step that leaves the messages, checkpoints and rows alone keeps all of it.
LEMMA Frame ==
  ASSUME IntakeInv, PassedMeansTaken, taken \subseteq taken',
         UNCHANGED <<stamp, mark, from>>, asked' \subseteq asked,
         page' \subseteq page, page' = page \/ page' = {}
  PROVE  IntakeInv' /\ PassedMeansTaken'
  BY DEF IntakeInv, PageIsPrefix, StampsDiffer, FromBeforeMark, OneChannelAsked,
         PassedMeansTaken

\* A new checkpoint starts at "now": no message is between its start and itself.
LEMMA StartedKeeps ==
  ASSUME TypeOK, IntakeInv, PassedMeansTaken, NEW C \in SUBSET Chans, Started(C),
         UNCHANGED <<clock, stamp, asked, page, taken>>
  PROVE  IntakeInv' /\ PassedMeansTaken'
<1>1. \A c \in Chans : \/ mark'[c] = mark[c] /\ from'[c] = from[c]
                       \/ mark[c] = 0 /\ mark'[c] = clock /\ from'[c] = clock
  BY DEF Started
<1>2. \A c \in asked : c \in Chans /\ mark'[c] = mark[c]
  BY <1>1 DEF TypeOK
<1>3. clock > 0 /\ \A m \in Msgs : Chan[m] \in Chans
  BY CodexInboxAssumption DEF TypeOK
<1>4. PageIsPrefix'
  BY <1>2 DEF IntakeInv, PageIsPrefix
<1>5. FromBeforeMark'
  BY <1>1, <1>3 DEF IntakeInv, FromBeforeMark, TypeOK
<1>6. StampsDiffer' /\ OneChannelAsked'
  BY DEF IntakeInv, StampsDiffer, OneChannelAsked
<1>7. PassedMeansTaken'
  <2> SUFFICES ASSUME NEW m \in Addressed, mark'[Chan[m]] > 0, from'[Chan[m]] < stamp[m],
                      stamp[m] <= mark'[Chan[m]]
               PROVE  m \in taken
    BY DEF PassedMeansTaken
  <2>1. m \in Msgs /\ Chan[m] \in Chans /\ stamp[m] \in Nat
    BY CodexInboxAssumption DEF TypeOK
  <2>2. mark'[Chan[m]] = mark[Chan[m]] /\ from'[Chan[m]] = from[Chan[m]]
    BY <1>1, <2>1 DEF TypeOK
  <2> QED
    BY <2>2 DEF PassedMeansTaken
<1> QED
  BY <1>4, <1>5, <1>6, <1>7 DEF IntakeInv

\* A message is posted behind everything that is there.
LEMMA PostKeeps ==
  ASSUME ~Ties, TypeOK, IntakeInv, PassedMeansTaken, NEW p \in Msgs, Post(p)
  PROVE  IntakeInv' /\ PassedMeansTaken'
<1>1. clock' = clock + 1 /\ stamp' = [stamp EXCEPT ![p] = clock + 1] /\ stamp[p] = 0
  BY DEF Post
<1>2. UNCHANGED <<mark, from, asked, page, taken>>
  BY DEF Post
<1>3. /\ clock \in Nat /\ \A m \in Msgs : stamp[m] \in 0..clock /\ Chan[m] \in Chans
      /\ \A c \in Chans : mark[c] \in 0..clock /\ from[c] \in 0..clock
  BY CodexInboxAssumption DEF TypeOK
<1>4. stamp'[p] = clock + 1 /\ \A m \in Msgs : m # p => stamp'[m] = stamp[m]
  BY <1>1 DEF TypeOK
<1>5. p \notin page /\ page \subseteq Msgs
  BY <1>1 DEF TypeOK
<1>6. PageIsPrefix'
  BY <1>2, <1>3, <1>4, <1>5 DEF IntakeInv, PageIsPrefix
<1>7. StampsDiffer'
  BY <1>3, <1>4 DEF IntakeInv, StampsDiffer
<1>8. FromBeforeMark' /\ OneChannelAsked'
  BY <1>2 DEF IntakeInv, FromBeforeMark, OneChannelAsked
<1>9. PassedMeansTaken'
  BY CodexInboxAssumption, <1>2, <1>3, <1>4 DEF PassedMeansTaken
<1> QED
  BY <1>6, <1>7, <1>8, <1>9 DEF IntakeInv

\* The rows of a page are an initial part of what lies behind the checkpoint.
LEMMA ServeKeeps ==
  ASSUME TypeOK, IntakeInv, PassedMeansTaken, NEW c \in Chans, Serve(c)
  PROVE  IntakeInv' /\ PassedMeansTaken'
<1>1. /\ asked = {c} /\ asked' = {c}
      /\ UNCHANGED <<stamp, mark, from, taken>>
  BY DEF Serve
<1>2. PICK S : /\ Prefix(S, {m \in Posted(c) : stamp[m] > mark[c]}) /\ page' = S
  BY DEF Serve
<1>3. \A n \in S : n \in Msgs /\ Chan[n] = c /\ stamp[n] > mark[c]
  BY <1>2 DEF Prefix, Posted
<1>4. \A m \in Msgs \ S, n \in S : Chan[m] = c /\ stamp[m] > mark[c] => stamp[m] >= stamp[n]
  <2> SUFFICES ASSUME NEW m \in Msgs \ S, NEW n \in S, Chan[m] = c, stamp[m] > mark[c]
               PROVE  stamp[m] >= stamp[n]
    OBVIOUS
  <2>1. m \in Posted(c) /\ stamp[m] \in Nat /\ stamp[n] \in Nat
    BY <1>3 DEF Posted, TypeOK
  <2> QED
    BY <1>2, <2>1 DEF Prefix
<1>5. PageIsPrefix'
  BY <1>1, <1>2, <1>3, <1>4 DEF PageIsPrefix
<1> QED
  BY <1>1, <1>5 DEF IntakeInv, StampsDiffer, FromBeforeMark, OneChannelAsked, PassedMeansTaken

\* The checkpoint jumps to the last row: every message it passes is a row, or
\* would have to carry the last row's timestamp.
LEMMA PageDoneKeeps ==
  ASSUME ~Ties, TypeOK, IntakeInv, PassedMeansTaken, NEW c \in Chans, PageDone(c)
  PROVE  IntakeInv' /\ PassedMeansTaken'
<1>1. /\ asked = {c} /\ asked' = {} /\ page # {} /\ page' = {} /\ UNCHANGED <<stamp, from>>
      /\ page \subseteq Msgs
  BY DEF PageDone, TypeOK
<1>2. PICK S \in SUBSET New(page) :
        /\ taken' = taken \cup S
        /\ \/ mark' = mark
           \/ S = New(page) /\ \E n \in page : LastRow(n) /\ mark' = [mark EXCEPT ![c] = stamp[n]]
  BY DEF PageDone, Bridge!Take
<1>3. CASE mark' = mark
  BY <1>1, <1>2, <1>3, Frame
<1>4. CASE S = New(page) /\ \E n \in page : LastRow(n) /\ mark' = [mark EXCEPT ![c] = stamp[n]]
  <2>1. PICK n \in page : LastRow(n) /\ mark' = [mark EXCEPT ![c] = stamp[n]]
    BY <1>4
  <2>2. /\ Chan[n] = c /\ stamp[n] > mark[c] /\ n \in Msgs
        /\ stamp[n] \in Nat /\ mark[c] \in Nat /\ mark'[c] = stamp[n]
        /\ \A d \in Chans : d # c => mark'[d] = mark[d]
    BY <1>1, <2>1 DEF IntakeInv, PageIsPrefix, TypeOK
  <2>3. FromBeforeMark'
    BY <1>1, <2>2 DEF IntakeInv, FromBeforeMark, TypeOK
  <2>4. PassedMeansTaken'
    <3> SUFFICES ASSUME NEW m \in Addressed, mark'[Chan[m]] > 0,
                        from[Chan[m]] < stamp[m], stamp[m] <= mark'[Chan[m]]
                 PROVE  m \in taken'
      BY <1>1 DEF PassedMeansTaken
    <3>1. m \in Msgs /\ Chan[m] \in Chans /\ stamp[m] \in Nat
      BY CodexInboxAssumption DEF TypeOK
    <3>2. CASE mark[Chan[m]] > 0 /\ stamp[m] <= mark[Chan[m]]
      BY <1>2, <3>2 DEF PassedMeansTaken
    <3>3. CASE Chan[m] = c /\ stamp[m] > mark[c]
      <4>1. CASE m \in page
        BY <1>2, <1>4, <4>1 DEF New
      <4>2. CASE m \notin page
        <5>1. stamp[m] >= stamp[n]
          BY <1>1, <3>1, <3>3, <4>2 DEF IntakeInv, PageIsPrefix
        <5>2. stamp[m] = stamp[n] /\ stamp[m] > 0
          BY <2>2, <3>1, <3>3, <5>1
        <5>3. m = n
          BY <2>2, <3>1, <3>3, <5>2 DEF IntakeInv, StampsDiffer
        <5> QED
          BY <4>2, <5>3
      <4> QED
        BY <4>1, <4>2
    <3>4. mark[c] > 0
      BY <1>1 DEF TypeOK
    <3> QED
      BY <2>2, <3>1, <3>2, <3>3, <3>4
  <2> QED
    BY <1>1, <2>3, <2>4 DEF IntakeInv, PageIsPrefix, StampsDiffer, OneChannelAsked
<1> QED
  BY <1>2, <1>3, <1>4

LEMMA StepInv == ASSUME ~Ties PROVE Inv /\ [Next]_vars => Inv'
<1> SUFFICES ASSUME Inv, [Next]_vars PROVE IntakeInv' /\ PassedMeansTaken'
  BY StepType DEF Inv
<1>0. TypeOK /\ IntakeInv /\ PassedMeansTaken
  BY DEF Inv
<1>1. ASSUME NEW m \in Msgs, Post(m) PROVE IntakeInv' /\ PassedMeansTaken'
  BY <1>0, <1>1, PostKeeps
<1>2. ASSUME NEW m \in Msgs, Live(m) \/ Settle(m) PROVE IntakeInv' /\ PassedMeansTaken'
  BY <1>0, <1>2, Frame DEF Live, Settle, Bridge!Take, Bridge!Finish
<1>3. ASSUME NEW c \in Chans, Invite(c) PROVE IntakeInv' /\ PassedMeansTaken'
  BY <1>0, <1>3, Frame DEF Invite
<1>4. ASSUME NEW c \in Chans, Created(c) PROVE IntakeInv' /\ PassedMeansTaken'
  <2>1. {c} \in SUBSET Chans /\ Started({c}) /\ UNCHANGED <<clock, stamp, asked, page, taken>>
    BY <1>4 DEF Created
  <2> QED
    BY <1>0, <2>1, StartedKeeps
<1>5. ASSUME Listed PROVE IntakeInv' /\ PassedMeansTaken'
  <2>1. listed \in SUBSET Chans /\ Started(listed) /\ UNCHANGED <<clock, stamp, asked, page, taken>>
    BY <1>0, <1>5 DEF Listed, TypeOK
  <2> QED
    BY <1>0, <2>1, StartedKeeps
<1>6. CASE Auth \/ HubLists \/ Drop \/ Sync \/ PassAborts \/ Boot \/ Crash
  BY <1>0, <1>6, Frame DEF Auth, HubLists, Drop, Sync, PassAborts, Boot, Crash, Gone
<1>7. ASSUME NEW c \in Chans, NoPage(c) \/ PageDropped(c) PROVE IntakeInv' /\ PassedMeansTaken'
  BY <1>0, <1>7, Frame DEF NoPage, PageDropped
<1>8. ASSUME NEW c \in Chans, Fetch(c) PROVE IntakeInv' /\ PassedMeansTaken'
  BY <1>0, <1>8 DEF Fetch, IntakeInv, PageIsPrefix, StampsDiffer, FromBeforeMark,
                    OneChannelAsked, PassedMeansTaken
<1>9. ASSUME NEW c \in Chans, Serve(c) PROVE IntakeInv' /\ PassedMeansTaken'
  BY <1>0, <1>9, ServeKeeps
<1>10. ASSUME NEW c \in Chans, PageDone(c) PROVE IntakeInv' /\ PassedMeansTaken'
  BY <1>0, <1>10, PageDoneKeeps
<1>11. ASSUME NEW c \in Chans, PageCut(c) PROVE IntakeInv' /\ PassedMeansTaken'
  BY <1>0, <1>11, Frame DEF PageCut, Gone, Bridge!Take
<1>12. CASE UNCHANGED vars
  BY <1>0, <1>12, Frame DEF vars
<1> QED
  BY <1>1, <1>2, <1>3, <1>4, <1>5, <1>6, <1>7, <1>8, <1>9, <1>10, <1>11, <1>12 DEF Next, Row

\* As long as timestamps differ, a checkpoint never passes a message addressed
\* to the bot that the journal does not hold.
THEOREM NothingSkipped == ASSUME ~Ties PROVE Spec => []PassedMeansTaken
<1>1. Inv /\ [Next]_vars => Inv'
  BY StepInv
<1>2. Inv => PassedMeansTaken
  BY DEF Inv
<1> QED
  BY <1>1, <1>2, InitInv, PTL DEF Spec
=============================================================================
