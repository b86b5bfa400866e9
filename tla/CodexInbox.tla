----------------------------- MODULE CodexInbox -----------------------------
(***************************************************************************)
(* How messages reach the Codex bridge: live frames of the socket          *)
(* (mcp-plugin/codex/transport.ts) and pages of the hub's history, read    *)
(* behind a durable checkpoint per channel (codex/inbox-sync.ts).  The     *)
(* bridge itself is Intake, which CodexBridge implements.                  *)
(*                                                                         *)
(* Timestamps are natural numbers given by the hub's clock.  The bridge    *)
(* reads the same clock where it starts a checkpoint "now".                *)
(***************************************************************************)
EXTENDS Naturals, FiniteSets

CONSTANTS Chans,       \* channels
          Msgs,        \* messages that may be posted
          Chan,        \* Chan[m]: the channel m is posted in
          Addressed,   \* those addressed to this bot (bridge.ts addressed)
          Members,     \* channels the bot belongs to from the start
          Cap,         \* unfinished messages the bridge holds (100)
          PageSize,    \* rows of one history page (50)
          Ties,        \* may two messages of a channel carry one timestamp?
          MaxStarts    \* bound: process starts

ASSUME CodexInboxAssumption ==
  /\ Chan \in [Msgs -> Chans]
  /\ Addressed \subseteq Msgs
  /\ Members \subseteq Chans
  /\ Cap \in Nat \ {0} /\ PageSize \in Nat \ {0} /\ MaxStarts \in Nat
  /\ Ties \in BOOLEAN

VARIABLES clock, stamp,       \* the hub: its clock; when each message was posted, 0 = not yet
          member, news,       \* the hub: memberships; channel_created frames on their way
          up, starts, link,   \* the process; the socket is authenticated
          listing, listed,    \* the membership request after auth_ok, and its answer
          watched, mark,      \* InboxSync: channels; the checkpoint file (0 = none)
          from,               \* history: the channel's first checkpoint
          todo, asked, page,  \* the pass in progress: channels left, channel asked, rows
          taken, open         \* the bridge's journal (Intake)

hub   == <<clock, stamp, member>>
conn  == <<news, up, starts, link>>
lists == <<listing, listed>>
marks == <<watched, mark, from>>
pass  == <<todo, asked, page>>
inbox == <<taken, open>>
vars  == <<hub, conn, lists, marks, pass, inbox>>

Bridge == INSTANCE Intake

Posted(c) == {m \in Msgs : Chan[m] = c /\ stamp[m] > 0}
Idle      == todo = {} /\ asked = {}
\* n is the last row of the page.
LastRow(n) == n \in page /\ \A m \in page : stamp[m] <= stamp[n]
\* S is an initial part of R in timestamp order.
Prefix(S, R) == S \subseteq R /\ \A m \in S, n \in R \ S : stamp[m] <= stamp[n]

-----------------------------------------------------------------------------
\* The hub.
Post(m) ==
  /\ stamp[m] = 0
  /\ \E t \in {clock, clock + 1} :
       /\ t = clock => Ties
       /\ clock' = t /\ stamp' = [stamp EXCEPT ![m] = t]
  /\ UNCHANGED <<member, conn, lists, marks, pass, inbox>>

Invite(c) ==
  /\ c \notin member
  /\ member' = member \cup {c}
  /\ news' = IF link THEN news \cup {c} ELSE news
  /\ UNCHANGED <<clock, stamp, up, starts, link, lists, marks, pass, inbox>>

-----------------------------------------------------------------------------
\* Mutation of Started: the checkpoint is written every time.
StartedAfresh(C) == /\ mark' = [c \in Chans |-> IF c \in C THEN clock ELSE mark[c]]
                    /\ from' = [c \in Chans |-> IF c \in C /\ mark[c] = 0 THEN clock ELSE from[c]]
\* InboxSync.watch, for each channel of C: a new one starts at "now".
Started(C) == /\ mark' = [c \in Chans |-> IF c \in C /\ mark[c] = 0 THEN clock ELSE mark[c]]
              /\ from' = [c \in Chans |-> IF c \in C /\ mark[c] = 0 THEN clock ELSE from[c]]

\* The transport: auth_ok asks for the memberships and arms the sync timer.
Auth ==
  /\ up /\ ~link
  /\ link' = TRUE /\ listing' = "asked" /\ listed' = {} /\ news' = {}
  /\ UNCHANGED <<hub, up, starts, marks, pass, inbox>>

HubLists ==
  /\ listing = "asked"
  /\ listing' = "served" /\ listed' = member
  /\ UNCHANGED <<hub, conn, marks, pass, inbox>>

\* The answer replaces the watched channels and starts a pass.
Listed ==
  /\ listing = "served"
  /\ watched' = listed /\ Started(listed)
  /\ listing' = "none" /\ listed' = {}
  /\ todo' = IF Idle /\ link THEN listed ELSE todo
  /\ UNCHANGED <<hub, conn, asked, page, inbox>>

\* channel_created.
Created(c) ==
  /\ link /\ c \in news
  /\ news' = news \ {c}
  /\ watched' = watched \cup {c} /\ Started({c})
  /\ UNCHANGED <<hub, up, starts, link, lists, pass, inbox>>

\* A live frame; it may come late or never, and a full inbox refuses it.
Live(m) ==
  /\ link /\ stamp[m] > 0 /\ Chan[m] \in member /\ m \in Addressed
  /\ Bridge!Take({m})
  /\ UNCHANGED <<hub, conn, lists, marks, pass>>

Drop ==
  /\ link /\ link' = FALSE /\ news' = {}
  /\ UNCHANGED <<hub, up, starts, lists, marks, pass, inbox>>

-----------------------------------------------------------------------------
\* InboxSync.sync: the timer; a pass in progress is not doubled.
Sync ==
  /\ link /\ Idle
  /\ todo' = watched
  /\ UNCHANGED <<hub, conn, lists, marks, asked, page, inbox>>

Fetch(c) ==
  /\ link /\ asked = {} /\ c \in todo
  /\ asked' = {c} /\ todo' = todo \ {c} /\ page' = {}
  /\ UNCHANGED <<hub, conn, lists, marks, inbox>>

\* The hub answers with the oldest rows after the checkpoint.
Serve(c) ==
  /\ asked = {c} /\ page = {}
  /\ LET R == {m \in Posted(c) : stamp[m] > mark[c]} IN
       \E S \in SUBSET R :
         /\ Prefix(S, R) /\ S # {}
         /\ Cardinality(S) <= PageSize
         /\ S # R => Cardinality(S) = PageSize
         /\ page' = S
  /\ UNCHANGED <<hub, conn, lists, marks, todo, asked, inbox>>

\* No rows, or a request that failed: on to the next channel.
NoPage(c) ==
  /\ asked = {c} /\ page = {}
  /\ asked' = {}
  /\ UNCHANGED <<hub, conn, lists, marks, todo, page, inbox>>

New(S) == (S \cap Addressed) \ taken      \* what recover has to store

\* Mutation of PageDone: the checkpoint is moved though the inbox was full.
CommitIncomplete(c) ==
  /\ link /\ asked = {c} /\ page # {} /\ c \in watched
  /\ \E S \in SUBSET New(page) :
       /\ Prefix(S, New(page)) /\ Bridge!Take(S)
       /\ S # New(page) => ~Bridge!Room(Cardinality(S) + 1)
       /\ \E n \in page : LastRow(n) /\ mark' = [mark EXCEPT ![c] = stamp[n]]
  /\ asked' = {} /\ page' = {}
  /\ UNCHANGED <<hub, conn, lists, watched, from, todo>>

\* Every row goes to the bridge, oldest first; the checkpoint moves over the
\* whole page, or not at all if the inbox refused a row.
PageDone(c) ==
  /\ link /\ asked = {c} /\ page # {} /\ c \in watched
  /\ \E S \in SUBSET New(page) :
       /\ Prefix(S, New(page)) /\ Bridge!Take(S)
       /\ S # New(page) => ~Bridge!Room(Cardinality(S) + 1)
       /\ IF S = New(page)
          THEN \E n \in page : LastRow(n) /\ mark' = [mark EXCEPT ![c] = stamp[n]]
          ELSE mark' = mark
  /\ asked' = {} /\ page' = {}
  /\ UNCHANGED <<hub, conn, lists, watched, from, todo>>

\* The channel is no longer watched.
PageDropped(c) ==
  /\ link /\ asked = {c} /\ page # {} /\ c \notin watched
  /\ asked' = {} /\ page' = {}
  /\ UNCHANGED <<hub, conn, lists, marks, todo, inbox>>

\* Everything in memory is gone.
Gone == /\ up' = FALSE /\ link' = FALSE /\ news' = {}
        /\ listing' = "none" /\ listed' = {} /\ watched' = {}
        /\ todo' = {} /\ asked' = {} /\ page' = {}

\* The process dies between two rows.
PageCut(c) ==
  /\ link /\ asked = {c} /\ page # {} /\ c \in watched /\ starts < MaxStarts
  /\ \E S \in SUBSET New(page) : Prefix(S, New(page)) /\ Bridge!Take(S)
  /\ Gone
  /\ UNCHANGED <<hub, starts, mark, from>>

\* Not authenticated at a check: the pass ends.
PassAborts ==
  /\ ~link /\ ~Idle
  /\ todo' = {} /\ asked' = {} /\ page' = {}
  /\ UNCHANGED <<hub, conn, lists, marks, inbox>>

-----------------------------------------------------------------------------
\* The bridge settles a message (CodexBridge says how).
Settle(m) ==
  /\ m \in open /\ Bridge!Finish({m})
  /\ UNCHANGED <<hub, conn, lists, marks, pass>>

Boot == /\ ~up /\ starts < MaxStarts
        /\ up' = TRUE /\ starts' = starts + 1
        /\ UNCHANGED <<hub, news, link, lists, marks, pass, inbox>>

Crash == /\ up /\ starts < MaxStarts /\ Gone
         /\ UNCHANGED <<hub, starts, mark, from, inbox>>

Init ==
  /\ clock = 1 /\ stamp = [m \in Msgs |-> 0] /\ member = Members /\ news = {}
  /\ up = FALSE /\ starts = 0 /\ link = FALSE /\ listing = "none" /\ listed = {}
  /\ watched = {} /\ mark = [c \in Chans |-> 0] /\ from = [c \in Chans |-> 0]
  /\ todo = {} /\ asked = {} /\ page = {}
  /\ Bridge!Init

Row(c) == Fetch(c) \/ Serve(c) \/ NoPage(c) \/ PageDone(c) \/ PageDropped(c)

Next == \/ \E m \in Msgs : Post(m) \/ Live(m) \/ Settle(m)
        \/ \E c \in Chans : Invite(c) \/ Created(c) \/ Row(c) \/ PageCut(c)
        \/ Auth \/ HubLists \/ Listed \/ Drop \/ Sync \/ PassAborts \/ Boot \/ Crash

Spec == Init /\ [][Next]_vars

\* The supervisor restarts, the transport reconnects and answers arrive; a
\* request or a page that is tried again and again goes through in the end,
\* although the connection may drop any number of times; the bridge settles.
Fairness ==
  /\ WF_vars(Boot) /\ WF_vars(Auth) /\ SF_vars(HubLists) /\ SF_vars(Listed)
  /\ SF_vars(Sync) /\ WF_vars(PassAborts)
  /\ \A c \in Chans : /\ SF_vars(Fetch(c)) /\ SF_vars(link /\ Serve(c))
                      /\ SF_vars(PageDone(c)) /\ SF_vars(PageDropped(c))
                      /\ WF_vars(NoPage(c))
  /\ \A m \in Msgs : WF_vars(Settle(m))

FairSpec == Spec /\ Fairness
=============================================================================
