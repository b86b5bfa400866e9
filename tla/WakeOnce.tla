------------------------------ MODULE WakeOnce ------------------------------
(***************************************************************************)
(* The one-shot commands (mcp-plugin/src/rest-cli.ts): --wake-once waits for *)
(* the next message that addresses the agent, prints it and exits; --send    *)
(* posts one and moves the channel's cursor to its own clock.  A waiting      *)
(* process polls its channels and listens to streams of some; both look at    *)
(* what they got through one cursor and one set of seen ids, kept in files.   *)
(* A wake in a group awaits its context before it is printed.                *)
(***************************************************************************)
EXTENDS Naturals, Sequences, FiniteSets

CONSTANTS Chans, None,
          Asked,        \* the channels of the command line
          Direct,       \* the direct channels, whose wakes await no context
          Posts,        \* bound: the messages that are posted or sent
          PageSize,     \* limit of a request with a cursor
          FirstSize,    \* limit of one without
          MaxStreams,   \* MAX_SSE_STREAMS
          MaxPosts,     \* bound: messages at the hub
          MaxRuns       \* bound: processes, one after the other

Post == [ch : Chans, addr : BOOLEAN]
OnceAssumption ==
  /\ None \notin Chans \cup Nat /\ Asked \cup Direct \subseteq Chans /\ Posts \subseteq Post
  /\ PageSize \in Nat \ {0} /\ FirstSize \in Nat \ {0}
  /\ MaxStreams \in Nat /\ MaxPosts \in Nat /\ MaxRuns \in Nat

VARIABLES log,       \* external: the hub's messages; a position is an id and a time
          saved,     \* the cursor file and wake-seen-ids
          mind,      \* the same in the process that waits
          wait,      \* where that process stands: off, joining, waiting
          poll,      \* pollOnce
          stream,    \* the SSE stream of each channel
          events,    \* what they carry, on its way
          finals,    \* finalizeWake, while it awaits the context
          sending,   \* the channel of a --send that was posted
          runs,
          reported,  \* history: how often a message was printed
          lost       \* history: messages given up in ways named below

once == <<log, saved, mind, wait, poll, stream, events, finals, sending, runs, reported, lost>>

\* init: __init_ts__; a cursor is the position of the last message it covers.
Memory == [init : Nat \cup {None}, cur : [Chans -> Nat \cup {None}], seen : SUBSET Nat]
Empty == [init |-> None, cur |-> [c \in Chans |-> None], seen |-> {}]
\* at: what is awaited; after, since: the cursor and the hub's newest when it was asked.
NoPoll == [at |-> "none", todo |-> {}, ch |-> None, after |-> None, since |-> 0, synced |-> {}]
Newest(S) == CHOOSE n \in S : \A k \in S : k <= n
Of(c, upto) == {n \in 1..upto : log[n].ch = c}

-----------------------------------------------------------------------------
(* inspectChannelMessages.                                                 *)

\* Mutation of Reached: the cursor goes to the clock.
ReachedNow(batch) == Len(log)
\* finalizeWake: the cursor goes to the newest message of the batch.
Reached(batch) == Newest(batch)

\* A channel without a cursor: what is older than __init_ts__ only seeds it.
FirstLook(w, c, fresh) ==
  LET old  == {n \in fresh : n <= w.init}
      live == {n \in fresh \ old : log[n].addr}
      rest == fresh \ live
      at   == IF live # {} THEN Reached(live) ELSE IF rest # {} THEN Newest(rest) ELSE w.init
  IN  [w |-> [w EXCEPT !.cur[c] = at, !.seen = @ \cup old \cup live], batch |-> live, write |-> TRUE]

\* A channel with one: the newer messages that address the agent, or else past them.
NextLook(w, c, fresh) ==
  LET news  == {n \in fresh : n > w.cur[c]}
      batch == {n \in news : log[n].addr}
      at    == IF batch # {} THEN Reached(batch) ELSE IF news # {} THEN Newest(news) ELSE w.cur[c]
  IN  [w |-> [w EXCEPT !.cur[c] = at, !.seen = @ \cup batch], batch |-> batch, write |-> news # {}]

Look(w, c, list) ==
  IF w.cur[c] = None THEN FirstLook(w, c, list \ w.seen) ELSE NextLook(w, c, list \ w.seen)

Before(w, c) == IF w.cur[c] = None THEN w.init ELSE w.cur[c]
\* What the cursor passes without its being seen.
Passed(w, v, c) ==
  {n \in Of(c, Len(log)) \ v.seen : log[n].addr /\ Before(w, c) < n /\ n <= Before(v, c)}

\* The process prints and exits: the other wakes on their way are lost with it.
Exits(printed) ==
  /\ wait' = "off" /\ poll' = NoPoll /\ finals' = {} /\ mind' = Empty
  /\ stream' = [c \in Chans |-> "off"] /\ events' = [c \in Chans |-> <<>>]
  /\ reported' = [n \in DOMAIN reported |-> IF n \in printed THEN reported[n] + 1 ELSE reported[n]]

Waits(by) == \E f \in finals : f.by = by
Batches == UNION {f.batch : f \in finals}

\* by is the poll, or the channel whose stream it is.
Inspect(by, c, list, excused) ==
  LET r == Look(mind, c, list)
      gone == IF excused THEN Passed(mind, r.w, c) ELSE {} IN
  /\ saved' = IF r.write THEN r.w ELSE saved
  /\ IF r.batch # {} /\ c \in Direct
     THEN Exits(r.batch) /\ lost' = lost \cup gone \cup Batches
     ELSE /\ mind' = r.w /\ lost' = lost \cup gone
          /\ finals' = IF r.batch = {} THEN finals
                       ELSE finals \cup {[by |-> by, ch |-> c, batch |-> r.batch]}
          /\ poll' = IF by # "poll" THEN poll
                     ELSE [poll EXCEPT !.at = "next", !.ch = None, !.after = None,
                                       !.synced = @ \cup {c}]
          /\ events' = IF by = "poll" THEN events ELSE [events EXCEPT ![c] = Tail(@)]
          /\ UNCHANGED <<wait, stream, reported>>

\* The context came or failed: the first wake that has it is the one that is printed.
Finalized(f) ==
  /\ f \in finals /\ Exits(f.batch)
  /\ lost' = lost \cup UNION {g.batch : g \in finals \ {f}}
  /\ UNCHANGED <<log, saved, sending, runs>>

-----------------------------------------------------------------------------
(* The waiting process.                                                    *)

\* The files are read, __init_ts__ is set on the first start; the channels are joined.
Start ==
  /\ wait = "off" /\ runs < MaxRuns /\ runs' = runs + 1
  /\ mind' = IF saved.init = None THEN [saved EXCEPT !.init = Len(log)] ELSE saved
  /\ saved' = mind' /\ wait' = "joining"
  /\ UNCHANGED <<log, poll, stream, events, finals, sending, reported, lost>>

\* Every join was answered or failed; the first poll starts.
Joined ==
  /\ wait = "joining" /\ wait' = "waiting" /\ poll' = [poll EXCEPT !.at = "mine"]
  /\ UNCHANGED <<log, saved, mind, stream, events, finals, sending, runs, reported, lost>>

\* The interval: a poll that is under way is not overtaken by another.
Interval ==
  /\ wait = "waiting" /\ poll.at = "none" /\ poll' = [poll EXCEPT !.at = "mine"]
  /\ UNCHANGED <<log, saved, mind, wait, stream, events, finals, sending, runs, reported, lost>>

\* /channels/mine is answered, or only the channels of the command line are known: some
\* get a stream, all are looked at.
Listed(list) ==
  /\ poll.at = "mine" /\ Asked \subseteq list
  /\ poll' = [poll EXCEPT !.at = "next", !.todo = list, !.since = Len(log)]
  /\ \E S \in SUBSET {c \in list : stream[c] = "off"} :
       /\ Cardinality(S \cup {c \in Chans : stream[c] # "off"}) <= MaxStreams
       /\ stream' = [c \in Chans |-> IF c \in S THEN "asked" ELSE stream[c]]
  /\ UNCHANGED <<log, saved, mind, wait, events, finals, sending, runs, reported, lost>>

\* A stream that listens, or nothing newer than the cursor, spares the request.
Spared(c) ==
  /\ c \in poll.synced
  /\ \/ stream[c] \in {"on", "again"}
     \/ mind.cur[c] # None /\ \A n \in Of(c, poll.since) : n <= mind.cur[c]

AskPage(c) ==
  /\ poll.at = "next" /\ ~Waits("poll") /\ c \in poll.todo
  /\ poll' = IF Spared(c) THEN [poll EXCEPT !.todo = @ \ {c}]
             ELSE [poll EXCEPT !.at = "page", !.todo = @ \ {c}, !.ch = c, !.after = mind.cur[c]]
  /\ UNCHANGED <<log, saved, mind, wait, stream, events, finals, sending, runs, reported, lost>>

\* With a cursor the oldest messages behind it, without one the newest of the channel.
Page(c, after) ==
  LET S == {n \in Of(c, Len(log)) : after # None => n > after} IN
  IF after = None THEN {n \in S : Cardinality({k \in S : k > n}) < FirstSize}
                  ELSE {n \in S : Cardinality({k \in S : k < n}) < PageSize}

\* A first look takes what its page holds for all there is.
GotPage ==
  /\ poll.at = "page"
  /\ Inspect("poll", poll.ch, Page(poll.ch, poll.after), poll.after = None)
  /\ UNCHANGED <<log, sending, runs>>

\* The round is over; a request that throws ends it at once, a refused one its channel.
PollEnds ==
  /\ poll.at \in {"mine", "next", "page"} /\ ~Waits("poll")
  /\ poll.at = "next" => poll.todo = {}
  /\ \E S \in {poll.synced, poll.synced \cup ({poll.ch} \ {None})} :
       poll' = [NoPoll EXCEPT !.synced = S]
  /\ UNCHANGED <<log, saved, mind, wait, stream, events, finals, sending, runs, reported, lost>>
PageRefused ==
  /\ poll.at = "page" /\ poll' = [poll EXCEPT !.at = "next", !.ch = None, !.after = None]
  /\ UNCHANGED <<log, saved, mind, wait, stream, events, finals, sending, runs, reported, lost>>

\* The stream opens, and carries what is posted from then on.
StreamOpens(c) ==
  /\ stream[c] \in {"asked", "again"} /\ stream' = [stream EXCEPT ![c] = "on"]
  /\ UNCHANGED <<log, saved, mind, wait, poll, events, finals, sending, runs, reported, lost>>

\* It is refused and given up, fails and is asked for again, or ends, which nobody notes.
StreamEnds(c, how) ==
  /\ ~Waits(c) /\ how # stream[c]
  /\ \/ stream[c] \in {"asked", "again"} /\ how \in {"off", "asked"}
     \/ stream[c] = "on" /\ how \in {"asked", "again"}
  /\ stream' = [stream EXCEPT ![c] = how] /\ events' = [events EXCEPT ![c] = <<>>]
  /\ UNCHANGED <<log, saved, mind, wait, poll, finals, sending, runs, reported, lost>>

\* An event of a stream is looked at as if nothing of its channel were missing before it.
StreamEvent(c) ==
  /\ events[c] # <<>> /\ ~Waits(c)
  /\ Inspect(c, c, {Head(events[c])}, TRUE)
  /\ UNCHANGED <<log, sending, runs>>

\* The time is over, whatever is under way; hibernation writes the cursor once more.
Timeout ==
  /\ wait = "waiting" /\ Exits({}) /\ lost' = lost \cup Batches
  /\ \E w \in {saved, [saved EXCEPT !.cur = mind.cur, !.init = mind.init]} : saved' = w
  /\ UNCHANGED <<log, sending, runs>>

\* A newer process ends this one, or it dies; a torn cursor file counts as none.
Killed ==
  /\ wait # "off" /\ Exits({}) /\ lost' = lost \cup Batches
  /\ \E w \in {saved, [Empty EXCEPT !.seen = saved.seen]} : saved' = w
  /\ UNCHANGED <<log, sending, runs>>

-----------------------------------------------------------------------------
\* A message is posted; the streams of its channel carry it.
Says(m) ==
  /\ Len(log) < MaxPosts /\ log' = Append(log, m)
  /\ events' = [c \in Chans |-> IF c = m.ch /\ stream[c] = "on" THEN Append(events[c], Len(log) + 1)
                                                             ELSE events[c]]

SomebodyPosts(m) ==
  /\ Says(m) /\ m \in Posts
  /\ UNCHANGED <<saved, mind, wait, poll, stream, finals, sending, runs, reported, lost>>

\* sendRestMessage: the POST, and after its answer advanceChannelReadCursor.
SendPosts(c) ==
  /\ sending = None /\ sending' = c /\ [ch |-> c, addr |-> FALSE] \in Posts
  /\ Says([ch |-> c, addr |-> FALSE])
  /\ UNCHANGED <<saved, mind, wait, poll, stream, finals, runs, reported, lost>>
SendAdvances(c) ==
  LET w == [saved EXCEPT !.cur[c] = Len(log)] IN
  /\ sending = c /\ sending' = None /\ saved' = w
  /\ lost' = lost \cup (IF saved.init = None THEN {} ELSE Passed(saved, w, c))
  /\ UNCHANGED <<log, mind, wait, poll, stream, events, finals, runs, reported>>

Init ==
  /\ log = <<>> /\ saved = Empty /\ mind = Empty /\ wait = "off" /\ poll = NoPoll
  /\ stream = [c \in Chans |-> "off"] /\ events = [c \in Chans |-> <<>>]
  /\ finals = {} /\ sending = None /\ runs = 0
  /\ reported = [n \in 1..MaxPosts |-> 0] /\ lost = {}

Next ==
  \/ Start \/ Joined \/ Interval \/ GotPage \/ PageRefused \/ PollEnds \/ Timeout \/ Killed
  \/ \E list \in SUBSET Chans : Listed(list)
  \/ \E f \in finals : Finalized(f)
  \/ \E c \in Chans :
       \/ AskPage(c) \/ StreamOpens(c) \/ StreamEvent(c) \/ SendPosts(c) \/ SendAdvances(c)
       \/ \E how \in {"off", "asked", "again"} : StreamEnds(c, how)
  \/ \E m \in Posts : SomebodyPosts(m)
=============================================================================
