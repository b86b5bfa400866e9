--------------------------- MODULE SessionRouting ---------------------------
(***************************************************************************)
(* Which agent an MCP process is (mcp-plugin/src/server.ts, session-bind.ts, *)
(* identity-guard.ts, identity.ts, grok-bind.ts).  The identity is one      *)
(* global of the process (`active`): it is chosen at boot, gated when it is *)
(* a default that nobody confirmed, and swapped at every tool call for the  *)
(* profile bound to the caller's session.  Processes share the profile      *)
(* files, the session binds, the agent locks and the trust record.  An      *)
(* action is one segment of a process between two awaits.  A dead process's *)
(* lock counts as none wherever it is read, so a crash removes it here.     *)
(* Sockets are in McpSlot, the tools' own work in ToolCalls.                *)
(***************************************************************************)
EXTENDS Naturals, Sequences, FiniteSets, Functions

CONSTANTS Procs, Sessions, Profiles, Agents,
          Default,        \* the profile loaded when nothing is declared ("profile")
          None,
          Launches,       \* the ways a process is started
          Files,          \* the profile files there may be at first
          Edits,          \* bound: what may become of a profile file, from outside
          MaxCalls        \* bound: calls that run at once where nothing queues them

Bad == {"missing", "broken", "placeholder"}   \* no file; unreadable; a dev-token
Launch ==
  [select : Profiles \cup {None},   \* --profile, --name, a project binding
   create : BOOLEAN,                \* --name: a missing profile is registered
   grok   : Profiles \cup {None},   \* the grok bind of this conversation
   env    : Profiles \cup {None},   \* AGENTSCHAT_PROFILE
   pin    : Sessions \cup {None},   \* the session named by the environment
   host   : BOOLEAN,                \* Antigravity: its open conversations are known
   expect : Agents \cup {None},     \* AGENTSCHAT_EXPECT_AGENT_ID
   tool   : BOOLEAN]                \* AGENTSCHAT_TOOL_ONLY

ASSUME RoutingAssumption ==
  /\ Default \in Profiles /\ None \notin Procs \cup Profiles \cup Sessions \cup Agents
  /\ Launches \subseteq Launch /\ Files \subseteq [Profiles -> Agents \cup Bad]
  /\ Edits \subseteq Profiles \X (Agents \cup Bad)
  /\ Bad \cap Agents = {} /\ MaxCalls \in Nat

VARIABLES file,            \* profile files: the agent inside
          binds, lock,     \* session-binds.json; the lock files (pid, session)
          trust,           \* identity-guard.json: lastEffective
          up, launch,      \* each process: down, checked, running; how it was started
          slots, active,   \* profileSlots, in order; the slot behind AGENT_ID, TOKEN and ws
          rsid,            \* runtimeSession
          src, gate,       \* profileSource; identityGateMessage
          calls,           \* tool calls between two of their awaits
          alarm            \* history: agents gated at a boot and not chosen since

shared == <<file, binds, lock, trust>>
start  == <<up, launch, src>>
self   == <<slots, active, rsid>>
vars   == <<shared, start, self, gate, calls, alarm>>

Slot == [prof : Profiles, agent : Agents, sid : Sessions \cup {None}]
Call == [tool : {"read", "write", "whoami", "register"},
         sid   : Sessions \cup {None},  \* the session it named
         as    : Agents \cup {None},    \* AGENT_ID when its handler started
         owner : Sessions \cup {None},  \* the session that profile was bound to then
         lost  : BOOLEAN,               \* its own profile could not be read
         prof  : Profiles \cup {None}]  \* the profile to register
NoLock == [pid |-> None, sid |-> None]

\* What one segment of a process reads and writes.
Here(p) == [file |-> file, binds |-> binds, lock |-> lock, trust |-> trust,
            slots |-> slots[p], active |-> active[p], rsid |-> rsid[p]]
Leave(p, w) ==
  /\ file' = w.file /\ binds' = w.binds /\ lock' = w.lock /\ trust' = w.trust
  /\ slots' = [slots EXCEPT ![p] = w.slots]
  /\ active' = [active EXCEPT ![p] = w.active]
  /\ rsid' = [rsid EXCEPT ![p] = w.rsid]

-----------------------------------------------------------------------------
(* The session binds and the agent locks.                                  *)

\* One session per profile, one profile per session.
SaveBind(b, s, q) ==
  [t \in Sessions |-> IF t = s THEN q ELSE IF b[t] = q THEN None ELSE b[t]]

\* removeSessionBind.
Unbound(b, s) == [b EXCEPT ![s] = None]

\* findBoundSessionForProfile.
BoundSid(b, q) ==
  LET S == {s \in Sessions : b[s] = q} IN IF S = {} THEN None ELSE CHOOSE s \in S : TRUE

\* checkAgentLock: another process's, or another session's of this process.
Locked(w, p, a, sid) ==
  LET k == w.lock[a]
      other == sid # None /\ k.sid # None /\ sid # k.sid
  IN  k.pid # None /\ IF k.pid = p THEN other
                                   ELSE sid = None \/ sid # k.sid

\* acquireAgentLock overwrites whatever is there.
Acquire(w, p, a, sid) == [w EXCEPT !.lock[a] = [pid |-> p, sid |-> sid]]

-----------------------------------------------------------------------------
(* Slots.                                                                  *)

SlotOf(w, q)  == {s \in Range(w.slots) : s.prof = q}   \* one, or none
HasSlot(w, q) == SlotOf(w, q) # {}
SidOf(w, s)   == IF s.sid # None THEN s.sid ELSE BoundSid(w.binds, s.prof)
AgentIn(w)    == IF w.active = None THEN None ELSE (CHOOSE s \in SlotOf(w, w.active) : TRUE).agent
Readable(w, q) == w.file[q] \notin Bad

\* The slots of S that are in ss, in their order.
Kept(ss, S) ==
  LET upto[i \in 0..Len(ss)] ==
        IF i = 0 THEN <<>>
        ELSE IF ss[i] \in S THEN Append(upto[i - 1], ss[i]) ELSE upto[i - 1]
  IN  upto[Len(ss)]

\* Mutation of Freed: a torn down slot keeps its lock.
FreedNone(w, p, S) == w.lock
\* releaseAgentLock for the slots S: a lock of this process or of the slot's session.
Freed(w, p, S) ==
  [a \in Agents |->
     IF \E s \in S : /\ s.agent = a
                     /\ \/ w.lock[a].pid = p
                        \/ w.lock[a].sid # None /\ w.lock[a].sid = SidOf(w, s)
     THEN NoLock ELSE w.lock[a]]

\* activateSlot for a caller.
Activate(w, q, sid) ==
  [w EXCEPT !.active = q, !.rsid = sid,
            !.slots = [i \in DOMAIN @ |-> IF @[i].prof = q THEN [@[i] EXCEPT !.sid = sid] ELSE @[i]]]

\* setAnonymousCallerState.
Anonymous(w, sid) == [w EXCEPT !.active = None, !.rsid = sid]

\* applyIdentityFromProfile: the session the profile is applied for (not that of a
\* sole open conversation, which an Antigravity process without any would take).
Target(w, q, sid) ==
  IF sid # None THEN sid ELSE IF w.rsid # None THEN w.rsid ELSE BoundSid(w.binds, q)

\* The slot i gives way: same profile or agent, same session, or alone and unbound.
GivesWay(w, q, t, i) ==
  LET same(s) == s.prof = q \/ s.agent = w.file[q]
      s == w.slots[i]
  IN  \/ same(s)
      \/ t # None /\ SidOf(w, s) = t
      \/ /\ t = None /\ SidOf(w, s) = None /\ i = Len(w.slots)
         /\ \A j \in 1..(i - 1) : same(w.slots[j])

\* applyIdentityFromProfile: the new slot is active, locked, bound and trusted.
Apply(w, p, l, q, sid) ==
  LET a == w.file[q]
      t == Target(w, q, sid)
      gone == {w.slots[i] : i \in {j \in DOMAIN w.slots : GivesWay(w, q, t, j)}}
      w1 == [w EXCEPT !.slots = Append(Kept(@, Range(@) \ gone),
                                       [prof |-> q, agent |-> a, sid |-> t]),
                      !.active = q, !.rsid = t, !.trust = a]
      w2 == [w1 EXCEPT !.lock = Freed(w, p, {s \in gone : s.agent # a}),
                       !.binds = IF t = None THEN @ ELSE SaveBind(@, t, q)]
  IN  IF l.tool THEN w1 ELSE Acquire(w2, p, a, t)

\* disconnectCurrentProfile.
Disconnect(w, p, l, keep) ==
  LET cur == SlotOf(w, w.active)
      own == {s.sid : s \in cur} \ {None}
      sid == IF own # {} THEN CHOOSE s \in own : TRUE ELSE w.rsid
  IN  [w EXCEPT !.slots = Kept(@, Range(@) \ cur),
                !.lock  = IF l.tool THEN @ ELSE Freed(w, p, cur),
                !.binds = IF keep \/ sid = None THEN @ ELSE Unbound(@, sid),
                !.active = None]

-----------------------------------------------------------------------------
(* Boot.                                                                   *)

\* resolveProfile: the profile and where it was declared.
Resolved(l, s) ==
  LET b == IF s = None THEN None ELSE binds[s] IN
  CASE l.select # None -> <<l.select, IF l.create THEN "name" ELSE "select">>
    [] l.select = None /\ l.grok # None -> <<l.grok, "grok">>
    [] l.select = None /\ l.grok = None /\ l.env # None -> <<l.env, "env">>
    [] OTHER -> IF b # None /\ file[b] # "missing" THEN <<b, "bind">> ELSE <<Default, "default">>

\* /api/account/register answers with a new agent.
Registered(q) == {[file EXCEPT ![q] = a] : a \in Agents \ Range(file)}

\* detectRuntimeSession at start.
BootSid(l) ==
  IF l.pin # None THEN {l.pin} ELSE IF l.host THEN Sessions \cup {None} ELSE {None}

\* A profile that another live process holds is left alone; a tool-only process shares it.
LoadOrHide(p, l, q, s) ==
  LET hidden == ~l.tool /\ Locked(Here(p), p, file[q], s) IN
  /\ file' = file
  /\ slots' = [slots EXCEPT ![p] =
                 IF hidden THEN <<>> ELSE <<[prof |-> q, agent |-> file[q], sid |-> s]>>]
  /\ active' = [active EXCEPT ![p] = IF hidden THEN None ELSE q]

\* --name: the profile is registered; a refusal ends the process.
LoadNew(p, q, s) ==
  \E f \in Registered(q) :
     /\ file' = f
     /\ slots' = [slots EXCEPT ![p] = <<[prof |-> q, agent |-> f[q], sid |-> s]>>]
     /\ active' = [active EXCEPT ![p] = q]

\* A placeholder is registered like a new profile, but only one that was declared.
Migrate(p, q, from, s) == file[q] = "placeholder" /\ from # "default" /\ LoadNew(p, q, s)

\* The identity is settled: from a file, by registration, or none.  A profile that
\* was declared and is missing, or that cannot be read, ends the process.
BootCheck(p, l, s) ==
  LET q == Resolved(l, s)[1]
      from == Resolved(l, s)[2]
  IN
  /\ up[p] = "down" /\ s \in BootSid(l)
  /\ \/ file[q] \in Agents /\ LoadOrHide(p, l, q, s)
     \/ file[q] = "missing" /\ from = "name" /\ LoadNew(p, q, s)
     \/ Migrate(p, q, from, s)
     \/ file[q] = "missing" /\ from = "default" /\ UNCHANGED <<file, slots, active>>
  /\ up' = [up EXCEPT ![p] = "checked"] /\ launch' = [launch EXCEPT ![p] = l]
  /\ src' = [src EXCEPT ![p] = from]
  /\ rsid' = [rsid EXCEPT ![p] = s]
  /\ UNCHANGED <<binds, lock, trust, gate, calls, alarm>>

\* decideIdentityGuard: an undeclared profile that is not the trusted agent.
Gates(p, a) == src[p] = "default" /\ trust \notin {None, a}

\* The identity is locked, bound to the session, and trusted or gated.
BootTake(p) ==
  LET w == Here(p)
      a == AgentIn(w)
      l == launch[p]
      old == BoundSid(binds, w.active)
      s == IF l.host /\ l.pin = None /\ w.rsid # None /\ old # None THEN old ELSE w.rsid
      w1 == Activate(w, w.active, s)
      w2 == [w1 EXCEPT !.binds = IF s = None THEN @ ELSE SaveBind(@, s, w.active)]
      w3 == IF l.tool THEN w1 ELSE Acquire(w2, p, a, s)
  IN
  /\ up[p] = "checked"
  /\ up' = [up EXCEPT ![p] = "taken"]
  /\ IF a = None
     THEN UNCHANGED <<shared, self, gate, alarm>>
     ELSE /\ Leave(p, [w3 EXCEPT !.trust = IF Gates(p, a) THEN @ ELSE a])
          /\ gate' = [gate EXCEPT ![p] = Gates(p, a)]
          /\ alarm' = IF Gates(p, a) THEN alarm \cup {a}
                      ELSE IF src[p] = "bind" THEN alarm ELSE alarm \ {a}
  /\ UNCHANGED <<launch, src, calls>>

-----------------------------------------------------------------------------
(* Other conversations of the host.                                        *)

\* syncOpenBoundSessions for one open conversation.
Opened(w, p, s) ==
  LET q == w.binds[s]
      w1 == [Acquire(w, p, w.file[q], s) EXCEPT
               !.slots = Append(@, [prof |-> q, agent |-> w.file[q], sid |-> s])]
  IN  IF w.active = None THEN Activate(w1, q, s) ELSE w1

MayOpen(p, s) ==
  LET w == Here(p) q == binds[s] IN
  /\ launch[p].host /\ ~launch[p].tool
  /\ q # None /\ ~HasSlot(w, q) /\ Readable(w, q) /\ ~Locked(w, p, file[q], s)

\* main: the conversations that are open when the process is ready.
Main(p) ==
  /\ up[p] = "taken"
  /\ up' = [up EXCEPT ![p] = "up"]
  /\ \/ \E s \in Sessions : MayOpen(p, s) /\ Leave(p, Opened(Here(p), p, s))
     \/ UNCHANGED <<shared, self>>
  /\ UNCHANGED <<launch, src, gate, calls, alarm>>

\* A pong on any socket of the process, also while a call awaits.
Sync(p, s) ==
  /\ up[p] = "up" /\ slots[p] # <<>> /\ MayOpen(p, s)
  /\ Leave(p, Opened(Here(p), p, s))
  /\ UNCHANGED <<start, gate, calls, alarm>>

-----------------------------------------------------------------------------
(* Tool calls.                                                             *)

Control == {"connect", "disconnect"}

\* resolveCallerSessionForToolCall: the session the call names, that of the
\* environment, or whichever session came last.
Caller(w, l, given) ==
  IF given # None THEN given ELSE IF l.pin # None THEN l.pin ELSE w.rsid

\* Mutation of Unserved: the caller keeps the identity of the one before.
UnservedStays(w, given, c) == [w EXCEPT !.rsid = c]
\* A named session that cannot be served is anonymous; any other keeps the identity.
Unserved(w, given, c) ==
  IF given # None THEN Anonymous(w, c) ELSE [w EXCEPT !.rsid = c]

Lost(w, b, tool) ==
  /\ b # None /\ ~HasSlot(w, b) /\ w.file[b] \in {"broken", "placeholder"}
  /\ tool \notin Control \ {"disconnect"}

\* handleToolCall, a caller whose session is bound to b.
RoutedBound(w, p, l, given, c, b, tool) ==
  IF HasSlot(w, b)
  THEN LET w1 == Activate(w, b, c) IN IF l.tool THEN w1 ELSE Acquire(w1, p, AgentIn(w1), c)
  ELSE IF tool = "connect" \/ w.file[b] = "missing" THEN Unserved(w, given, c)
  ELSE IF Lost(w, b, tool) THEN [w EXCEPT !.rsid = c]
  ELSE IF Locked(w, p, w.file[b], c) THEN Unserved(w, given, c)
  ELSE Apply([w EXCEPT !.rsid = c], p, l, b, c)

\* handleToolCall, a caller without a bind: the first slot that is nobody else's.
RoutedUnbound(w, p, l, given, c, tool) ==
  LET mine == {i \in DOMAIN w.slots : SidOf(w, w.slots[i]) \in {None, c}} IN
  IF mine = {} THEN Unserved(w, given, c)
  ELSE LET q  == w.slots[CHOOSE i \in mine : \A j \in mine : i <= j].prof
           w1 == Activate(w, q, c)
           w2 == [w1 EXCEPT !.binds = IF BoundSid(@, q) = None THEN SaveBind(@, c, q) ELSE @]
       IN  IF l.tool \/ tool \in Control THEN w1 ELSE Acquire(w2, p, AgentIn(w2), c)

Routed(w, p, l, given, tool) ==
  LET c == Caller(w, l, given) IN
  IF c = None THEN w
  ELSE IF w.binds[c] # None THEN RoutedBound(w, p, l, given, c, w.binds[c], tool)
  ELSE RoutedUnbound(w, p, l, given, c, tool)

\* grokBindApplies: not when another profile was declared for the process.
BindValues == {l.grok : l \in Launches} \ {None}
Bound(p) == LET l == launch[p] IN
  IF src[p] \in {"select", "name", "env"} /\ l.grok \notin {None, l.select, l.env}
  THEN None ELSE l.grok

\* shouldHealBoundIdentity, at the start of a call of a process with a grok bind.
Drifted(p, w) ==
  /\ src[p] = "grok" /\ w.file[launch[p].grok] \notin {"missing", "broken"}
  /\ \/ w.active # launch[p].grok
     \/ AgentIn(w) # w.file[launch[p].grok]
\* A placeholder in the bound file fails the call.
HealFails(p, w) == Drifted(p, w) /\ w.file[launch[p].grok] = "placeholder"
\* ensureGrokBoundIdentity.
Healed(p, w) ==
  IF Drifted(p, w) THEN Apply(w, p, launch[p], launch[p].grok, None) ELSE w

\* expectedAgentIdViolation: pinned to another agent than the live one.
Pinned(p, w) == launch[p].expect \notin {None, AgentIn(w)}

\* Mutation of Refused: the alarms look at the identity before the call is routed.
RefusedEarly(p, w, tool) ==
  /\ tool \notin {"read", "whoami"}
  /\ \/ gate[p]
     \/ Pinned(p, Here(p)) /\ tool \notin Control
\* handleToolCall: the identity gate, then the expected-agent pin.
Refused(p, w, tool) ==
  /\ tool \notin {"read", "whoami"}
  /\ \/ gate[p]
     \/ Pinned(p, w) /\ tool \notin Control

\* Mutation of Queued: calls of one process run at once.
QueuedNot(p) == Cardinality(calls[p]) < MaxCalls
\* serializeCall: a call starts when the one before is over.
Queued(p) == calls[p] = {}

\* What a handler finds: routed, healed.
Entered(p, given, tool) == Healed(p, Routed(Here(p), p, launch[p], given, tool))
Starts(p, given, tool) ==
  /\ up[p] = "up" /\ Queued(p)
  /\ ~HealFails(p, Routed(Here(p), p, launch[p], given, tool))
  /\ ~Refused(p, Entered(p, given, tool), tool)

Running(p, w, tool, given, q) ==
  LET c == Caller(Here(p), launch[p], given) IN
  [tool |-> tool, sid |-> given, as |-> AgentIn(w), prof |-> q,
   owner |-> IF w.active = None THEN None ELSE BoundSid(w.binds, w.active),
   lost |-> c # None /\ Lost(Here(p), binds[c], tool)]

\* A tool whose handler awaits the hub.
Start(p, tool, given) ==
  /\ Starts(p, given, tool)
  /\ LET w == Entered(p, given, tool) IN
     /\ Leave(p, w)
     /\ calls' = [calls EXCEPT ![p] = @ \cup {Running(p, w, tool, given, None)}]
  /\ UNCHANGED <<start, gate, alarm>>

\* A call that is refused was routed all the same.
Refuse(p, tool, given) ==
  LET w == Routed(Here(p), p, launch[p], given, tool) IN
  /\ up[p] = "up" /\ Queued(p)
  /\ \/ HealFails(p, w) /\ Leave(p, w)
     \/ ~HealFails(p, w) /\ Refused(p, Healed(p, w), tool) /\ Leave(p, Healed(p, w))
  /\ UNCHANGED <<start, gate, calls, alarm>>

\* gateSwitchProfile.
MaySwitch(p, w, q) ==
  IF Bound(p) # None THEN q = Bound(p)
  ELSE \/ Bound(p) # launch[p].grok \/ w.active \notin BindValues \/ q = w.active

\* switch_profile, connect_profile: a profile that exists and that nobody else holds.
Connect(p, given, q) ==
  /\ Starts(p, given, "connect")
  /\ LET w == Entered(p, given, "connect")
         goes == /\ MaySwitch(p, w, q) /\ Readable(w, q)
                 /\ ~Locked(w, p, w.file[q], w.rsid)
     IN  /\ Leave(p, IF goes THEN Apply(w, p, launch[p], q, given) ELSE w)
         /\ alarm' = IF goes THEN alarm \ {w.file[q]} ELSE alarm
  /\ UNCHANGED <<start, gate, calls>>

\* switch_profile with register: the hub is asked for a new agent.
ConnectNew(p, given, q) ==
  /\ Starts(p, given, "connect")
  /\ LET w == Entered(p, given, "connect") IN
     /\ MaySwitch(p, w, q) /\ w.file[q] = "missing"
     /\ Leave(p, w)
     /\ calls' = [calls EXCEPT ![p] = @ \cup {Running(p, w, "register", given, q)}]
  /\ UNCHANGED <<start, gate, alarm>>

\* disconnect_profile.
DisconnectTool(p, given, keep) ==
  /\ Starts(p, given, "disconnect")
  /\ Leave(p, Disconnect(Entered(p, given, "disconnect"), p, launch[p], keep))
  /\ UNCHANGED <<start, gate, calls, alarm>>

\* The hub answers a tool: its effect is that of the identity of this moment.
Finish(p, c) ==
  /\ c \in calls[p] /\ c.tool \in {"read", "write"}
  /\ calls' = [calls EXCEPT ![p] = @ \ {c}]
  /\ UNCHANGED <<shared, start, self, gate, alarm>>

\* whoami: the agent has looked at the identity, which is now trusted.
WhoAmI(p, c) ==
  LET a == AgentIn(Here(p)) IN
  /\ c \in calls[p] /\ c.tool = "whoami"
  /\ calls' = [calls EXCEPT ![p] = @ \ {c}]
  /\ gate' = [gate EXCEPT ![p] = FALSE]
  /\ IF gate[p] /\ a # None THEN trust' = a /\ alarm' = alarm \ {a} ELSE UNCHANGED <<trust, alarm>>
  /\ UNCHANGED <<file, binds, lock, start, self>>

\* registerAndConnectProfile: the new profile is also the default if there is none.
Register(p, c) ==
  /\ c \in calls[p] /\ c.tool = "register"
  /\ calls' = [calls EXCEPT ![p] = @ \ {c}]
  /\ \/ UNCHANGED <<shared, self, alarm>>
     \/ \E f \in Registered(c.prof) :
          LET a == f[c.prof]
              g == IF f[Default] = "missing" THEN [f EXCEPT ![Default] = a] ELSE f
          IN  /\ Leave(p, Apply([Here(p) EXCEPT !.file = g], p, launch[p], c.prof, c.sid))
              /\ alarm' = alarm \ {a}
  /\ UNCHANGED <<start, gate>>

-----------------------------------------------------------------------------
(* Ends, and edits of the profile files.                                   *)

Ended(p) ==
  /\ up' = [up EXCEPT ![p] = "down"]
  /\ slots' = [slots EXCEPT ![p] = <<>>] /\ active' = [active EXCEPT ![p] = None]
  /\ rsid' = [rsid EXCEPT ![p] = None] /\ gate' = [gate EXCEPT ![p] = FALSE]
  /\ calls' = [calls EXCEPT ![p] = {}]
  /\ UNCHANGED <<file, binds, trust, launch, src, alarm>>

Mine(p, k) == [a \in Agents |-> IF k[a].pid = p THEN NoLock ELSE k[a]]

\* shutdownFromStdio, releaseLiveLock: the locks of its slots and of their sessions.
Stop(p) ==
  /\ up[p] = "up"
  /\ lock' = IF launch[p].tool THEN lock ELSE Mine(p, Freed(Here(p), p, Range(slots[p])))
  /\ Ended(p)

Crash(p) == up[p] # "down" /\ lock' = Mine(p, lock) /\ Ended(p)

\* Somebody edits, removes or repairs a profile file.
Edit(q) ==
  \E x \in (Agents \cup Bad) \ {file[q]} :
     /\ <<q, x>> \in Edits
     /\ x \in Agents => x \notin Range(file)
     /\ file' = [file EXCEPT ![q] = x]
     /\ UNCHANGED <<binds, lock, trust, start, self, gate, calls, alarm>>

Init ==
  /\ file \in Files
  /\ binds = [s \in Sessions |-> None] /\ lock = [a \in Agents |-> NoLock] /\ trust = None
  /\ up = [p \in Procs |-> "down"] /\ launch \in [Procs -> Launches]
  /\ src = [p \in Procs |-> "default"]
  /\ slots = [p \in Procs |-> <<>>] /\ active = [p \in Procs |-> None]
  /\ rsid = [p \in Procs |-> None] /\ gate = [p \in Procs |-> FALSE]
  /\ calls = [p \in Procs |-> {}] /\ alarm = {}

Boot(p) ==
  \/ \E l \in Launches, s \in Sessions \cup {None} : BootCheck(p, l, s)
  \/ BootTake(p) \/ Main(p)
CallStep(p, given) ==
  \/ \E t \in {"read", "write", "whoami"} : Start(p, t, given) \/ Refuse(p, t, given)
  \/ \E q \in Profiles : Connect(p, given, q) \/ ConnectNew(p, given, q)
  \/ \E keep \in BOOLEAN : DisconnectTool(p, given, keep)
  \/ \E t \in Control : Refuse(p, t, given)
Answer(p) == \E c \in calls[p] : Finish(p, c) \/ WhoAmI(p, c) \/ Register(p, c)

Next ==
  \/ \E p \in Procs :
       \/ Boot(p) \/ Answer(p) \/ Stop(p) \/ Crash(p)
       \/ \E s \in Sessions : Sync(p, s)
       \/ \E s \in Sessions \cup {None} : CallStep(p, s)
  \/ \E q \in Profiles : Edit(q)

Spec == Init /\ [][Next]_vars
=============================================================================
