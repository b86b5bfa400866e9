------------------------- MODULE SessionRoutingProps -------------------------
(* What the identity of the MCP processes promises. *)
EXTENDS SessionRouting

\* The variables keep their types; a slot is in the process once, the active slot
\* is one of them, and only a running process has calls.
TypeOK ==
  /\ file \in [Profiles -> Agents \cup Bad]
  /\ binds \in [Sessions -> Profiles \cup {None}]
  /\ lock \in [Agents -> [pid : Procs \cup {None}, sid : Sessions \cup {None}]]
  /\ trust \in Agents \cup {None} /\ alarm \subseteq Agents
  /\ up \in [Procs -> {"down", "checked", "taken", "up"}] /\ launch \in [Procs -> Launches]
  /\ src \in [Procs -> {"select", "name", "grok", "env", "bind", "default"}]
  /\ \A p \in Procs :
       /\ slots[p] \in Seq(Slot) /\ calls[p] \subseteq Call
       /\ active[p] \in Profiles \cup {None} /\ rsid[p] \in Sessions \cup {None}
       /\ gate[p] \in BOOLEAN
       /\ active[p] # None => HasSlot(Here(p), active[p])
       /\ \A i, j \in DOMAIN slots[p] : slots[p][i].prof = slots[p][j].prof => i = j

\* A call that runs under an identity keeps it until its handler returns, whatever
\* arrives while it waits for the hub (server.ts, serializeCall and
\* syncOpenBoundSessions).
CallKeepsIdentity ==
  \A p \in Procs : \A c \in calls[p] : c.as # None => AgentIn(Here(p)) = c.as

\* A caller that names its session acts as nobody, or as a profile that no other
\* session owns; except in a process of a bound Grok conversation, in a tool-only one
\* (which leaves a bind where it is), and when the caller's own profile could not be
\* read (handleToolCall catches that error).
CallActsForItsSession ==
  \A p \in Procs : \A c \in calls[p] :
    src[p] # "grok" /\ ~launch[p].tool /\ c.sid # None /\ ~c.lost /\ c.as # None
      => c.owner \in {None, c.sid}

\* A call that writes runs in no process that is gated, and under no other agent
\* than the one the process is pinned to.
NoWriteUnderAlarm ==
  \A p \in Procs : \A c \in calls[p] :
    c.tool = "write" => /\ ~gate[p]
                        /\ launch[p].expect \in {None, AgentIn(Here(p))}

\* A live process that holds an agent's lock serves that agent: a lock without a
\* slot would keep every other process out for as long as this one lives.
LockIsServed ==
  \A p \in Procs, a \in Agents :
    lock[a].pid = p => \E i \in DOMAIN slots[p] : slots[p][i].agent = a

\* "A gated boot does NOT advance the trust record (repeated respawns into the
\* wrong identity must keep alarming, not learn it)" (identity-guard.ts:27).
AlarmIsNotLearned == trust \notin alarm
=============================================================================
