----------------------------- MODULE SharedDocs -----------------------------
(***************************************************************************)
(* Channel documents, skills and memories as the MCP server's tools handle   *)
(* them (mcp-plugin/src/server.ts).  The hub keeps a version of each; a save   *)
(* of a channel document names the version it replaces, the others replace     *)
(* any; sync_skill mirrors a document into two files, the text and then its    *)
(* version, that every process of the user shares.  A process runs one call    *)
(* at a time, and may die during it.                                         *)
(***************************************************************************)
EXTENDS Naturals

CONSTANTS Procs, Docs,
          Personal,     \* skills of the owner and memories: no If-Match
          None,
          MaxVersion    \* bound: saves of a document

DocsAssumption == Personal \subseteq Docs /\ None \notin Docs /\ MaxVersion \in Nat

VARIABLES version,   \* external: the hub's version of each document, 0 when there is none
          textV,     \* the version whose text the mirror holds
          metaV,     \* the version the mirror's sidecar names
          doing,     \* the call each process is in
          clash      \* history: two processes wrote a mirror at once, or one died there

docs == <<version, textV, metaV, doing, clash>>

\* at: the answer awaited, or between the two writes; seen: the version listed or
\* expected; got: what the hub answered, once it has.
NoCall == [at |-> "none", doc |-> None, seen |-> 0, got |-> 0, served |-> FALSE]
Awaits(p, where) == doing[p].at = where /\ doing[p].served
Step(p, at, seen) ==
  doing' = [doing EXCEPT ![p].at = at, ![p].seen = seen, ![p].got = 0, ![p].served = FALSE]
Ends(p) == doing' = [doing EXCEPT ![p] = NoCall]

Enter(p, at, d, seen) ==
  /\ doing[p] = NoCall
  /\ doing' = [doing EXCEPT ![p] = [NoCall EXCEPT !.at = at, !.doc = d, !.seen = seen]]
  /\ UNCHANGED <<version, textV, metaV, clash>>

-----------------------------------------------------------------------------
(* The tools.                                                              *)

\* Reads: one or several requests, and nothing is kept.
ListSkills(p, d)  == Enter(p, "look", d, 0)
LoadSkill(p, d)   == Enter(p, "look", d, 0)
LoadMemory(p, d)  == d \in Personal /\ Enter(p, "look", d, 0)
ListDocs(p, d)    == d \notin Personal /\ Enter(p, "look", d, 0)
GetDoc(p, d)      == d \notin Personal /\ Enter(p, "look", d, 0)
Revisions(p, d)   == d \notin Personal /\ Enter(p, "look", d, 0)

\* upsert_channel_doc expects what the caller says; save_skill asks the hub first, unless
\* the skill is personal.
UpsertDoc(p, d, expected) == d \notin Personal /\ Enter(p, "put", d, expected)
SaveMemory(p, d)          == d \in Personal /\ Enter(p, "put", d, 0)
SaveSkill(p, d)           == Enter(p, IF d \in Personal THEN "put" ELSE "read", d, 0)
SaveOver(p) ==
  /\ Awaits(p, "read") /\ Step(p, "put", doing[p].got)
  /\ UNCHANGED <<version, textV, metaV, clash>>

\* sync_skill compares the version of a list with the sidecar's, and fetches the text
\* of a version the mirror has not got: the hub's newest by then.
SyncSkill(p, d) == Enter(p, "list", d, 0)
Compare(p) ==
  LET d == doing[p].doc v == doing[p].got IN
  /\ Awaits(p, "list")
  /\ IF v = 0 \/ metaV[d] = v THEN Ends(p) ELSE Step(p, "text", v)
  /\ UNCHANGED <<version, textV, metaV, clash>>

Between(q) == doing[q].at = "between"
\* Mutation of Writes: the sidecar is replaced before the text.
WritesSidecarFirst(p, first) ==
  LET d == doing[p].doc IN
  IF first THEN metaV' = [metaV EXCEPT ![d] = doing[p].seen] /\ UNCHANGED textV
           ELSE textV' = [textV EXCEPT ![d] = doing[p].got] /\ UNCHANGED metaV
\* The text is written first, and the sidecar names the version that was listed.
Writes(p, first) ==
  LET d == doing[p].doc IN
  IF first THEN textV' = [textV EXCEPT ![d] = doing[p].got] /\ UNCHANGED metaV
           ELSE metaV' = [metaV EXCEPT ![d] = doing[p].seen] /\ UNCHANGED textV
FirstWrite(p) ==
  /\ Awaits(p, "text") /\ Writes(p, TRUE)
  /\ doing' = [doing EXCEPT ![p].at = "between"]
  /\ clash' = (clash \/ \E q \in Procs : Between(q) /\ doing[q].doc = doing[p].doc)
  /\ UNCHANGED version
SecondWrite(p) ==
  /\ Between(p) /\ Writes(p, FALSE) /\ Ends(p) /\ UNCHANGED <<version, clash>>

\* Other answers end the call; a failed one ends any, but for the read before a save,
\* which a refusal takes for "there is none".
Answered(p) ==
  /\ \E where \in {"look", "put"} : Awaits(p, where)
  /\ Ends(p) /\ UNCHANGED <<version, textV, metaV, clash>>
Fails(p) ==
  /\ doing[p].at \in {"look", "put", "read", "list", "text"}
  /\ \/ Ends(p)
     \/ doing[p].at = "read" /\ Step(p, "put", 0)
  /\ UNCHANGED <<version, textV, metaV, clash>>

\* The process is killed.  What it leaves between the two writes is an old sidecar with
\* a newer text, unless another process has mirrored a newer version meanwhile.
Dies(p) ==
  /\ doing[p] # NoCall /\ Ends(p)
  /\ clash' = (clash \/ (Between(p) /\ textV[doing[p].doc] = doing[p].got
                                    /\ metaV[doing[p].doc] > doing[p].got))
  /\ UNCHANGED <<version, textV, metaV>>

-----------------------------------------------------------------------------
\* The hub serves a request: a put of a channel document only over the version it names.
Accepts(p) == doing[p].doc \in Personal \/ doing[p].seen = version[doing[p].doc]
Serves(p) ==
  LET d == doing[p].doc IN
  /\ doing[p].at \in {"look", "read", "list", "text", "put"} /\ ~doing[p].served
  /\ doing[p].at = "put" /\ Accepts(p) => version[d] < MaxVersion
  /\ version' = IF doing[p].at = "put" /\ Accepts(p)
                THEN [version EXCEPT ![d] = @ + 1] ELSE version
  /\ doing' = [doing EXCEPT ![p].served = TRUE, ![p].got = version[d]]
  /\ UNCHANGED <<textV, metaV, clash>>

Init ==
  /\ version = [d \in Docs |-> 0] /\ textV = version /\ metaV = version
  /\ doing = [p \in Procs |-> NoCall] /\ clash = FALSE

Next ==
  \E p \in Procs :
    \/ SaveOver(p) \/ Compare(p) \/ FirstWrite(p) \/ SecondWrite(p)
    \/ Answered(p) \/ Fails(p) \/ Dies(p) \/ Serves(p)
    \/ \E d \in Docs :
         \/ ListSkills(p, d) \/ LoadSkill(p, d) \/ LoadMemory(p, d)
         \/ ListDocs(p, d) \/ GetDoc(p, d) \/ Revisions(p, d)
         \/ SaveMemory(p, d) \/ SaveSkill(p, d) \/ SyncSkill(p, d)
         \/ \E expected \in 0..MaxVersion : UpsertDoc(p, d, expected)
=============================================================================
