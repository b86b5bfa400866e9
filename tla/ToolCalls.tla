------------------------------ MODULE ToolCalls ------------------------------
(***************************************************************************)
(* What the tools of the MCP server do to the hub and what they tell the     *)
(* agent (mcp-plugin/src/server.ts).  A handler is a short script of requests  *)
(* and frames; the calls of a process run one after the other, while the       *)
(* socket comes and goes, and a request whose answer never came may still       *)
(* be served long after its call has ended.                                  *)
(***************************************************************************)
EXTENDS Naturals, Sequences

CONSTANTS MaxCalls   \* bound: calls of the process

ToolAssumption == MaxCalls \in Nat

VARIABLES open,    \* readyState of the active slot's socket is OPEN
          loaded,  \* loadedToolGroups holds the group of the extended tools
          known,   \* the channel is in knownChannels of the slot
          calls    \* the calls, the last of them under way until it has told

tool == <<open, loaded, known, calls>>

-----------------------------------------------------------------------------
(* The scripts.  A step is "gate": go on if the socket is open; "frame": hand  *)
(* a frame to an open socket, which ends the call; "blind": the same without    *)
(* looking; "hint": hand one if open, and go on; "look": a request whose        *)
(* failure changes nothing; "need": one whose failure ends the call; "post":    *)
(* the request that is the call's effect.                                    *)

Mentions == <<"look">>   \* resolveBareMentions, and the cache of members
Redact   == <<"look">>   \* redactOutboundForChannel, of a text with a key
Prepare  == Mentions \o Redact

SendTyping      == <<"hint">>
Reparent        == <<"post">>
ListMine        == <<"post">>
UploadLocalFile == <<"need">>
SendMedia       == UploadLocalFile \o Prepare \o <<"post">>
ListVoices      == <<"post">>
SetVoice        == <<"post">>
Transcribe      == <<"post">>
Reply           == Prepare \o <<"post">>
React           == <<"frame">>
\* Mutation of ThreadReply: the socket is looked at before the text is prepared.
ThreadEarly     == <<"gate">> \o Prepare \o <<"blind">>
ThreadReply     == Prepare \o <<"frame">>
Pin             == <<"frame">>
EditMessage     == <<"gate">> \o Prepare \o <<"blind">>
DeleteMessage   == <<"frame">>
SetStatus       == <<"frame">>
ArchiveChannel  == <<"frame">>
Report          == <<"post">>
Moderation      == <<"post">>
SetTopic        == <<"frame">>
Forward         == <<"frame">>
Search          == <<"post">>
Vote            == <<"frame">>
Propose         == <<"frame">>
Context         == <<"look">>
Brief           == <<"look", "look">> \o Context
Join            == <<"hint", "post">> \o Brief
Leave           == <<"post">>
HiddenJoin      == <<"post", "look">>
HiddenSecret    == <<"post">>
HiddenMoves     == <<"post">>
MarkRead        == <<"frame">>
ListChannels    == <<"post">>
FindDm          == <<"post", "look">>
ListLoops       == <<"post">>
Entitlements    == <<"post">>
ListMembers     == <<"post">> \o Context
History         == <<"post", "look">>
OkrObjectives   == <<"post">>
OkrTasks        == <<"post">>
OkrThreads      == <<"post">>
OkrProgress     == <<"post">>
OkrLinks        == <<"post">>

Script ==
  [list_my_channels |-> ListMine, reply |-> Reply, join_channel |-> Join, leave_channel |-> Leave,
   mark_read |-> MarkRead, list_channels |-> ListChannels, find_dm |-> FindDm,
   list_loops |-> ListLoops, my_entitlements |-> Entitlements, channel_brief |-> Brief,
   list_members |-> ListMembers, get_history |-> History, okr_list |-> OkrObjectives]
\* Those an agent sees only once their group is loaded.
Extended ==
  [send_typing |-> SendTyping, okr_reparent_objective |-> Reparent, send_image |-> SendMedia,
   list_voices |-> ListVoices, set_voice |-> SetVoice, transcribe |-> Transcribe,
   react |-> React, thread_reply |-> ThreadReply, pin |-> Pin, edit_message |-> EditMessage,
   delete_message |-> DeleteMessage, set_status |-> SetStatus,
   archive_channel |-> ArchiveChannel, report_message |-> Report,
   list_my_moderation_history |-> Moderation, set_topic |-> SetTopic, forward |-> Forward,
   search |-> Search, vote |-> Vote, propose |-> Propose,
   hidden_identity_join |-> HiddenJoin, hidden_identity_get_secret |-> HiddenSecret,
   hidden_identity_vote |-> HiddenMoves, okr_add_task |-> OkrTasks,
   okr_open_thread |-> OkrThreads, okr_add_kr |-> OkrProgress, okr_set_links |-> OkrLinks]

\* The tools that the steps below tell apart.
Special == {"reply", "join_channel", "leave_channel", "edit_message"}

\* hub: what became of the post; lost: nobody waits for its answer any more, late: the hub
\* did it, and its answer came to nobody.  sent: frames handed to an open socket.  told:
\* what the words say; failed: "Send failed", "Join failed", an exception and the like.
Call == [tool : Special \cup {"other"}, todo : Seq({"gate", "frame", "blind", "hint", "look", "need", "post"}),
         hub : {"none", "asked", "done", "declined", "lost", "late"},
         sent : 0..1,
         told : {"none", "sent", "failed", "unknown", "dispatched", "offline", "verify",
                 "member", "shown"}]

Busy == calls # <<>> /\ calls[Len(calls)].told \in {"none", "verify"}
Now == calls[Len(calls)]
Update(c) == calls' = [calls EXCEPT ![Len(calls)] = c]
At(step) == Busy /\ Now.told = "none" /\ Now.todo # <<>> /\ Head(Now.todo) = step
Onward == [Now EXCEPT !.todo = Tail(@)]
Tell(what) == [Now EXCEPT !.todo = <<>>, !.told = what]

-----------------------------------------------------------------------------
(* The handlers.                                                           *)

\* A hidden tool is named with its group and not run, unless it is invoked through
\* invoke_extended_tool; a reply stops the typing pulse first.
Begin(name, script) ==
  /\ ~Busy /\ Len(calls) < MaxCalls
  /\ calls' = Append(calls, [tool |-> IF name \in Special THEN name ELSE "other",
                             todo |-> script, hub |-> "none", sent |-> 0, told |-> "none"])
  /\ UNCHANGED <<open, loaded, known>>

\* load_tool_group, told to the host when it changes anything.
LoadGroup == ~Busy /\ ~loaded /\ loaded' = TRUE /\ UNCHANGED <<open, known, calls>>

Gate ==
  /\ At("gate") /\ Update(IF open THEN Onward ELSE Tell("offline"))
  /\ UNCHANGED <<open, loaded, known>>
Frame ==
  /\ At("frame")
  /\ Update(IF open THEN [Tell("dispatched") EXCEPT !.sent = 1] ELSE Tell("offline"))
  /\ UNCHANGED <<open, loaded, known>>
\* A send on a socket that has closed is dropped, or throws while a new one opens.
Blind ==
  /\ At("blind")
  /\ \/ Update([Tell("dispatched") EXCEPT !.sent = IF open THEN 1 ELSE 0])
     \/ ~open /\ Update(Tell("failed"))
  /\ UNCHANGED <<open, loaded, known>>
Hint ==
  /\ At("hint") /\ Update([Onward EXCEPT !.sent = IF open THEN 1 ELSE 0])
  /\ UNCHANGED <<open, loaded, known>>

\* Answered, refused, timed out or served from the cache: the call goes on.
Look ==
  /\ At("look") /\ Update(Onward) /\ UNCHANGED <<open, loaded, known>>
Need ==
  /\ At("need") /\ \E got \in {Onward, Tell("failed")} : Update(got)
  /\ UNCHANGED <<open, loaded, known>>

\* apiFetch: a request with a deadline of 15 seconds.
Post ==
  /\ At("post") /\ Now.hub = "none" /\ Update([Now EXCEPT !.hub = "asked"])
  /\ UNCHANGED <<open, loaded, known>>

Joined == Now.tool = "join_channel"
\* The answer.  A refused join waits for what the frame may have done.
Answer ==
  /\ At("post") /\ Now.hub \in {"done", "declined"}
  /\ Update(IF Now.hub = "done" THEN Onward
            ELSE Tell(IF Joined THEN "verify" ELSE "failed"))
  /\ known' = IF Now.hub = "done" THEN (known /\ Now.tool # "leave_channel") \/ Joined ELSE known
  /\ UNCHANGED <<open, loaded>>
\* The members: the caller is among them, or not, or the request is refused or fails.
Verify ==
  /\ Busy /\ Now.told = "verify"
  /\ \E what \in {"member", "failed", "unknown"} :
       Update(Tell(what)) /\ known' = (known \/ what = "member")
  /\ UNCHANGED <<open, loaded>>

\* No answer within the deadline: a reply and a leave go to the socket instead, under a
\* new id; a join says that it could not verify; the words of the others, and of these
\* without a socket, are those of a failure.
Falls(t) == t \in {"reply", "leave_channel"}
NoAnswer ==
  /\ At("post") /\ Now.hub \in {"asked", "done", "declined"}
  /\ LET fate == CASE Now.hub = "asked" -> "lost" [] Now.hub = "done" -> "late" [] OTHER -> Now.hub
         gone == [Now EXCEPT !.hub = fate, !.todo = <<>>]
     IN  IF Falls(Now.tool) /\ open THEN Update([gone EXCEPT !.sent = 1, !.told = "dispatched"])
         ELSE Update([gone EXCEPT !.told = IF Joined THEN "unknown" ELSE "failed"])
  /\ known' = (known /\ ~(Now.tool = "leave_channel" /\ open))
  /\ UNCHANGED <<open, loaded>>

\* The script is over.
Finish ==
  /\ Busy /\ Now.told = "none" /\ Now.todo = <<>>
  /\ Update(Tell(IF Now.hub = "done" THEN "sent" ELSE "shown"))
  /\ UNCHANGED <<open, loaded, known>>

-----------------------------------------------------------------------------
\* The socket is lost and reopened, and the hub serves what it was asked, in its time.
SocketTurns == open' = ~open /\ UNCHANGED <<loaded, known, calls>>
Serves(i) ==
  /\ calls[i].hub \in {"asked", "lost"}
  /\ \E done \in BOOLEAN :
       calls' = [calls EXCEPT ![i].hub = IF ~done THEN "declined"
                                         ELSE IF @ = "lost" THEN "late" ELSE "done"]
  /\ UNCHANGED <<open, loaded, known>>

Init == open = FALSE /\ loaded = FALSE /\ known = FALSE /\ calls = <<>>

Next ==
  \/ \E t \in DOMAIN Script : Begin(t, Script[t])
  \/ \E t \in DOMAIN Extended, invoked \in BOOLEAN :
       (loaded \/ invoked) /\ Begin(t, Extended[t])
  \/ LoadGroup \/ Gate \/ Frame \/ Blind \/ Hint \/ Look \/ Need \/ Post
  \/ Answer \/ Verify \/ NoAnswer \/ Finish \/ SocketTurns
  \/ \E i \in DOMAIN calls : Serves(i)
=============================================================================
