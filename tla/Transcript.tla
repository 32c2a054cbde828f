------------------------------ MODULE Transcript ------------------------------
(***************************************************************************)
(* The transcript of AgentStream as it is read again: the rows of a session *)
(* come back in any order, and both LogViewer and list_agent_logs sort them *)
(* and take the prompt and the answer apart.  The page shows what a tool    *)
(* said as it is stored; the service parses it first.                       *)
(***************************************************************************)
EXTENDS AgentStream, FiniteSets, Subsequences

ByTurn(ts) == SortedBy(ts, [i \in DOMAIN ts |-> ts[i].turn_index])
ByMessage(ms) == SortedBy(ms, [i \in DOMAIN ms |-> ms[i].msg_index])

\* ordered_messages.
OrderedMessages(ts) ==
  LET sorted == ByTurn(ts)
  IN FlattenSeq([i \in DOMAIN sorted |-> ByMessage(sorted[i].messages)])

OfRoles(ms, roles) == Picked(ms, {i \in DOMAIN ms : ms[i].role \in roles})

PromptText(ts) == OfRoles(OrderedMessages(ts), {"system", "user"})
\* What assistant and tool messages say; thinking is shown in a list of its own.
ResponseText(ts) == OfRoles(OrderedMessages(ts), {"assistant", "tool"})

-----------------------------------------------------------------------------
(* list_agent_logs, where json are the calls whose output is JSON.          *)

\* The input of one call parses, that of two run together does not; what does
\* not parse is null, and null is left out of the log.
AsInvocation(m, json) ==
  [m EXCEPT !.input = IF \E c \in Calls : @ \subseteq {c} THEN @ ELSE {},
            !.result = IF @ \in json THEN @ ELSE NoCall]

RoleMessageFrom(m, json) == IF m.role = "tool" THEN AsInvocation(m, json) ELSE m

RoleMessages(ts, json) ==
  LET sorted == ByTurn(ts)
  IN FlattenSeq([i \in DOMAIN sorted |->
       LET ms == ByMessage(sorted[i].messages)
       IN [j \in DOMAIN ms |-> RoleMessageFrom(ms[j], json)]])

AgentLog(ts, json) ==
  [prompt   |-> OfRoles(RoleMessages(ts, json), {"system", "user"}),
   response |-> OfRoles(RoleMessages(ts, json), {"assistant", "tool"})]

-----------------------------------------------------------------------------
(* Properties.                                                             *)

Reversed(ts) == Reverse([i \in DOMAIN ts |-> [ts[i] EXCEPT !.messages = Reverse(@)]])
Rotated(s) == IF s = <<>> THEN s ELSE Append(Tail(s), Head(s))
Stored == FlattenSeq([i \in DOMAIN turns |-> turns[i].messages])

\* In whatever order the database returns turns and messages, the page shows
\* the prompt and then the answer as they were streamed.
ShownAsStreamed ==
  outcome # "streaming" =>
    \A rows \in {turns, Reversed(turns), Rotated(turns)} :
      PromptText(rows) \o ResponseText(rows) = Stored

\* The service tells the same story as the page: the same messages in the same
\* order, short only of tool outputs that are no JSON.
LogAgrees ==
  outcome # "streaming" =>
    \A json \in SUBSET Calls :
      LET log == AgentLog(Reversed(turns), json) IN
      /\ log.prompt = PromptText(turns)
      /\ Len(log.response) = Len(ResponseText(turns))
      /\ \A i \in DOMAIN log.response :
           LET shown == ResponseText(turns)[i]
               told == log.response[i] IN
           /\ shown.result \in json => told = shown
           /\ [told EXCEPT !.result = shown.result] = shown

\* Nothing that was streamed is lost, but for the call a broken stream left
\* open; nothing is moved, or shown elsewhere.
TranscriptIsWhole == NothingLostOrMoved /\ ShownAsStreamed /\ LogAgrees

=============================================================================
