----------------------------- MODULE AgentStream -----------------------------
(***************************************************************************)
(* One agent of a panel: the items rig streams for it, the loop            *)
(* stream_agent_inner that consumes them, and the SessionBuilder that      *)
(* turns them into the transcript stored with the review.                  *)
(*                                                                         *)
(* Text is abstracted to the numbers of its chunks, in the order in which  *)
(* they were streamed; a tool result counts as a chunk.  A blank chunk has *)
(* no number: it is trimmed away.  Usage counters are left out.            *)
(***************************************************************************)
EXTENDS Naturals, Sequences

CONSTANTS
  Calls,      \* ids of tool calls
  NoCall,     \* no tool in flight
  SideBySide, \* whether a completion may hold several calls
  MaxChunks   \* bound: numbered chunks of a session

ASSUME StreamAssumption ==
  /\ NoCall \notin Calls
  /\ SideBySide \in BOOLEAN
  /\ MaxChunks \in Nat

VARIABLES
  turns,      \* SessionBuilder.turns
  current,    \* SessionBuilder.current_messages
  msgIndex,   \* SessionBuilder.msg_index
  turnIndex,  \* SessionBuilder.turn_index
  thinking,   \* SessionBuilder.thinking: chunks pending
  output,     \* SessionBuilder.output: chunks pending
  tool,       \* SessionBuilder.current_tool
  outcome,    \* what stream_agent_inner returned
  call,       \* call[c]: how far rig is with call c
  argued,     \* calls that streamed some of their input
  clock       \* chunks streamed so far

builder == <<turns, current, msgIndex, turnIndex, thinking, output, tool>>
vars == <<builder, outcome, call, argued, clock>>

Chunk == 1 .. MaxChunks
CallState == {"unseen", "named", "called", "answered"}

\* call: whose name the message carries; input: calls whose input it carries;
\* result: the call it is the result of.
Message ==
  {m \in [role : {"user", "assistant", "tool"}, msg_index : Nat,
          call : Calls \cup {NoCall}, input : SUBSET Calls,
          result : Calls \cup {NoCall}, chunks : SUBSET Chunk] :
     m.role = "tool" <=> m.call # NoCall}
Turn == [turn_index : Nat, messages : Seq(Message)]
PendingTool == [name : Calls \cup {NoCall}, input : SUBSET Calls]
NoTool == [name |-> NoCall, input |-> {}]

TypeOK ==
  /\ turns \in Seq(Turn)
  /\ current \in Seq(Message)
  /\ msgIndex \in Nat
  /\ turnIndex \in Nat
  /\ thinking \subseteq Chunk
  /\ output \subseteq Chunk
  /\ tool \in PendingTool
  /\ outcome \in {"streaming", "ok", "error"}
  /\ call \in [Calls -> CallState]
  /\ argued \subseteq Calls
  /\ clock \in 0 .. MaxChunks

Spoken(role, i, S) ==
  [role |-> role, msg_index |-> i, call |-> NoCall, input |-> {},
   result |-> NoCall, chunks |-> S]

Init ==
  /\ turns = <<>>
  /\ current = <<Spoken("user", 0, {})>>
  /\ msgIndex = 1
  /\ turnIndex = 0
  /\ thinking = {}
  /\ output = {}
  /\ tool = NoTool
  /\ outcome = "streaming"
  /\ call = [c \in Calls |-> "unseen"]
  /\ argued = {}
  /\ clock = 0

-----------------------------------------------------------------------------
(* SessionBuilder.                                                         *)

Pending == thinking \cup output

\* Mutant of Flushed: the message has the wrong role.
FlushedAsTool ==
  IF Pending = {} THEN current
                  ELSE Append(current, Spoken("tool", msgIndex, Pending))

\* flush_assistant: the messages and the next index after it.
Flushed ==
  IF Pending = {} THEN current
                  ELSE Append(current, Spoken("assistant", msgIndex, Pending))
FlushedIndex == IF Pending = {} THEN msgIndex ELSE msgIndex + 1

\* Mutant of CloseTurn: the message index runs on.
CloseTurnRunningOn ==
  /\ thinking' = {}
  /\ output' = {}
  /\ current' = <<>>
  /\ \/ Flushed = <<>> /\ UNCHANGED <<turns, msgIndex, turnIndex>>
     \/ /\ Flushed # <<>>
        /\ turns' = Append(turns, [turn_index |-> turnIndex, messages |-> Flushed])
        /\ turnIndex' = turnIndex + 1
        /\ msgIndex' = FlushedIndex

\* finalize_turn.  The tool in flight is not part of the turn.
CloseTurn ==
  /\ thinking' = {}
  /\ output' = {}
  /\ current' = <<>>
  /\ \/ Flushed = <<>> /\ UNCHANGED <<turns, msgIndex, turnIndex>>
     \/ /\ Flushed # <<>>
        /\ turns' = Append(turns, [turn_index |-> turnIndex, messages |-> Flushed])
        /\ turnIndex' = turnIndex + 1
        /\ msgIndex' = 0

\* finish: the session returned, with whatever was gathered so far.  The
\* builder is consumed, and a tool in flight goes with it.
Finish(result) ==
  /\ CloseTurn
  /\ outcome' = result
  /\ tool' = NoTool

-----------------------------------------------------------------------------
(* The stream, one item at a time.  What rig may send next is external; the *)
(* code's reaction to it is stream_agent_inner.  Text and reasoning come    *)
(* before the calls of a completion, never between a call and its result.   *)

Streaming == outcome = "streaming"
Open == {c \in Calls : call[c] \in {"named", "called"}}

TextItem ==
  /\ Streaming /\ Open = {} /\ clock < MaxChunks
  /\ clock' = clock + 1
  /\ output' = output \cup {clock + 1}
  /\ UNCHANGED <<turns, current, msgIndex, turnIndex, thinking, tool, outcome, call, argued>>

ReasoningDelta ==
  /\ Streaming /\ Open = {} /\ clock < MaxChunks
  /\ clock' = clock + 1
  /\ thinking' = thinking \cup {clock + 1}
  /\ UNCHANGED <<turns, current, msgIndex, turnIndex, output, tool, outcome, call, argued>>

\* Mutant of ToolName: the pending text stays pending.
ToolNameUnflushed(c) ==
  /\ Streaming /\ call[c] = "unseen" /\ (SideBySide \/ Open = {})
  /\ \A d \in Open : call[d] = "named"
  /\ call' = [call EXCEPT ![c] = "named"]
  /\ tool' = [name |-> c, input |-> {}]
  /\ UNCHANGED <<turns, current, msgIndex, turnIndex, thinking, output, outcome, argued, clock>>

\* A tool begins: whatever is in flight is replaced.
ToolName(c) ==
  /\ Streaming /\ call[c] = "unseen" /\ (SideBySide \/ Open = {})
  /\ \A d \in Open : call[d] = "named"
  /\ call' = [call EXCEPT ![c] = "named"]
  /\ current' = Flushed
  /\ msgIndex' = FlushedIndex
  /\ thinking' = {}
  /\ output' = {}
  /\ tool' = [name |-> c, input |-> {}]
  /\ UNCHANGED <<turns, turnIndex, outcome, argued, clock>>

\* Mutant of ToolDelta: the input of the call is not gathered.
ToolDeltaDropped(c) ==
  /\ Streaming /\ call[c] = "named"
  /\ argued' = argued \cup {c}
  /\ UNCHANGED <<builder, outcome, call, clock>>

\* Input goes to the tool in flight, whichever call it is of.
ToolDelta(c) ==
  /\ Streaming /\ call[c] = "named"
  /\ argued' = argued \cup {c}
  /\ tool' = IF tool.name = NoCall THEN tool
                                   ELSE [tool EXCEPT !.input = @ \cup {c}]
  /\ UNCHANGED <<turns, current, msgIndex, turnIndex, thinking, output, outcome, call, clock>>

\* The call is complete and rig runs the tool; tool_end does nothing.
ToolCall(c) ==
  /\ Streaming /\ call[c] = "named"
  /\ \A d \in Open : call[d] = "named"
  /\ call' = [call EXCEPT ![c] = "called"]
  /\ UNCHANGED <<builder, outcome, argued, clock>>

\* The result completes the tool in flight; without one it is dropped.
ToolResult(c) ==
  /\ Streaming /\ call[c] = "called" /\ clock < MaxChunks
  /\ call' = [call EXCEPT ![c] = "answered"]
  /\ clock' = clock + 1
  /\ \/ tool.name = NoCall /\ UNCHANGED <<current, msgIndex>>
     \/ /\ tool.name # NoCall
        /\ current' = Append(current,
             [role |-> "tool", msg_index |-> msgIndex, call |-> tool.name,
              input |-> tool.input, result |-> c, chunks |-> {clock + 1}])
        /\ msgIndex' = msgIndex + 1
  /\ tool' = NoTool
  /\ UNCHANGED <<turns, turnIndex, thinking, output, outcome, argued>>

\* A completion ends; with calls made, rig starts another one.
Final ==
  /\ Streaming /\ Open = {}
  /\ CloseTurn
  /\ UNCHANGED <<tool, outcome, call, argued, clock>>

\* The final response parses, and the session is returned with it.  One that
\* does not parse is skipped, and the stream ends without an output.
FinalResponse ==
  /\ Streaming /\ Open = {}
  /\ Finish("ok")
  /\ UNCHANGED <<call, argued, clock>>

\* An error item, or the end of the stream.
StreamFails ==
  /\ Streaming
  /\ Finish("error")
  /\ UNCHANGED <<call, argued, clock>>

Next ==
  \/ TextItem \/ ReasoningDelta \/ Final \/ FinalResponse \/ StreamFails
  \/ \E c \in Calls : ToolName(c) \/ ToolDelta(c) \/ ToolCall(c) \/ ToolResult(c)

Spec == Init /\ [][Next]_vars

-----------------------------------------------------------------------------
(* Properties.                                                             *)

Numbered(ms) == \A i \in DOMAIN ms : ms[i].msg_index = i - 1

\* The stored transcript can be put back in order by its indices (the rows
\* are loaded without any ORDER BY): turns and messages are numbered from
\* zero without a gap, and no turn is empty.  (SessionBuilder's two counters.)
SessionIsNumbered ==
  /\ \A t \in DOMAIN turns :
       /\ turns[t].turn_index = t - 1
       /\ turns[t].messages # <<>>
       /\ Numbered(turns[t].messages)
  /\ Numbered(current)
  /\ msgIndex = Len(current)
  /\ turnIndex = Len(turns)

Messages ==
  {current[i] : i \in DOMAIN current}
    \cup UNION {{turns[t].messages[i] : i \in DOMAIN turns[t].messages} :
                  t \in DOMAIN turns}

\* "Record the tool result and push the completed tool message": the name,
\* the input and the result of a tool message are of one call.
ToolMessagesMatch ==
  \A m \in Messages : m.role = "tool" =>
    m.result = m.call /\ m.input = argued \cap {m.call}

Slots ==
  {p \in (1 .. Len(turns) + 1) \X (1 .. MaxChunks + 1) :
     p[2] \in IF p[1] <= Len(turns) THEN DOMAIN turns[p[1]].messages ELSE DOMAIN current}
InSlot(p) == IF p[1] <= Len(turns) THEN turns[p[1]].messages[p[2]] ELSE current[p[2]]
Before(p, q) == p[1] < q[1] \/ (p[1] = q[1] /\ p[2] < q[2])

\* Calls of which some item was streamed and no message tells.
Lost == {c \in Calls : call[c] # "unseen" /\ \A m \in Messages : m.call # c}

\* What was streamed is stored, once, and in the order in which it came,
\* whether the stream ends with an output or breaks.  A break costs the call
\* that was open then, with the input it had streamed (finish drops it), and
\* nothing else: no text, no result, no other call.
NothingLostOrMoved ==
  /\ \A p, q \in Slots : Before(p, q) =>
       \A a \in InSlot(p).chunks, b \in InSlot(q).chunks : a < b
  /\ outcome # "streaming" =>
       /\ UNION {m.chunks : m \in Messages} = 1 .. clock
       /\ \A c \in Lost : call[c] # "answered" /\ \A d \in Lost : c = d
  /\ outcome = "ok" => Lost = {}

=============================================================================
