-------------------------- MODULE AgentStream_proofs --------------------------
(***************************************************************************)
(* Proofs about AgentStream and Transcript, for any set of tool calls, any *)
(* number of chunks and any order in which they are streamed and read.     *)
(***************************************************************************)
EXTENDS Transcript, InductionLemmas

\* What numbering needs beyond the turns already closed.
Indexed == TypeOK /\ SessionIsNumbered

\* flush_assistant leaves messages that are numbered, and the index that follows.
LEMMA FlushNumbers ==
  ASSUME Indexed
  PROVE  /\ Flushed \in Seq(Message)
         /\ Numbered(Flushed)
         /\ FlushedIndex = Len(Flushed)
<1>1. CASE Pending = {}
  BY <1>1 DEF Indexed, TypeOK, SessionIsNumbered, Flushed, FlushedIndex
<1>2. CASE Pending # {}
  <2> DEFINE m == Spoken("assistant", msgIndex, Pending)
  <2>1. m \in Message /\ m.msg_index = msgIndex
    BY DEF Indexed, TypeOK, Message, Spoken, Pending
  <2>2. current \in Seq(Message) /\ msgIndex = Len(current) /\ Numbered(current)
    BY DEF Indexed, TypeOK, SessionIsNumbered
  <2>3. Flushed = Append(current, m) /\ FlushedIndex = msgIndex + 1
    BY <1>2 DEF Flushed, FlushedIndex
  <2> HIDE DEF m
  <2> QED BY <2>1, <2>2, <2>3 DEF Numbered
<1> QED BY <1>1, <1>2

\* finalize_turn closes a numbered turn and starts the next one empty.
LEMMA CloseNumbers ==
  ASSUME Indexed, CloseTurn
  PROVE  /\ turns' \in Seq(Turn) /\ current' \in Seq(Message)
         /\ msgIndex' \in Nat /\ turnIndex' \in Nat
         /\ thinking' = {} /\ output' = {}
         /\ SessionIsNumbered'
<1>1. /\ Flushed \in Seq(Message) /\ Numbered(Flushed) /\ FlushedIndex = Len(Flushed)
  BY FlushNumbers
<1>2. current' = <<>> /\ current' \in Seq(Message) /\ Numbered(current')
  BY DEF CloseTurn, Numbered
<1>3. /\ turns \in Seq(Turn) /\ turnIndex \in Nat /\ msgIndex \in Nat
      /\ turnIndex = Len(turns) /\ msgIndex = Len(current) /\ current \in Seq(Message)
  BY DEF Indexed, TypeOK, SessionIsNumbered
<1>4. CASE Flushed = <<>>
  <2>1. current = <<>>
    BY <1>1, <1>3, <1>4 DEF Flushed
  <2>2. UNCHANGED <<turns, msgIndex, turnIndex>>
    BY <1>4 DEF CloseTurn
  <2>3. msgIndex = 0
    BY <1>3, <2>1
  <2> QED BY <1>2, <1>3, <2>2, <2>3 DEF CloseTurn, SessionIsNumbered, Indexed
<1>5. CASE Flushed # <<>>
  <2> DEFINE t == [turn_index |-> turnIndex, messages |-> Flushed]
  <2>1. t \in Turn /\ t.turn_index = turnIndex /\ t.messages = Flushed
    BY <1>1, <1>3 DEF Turn
  <2>2. turns' = Append(turns, t) /\ turnIndex' = turnIndex + 1 /\ msgIndex' = 0
    BY <1>5 DEF CloseTurn
  <2> HIDE DEF t
  <2>3. turns' \in Seq(Turn) /\ Len(turns') = Len(turns) + 1
    BY <1>3, <2>1, <2>2
  <2>4. ASSUME NEW i \in DOMAIN turns'
        PROVE  /\ turns'[i].turn_index = i - 1 /\ turns'[i].messages # <<>>
               /\ Numbered(turns'[i].messages)
    <3>1. CASE i = Len(turns) + 1
      <4>1. turns'[i] = t
        BY <1>3, <2>1, <2>2, <3>1
      <4> QED BY <1>1, <1>3, <1>5, <2>1, <3>1, <4>1
    <3>2. CASE i # Len(turns) + 1
      <4>1. i \in DOMAIN turns /\ turns'[i] = turns[i]
        BY <1>3, <2>1, <2>2, <2>3, <3>2
      <4> QED BY <4>1 DEF Indexed, SessionIsNumbered
    <3> QED BY <3>1, <3>2
  <2>5. msgIndex' = Len(current') /\ turnIndex' = Len(turns')
    BY <1>2, <1>3, <2>2, <2>3
  <2> QED BY <1>2, <1>3, <2>2, <2>3, <2>4, <2>5 DEF CloseTurn, SessionIsNumbered, Numbered
<1> QED BY <1>4, <1>5

\* Types and numbering hold initially.
LEMMA InitIndexed == Init => Indexed
<1> SUFFICES ASSUME Init PROVE Indexed
  OBVIOUS
<1> DEFINE m == Spoken("user", 0, {})
<1>1. m \in Message /\ m.msg_index = 0
  BY DEF Message, Spoken
<1>2. current = <<m>>
  BY DEF Init
<1> HIDE DEF m
<1>3. current \in Seq(Message) /\ Numbered(current) /\ Len(current) = 1
  BY <1>1, <1>2 DEF Numbered
<1>4. TypeOK
  BY <1>3, StreamAssumption DEF Init, TypeOK, PendingTool, NoTool, CallState, Turn
<1>5. SessionIsNumbered
  BY <1>3 DEF Init, SessionIsNumbered
<1> QED BY <1>4, <1>5 DEF Indexed

\* Types and numbering are kept by every step.
LEMMA NextIndexed == Indexed /\ [Next]_vars => Indexed'
<1> SUFFICES ASSUME Indexed, [Next]_vars PROVE Indexed'
  OBVIOUS
<1> USE StreamAssumption
<1>1. CASE TextItem
  BY <1>1 DEF TextItem, Indexed, TypeOK, SessionIsNumbered, Numbered, Chunk
<1>2. CASE ReasoningDelta
  BY <1>2 DEF ReasoningDelta, Indexed, TypeOK, SessionIsNumbered, Numbered, Chunk
<1>3. ASSUME NEW c \in Calls, ToolName(c) PROVE Indexed'
  <2>1. /\ current' \in Seq(Message) /\ Numbered(current') /\ msgIndex' = Len(current')
    BY <1>3, FlushNumbers DEF ToolName, Numbered
  <2>2. msgIndex' \in Nat
    BY <2>1
  <2>3. tool' \in PendingTool
    BY <1>3 DEF ToolName, PendingTool
  <2>4. call' \in [Calls -> CallState]
    BY <1>3 DEF ToolName, Indexed, TypeOK, CallState
  <2>5. TypeOK'
    BY <1>3, <2>1, <2>2, <2>3, <2>4 DEF ToolName, Indexed, TypeOK
  <2>6. SessionIsNumbered'
    BY <1>3, <2>1 DEF ToolName, Indexed, SessionIsNumbered
  <2> QED BY <2>5, <2>6 DEF Indexed
<1>4. ASSUME NEW c \in Calls, ToolDelta(c) PROVE Indexed'
  <2>1. tool' \in PendingTool
    BY <1>4 DEF ToolDelta, Indexed, TypeOK, PendingTool
  <2>2. TypeOK'
    BY <1>4, <2>1 DEF ToolDelta, Indexed, TypeOK
  <2> QED BY <1>4, <2>2 DEF ToolDelta, Indexed, SessionIsNumbered, Numbered
<1>5. ASSUME NEW c \in Calls, ToolCall(c) PROVE Indexed'
  <2>1. call' \in [Calls -> CallState]
    BY <1>5 DEF ToolCall, Indexed, TypeOK, CallState
  <2> QED BY <1>5, <2>1 DEF ToolCall, builder, Indexed, TypeOK, SessionIsNumbered, Numbered
<1>6. ASSUME NEW c \in Calls, ToolResult(c) PROVE Indexed'
  <2>1. /\ call' \in [Calls -> CallState] /\ clock' \in 0 .. MaxChunks
        /\ tool' \in PendingTool
    BY <1>6 DEF ToolResult, Indexed, TypeOK, CallState, PendingTool, NoTool
  <2>2. /\ current' \in Seq(Message) /\ Numbered(current') /\ msgIndex' = Len(current')
    <3>1. CASE tool.name = NoCall
      BY <1>6, <3>1 DEF ToolResult, Indexed, TypeOK, SessionIsNumbered, Numbered
    <3>2. CASE tool.name # NoCall
      <4> DEFINE m == [role |-> "tool", msg_index |-> msgIndex, call |-> tool.name,
                       input |-> tool.input, result |-> c, chunks |-> {clock + 1}]
      <4>1. m \in Message /\ m.msg_index = msgIndex
        BY <1>6, <3>2 DEF ToolResult, Indexed, TypeOK, Message, PendingTool, Chunk
      <4>2. current' = Append(current, m) /\ msgIndex' = msgIndex + 1
        BY <1>6, <3>2 DEF ToolResult
      <4> HIDE DEF m
      <4> QED BY <4>1, <4>2 DEF Indexed, TypeOK, SessionIsNumbered, Numbered
    <3> QED BY <3>1, <3>2
  <2>3. msgIndex' \in Nat
    BY <2>2
  <2>4. TypeOK'
    BY <1>6, <2>1, <2>2, <2>3 DEF ToolResult, Indexed, TypeOK
  <2> QED BY <1>6, <2>2, <2>4 DEF ToolResult, Indexed, SessionIsNumbered
<1>7. ASSUME CloseTurn, UNCHANGED <<call, argued, clock>>, tool' \in PendingTool,
             outcome' \in {"streaming", "ok", "error"}
      PROVE  Indexed'
  BY <1>7, CloseNumbers DEF Indexed, TypeOK
<1>8. CASE Final \/ FinalResponse \/ StreamFails
  <2>1. NoTool \in PendingTool
    BY DEF NoTool, PendingTool
  <2> QED BY <1>7, <1>8, <2>1 DEF Final, FinalResponse, StreamFails, Finish, Indexed, TypeOK
<1>9. CASE UNCHANGED vars
  BY <1>9 DEF vars, builder, Indexed, TypeOK, SessionIsNumbered, Numbered
<1> QED BY <1>1, <1>2, <1>3, <1>4, <1>5, <1>6, <1>8, <1>9 DEF Next

\* What was built stays numbered, however long the stream.
LEMMA SpecIndexed == Spec => []Indexed
BY InitIndexed, NextIndexed, PTL DEF Spec

\* The builder's fields keep their types, however long the stream.
THEOREM BuilderTypes == Spec => []TypeOK
<1>1. Indexed => TypeOK
  BY DEF Indexed
<1> QED BY <1>1, SpecIndexed, PTL

\* SessionBuilder numbers turns and messages from zero without a gap, so the
\* stored rows can be put back in order.
THEOREM TranscriptOrdered == Spec => []SessionIsNumbered
<1>1. Indexed => SessionIsNumbered
  BY DEF Indexed
<1> QED BY <1>1, SpecIndexed, PTL

-----------------------------------------------------------------------------
(* One call at a time: what PendingTool holds is of the call in progress.  *)

\* A stored tool message is of one call, which is over: no more input comes.
Matched(m) ==
  m.role = "tool" =>
    m.call \in Calls /\ call[m.call] = "answered"
      /\ m.result = m.call /\ m.input = argued \cap {m.call}

CurrentMatched == \A i \in DOMAIN current : Matched(current[i])
TurnsMatched ==
  \A t \in DOMAIN turns : \A i \in DOMAIN turns[t].messages :
    Matched(turns[t].messages[i])

Serial ==
  /\ Indexed
  /\ \A c, d \in Open : c = d
  /\ \A c \in Calls : call[c] = "unseen" => c \notin argued
  /\ Streaming => \A c \in Open : tool.name = c /\ tool.input = argued \cap {c}
  /\ CurrentMatched
  /\ TurnsMatched

\* flush_assistant adds no tool message.
LEMMA FlushMatches ==
  ASSUME Serial PROVE \A i \in DOMAIN Flushed : Matched(Flushed[i])
<1>1. CASE Pending = {}
  BY <1>1 DEF Serial, CurrentMatched, Flushed
<1>2. CASE Pending # {}
  <2> DEFINE m == Spoken("assistant", msgIndex, Pending)
  <2>1. m \in Message /\ m.role = "assistant"
    BY DEF Serial, Indexed, TypeOK, Message, Spoken, Pending
  <2>2. Flushed = Append(current, m) /\ current \in Seq(Message)
    BY <1>2 DEF Flushed, Serial, Indexed, TypeOK
  <2>3. Matched(m)
    BY <2>1 DEF Matched
  <2> HIDE DEF m
  <2>4. ASSUME NEW i \in DOMAIN Flushed PROVE Matched(Flushed[i])
    <3>1. CASE i = Len(current) + 1
      <4>1. Flushed[i] = m
        BY <2>1, <2>2, <3>1
      <4> QED BY <2>3, <4>1
    <3>2. CASE i # Len(current) + 1
      <4>1. i \in DOMAIN current /\ Flushed[i] = current[i]
        BY <2>1, <2>2, <2>4, <3>2
      <4> QED BY <4>1 DEF Serial, CurrentMatched
    <3> QED BY <3>1, <3>2
  <2> QED BY <2>4
<1> QED BY <1>1, <1>2

\* finalize_turn moves messages and changes none.
LEMMA CloseMatches ==
  ASSUME Serial, CloseTurn, UNCHANGED <<call, argued>>
  PROVE  CurrentMatched' /\ TurnsMatched'
<1>1. CurrentMatched'
  BY DEF CloseTurn, CurrentMatched
<1>2. \A m : Matched(m) => Matched(m)'
  BY DEF Matched
<1>3. ASSUME NEW t \in DOMAIN turns', NEW i \in DOMAIN turns'[t].messages,
             NEW m, m = turns'[t].messages[i]
      PROVE  Matched(m)
  <2>1. CASE turns' = turns
    BY <1>3, <2>1 DEF Serial, TurnsMatched
  <2>2. CASE turns' # turns
    <3> DEFINE u == [turn_index |-> turnIndex, messages |-> Flushed]
    <3>1. turns' = Append(turns, u) /\ u.messages = Flushed
      BY <2>2 DEF CloseTurn
    <3>2. turns \in Seq(Turn) /\ u \in Turn
      BY FlushNumbers DEF Serial, Indexed, TypeOK, Turn
    <3> HIDE DEF u
    <3>3. CASE t = Len(turns) + 1
      <4>1. turns'[t] = u
        BY <3>1, <3>2, <3>3
      <4> QED BY <1>3, <3>1, <4>1, FlushMatches
    <3>4. CASE t # Len(turns) + 1
      <4>1. t \in DOMAIN turns /\ turns'[t] = turns[t]
        BY <1>3, <3>1, <3>2, <3>4
      <4> QED BY <1>3, <4>1 DEF Serial, TurnsMatched
    <3> QED BY <3>3, <3>4
  <2> QED BY <2>1, <2>2
<1>4. \A t \in DOMAIN turns' : \A i \in DOMAIN turns'[t].messages :
        Matched(turns'[t].messages[i])
  BY <1>3
<1>5. TurnsMatched'
  BY <1>4 DEF TurnsMatched, Matched
<1> QED BY <1>1, <1>5

\* The first message is the prompt.
LEMMA InitSerial == Init => Serial
<1> SUFFICES ASSUME Init PROVE Serial
  OBVIOUS
<1> DEFINE m == Spoken("user", 0, {})
<1>1. current = <<m>> /\ m.role = "user"
  BY DEF Init, Spoken
<1> HIDE DEF m
<1>2. CurrentMatched /\ TurnsMatched
  BY <1>1 DEF Init, Matched, CurrentMatched, TurnsMatched
<1> QED BY <1>2, InitIndexed DEF Init, Serial, Open

\* One call at a time stays so, and every result finds its tool in flight.
LEMMA NextSerial ==
  ASSUME ~SideBySide, Serial, [Next]_vars PROVE Serial'
<1>1. Indexed'
  BY NextIndexed DEF Serial
<1>2. CASE TextItem \/ ReasoningDelta
  BY <1>1, <1>2 DEF TextItem, ReasoningDelta, Serial, Open, Matched, CurrentMatched, TurnsMatched
<1>3. ASSUME NEW c \in Calls, ToolName(c) PROVE Serial'
  <2>1. Open = {} /\ call[c] = "unseen"
    BY <1>3 DEF ToolName
  <2>2. Open' = {c} /\ call' = [call EXCEPT ![c] = "named"] /\ argued' = argued
    BY <1>3, <2>1 DEF ToolName, Open, Serial, Indexed, TypeOK
  <2>3. tool' = [name |-> c, input |-> {}] /\ argued \cap {c} = {}
    BY <1>3, <2>1 DEF ToolName, Serial
  <2>4. \A m : Matched(m) => Matched(m)'
    BY <2>1, <2>2 DEF Matched, Serial, Indexed, TypeOK
  <2>5. CurrentMatched' /\ TurnsMatched'
    BY <1>3, <2>2, <2>4, FlushMatches DEF ToolName, Serial, CurrentMatched, TurnsMatched
  <2>6. \A d \in Calls : call'[d] = "unseen" => d \notin argued'
    BY <2>2 DEF Serial, Indexed, TypeOK
  <2> QED BY <1>1, <1>3, <2>2, <2>3, <2>4, <2>5, <2>6 DEF ToolName, Serial
<1>4. ASSUME NEW c \in Calls, ToolDelta(c) PROVE Serial'
  <2>1. c \in Open /\ call' = call /\ argued' = argued \cup {c} /\ Streaming
    BY <1>4 DEF ToolDelta, Open
  <2>2. Open' = Open /\ Open = {c}
    BY <2>1 DEF Serial, Open
  <2>3. tool.name = c /\ tool.input = argued \cap {c} /\ tool \in PendingTool /\ c # NoCall
    BY <2>1, StreamAssumption DEF Serial, Indexed, TypeOK
  <2>4. tool'.name = c /\ tool'.input = argued' \cap {c}
    BY <1>4, <2>1, <2>3 DEF ToolDelta, PendingTool
  <2>5. \A m : Matched(m) => Matched(m)'
    BY <1>4, <2>1 DEF Matched, ToolDelta
  <2>6. \A d \in Calls : call'[d] = "unseen" => d \notin argued'
    BY <1>4, <2>1 DEF Serial, ToolDelta
  <2>7. CurrentMatched' /\ TurnsMatched'
    BY <1>4, <2>5 DEF ToolDelta, Serial, CurrentMatched, TurnsMatched
  <2> QED BY <1>1, <2>2, <2>4, <2>6, <2>7 DEF Serial
<1>5. ASSUME NEW c \in Calls, ToolCall(c) PROVE Serial'
  <2>1. /\ c \in Open /\ call' = [call EXCEPT ![c] = "called"]
        /\ UNCHANGED <<builder, argued, outcome>>
    BY <1>5 DEF ToolCall, Open
  <2>2. Open' = Open
    BY <2>1 DEF Serial, Indexed, TypeOK, Open
  <2>3. \A m : Matched(m) => Matched(m)'
    BY <1>5, <2>1 DEF Matched, Serial, Indexed, TypeOK, ToolCall
  <2>4. \A d \in Calls : call'[d] = "unseen" => d \notin argued'
    BY <2>1 DEF Serial, Indexed, TypeOK
  <2>5. CurrentMatched' /\ TurnsMatched'
    BY <2>1, <2>3 DEF builder, Serial, CurrentMatched, TurnsMatched
  <2> QED BY <1>1, <2>1, <2>2, <2>4, <2>5 DEF builder, Serial, Streaming
<1>6. ASSUME NEW c \in Calls, ToolResult(c) PROVE Serial'
  <2>1. c \in Open /\ call' = [call EXCEPT ![c] = "answered"] /\ Streaming
        /\ UNCHANGED <<turns, argued>>
    BY <1>6 DEF ToolResult, Open
  <2>2. Open' = {}
    BY <2>1 DEF Serial, Indexed, TypeOK, Open
  <2>3. tool.name = c /\ tool.input = argued \cap {c} /\ c # NoCall
    BY <2>1, StreamAssumption DEF Serial
  <2>4. \A m : Matched(m) => Matched(m)'
    BY <1>6, <2>1 DEF Matched, Serial, Indexed, TypeOK, ToolResult
  <2>5. \A d \in Calls : call'[d] = "unseen" => d \notin argued'
    BY <2>1 DEF Serial, Indexed, TypeOK
  <2>6. current \in Seq(Message)
    BY DEF Serial, Indexed, TypeOK
  <2>7. PICK m : /\ current' = Append(current, m)
                 /\ m.role = "tool" /\ m.call = c /\ m.result = c
                 /\ m.input = argued \cap {c}
    BY <1>6, <2>3 DEF ToolResult
  <2>8. Matched(m)'
    BY <2>1, <2>7 DEF Matched, Serial, Indexed, TypeOK
  <2>9. ASSUME NEW i \in DOMAIN current', NEW n, n = current'[i] PROVE Matched(n)'
    <3>1. DOMAIN current' = 1 .. Len(current) + 1 /\ DOMAIN current = 1 .. Len(current)
      BY <2>6, <2>7
    <3>2. CASE i = Len(current) + 1
      <4>1. n = m
        BY <2>6, <2>7, <2>9, <3>2
      <4> QED BY <2>8, <4>1
    <3>3. CASE i # Len(current) + 1
      <4>1. i \in DOMAIN current /\ current'[i] = current[i]
        BY <2>6, <2>7, <2>9, <3>1, <3>3
      <4>2. Matched(n)
        BY <2>9, <4>1 DEF Serial, CurrentMatched
      <4> QED BY <2>4, <4>2
    <3> QED BY <3>2, <3>3
  <2>10. CurrentMatched'
    BY <2>9 DEF CurrentMatched, Matched
  <2>11. TurnsMatched'
    BY <2>1, <2>4 DEF Serial, TurnsMatched
  <2> QED BY <1>1, <2>2, <2>5, <2>10, <2>11 DEF Serial
<1>7. CASE Final \/ FinalResponse \/ StreamFails
  <2>1. CloseTurn /\ UNCHANGED <<call, argued>>
    BY <1>7 DEF Final, FinalResponse, StreamFails, Finish
  <2>2. Streaming' => Streaming /\ tool' = tool
    BY <1>7 DEF Final, FinalResponse, StreamFails, Finish, Streaming
  <2> QED BY <1>1, <2>1, <2>2, CloseMatches DEF Serial, Open
<1>8. CASE UNCHANGED vars
  BY <1>1, <1>8 DEF vars, builder, Serial, Open, Streaming, Matched, CurrentMatched, TurnsMatched
<1> QED BY <1>2, <1>3, <1>4, <1>5, <1>6, <1>7, <1>8 DEF Next

\* When a completion makes one call at a time, every stored tool message has
\* the name, the input and the result of one call (tool_begin .. tool_result).
THEOREM ToolMessagesHold ==
  ASSUME ~SideBySide PROVE Spec => []ToolMessagesMatch
<1>1. Serial => ToolMessagesMatch
  BY DEF Serial, Matched, CurrentMatched, TurnsMatched, ToolMessagesMatch, Messages
<1>2. Serial /\ [Next]_vars => Serial'
  BY NextSerial
<1> QED BY <1>1, <1>2, InitSerial, PTL DEF Spec

-----------------------------------------------------------------------------
(* Order: the chunks as they are spread over the turns and the messages.   *)

\* The messages of turn t; those of the turn in progress come after the others.
Said(ts, ms, t) == IF t <= Len(ts) THEN ts[t].messages ELSE ms

\* What is stored of the stream, and that it is stored as it came.
Held(ts, ms) ==
  {a \in Chunk : \E t \in 1 .. Len(ts) + 1 :
                   \E i \in DOMAIN Said(ts, ms, t) : a \in Said(ts, ms, t)[i].chunks}
InOrder(ts, ms) ==
  \A t, u \in 1 .. Len(ts) + 1 :
    \A i \in DOMAIN Said(ts, ms, t), j \in DOMAIN Said(ts, ms, u) :
      t < u \/ (t = u /\ i < j) =>
        \A a \in Said(ts, ms, t)[i].chunks, b \in Said(ts, ms, u)[j].chunks : a < b

\* The calls that messages tell of; those that were answered are among them.
Told(ts, ms) ==
  {c \in Calls : \E t \in 1 .. Len(ts) + 1 :
                   \E i \in DOMAIN Said(ts, ms, t) : Said(ts, ms, t)[i].call = c}
AnsweredTold == \A c \in Calls : call[c] = "answered" => c \in Told(turns, current)

\* What is pending was streamed after all that is held, and nothing is pending
\* while a tool runs or after the end.
Whole ==
  /\ Serial
  /\ InOrder(turns, current)
  /\ Held(turns, current) \cup Pending = 1 .. clock
  /\ \A a \in Held(turns, current), b \in Pending : a < b
  /\ Open # {} => Pending = {}
  /\ outcome # "streaming" => Pending = {}
  /\ outcome = "ok" => Open = {}
  /\ AnsweredTold

\* A message of later chunks goes to the end of the turn in progress.
LEMMA AppendInOrder ==
  ASSUME NEW ts \in Seq(Turn), NEW ms \in Seq(Message), NEW m \in Message, InOrder(ts, ms),
         \A a \in Held(ts, ms), b \in m.chunks : a < b
  PROVE  /\ InOrder(ts, Append(ms, m))
         /\ Held(ts, Append(ms, m)) = Held(ts, ms) \cup m.chunks
<1> DEFINE n == Len(ts) + 1
           next == Append(ms, m)
<1>1. n \in Nat /\ m.chunks \subseteq Chunk /\ DOMAIN ms = 1 .. Len(ms) /\ Len(ms) \in Nat
  BY DEF Message
<1>2. /\ DOMAIN next = DOMAIN ms \cup {Len(ms) + 1} /\ next[Len(ms) + 1] = m
      /\ \A i \in DOMAIN ms : next[i] = ms[i]
  BY <1>1
<1>3. \A t \in 1 .. n : t # n => Said(ts, next, t) = Said(ts, ms, t)
  BY DEF Said
<1>4. Said(ts, next, n) = next /\ Said(ts, ms, n) = ms
  BY DEF Said
<1>5. ASSUME NEW t \in 1 .. n, NEW i \in DOMAIN Said(ts, ms, t)
      PROVE  /\ i \in DOMAIN Said(ts, next, t)
             /\ Said(ts, next, t)[i] = Said(ts, ms, t)[i]
             /\ Said(ts, ms, t)[i].chunks \subseteq Chunk
             /\ t = n => i < Len(ms) + 1
  <2>1. CASE t = n
    <3>1. Said(ts, next, t) = next /\ Said(ts, ms, t) = ms /\ i \in DOMAIN ms
      BY <1>4, <1>5, <2>1
    <3>2. i \in DOMAIN next /\ next[i] = ms[i] /\ i < Len(ms) + 1
      BY <1>1, <1>2, <3>1
    <3>3. ms[i] \in Message
      BY <3>1
    <3> HIDE DEF next
    <3> QED BY <3>1, <3>2, <3>3 DEF Message
  <2>2. CASE t # n
    <3>1. t \in DOMAIN ts /\ Said(ts, ms, t) = ts[t].messages
      BY <1>5, <2>2 DEF Said
    <3>2. ts[t].messages \in Seq(Message)
      <4>1. ts[t] \in Turn
        BY <3>1
      <4> QED BY <4>1 DEF Turn
    <3>3. ts[t].messages[i] \in Message
      BY <1>5, <3>1, <3>2
    <3> QED BY <1>3, <2>2, <3>1, <3>3, <1>5 DEF Message
  <2> QED BY <2>1, <2>2
<1>6. ASSUME NEW t \in 1 .. n, NEW i \in DOMAIN Said(ts, next, t)
      PROVE  \/ i \in DOMAIN Said(ts, ms, t) /\ Said(ts, next, t)[i] = Said(ts, ms, t)[i]
             \/ t = n /\ i = Len(ms) + 1 /\ Said(ts, next, t)[i] = m
  <2>1. CASE t = n
    BY <1>2, <1>4, <1>6, <2>1
  <2>2. CASE t # n
    BY <1>3, <1>6, <2>2
  <2> QED BY <2>1, <2>2
<1> HIDE DEF next, n
<1>7. Held(ts, next) = Held(ts, ms) \cup m.chunks
  <2>1. Held(ts, ms) \subseteq Held(ts, next)
    BY <1>5 DEF Held, n
  <2>2. m.chunks \subseteq Held(ts, next)
    <3>1. n \in 1 .. n /\ Len(ms) + 1 \in DOMAIN Said(ts, next, n)
          /\ Said(ts, next, n)[Len(ms) + 1] = m
      BY <1>1, <1>2, <1>4 DEF n
    <3> QED BY <1>1, <3>1 DEF Held, n
  <2>3. Held(ts, next) \subseteq Held(ts, ms) \cup m.chunks
    BY <1>6 DEF Held, n
  <2> QED BY <2>1, <2>2, <2>3
<1>8. InOrder(ts, next)
  <2> SUFFICES ASSUME NEW t \in 1 .. n, NEW u \in 1 .. n,
                      NEW i \in DOMAIN Said(ts, next, t), NEW j \in DOMAIN Said(ts, next, u),
                      t < u \/ (t = u /\ i < j),
                      NEW a \in Said(ts, next, t)[i].chunks, NEW b \in Said(ts, next, u)[j].chunks
               PROVE  a < b
    BY DEF InOrder, n
  <2>1. CASE i \in DOMAIN Said(ts, ms, t) /\ j \in DOMAIN Said(ts, ms, u)
    BY <1>5, <2>1 DEF InOrder, n
  <2>2. CASE i \in DOMAIN Said(ts, ms, t) /\ j \notin DOMAIN Said(ts, ms, u)
    <3>1. b \in m.chunks
      BY <1>6, <2>2
    <3>2. a \in Held(ts, ms)
      BY <1>5, <2>2 DEF Held, n
    <3> QED BY <3>1, <3>2
  <2>3. CASE i \notin DOMAIN Said(ts, ms, t)
    <3>1. t = n /\ i = Len(ms) + 1
      BY <1>6, <2>3
    <3>2. u = n /\ i < j
      BY <1>1, <3>1
    <3>3. j \in DOMAIN ms \/ j = Len(ms) + 1
      BY <1>2, <1>4, <3>2
    <3> QED BY <1>1, <3>1, <3>2, <3>3
  <2> QED BY <2>1, <2>2, <2>3
<1> QED BY <1>7, <1>8 DEF next

\* finalize_turn moves no message.
LEMMA CloseInOrder ==
  ASSUME NEW ts \in Seq(Turn), NEW ms \in Seq(Message), NEW w \in Turn, w.messages = ms,
         InOrder(ts, ms)
  PROVE  InOrder(Append(ts, w), <<>>) /\ Held(Append(ts, w), <<>>) = Held(ts, ms)
<1> DEFINE n == Len(ts) + 1
           next == Append(ts, w)
<1>1. n \in Nat /\ Len(next) = n /\ n >= 1
  OBVIOUS
<1>2. next[n] = w /\ \A t \in 1 .. Len(ts) : next[t] = ts[t]
  OBVIOUS
<1>3. \A t \in 1 .. n : Said(next, <<>>, t) = Said(ts, ms, t)
  BY <1>1, <1>2 DEF Said
<1>4. DOMAIN Said(next, <<>>, n + 1) = {}
  BY <1>1 DEF Said
<1> HIDE DEF next, n
<1>5. Held(next, <<>>) = Held(ts, ms)
  <2>1. ASSUME NEW a \in Held(ts, ms) PROVE a \in Held(next, <<>>)
    <3>1. PICK t \in 1 .. n : \E i \in DOMAIN Said(ts, ms, t) : a \in Said(ts, ms, t)[i].chunks
      BY DEF Held, n
    <3>2. t \in 1 .. Len(next) + 1
      BY <1>1
    <3> QED BY <1>3, <3>1, <3>2 DEF Held
  <2>2. ASSUME NEW a \in Held(next, <<>>) PROVE a \in Held(ts, ms)
    <3>1. PICK t \in 1 .. n + 1 :
            \E i \in DOMAIN Said(next, <<>>, t) : a \in Said(next, <<>>, t)[i].chunks
      BY <1>1 DEF Held
    <3>2. t \in 1 .. n
      BY <1>1, <1>4, <3>1
    <3> QED BY <1>3, <3>1, <3>2 DEF Held, n
  <2> QED BY <2>1, <2>2
<1>6. InOrder(next, <<>>)
  <2> SUFFICES ASSUME NEW t \in 1 .. n + 1, NEW u \in 1 .. n + 1,
                      NEW i \in DOMAIN Said(next, <<>>, t), NEW j \in DOMAIN Said(next, <<>>, u),
                      t < u \/ (t = u /\ i < j),
                      NEW a \in Said(next, <<>>, t)[i].chunks,
                      NEW b \in Said(next, <<>>, u)[j].chunks
               PROVE  a < b
    BY <1>1 DEF InOrder
  <2>1. t \in 1 .. n /\ u \in 1 .. n
    BY <1>1, <1>4
  <2> QED BY <1>3, <2>1 DEF InOrder, n
<1> QED BY <1>5, <1>6 DEF next

\* A message more tells of what was told, and of its own call.
LEMMA AppendTold ==
  ASSUME NEW ts \in Seq(Turn), NEW ms \in Seq(Message), NEW m \in Message
  PROVE  Told(ts, ms) \cup ({m.call} \cap Calls) \subseteq Told(ts, Append(ms, m))
<1> DEFINE n == Len(ts) + 1
           next == Append(ms, m)
<1>1. /\ DOMAIN next = DOMAIN ms \cup {Len(ms) + 1} /\ next[Len(ms) + 1] = m
      /\ \A i \in DOMAIN ms : next[i] = ms[i]
  OBVIOUS
<1>2. \A t \in 1 .. n : t # n => Said(ts, next, t) = Said(ts, ms, t)
  BY DEF Said
<1>3. Said(ts, next, n) = next /\ Said(ts, ms, n) = ms /\ n \in 1 .. n
  BY DEF Said
<1> HIDE DEF next, n
<1>4. ASSUME NEW c \in Told(ts, ms) PROVE c \in Told(ts, next)
  <2>1. PICK t \in 1 .. n : \E i \in DOMAIN Said(ts, ms, t) : Said(ts, ms, t)[i].call = c
    BY <1>4 DEF Told, n
  <2>2. PICK i \in DOMAIN Said(ts, ms, t) : Said(ts, ms, t)[i].call = c
    BY <2>1
  <2>3. i \in DOMAIN Said(ts, next, t) /\ Said(ts, next, t)[i].call = c
    BY <1>1, <1>2, <1>3, <2>2
  <2> QED BY <2>3 DEF Told, n
<1>5. ASSUME m.call \in Calls PROVE m.call \in Told(ts, next)
  <2>1. Len(ms) + 1 \in DOMAIN Said(ts, next, n) /\ Said(ts, next, n)[Len(ms) + 1] = m
    BY <1>1, <1>3
  <2> QED BY <1>3, <1>5, <2>1 DEF Told, n
<1> QED BY <1>4, <1>5 DEF next

\* finalize_turn tells of no call less.
LEMMA CloseTold ==
  ASSUME NEW ts \in Seq(Turn), NEW ms \in Seq(Message), NEW w \in Turn, w.messages = ms
  PROVE  Told(ts, ms) \subseteq Told(Append(ts, w), <<>>)
<1> DEFINE n == Len(ts) + 1
           next == Append(ts, w)
<1>1. n \in Nat /\ Len(next) = n /\ n >= 1
  OBVIOUS
<1>2. next[n] = w /\ \A t \in 1 .. Len(ts) : next[t] = ts[t]
  OBVIOUS
<1>3. \A t \in 1 .. n : Said(next, <<>>, t) = Said(ts, ms, t)
  BY <1>1, <1>2 DEF Said
<1> HIDE DEF next, n
<1>4. ASSUME NEW c \in Told(ts, ms) PROVE c \in Told(next, <<>>)
  <2>1. PICK t \in 1 .. n : \E i \in DOMAIN Said(ts, ms, t) : Said(ts, ms, t)[i].call = c
    BY <1>4 DEF Told, n
  <2>2. t \in 1 .. Len(next) + 1
    BY <1>1
  <2> QED BY <1>3, <2>1, <2>2 DEF Told
<1> QED BY <1>4 DEF next

\* flush_assistant stores all that was pending, after what was stored before.
LEMMA FlushInOrder ==
  ASSUME Whole
  PROVE  /\ Flushed \in Seq(Message)
         /\ InOrder(turns, Flushed)
         /\ Held(turns, Flushed) = Held(turns, current) \cup Pending
         /\ Told(turns, current) \subseteq Told(turns, Flushed)
<1>1. CASE Pending = {}
  BY <1>1 DEF Whole, Serial, Indexed, TypeOK, Flushed
<1>2. CASE Pending # {}
  <2> DEFINE m == Spoken("assistant", msgIndex, Pending)
  <2>1. m \in Message /\ m.chunks = Pending
    BY DEF Whole, Serial, Indexed, TypeOK, Message, Spoken, Pending
  <2>2. Flushed = Append(current, m)
    BY <1>2 DEF Flushed
  <2>3. turns \in Seq(Turn) /\ current \in Seq(Message)
    BY DEF Whole, Serial, Indexed, TypeOK
  <2> HIDE DEF m
  <2>4. Told(turns, current) \subseteq Told(turns, Flushed)
    BY <2>1, <2>2, <2>3, AppendTold
  <2> QED BY <2>1, <2>2, <2>3, <2>4, AppendInOrder DEF Whole
<1> QED BY <1>1, <1>2

\* A turn that is closed leaves nothing pending, and nothing out.
LEMMA CloseWhole ==
  ASSUME Whole, CloseTurn
  PROVE  /\ InOrder(turns', current')
         /\ Held(turns', current') = Held(turns, current) \cup Pending
         /\ Pending' = {}
         /\ Told(turns, current) \subseteq Told(turns', current')
<1>1. /\ Flushed \in Seq(Message) /\ InOrder(turns, Flushed)
      /\ Held(turns, Flushed) = Held(turns, current) \cup Pending
      /\ Told(turns, current) \subseteq Told(turns, Flushed)
  BY FlushInOrder
<1>2. Pending' = {} /\ current' = <<>>
  BY DEF CloseTurn, Pending
<1>3. CASE Flushed = <<>>
  BY <1>1, <1>2, <1>3 DEF CloseTurn
<1>4. CASE Flushed # <<>>
  <2> DEFINE w == [turn_index |-> turnIndex, messages |-> Flushed]
  <2>1. w \in Turn /\ w.messages = Flushed
    BY <1>1 DEF Turn, Whole, Serial, Indexed, TypeOK
  <2>2. turns' = Append(turns, w) /\ turns \in Seq(Turn)
    BY <1>4 DEF CloseTurn, Whole, Serial, Indexed, TypeOK
  <2> HIDE DEF w
  <2>3. Told(turns, Flushed) \subseteq Told(turns', current')
    BY <1>1, <1>2, <2>1, <2>2, CloseTold
  <2> QED BY <1>1, <1>2, <2>1, <2>2, <2>3, CloseInOrder
<1> QED BY <1>3, <1>4

\* Every item of the stream keeps it so, while calls are made one at a time.
LEMMA NextWhole == ASSUME ~SideBySide, Whole, [Next]_vars PROVE Whole'
<1>1. Serial'
  BY NextSerial DEF Whole
<1>2. /\ turns \in Seq(Turn) /\ current \in Seq(Message) /\ clock \in Nat /\ MaxChunks \in Nat
      /\ Held(turns, current) \cup Pending = 1 .. clock
      /\ call \in [Calls -> CallState]
  BY StreamAssumption DEF Whole, Serial, Indexed, TypeOK
<1>3. CASE TextItem \/ ReasoningDelta
  <2>1. /\ Pending' = Pending \cup {clock + 1} /\ clock' = clock + 1
        /\ UNCHANGED <<turns, current, call, outcome>> /\ Open = {} /\ Streaming
    BY <1>3 DEF TextItem, ReasoningDelta, Pending
  <2>2. Open' = {}
    BY <2>1 DEF Open
  <2>3. 1 .. clock + 1 = (1 .. clock) \cup {clock + 1}
    BY <1>2
  <2>4. \A a \in Held(turns, current) : a < clock + 1
    BY <1>2
  <2>5. \A a \in Held(turns, current), b \in Pending' : a < b
    BY <2>1, <2>4 DEF Whole
  <2>6. AnsweredTold'
    BY <2>1 DEF Whole, AnsweredTold
  <2> QED BY <1>1, <1>2, <2>1, <2>2, <2>3, <2>5, <2>6 DEF Whole, Streaming
<1>4. ASSUME NEW c \in Calls, ToolName(c) PROVE Whole'
  <2>1. current' = Flushed /\ Pending' = {} /\ UNCHANGED <<turns, outcome, clock>>
    BY <1>4 DEF ToolName, Pending
  <2>2. AnsweredTold' /\ Streaming /\ Streaming'
    <3>1. Streaming /\ call' = [call EXCEPT ![c] = "named"] /\ outcome' = outcome
      BY <1>4 DEF ToolName
    <3> QED BY <1>2, <2>1, <3>1, FlushInOrder DEF Whole, AnsweredTold, Streaming
  <2> QED BY <1>1, <1>2, <2>1, <2>2, FlushInOrder DEF Whole, Streaming
<1>5. ASSUME NEW c \in Calls, ToolDelta(c) \/ ToolCall(c) PROVE Whole'
  <2>1. UNCHANGED <<turns, current, thinking, output, outcome, clock>>
    BY <1>5 DEF ToolDelta, ToolCall, builder
  <2>2. c \in Open
    BY <1>5 DEF ToolDelta, ToolCall, Open
  <2>3. Pending = {} /\ Pending' = {}
    BY <2>1, <2>2 DEF Whole, Pending
  <2>4. AnsweredTold' /\ Streaming'
    <3>1. call' = call \/ call' = [call EXCEPT ![c] = "called"]
      BY <1>5 DEF ToolDelta, ToolCall
    <3>2. Streaming
      BY <1>5 DEF ToolDelta, ToolCall
    <3> QED BY <1>2, <2>1, <3>1, <3>2 DEF Whole, AnsweredTold, Streaming
  <2> QED BY <1>1, <1>2, <2>1, <2>3, <2>4 DEF Whole, Streaming
<1>6. ASSUME NEW c \in Calls, ToolResult(c) PROVE Whole'
  <2>1. c \in Open /\ clock < MaxChunks /\ clock' = clock + 1 /\ Streaming
        /\ UNCHANGED <<turns, thinking, output, outcome>>
    BY <1>6 DEF ToolResult, Open
  <2>2. Pending = {} /\ Pending' = {}
    BY <2>1 DEF Whole, Pending
  <2>3. tool.name = c /\ c # NoCall /\ tool \in PendingTool
    BY <2>1, StreamAssumption DEF Whole, Serial, Indexed, TypeOK, Streaming
  <2> DEFINE m == [role |-> "tool", msg_index |-> msgIndex, call |-> tool.name,
                   input |-> tool.input, result |-> c, chunks |-> {clock + 1}]
  <2>4. current' = Append(current, m)
    BY <1>6, <2>3 DEF ToolResult
  <2>5. m \in Message /\ m.chunks = {clock + 1} /\ m.call = c
    <3>1. msgIndex \in Nat /\ clock + 1 \in Chunk
      BY <1>2, <2>1 DEF Whole, Serial, Indexed, TypeOK, Chunk
    <3> QED BY <2>3, <3>1 DEF Message, PendingTool
  <2> HIDE DEF m
  <2>6. \A a \in Held(turns, current), b \in m.chunks : a < b
    BY <1>2, <2>5
  <2>7. /\ InOrder(turns, current')
        /\ Held(turns, current') = Held(turns, current) \cup {clock + 1}
    BY SMTT(30), <1>2, <2>4, <2>5, <2>6, AppendInOrder DEF Whole
  <2>8. 1 .. clock + 1 = (1 .. clock) \cup {clock + 1}
    BY <1>2
  <2>9. AnsweredTold'
    <3>1. Told(turns, current) \cup {c} \subseteq Told(turns, current')
      BY <1>2, <2>4, <2>5, AppendTold
    <3>2. call' = [call EXCEPT ![c] = "answered"]
      BY <1>6 DEF ToolResult
    <3> QED BY <1>2, <2>1, <3>1, <3>2 DEF Whole, AnsweredTold
  <2> QED BY <1>1, <1>2, <2>1, <2>2, <2>7, <2>8, <2>9 DEF Whole, Streaming
<1>7. CASE Final \/ FinalResponse \/ StreamFails
  <2>1. CloseTurn /\ UNCHANGED <<clock, call>>
    BY <1>7 DEF Final, FinalResponse, StreamFails, Finish
  <2>2. outcome' = "ok" => Open' = {}
    BY <1>7, <2>1 DEF Final, FinalResponse, StreamFails, Finish, Streaming, Open
  <2>3. AnsweredTold'
    BY <2>1, CloseWhole DEF Whole, AnsweredTold
  <2> QED BY <1>1, <1>2, <2>1, <2>2, <2>3, CloseWhole DEF Whole
<1>8. CASE UNCHANGED vars
  BY <1>1, <1>8 DEF vars, builder, Whole, Open, Pending, AnsweredTold
<1> QED BY <1>3, <1>4, <1>5, <1>6, <1>7, <1>8 DEF Next

\* Of the prompt nothing was streamed.
LEMMA InitWhole == Init => Whole
<1> SUFFICES ASSUME Init PROVE Whole
  OBVIOUS
<1> DEFINE m == Spoken("user", 0, {})
<1>1. turns = <<>> /\ current = <<m>> /\ m.chunks = {} /\ Pending = {} /\ clock = 0
  BY DEF Init, Spoken, Pending
<1> HIDE DEF m
<1>2. \A t \in 1 .. Len(turns) + 1 : \A i \in DOMAIN Said(turns, current, t) :
        Said(turns, current, t)[i].chunks = {}
  BY <1>1 DEF Said
<1>3. InOrder(turns, current) /\ Held(turns, current) = {}
  BY <1>2 DEF InOrder, Held
<1>4. Open = {} /\ AnsweredTold
  BY DEF Init, Open, AnsweredTold
<1> QED BY <1>1, <1>3, <1>4, InitSerial DEF Whole

\* What is held is what the messages have.
LEMMA HeldIsStored == ASSUME TypeOK PROVE UNION {m.chunks : m \in Messages} = Held(turns, current)
<1>1. ASSUME NEW a \in Held(turns, current) PROVE \E m \in Messages : a \in m.chunks
  <2>1. PICK t \in 1 .. Len(turns) + 1 : \E i \in DOMAIN Said(turns, current, t) :
          a \in Said(turns, current, t)[i].chunks
    BY DEF Held
  <2>2. CASE t <= Len(turns)
    BY <2>1, <2>2 DEF Said, Messages, TypeOK
  <2>3. CASE ~(t <= Len(turns))
    BY <2>1, <2>3 DEF Said, Messages
  <2> QED BY <2>2, <2>3
<1>2. ASSUME NEW m \in Messages, NEW a \in m.chunks PROVE a \in Held(turns, current)
  <2>1. CASE \E i \in DOMAIN current : m = current[i]
    <3>1. Said(turns, current, Len(turns) + 1) = current /\ Len(turns) + 1 \in 1 .. Len(turns) + 1
      BY DEF Said, TypeOK
    <3>2. a \in Chunk
      BY <1>2, <2>1 DEF TypeOK, Message
    <3> QED BY <1>2, <2>1, <3>1, <3>2 DEF Held
  <2>2. ASSUME NEW t \in DOMAIN turns, NEW i \in DOMAIN turns[t].messages,
               m = turns[t].messages[i]
        PROVE  a \in Held(turns, current)
    <3>1. Said(turns, current, t) = turns[t].messages /\ t \in 1 .. Len(turns) + 1
      BY <2>2 DEF Said, TypeOK
    <3>2. turns[t] \in Turn
      BY <2>2 DEF TypeOK
    <3>3. m \in Message
      BY <2>2, <3>2 DEF Turn
    <3>4. a \in Chunk
      BY <1>2, <3>3 DEF Message
    <3> QED BY <1>2, <2>2, <3>1, <3>4 DEF Held
  <2> QED BY <2>1, <2>2 DEF Messages
<1> QED BY <1>1, <1>2

\* A call some message tells of is not lost.
LEMMA ToldIsStored == ASSUME TypeOK, NEW c \in Told(turns, current) PROVE \E m \in Messages : m.call = c
<1>1. PICK t \in 1 .. Len(turns) + 1 : \E i \in DOMAIN Said(turns, current, t) :
        Said(turns, current, t)[i].call = c
  BY DEF Told
<1>2. CASE t <= Len(turns)
  BY <1>1, <1>2 DEF Said, Messages, TypeOK
<1>3. CASE ~(t <= Len(turns))
  BY <1>1, <1>3 DEF Said, Messages
<1> QED BY <1>2, <1>3

\* When a completion makes one call at a time, every chunk that was streamed is
\* stored once, in the order in which it came, and none is missing when the
\* session is returned, however the stream ended.  A stream that breaks costs at
\* most one call, which was open, and one that ends with an output costs none
\* (SessionBuilder).
THEOREM NothingIsLostOrMoved ==
  ASSUME ~SideBySide PROVE Spec => []NothingLostOrMoved
<1>1. ASSUME Whole PROVE NothingLostOrMoved
  <2>1. ASSUME NEW p \in Slots, NEW q \in Slots, Before(p, q)
        PROVE  \A a \in InSlot(p).chunks, b \in InSlot(q).chunks : a < b
    <3>1. \A r \in Slots : /\ r[1] \in 1 .. Len(turns) + 1
                           /\ r[2] \in DOMAIN Said(turns, current, r[1])
                           /\ InSlot(r) = Said(turns, current, r[1])[r[2]]
      BY DEF Slots, InSlot, Said
    <3> QED BY <1>1, <2>1, <3>1 DEF Whole, InOrder, Before
  <2>2. outcome # "streaming" => UNION {m.chunks : m \in Messages} = 1 .. clock
    BY <1>1, HeldIsStored DEF Whole, Serial, Indexed
  <2>3. Lost \subseteq Open
    <3>1. ASSUME NEW c \in Lost PROVE call[c] # "answered"
      <4>1. c \in Calls /\ \A m \in Messages : m.call # c
        BY DEF Lost
      <4> QED BY <1>1, <4>1, ToldIsStored DEF Whole, Serial, Indexed, AnsweredTold
    <3>2. call \in [Calls -> CallState]
      BY <1>1 DEF Whole, Serial, Indexed, TypeOK
    <3> QED BY <3>1, <3>2 DEF Lost, Open, CallState
  <2>4. \A c \in Lost : call[c] # "answered" /\ \A d \in Lost : c = d
    BY <1>1, <2>3 DEF Whole, Serial, Open
  <2>5. outcome = "ok" => Lost = {}
    BY <1>1, <2>3 DEF Whole
  <2> QED BY <2>1, <2>2, <2>4, <2>5 DEF NothingLostOrMoved
<1>2. Whole /\ [Next]_vars => Whole'
  BY NextWhole
<1> QED BY <1>1, <1>2, InitWhole, PTL DEF Spec

-----------------------------------------------------------------------------
(* The transcript as it is read again: rows that come in any order.        *)

\* The keys of n rows are their numbers, from zero: pos[p] is the row at place p.
Numbers(n, key, pos) ==
  /\ pos \in [1 .. n -> 1 .. n]
  /\ key \in [1 .. n -> 0 .. n - 1]
  /\ \A k \in 1 .. n : pos[key[k] + 1] = k
  /\ \A p \in 1 .. n : key[pos[p]] = p - 1

\* As many rows come before a row as its number says.
LEMMA EarlierRows ==
  ASSUME NEW n \in Nat, NEW key, NEW pos, Numbers(n, key, pos), NEW i \in 1 .. n
  PROVE  Cardinality({j \in 1 .. n : key[j] < key[i] \/ (key[j] = key[i] /\ j < i)}) = key[i]
<1> DEFINE S == {j \in 1 .. n : key[j] < key[i] \/ (key[j] = key[i] /\ j < i)}
           f == [j \in S |-> key[j] + 1]
<1>1. \A j \in 1 .. n : key[j] \in 0 .. n - 1
  BY DEF Numbers
<1>2. ASSUME NEW a \in 1 .. n, NEW b \in 1 .. n, key[a] = key[b] PROVE a = b
  <2>1. pos[key[a] + 1] = a /\ pos[key[b] + 1] = b
    BY DEF Numbers
  <2> QED BY <1>2, <2>1
<1>3. \A j \in 1 .. n : j \in S <=> key[j] < key[i]
  <2> SUFFICES ASSUME NEW j \in 1 .. n PROVE j \in S <=> key[j] < key[i]
    OBVIOUS
  <2>1. ~(key[j] = key[i] /\ j < i)
    BY <1>2
  <2> QED BY <2>1
<1>4. S \in SUBSET (1 .. n) /\ DOMAIN f = S /\ \A j \in S : f[j] = key[j] + 1
  OBVIOUS
<1> HIDE DEF f, S
<1>5. PICK T : T = 1 .. key[i]
  OBVIOUS
<1>6. ASSUME NEW a \in S PROVE key[a] + 1 \in T
  <2>1. a \in 1 .. n
    BY <1>4
  <2>2. key[a] \in Nat /\ key[i] \in Nat /\ key[a] < key[i]
    BY <1>1, <1>3, <2>1
  <2> QED BY <1>5, <2>2
<1>7. f = [j \in S |-> key[j] + 1]
  BY DEF f
<1>8. f \in [S -> T]
  BY <1>6, <1>7
<1>9. ASSUME NEW a \in S, NEW b \in S, f[a] = f[b] PROVE a = b
  <2>1. a \in 1 .. n /\ b \in 1 .. n
    BY <1>4
  <2>2. key[a] \in Nat /\ key[b] \in Nat /\ key[a] + 1 = key[b] + 1
    BY <1>1, <1>4, <1>9, <2>1
  <2> QED BY <1>2, <2>1, <2>2
<1>10. ASSUME NEW p \in T PROVE \E a \in S : f[a] = p
  <2>1. key[i] \in 0 .. n - 1
    BY <1>1
  <2>2. p \in 1 .. n /\ p \in Nat /\ p - 1 < key[i]
    BY <1>5, <2>1
  <2>3. PICK a : a = pos[p]
    OBVIOUS
  <2>4. a \in 1 .. n /\ key[a] = p - 1
    BY <2>2, <2>3 DEF Numbers
  <2>5. a \in S
    BY <1>3, <2>2, <2>4
  <2>6. f[a] = p
    BY <1>4, <2>2, <2>4, <2>5
  <2> QED BY <2>5, <2>6
<1>11. f \in Bijection(S, T)
  BY <1>8, <1>9, <1>10 DEF Bijection, Injection, Surjection, IsInjective
<1>12. IsFiniteSet(T) /\ Cardinality(T) = key[i]
  <2>1. PICK k \in Nat : k = key[i]
    BY <1>1
  <2>2. IsFiniteSet(1 .. k)
    BY FS_Interval
  <2>3. Cardinality(1 .. k) = IF 1 > k THEN 0 ELSE k - 1 + 1
    BY FS_Interval
  <2>4. Cardinality(1 .. k) = k
    BY <2>3
  <2> QED BY <1>5, <2>1, <2>2, <2>4
<1>13. IsFiniteSet(S)
  <2>1. IsFiniteSet(1 .. n)
    BY FS_Interval
  <2> QED BY <1>4, <2>1, FS_Subset
<1>14. ExistsBijection(S, T)
  BY <1>11 DEF ExistsBijection
<1>15. Cardinality(S) = Cardinality(T)
  BY <1>12, <1>13, <1>14, FS_Bijection
<1> QED BY <1>12, <1>15 DEF S

\* A sort by the numbers of the rows puts each row where its number says.
LEMMA SortedByNumber ==
  ASSUME NEW n \in Nat, NEW s, DOMAIN s = 1 .. n, NEW key, NEW pos, Numbers(n, key, pos)
  PROVE  SortedBy(s, key) = [p \in 1 .. n |-> s[pos[p]]]
<1> DEFINE Earlier(i) == {j \in DOMAIN s : key[j] < key[i] \/ (key[j] = key[i] /\ j < i)}
           At(p) == CHOOSE i \in DOMAIN s : Cardinality(Earlier(i)) = p - 1
<1>1. SortedBy(s, key) = [p \in DOMAIN s |-> s[At(p)]]
  BY Zenon DEF SortedBy
<1>2. ASSUME NEW i \in 1 .. n PROVE Cardinality(Earlier(i)) = key[i]
  <2>1. Cardinality({j \in 1 .. n : key[j] < key[i] \/ (key[j] = key[i] /\ j < i)}) = key[i]
    BY EarlierRows
  <2> QED BY <2>1
<1> HIDE DEF Earlier
<1>3. ASSUME NEW p \in 1 .. n PROVE At(p) = pos[p]
  <2>1. pos[p] \in 1 .. n /\ key[pos[p]] = p - 1
    BY DEF Numbers
  <2>2. Cardinality(Earlier(pos[p])) = p - 1
    BY <1>2, <2>1
  <2>3. At(p) \in 1 .. n /\ Cardinality(Earlier(At(p))) = p - 1
    BY <2>1, <2>2
  <2> HIDE DEF At
  <2>4. PICK a : a = At(p)
    OBVIOUS
  <2>5. key[a] = p - 1 /\ a \in 1 .. n
    BY <1>2, <2>3, <2>4
  <2>6. pos[key[a] + 1] = a
    BY <2>5 DEF Numbers
  <2> QED BY <2>4, <2>5, <2>6
<1> HIDE DEF At
<1> QED BY <1>1, <1>3

\* What is numbered and turned round is put back in its order.
LEMMA ReverseSorted ==
  ASSUME NEW E, NEW u \in Seq(E), NEW s, NEW key,
         DOMAIN s = 1 .. Len(u), \A i \in 1 .. Len(u) : s[i] = u[Len(u) - i + 1],
         key \in [1 .. Len(u) -> 0 .. Len(u) - 1], \A i \in 1 .. Len(u) : key[i] = Len(u) - i
  PROVE  SortedBy(s, key) = u
<1>1. PICK n \in Nat : n = Len(u)
  OBVIOUS
<1>2. PICK pos : pos = [p \in 1 .. n |-> n - p + 1]
  OBVIOUS
<1>3. Numbers(n, key, pos)
  <2>1. pos \in [1 .. n -> 1 .. n]
    BY <1>2
  <2>2. key \in [1 .. n -> 0 .. n - 1]
    BY <1>1
  <2>3. ASSUME NEW k \in 1 .. n PROVE pos[key[k] + 1] = k
    <3>1. key[k] = n - k /\ n - k + 1 \in 1 .. n
      BY <1>1
    <3>2. pos[n - k + 1] = n - (n - k + 1) + 1
      BY <1>2, <3>1
    <3> QED BY <3>1, <3>2
  <2>4. ASSUME NEW p \in 1 .. n PROVE key[pos[p]] = p - 1
    <3>1. pos[p] = n - p + 1 /\ n - p + 1 \in 1 .. n
      BY <1>2
    <3>2. key[n - p + 1] = n - (n - p + 1)
      BY <1>1, <3>1
    <3> QED BY <3>1, <3>2
  <2> QED BY <2>1, <2>2, <2>3, <2>4 DEF Numbers
<1>4. DOMAIN s = 1 .. n
  BY <1>1
<1>5. SortedBy(s, key) = [p \in 1 .. n |-> s[pos[p]]]
  BY <1>3, <1>4, SortedByNumber
<1>6. ASSUME NEW p \in 1 .. n PROVE s[pos[p]] = u[p]
  <2>1. pos[p] = n - p + 1 /\ n - p + 1 \in 1 .. n
    BY <1>2
  <2>2. s[n - p + 1] = u[n - (n - p + 1) + 1]
    BY <1>1, <2>1
  <2> QED BY <2>1, <2>2
<1>7. u = [p \in 1 .. n |-> u[p]]
  BY <1>1
<1> QED BY <1>5, <1>6, <1>7

\* What stands in its order stays so.
LEMMA OrderedSorted ==
  ASSUME NEW E, NEW u \in Seq(E), NEW key, key \in [1 .. Len(u) -> 0 .. Len(u) - 1],
         \A i \in 1 .. Len(u) : key[i] = i - 1
  PROVE  SortedBy(u, key) = u
<1>1. PICK n \in Nat : n = Len(u)
  OBVIOUS
<1>2. PICK pos : pos = [p \in 1 .. n |-> p]
  OBVIOUS
<1>3. Numbers(n, key, pos)
  <2>1. pos \in [1 .. n -> 1 .. n]
    BY <1>2
  <2>2. key \in [1 .. n -> 0 .. n - 1]
    BY <1>1
  <2>3. ASSUME NEW k \in 1 .. n PROVE pos[key[k] + 1] = k
    <3>1. key[k] = k - 1 /\ k - 1 + 1 = k
      BY <1>1
    <3> QED BY <1>2, <3>1
  <2>4. ASSUME NEW p \in 1 .. n PROVE key[pos[p]] = p - 1
    BY <1>1, <1>2
  <2> QED BY <2>1, <2>2, <2>3, <2>4 DEF Numbers
<1>4. SortedBy(u, key) = [p \in 1 .. n |-> u[pos[p]]]
  <2>1. DOMAIN u = 1 .. n
    BY <1>1
  <2> QED BY <1>3, <2>1, SortedByNumber
<1>5. u = [p \in 1 .. n |-> u[p]]
  BY <1>1
<1> QED BY <1>2, <1>4, <1>5

\* What was moved from the front to the back is put back in front.
LEMMA RotatedSorted ==
  ASSUME NEW E, NEW u \in Seq(E), NEW s, NEW key,
         DOMAIN s = 1 .. Len(u), \A i \in 1 .. Len(u) : s[i] = IF i = Len(u) THEN u[1] ELSE u[i + 1],
         key \in [1 .. Len(u) -> 0 .. Len(u) - 1],
         \A i \in 1 .. Len(u) : key[i] = IF i = Len(u) THEN 0 ELSE i
  PROVE  SortedBy(s, key) = u
<1>1. PICK n \in Nat : n = Len(u)
  OBVIOUS
<1>2. PICK pos : pos = [p \in 1 .. n |-> IF p = 1 THEN n ELSE p - 1]
  OBVIOUS
<1>3. Numbers(n, key, pos)
  <2>1. pos \in [1 .. n -> 1 .. n]
    BY <1>2
  <2>2. key \in [1 .. n -> 0 .. n - 1]
    BY <1>1
  <2>3. ASSUME NEW k \in 1 .. n PROVE pos[key[k] + 1] = k
    <3>1. CASE k = n
      <4>1. key[k] + 1 = 1 /\ 1 \in 1 .. n
        BY <1>1, <3>1
      <4> QED BY <1>2, <3>1, <4>1
    <3>2. CASE k # n
      <4>1. key[k] = k /\ k + 1 \in 1 .. n /\ k + 1 # 1 /\ k + 1 - 1 = k
        BY <1>1, <3>2
      <4> QED BY <1>2, <4>1
    <3> QED BY <3>1, <3>2
  <2>4. ASSUME NEW p \in 1 .. n PROVE key[pos[p]] = p - 1
    <3>1. CASE p = 1
      <4>1. pos[p] = n /\ n \in 1 .. n
        BY <1>2, <3>1
      <4> QED BY <1>1, <3>1, <4>1
    <3>2. CASE p # 1
      <4>1. pos[p] = p - 1 /\ p - 1 \in 1 .. n /\ p - 1 # n
        BY <1>2, <3>2
      <4> QED BY <1>1, <4>1
    <3> QED BY <3>1, <3>2
  <2> QED BY <2>1, <2>2, <2>3, <2>4 DEF Numbers
<1>4. DOMAIN s = 1 .. n
  BY <1>1
<1>5. SortedBy(s, key) = [p \in 1 .. n |-> s[pos[p]]]
  BY <1>3, <1>4, SortedByNumber
<1>6. ASSUME NEW p \in 1 .. n PROVE s[pos[p]] = u[p]
  <2>1. CASE p = 1
    <3>1. pos[p] = n /\ n \in 1 .. n
      BY <1>2, <2>1
    <3> QED BY <1>1, <2>1, <3>1
  <2>2. CASE p # 1
    <3>1. pos[p] = p - 1 /\ p - 1 \in 1 .. n /\ p - 1 # n /\ p - 1 + 1 = p
      BY <1>2, <2>2
    <3>2. s[p - 1] = u[p - 1 + 1]
      BY <1>1, <3>1
    <3> QED BY <3>1, <3>2
  <2> QED BY <2>1, <2>2
<1>7. u = [p \in 1 .. n |-> u[p]]
  BY <1>1
<1> QED BY <1>5, <1>6, <1>7

\* What Reverse is, place by place.
LEMMA ReversePlaces ==
  ASSUME NEW E, NEW u \in Seq(E)
  PROVE  /\ Reverse(u) = [i \in 1 .. Len(u) |-> u[(Len(u) - i) + 1]]
         /\ Reverse(u) \in Seq(E) /\ DOMAIN Reverse(u) = 1 .. Len(u) /\ Len(Reverse(u)) = Len(u)
         /\ \A i \in 1 .. Len(u) : Reverse(u)[i] = u[Len(u) - i + 1]
<1>1. PICK n \in Nat : n = Len(u)
  OBVIOUS
<1>2. PICK r : r = [i \in 1 .. n |-> u[(n - i) + 1]]
  OBVIOUS
<1>3. Reverse(u) = r
  BY <1>1, <1>2 DEF Reverse
<1>4. \A i \in 1 .. n : n - i + 1 \in 1 .. n /\ u[n - i + 1] \in E
  BY <1>1
<1>5. r \in Seq(E)
  BY <1>2, <1>4
<1> QED BY <1>1, <1>2, <1>3, <1>5

\* Messages that are numbered are put back in order, also from the back.
LEMMA MessagesSorted ==
  ASSUME NEW ms \in Seq(Message), Numbered(ms)
  PROVE  ByMessage(ms) = ms /\ ByMessage(Reverse(ms)) = ms
<1>1. PICK n \in Nat : n = Len(ms)
  OBVIOUS
<1>2. \A i \in 1 .. n : ms[i].msg_index = i - 1
  BY <1>1 DEF Numbered
<1>3. ByMessage(ms) = ms
  <2>1. PICK key : key = [i \in DOMAIN ms |-> ms[i].msg_index]
    OBVIOUS
  <2>2. key \in [1 .. n -> 0 .. n - 1] /\ \A i \in 1 .. n : key[i] = i - 1
    BY <1>1, <1>2, <2>1
  <2>3. SortedBy(ms, key) = ms
    BY <1>1, <2>2, OrderedSorted
  <2> QED BY <2>1, <2>3 DEF ByMessage
<1>4. ByMessage(Reverse(ms)) = ms
  <2>1. PICK s : s = Reverse(ms)
    OBVIOUS
  <2>2. DOMAIN s = 1 .. n /\ \A i \in 1 .. n : s[i] = ms[n - i + 1]
    BY <1>1, <2>1, ReversePlaces
  <2>3. PICK key : key = [i \in DOMAIN s |-> s[i].msg_index]
    OBVIOUS
  <2>4. ASSUME NEW i \in 1 .. n PROVE key[i] = n - i /\ n - i \in 0 .. n - 1
    <3>1. n - i + 1 \in 1 .. n /\ n - i + 1 - 1 = n - i
      OBVIOUS
    <3>2. s[i].msg_index = n - i + 1 - 1
      <4>1. PICK k \in 1 .. n : k = n - i + 1
        BY <3>1
      <4>2. s[i] = ms[k] /\ ms[k].msg_index = k - 1
        BY <1>2, <2>2, <4>1
      <4> QED BY <4>1, <4>2
    <3> QED BY <2>2, <2>3, <3>1, <3>2
  <2>5. key \in [1 .. n -> 0 .. n - 1]
    <3>1. DOMAIN key = 1 .. n /\ key = [i \in 1 .. n |-> key[i]]
      BY <2>2, <2>3
    <3> QED BY <2>4, <3>1
  <2>6. SortedBy(s, key) = ms
    BY <1>1, <2>2, <2>4, <2>5, ReverseSorted
  <2> QED BY <2>1, <2>3, <2>6 DEF ByMessage
<1> QED BY <1>3, <1>4

\* The turns of a session that is numbered.
NumberedTurns(ts) ==
  /\ ts \in Seq(Turn)
  /\ \A t \in 1 .. Len(ts) : ts[t].turn_index = t - 1 /\ Numbered(ts[t].messages)

\* A turn whose messages come from the back.
RoundTurn(w) == [w EXCEPT !.messages = Reverse(@)]

\* It is the same turn but for that.
LEMMA RoundTurnIs ==
  ASSUME NEW w \in Turn
  PROVE  /\ RoundTurn(w) \in Turn /\ RoundTurn(w).turn_index = w.turn_index
         /\ RoundTurn(w).messages = Reverse(w.messages)
<1>1. w.messages \in Seq(Message)
  BY DEF Turn
<1>2. Reverse(w.messages) \in Seq(Message)
  BY <1>1, ReversePlaces
<1> QED BY <1>2 DEF RoundTurn, Turn

\* Turns that are numbered are put back in order.
LEMMA TurnsSorted ==
  ASSUME NEW ts, NumberedTurns(ts)
  PROVE  /\ ByTurn(ts) = ts
         /\ ByTurn(Rotated(ts)) = ts
         /\ ByTurn(Reversed(ts)) = [i \in 1 .. Len(ts) |-> RoundTurn(ts[i])]
<1>1. ts \in Seq(Turn)
  BY DEF NumberedTurns
<1>2. PICK n \in Nat : n = Len(ts)
  BY <1>1
<1>3. \A i \in 1 .. n : ts[i].turn_index = i - 1
  BY <1>2 DEF NumberedTurns
<1>4. ByTurn(ts) = ts
  <2>1. PICK key : key = [i \in DOMAIN ts |-> ts[i].turn_index]
    OBVIOUS
  <2>2. DOMAIN ts = 1 .. n
    BY <1>1, <1>2
  <2>3. key \in [1 .. n -> 0 .. n - 1] /\ \A i \in 1 .. n : key[i] = i - 1
    BY <1>3, <2>1, <2>2
  <2>4. SortedBy(ts, key) = ts
    BY <1>1, <1>2, <2>3, OrderedSorted
  <2> QED BY <2>1, <2>4 DEF ByTurn
<1>5. ByTurn(Rotated(ts)) = ts
  <2>1. CASE ts = <<>>
    BY <1>4, <2>1 DEF Rotated
  <2>2. CASE ts # <<>>
    <3>1. PICK s : s = Rotated(ts)
      OBVIOUS
    <3>2. n \in Nat \ {0} /\ Head(ts) = ts[1] /\ Head(ts) \in Turn
      BY <1>1, <1>2, <2>2
    <3>3. PICK v : v \in Seq(Turn) /\ v = Tail(ts) /\ Len(v) = n - 1 /\ \A i \in 1 .. n - 1 : v[i] = ts[i + 1]
      <4>1. PICK v : v = Tail(ts)
        OBVIOUS
      <4>2. v \in Seq(Turn) /\ Len(v) = n - 1
        BY <1>1, <1>2, <2>2, <4>1
      <4>3. \A i \in 1 .. n - 1 : v[i] = ts[i + 1]
        BY <1>1, <1>2, <2>2, <4>1
      <4> QED BY <4>1, <4>2, <4>3
    <3>4. s = Append(v, Head(ts))
      BY <2>2, <3>1, <3>3 DEF Rotated
    <3>5. DOMAIN s = 1 .. n /\ \A i \in 1 .. n : s[i] = IF i = n THEN ts[1] ELSE ts[i + 1]
      BY <3>2, <3>3, <3>4
    <3>6. PICK key : key = [i \in DOMAIN s |-> s[i].turn_index]
      OBVIOUS
    <3>7. ASSUME NEW i \in 1 .. n
          PROVE  key[i] = (IF i = n THEN 0 ELSE i) /\ key[i] \in 0 .. n - 1
      <4>1. CASE i = n
        <5>1. s[i].turn_index = 0
          BY <1>3, <3>2, <3>5, <4>1
        <5> QED BY <3>2, <3>5, <3>6, <4>1, <5>1
      <4>2. CASE i # n
        <5>1. i + 1 \in 1 .. n /\ i + 1 - 1 = i
          BY <4>2
        <5>2. s[i].turn_index = i
          BY <1>3, <3>5, <4>2, <5>1
        <5> QED BY <3>5, <3>6, <4>2, <5>1, <5>2
      <4> QED BY <4>1, <4>2
    <3>8. key \in [1 .. n -> 0 .. n - 1]
      <4>1. DOMAIN key = 1 .. n /\ key = [i \in 1 .. n |-> key[i]]
        BY <3>5, <3>6
      <4> QED BY <3>7, <4>1
    <3>9. SortedBy(s, key) = ts
      BY <1>1, <1>2, <3>5, <3>7, <3>8, RotatedSorted
    <3> QED BY <3>1, <3>6, <3>9 DEF ByTurn
  <2> QED BY <2>1, <2>2
<1>6. ByTurn(Reversed(ts)) = [i \in 1 .. Len(ts) |-> RoundTurn(ts[i])]
  <2>1. PICK w : w = [i \in 1 .. n |-> RoundTurn(ts[i])]
    OBVIOUS
  <2>2. w \in Seq(Turn) /\ Len(w) = n /\ \A i \in 1 .. n : w[i].turn_index = i - 1
    <3>1. \A i \in 1 .. n : ts[i] \in Turn
      BY <1>1, <1>2
    <3>2. \A i \in 1 .. n : w[i] \in Turn /\ w[i].turn_index = i - 1
      BY <1>3, <2>1, <3>1, RoundTurnIs
    <3> QED BY <2>1, <3>2
  <2>3. PICK s : s = Reversed(ts)
    OBVIOUS
  <2>4. s = Reverse(w)
    <3>1. DOMAIN ts = 1 .. n
      BY <1>1, <1>2
    <3> QED BY <2>1, <2>3, <3>1 DEF Reversed, RoundTurn
  <2>5. DOMAIN s = 1 .. n /\ \A i \in 1 .. n : s[i] = w[n - i + 1]
    BY <2>2, <2>4, ReversePlaces
  <2>6. PICK key : key = [i \in DOMAIN s |-> s[i].turn_index]
    OBVIOUS
  <2>7. ASSUME NEW i \in 1 .. n PROVE key[i] = n - i /\ n - i \in 0 .. n - 1
    <3>1. n - i + 1 \in 1 .. n /\ n - i + 1 - 1 = n - i
      OBVIOUS
    <3>2. s[i].turn_index = n - i + 1 - 1
      BY <2>2, <2>5, <3>1
    <3> QED BY <2>5, <2>6, <3>1, <3>2
  <2>8. key \in [1 .. n -> 0 .. n - 1]
    <3>1. DOMAIN key = 1 .. n /\ key = [i \in 1 .. n |-> key[i]]
      BY <2>5, <2>6
    <3> QED BY <2>7, <3>1
  <2>9. SortedBy(s, key) = w
    BY <2>2, <2>5, <2>7, <2>8, ReverseSorted
  <2> QED BY <1>2, <2>1, <2>3, <2>6, <2>9 DEF ByTurn
<1> QED BY <1>4, <1>5, <1>6

\* The messages of a session, turn by turn.
AllSaid(ts) == FlattenSeq([i \in DOMAIN ts |-> ts[i].messages])

\* These are sequences of messages.
LEMMA AllSaidSeqs ==
  ASSUME NEW ts \in Seq(Turn)
  PROVE  /\ [i \in DOMAIN ts |-> ts[i].messages] \in Seq(Seq(Message))
         /\ \A i \in 1 .. Len(ts) : ts[i].messages \in Seq(Message)
<1>1. \A i \in 1 .. Len(ts) : ts[i] \in Turn
  OBVIOUS
<1>2. \A i \in 1 .. Len(ts) : ts[i].messages \in Seq(Message)
  BY <1>1 DEF Turn
<1>3. PICK Q : Q = Seq(Message)
  OBVIOUS
<1>4. [i \in DOMAIN ts |-> ts[i].messages] \in Seq(Q)
  BY <1>2, <1>3
<1> QED BY <1>2, <1>3, <1>4

\* Whatever order the rows come back in, LogViewer has the messages as they were said.
LEMMA OrderedAsSaid ==
  ASSUME NEW ts, NumberedTurns(ts), NEW rows \in {ts, Reversed(ts), Rotated(ts)}
  PROVE  OrderedMessages(rows) = AllSaid(ts)
<1>1. ts \in Seq(Turn) /\ DOMAIN ts = 1 .. Len(ts)
  BY DEF NumberedTurns
<1>2. PICK w : w = [i \in 1 .. Len(ts) |-> RoundTurn(ts[i])]
  OBVIOUS
<1>3. PICK sorted : sorted = ByTurn(rows)
  OBVIOUS
<1>4. sorted = ts \/ sorted = w
  BY <1>2, <1>3, TurnsSorted
<1>5. OrderedMessages(rows) = FlattenSeq([i \in DOMAIN sorted |-> ByMessage(sorted[i].messages)])
  BY <1>3 DEF OrderedMessages
<1>6. DOMAIN sorted = DOMAIN ts
  BY <1>1, <1>2, <1>4
<1>7. ASSUME NEW i \in DOMAIN ts PROVE ByMessage(sorted[i].messages) = ts[i].messages
  <2>1. ts[i] \in Turn /\ ts[i].messages \in Seq(Message) /\ Numbered(ts[i].messages)
    <3>1. i \in 1 .. Len(ts) /\ ts[i] \in Turn
      BY <1>1
    <3>2. ts[i].messages \in Seq(Message)
      BY <1>1, <3>1, AllSaidSeqs
    <3> QED BY <3>1, <3>2 DEF NumberedTurns
  <2>2. CASE sorted = ts
    BY <2>1, <2>2, MessagesSorted
  <2>3. CASE sorted = w
    <3>1. sorted[i].messages = Reverse(ts[i].messages)
      BY <1>1, <1>2, <2>1, <2>3, RoundTurnIs
    <3> QED BY <2>1, <3>1, MessagesSorted
  <2> QED BY <1>4, <2>2, <2>3
<1>8. [i \in DOMAIN sorted |-> ByMessage(sorted[i].messages)] = [i \in DOMAIN ts |-> ts[i].messages]
  BY <1>6, <1>7
<1> QED BY <1>5, <1>8 DEF AllSaid

AskedRoles == {"system", "user"}
AnsweredRoles == {"assistant", "tool"}

\* The prompt comes first, and only there.
Led(s) == \A k \in DOMAIN s : s[k].role \in IF k = 1 THEN {"user"} ELSE AnsweredRoles

\* The prompt and the answer are the first message and the others.
LEMMA RolesApart ==
  ASSUME NEW E, NEW s \in Seq(E), Led(s)
  PROVE  /\ OfRoles(s, AskedRoles) \in Seq(E) /\ OfRoles(s, AnsweredRoles) \in Seq(E)
         /\ s = <<>> => OfRoles(s, AskedRoles) = <<>> /\ OfRoles(s, AnsweredRoles) = <<>>
         /\ s # <<>> => OfRoles(s, AskedRoles) = <<s[1]>> /\ OfRoles(s, AnsweredRoles) = Tail(s)
<1>1. PICK A : A = {i \in DOMAIN s : s[i].role \in AskedRoles}
  OBVIOUS
<1>2. PICK B : B = {i \in DOMAIN s : s[i].role \in AnsweredRoles}
  OBVIOUS
<1>3. OfRoles(s, AskedRoles) = Picked(s, A) /\ OfRoles(s, AnsweredRoles) = Picked(s, B)
  BY <1>1, <1>2 DEF OfRoles
<1>4. \A i \in DOMAIN s : (i \in A <=> i = 1) /\ (i \in B <=> i # 1)
  BY <1>1, <1>2 DEF Led, AskedRoles, AnsweredRoles
<1>5. Picked(s, A) \in Seq(E) /\ Picked(s, B) \in Seq(E)
  BY PickedPlaces
<1>6. CASE s = <<>>
  <2>1. Picked(s, A) = s /\ Picked(s, B) = s
    <3>1. DOMAIN s \subseteq A /\ DOMAIN s \subseteq B
      BY <1>6
    <3>2. Picked(s, A) = s
      BY <3>1, PickedAll
    <3>3. Picked(s, B) = s
      BY <3>1, PickedAll
    <3> QED BY <3>2, <3>3
  <2> QED BY <1>3, <1>5, <1>6, <2>1
<1>7. CASE s # <<>>
  <2>1. PICK x \in E : x = s[1]
    BY <1>7
  <2>2. PICK v \in Seq(E) : v = Tail(s)
    <3>1. Tail(s) \in Seq(E)
      BY <1>7
    <3> QED BY <3>1
  <2>3. v \in Seq(E) /\ Len(v) = Len(s) - 1 /\ DOMAIN v = 1 .. Len(s) - 1
    BY <1>7, <2>2
  <2>4. PICK o \in Seq(E) : o = <<x>>
    <3>1. <<x>> \in Seq(E)
      OBVIOUS
    <3> QED BY <3>1
  <2>5. o \in Seq(E) /\ Len(o) = 1 /\ DOMAIN o = {1} /\ o[1] = x
    BY <2>4
  <2>6. s = o \o v
    BY <1>7, <2>1, <2>2, <2>4
  <2>7. \A k \in DOMAIN v : 1 + k \in DOMAIN s /\ 1 + k # 1
    BY <2>3
  <2>8. Picked(s, A) = Picked(o, A) \o Picked(v, {})
    <3>1. PICK N : N = {}
      OBVIOUS
    <3>2. \A k \in DOMAIN v : k \in N <=> Len(o) + k \in A
      BY <1>4, <2>5, <2>7, <3>1
    <3>4. Picked(o \o v, A) = Picked(o, A) \o Picked(v, N)
      BY <3>2, PickedJoin
    <3> QED BY <2>6, <3>1, <3>4
  <2>9. Picked(s, B) = Picked(o, B) \o Picked(v, DOMAIN v)
    <3>1. PICK N : N = DOMAIN v
      OBVIOUS
    <3>2. \A k \in DOMAIN v : k \in N <=> Len(o) + k \in B
      BY <1>4, <2>5, <2>7, <3>1
    <3>4. Picked(o \o v, B) = Picked(o, B) \o Picked(v, N)
      BY <3>2, PickedJoin
    <3> QED BY <2>6, <3>1, <3>4
  <2>10. 1 \in DOMAIN s
    BY <1>7
  <2>11. Picked(o, A) = o
    <3>1. DOMAIN o \subseteq A
      BY <1>4, <2>5, <2>10
    <3> QED BY <2>5, <3>1, PickedAll
  <2>12. Picked(v, DOMAIN v) = v
    BY <2>3, PickedAll
  <2>13. Picked(v, {}) = <<>>
    BY <2>3, PickedNone
  <2>14. Picked(o, B) = <<>>
    <3>1. \A i \in DOMAIN o : i \in B <=> i \in {}
      BY <1>4, <2>5, <2>10
    <3>2. Picked(o, B) = Picked(o, {})
      BY <3>1, PickedSame
    <3>3. Picked(o, {}) = <<>>
      BY <2>5, PickedNone
    <3> QED BY <3>2, <3>3
  <2>15. o \o <<>> = o /\ <<>> \o v = v
    BY <2>3, <2>5
  <2>16. Picked(s, A) = o /\ Picked(s, B) = v
    BY <2>8, <2>9, <2>11, <2>12, <2>13, <2>14, <2>15
  <2> QED BY <1>3, <1>5, <1>7, <2>1, <2>2, <2>4, <2>16
<1> QED BY <1>6, <1>7

\* What SessionBuilder stores is led by the prompt.
TurnsLed(ts) ==
  \A t \in DOMAIN ts : ts[t].messages # <<>> /\
    \A i \in DOMAIN ts[t].messages :
      ts[t].messages[i].role \in IF t = 1 /\ i = 1 THEN {"user"} ELSE AnsweredRoles

\* The turns of a session, joined, are led by the prompt.
LEMMA SaidIsLed ==
  ASSUME NEW ts \in Seq(Turn), TurnsLed(ts)
  PROVE  /\ AllSaid(ts) \in Seq(Message) /\ Led(AllSaid(ts))
<1>1. PICK q : q = [i \in DOMAIN ts |-> ts[i].messages]
  OBVIOUS
<1>2. q \in Seq(Seq(Message)) /\ \A i \in 1 .. Len(ts) : q[i] \in Seq(Message)
  BY <1>1, AllSaidSeqs
<1>3. Len(q) = Len(ts) /\ DOMAIN q = 1 .. Len(ts) /\ \A i \in 1 .. Len(ts) : q[i] = ts[i].messages
  BY <1>1
<1>4. AllSaid(ts) = FlattenSeq(q)
  BY <1>1 DEF AllSaid
<1>5. FlattenSeq(q) \in Seq(Message)
  BY <1>2, FlattenType
<1>6. CASE ts = <<>>
  <2>1. q = <<>>
    BY <1>3, <1>6
  <2>2. FlattenSeq(q) = <<>>
    BY <1>2, <2>1, FlattenType
  <2> QED BY <1>4, <1>5, <2>2 DEF Led
<1>7. CASE ts # <<>>
  <2>1. PICK Q : Q = Seq(Message)
    OBVIOUS
  <2>2. q \in Seq(Q) /\ q # <<>> /\ 1 \in 1 .. Len(ts)
    BY <1>2, <1>3, <1>7, <2>1
  <2>3. PICK r : r = Tail(q)
    OBVIOUS
  <2>4. r \in Seq(Q) /\ Len(r) = Len(ts) - 1
    BY <1>3, <2>2, <2>3
  <2>5. \A i \in 1 .. Len(r) : r[i] = q[i + 1]
    BY <2>2, <2>3
  <2>6. PICK h : h = q[1]
    OBVIOUS
  <2>7. FlattenSeq(q) = h \o FlattenSeq(r)
    <3>1. Head(q) = h
      BY <2>2, <2>6
    <3> QED BY <1>2, <2>2, <2>3, <3>1, FlattenFirst
  <2>8. PICK M : M = {m \in Message : m.role \in AnsweredRoles}
    OBVIOUS
  <2>9. r \in Seq(Seq(M))
    <3>1. ASSUME NEW i \in 1 .. Len(r) PROVE r[i] \in Seq(M)
      <4>1. i + 1 \in 1 .. Len(ts) /\ i + 1 # 1
        BY <2>4
      <4>2. r[i] = ts[i + 1].messages /\ r[i] \in Seq(Message)
        BY <1>2, <1>3, <2>5, <4>1
      <4>3. i + 1 \in DOMAIN ts
        BY <4>1
      <4>4. \A k \in DOMAIN r[i] : r[i][k].role \in AnsweredRoles
        BY <4>1, <4>2, <4>3 DEF TurnsLed
      <4>5. \A k \in 1 .. Len(r[i]) : r[i][k] \in M
        BY <2>8, <4>2, <4>4
      <4> QED BY SMTT(40), <4>2, <4>5
    <3>2. PICK P : P = Seq(M)
      OBVIOUS
    <3>3. r \in Seq(P)
      BY <2>4, <3>1, <3>2
    <3> QED BY <3>2, <3>3
  <2>10. PICK v \in Seq(M) : v = FlattenSeq(r)
    BY <2>9, FlattenType
  <2>11. h \in Seq(Message) /\ h = ts[1].messages
    BY <1>2, <1>3, <2>2, <2>6
  <2>12. \A k \in DOMAIN h : h[k].role \in IF k = 1 THEN {"user"} ELSE AnsweredRoles
    <3>1. 1 \in DOMAIN ts
      BY <2>2
    <3> QED BY <2>11, <3>1 DEF TurnsLed
  <2>13. h # <<>>
    <3>1. 1 \in DOMAIN ts
      BY <2>2
    <3> QED BY <2>11, <3>1 DEF TurnsLed
  <2>14. PICK s : s = h \o v
    OBVIOUS
  <2>15. v \in Seq(Message)
    BY <2>8, <2>10
  <2>16. /\ Len(s) = Len(h) + Len(v) /\ DOMAIN s = 1 .. Len(h) + Len(v)
         /\ \A k \in 1 .. Len(h) : s[k] = h[k]
         /\ \A k \in 1 .. Len(v) : s[Len(h) + k] = v[k]
    BY <2>11, <2>14, <2>15
  <2>17. ASSUME NEW k \in DOMAIN s PROVE s[k].role \in IF k = 1 THEN {"user"} ELSE AnsweredRoles
    <3>1. CASE k <= Len(h)
      <4>1. k \in 1 .. Len(h) /\ k \in DOMAIN h
        BY <2>11, <2>16, <3>1
      <4> QED BY <2>12, <2>16, <4>1
    <3>2. CASE k > Len(h)
      <4>1. Len(h) \in Nat \ {0} /\ Len(v) \in Nat
        BY <2>10, <2>11, <2>13
      <4>2. PICK j \in 1 .. Len(v) : k = Len(h) + j
        <5>1. k - Len(h) \in 1 .. Len(v) /\ k = Len(h) + (k - Len(h))
          BY <2>16, <3>2, <4>1
        <5> QED BY <5>1
      <4>3. v[j] \in M
        BY <2>10, <4>2
      <4>4. s[k].role \in AnsweredRoles /\ k # 1
        BY <2>8, <2>16, <4>1, <4>2, <4>3
      <4> QED BY <4>4
    <3>3. k \in Nat /\ Len(h) \in Nat
      BY <2>11, <2>16
    <3> QED BY <3>1, <3>2, <3>3
  <2> QED BY <1>4, <1>5, <2>7, <2>10, <2>14, <2>17 DEF Led
<1> QED BY <1>6, <1>7

\* Whatever order the rows come back in, prompt and answer are all that was said,
\* in its order.
LEMMA PromptThenResponse ==
  ASSUME NEW ts, NumberedTurns(ts), TurnsLed(ts), NEW rows \in {ts, Reversed(ts), Rotated(ts)}
  PROVE  PromptText(rows) \o ResponseText(rows) = AllSaid(ts)
<1>1. PICK s : s = AllSaid(ts)
  OBVIOUS
<1>2. s \in Seq(Message) /\ Led(s)
  BY <1>1, SaidIsLed DEF NumberedTurns
<1>3. OrderedMessages(rows) = s
  BY <1>1, OrderedAsSaid
<1>4. PromptText(rows) = OfRoles(s, AskedRoles) /\ ResponseText(rows) = OfRoles(s, AnsweredRoles)
  BY <1>3 DEF PromptText, ResponseText, AskedRoles, AnsweredRoles
<1>5. CASE s = <<>>
  <2>1. OfRoles(s, AskedRoles) = <<>> /\ OfRoles(s, AnsweredRoles) = <<>>
    BY <1>2, <1>5, RolesApart
  <2> QED BY <1>1, <1>4, <1>5, <2>1
<1>6. CASE s # <<>>
  <2>1. OfRoles(s, AskedRoles) = <<s[1]>> /\ OfRoles(s, AnsweredRoles) = Tail(s)
    BY <1>2, <1>6, RolesApart
  <2>2. <<s[1]>> \o Tail(s) = s
    BY <1>2, <1>6
  <2> QED BY <1>1, <1>4, <2>1, <2>2
<1> QED BY <1>5, <1>6

\* A message whose input is of one call at most.
OfOneCall(m) == m.role = "tool" => \E c \in Calls : m.input \subseteq {c}

\* The service changes nothing of a message but an output that is no JSON.
LEMMA ToldAsShown ==
  ASSUME NEW m \in Message, OfOneCall(m), NEW json
  PROVE  /\ RoleMessageFrom(m, json).role = m.role
         /\ m.role # "tool" => RoleMessageFrom(m, json) = m
         /\ m.result \in json => RoleMessageFrom(m, json) = m
         /\ [RoleMessageFrom(m, json) EXCEPT !.result = m.result] = m
<1>1. /\ m = [role |-> m.role, msg_index |-> m.msg_index, call |-> m.call, input |-> m.input,
              result |-> m.result, chunks |-> m.chunks]
  BY DEF Message
<1>2. CASE m.role # "tool"
  <2>1. RoleMessageFrom(m, json) = m
    BY <1>2 DEF RoleMessageFrom
  <2>2. [m EXCEPT !.result = m.result] = m
    BY <1>1
  <2> QED BY <1>2, <2>1, <2>2
<1>3. CASE m.role = "tool"
  <2>1. PICK r : r = IF m.result \in json THEN m.result ELSE NoCall
    OBVIOUS
  <2>2. PICK t : t = [role |-> m.role, msg_index |-> m.msg_index, call |-> m.call, input |-> m.input,
                      result |-> r, chunks |-> m.chunks]
    OBVIOUS
  <2>3. \E c \in Calls : m.input \subseteq {c}
    BY <1>3 DEF OfOneCall
  <2>4. AsInvocation(m, json) = [m EXCEPT !.input = m.input, !.result = r]
    BY <2>1, <2>3, Zenon DEF AsInvocation
  <2>5. AsInvocation(m, json) = t
    BY <1>1, <2>2, <2>4
  <2>6. RoleMessageFrom(m, json) = t
    BY <1>3, <2>5 DEF RoleMessageFrom
  <2>7. t.role = m.role
    BY <2>2
  <2>8. m.result \in json => t = m
    BY <1>1, <2>1, <2>2
  <2>9. [t EXCEPT !.result = m.result] = m
    BY <1>1, <2>2
  <2> QED BY <1>3, <2>6, <2>7, <2>8, <2>9
<1> QED BY <1>2, <1>3

\* What list_agent_logs makes of the rows: the messages as they were said, each
\* as the service tells it.
LEMMA RoleMessagesAsSaid ==
  ASSUME NEW ts, NumberedTurns(ts), NEW json, NEW g, g = [m \in Message |-> RoleMessageFrom(m, json)]
  PROVE  RoleMessages(Reversed(ts), json) = Mapped(AllSaid(ts), g)
<1>1. ts \in Seq(Turn) /\ DOMAIN ts = 1 .. Len(ts)
  BY DEF NumberedTurns
<1>2. PICK sorted : sorted = ByTurn(Reversed(ts))
  OBVIOUS
<1>3. sorted = [i \in 1 .. Len(ts) |-> RoundTurn(ts[i])]
  BY <1>2, TurnsSorted
<1>4. ASSUME NEW i \in 1 .. Len(ts)
      PROVE  /\ ByMessage(sorted[i].messages) = ts[i].messages
             /\ ts[i].messages \in Seq(Message)
  <2>1. ts[i] \in Turn
    BY <1>1
  <2>2. ts[i].messages \in Seq(Message)
    BY <1>1, AllSaidSeqs
  <2>3. Numbered(ts[i].messages)
    BY DEF NumberedTurns
  <2>4. sorted[i].messages = Reverse(ts[i].messages)
    BY <1>3, <2>1, RoundTurnIs
  <2> QED BY <2>2, <2>3, <2>4, MessagesSorted
<1>5. PICK q : q = [i \in DOMAIN ts |-> ts[i].messages]
  OBVIOUS
<1>6. q \in Seq(Seq(Message)) /\ Len(q) = Len(ts)
  <2>1. q \in Seq(Seq(Message))
    BY <1>1, <1>5, AllSaidSeqs
  <2>2. DOMAIN q = 1 .. Len(ts) /\ Len(ts) \in Nat
    BY <1>1, <1>5
  <2>3. PICK Q : Q = Seq(Message)
    OBVIOUS
  <2>4. q \in Seq(Q)
    BY <2>1, <2>3
  <2>5. Len(q) = Len(ts)
    BY <2>2, <2>4
  <2> QED BY <2>1, <2>5
<1>7. PICK D : D = {g[m] : m \in Message}
  OBVIOUS
<1>8. g \in [Message -> D]
  BY <1>7
<1>9. FlattenSeq([i \in 1 .. Len(q) |-> Mapped(q[i], g)]) = Mapped(FlattenSeq(q), g)
  <2> QED BY <1>6, <1>8, FlattenMapped
<1>10. ASSUME NEW i \in 1 .. Len(ts), NEW ms, ms = ByMessage(sorted[i].messages)
       PROVE  [j \in DOMAIN ms |-> RoleMessageFrom(ms[j], json)] = Mapped(q[i], g)
  <2>1. ms = q[i] /\ ms \in Seq(Message)
    BY <1>1, <1>4, <1>5, <1>10
  <2>2. DOMAIN ms = 1 .. Len(ms) /\ \A j \in 1 .. Len(ms) : ms[j] \in Message
    BY <2>1
  <2>3. \A j \in 1 .. Len(ms) : RoleMessageFrom(ms[j], json) = g[ms[j]]
    BY <2>2
  <2> QED BY <2>1, <2>2, <2>3 DEF Mapped
<1>11. RoleMessages(Reversed(ts), json) =
         FlattenSeq([i \in DOMAIN sorted |->
           [j \in DOMAIN ByMessage(sorted[i].messages) |->
              RoleMessageFrom(ByMessage(sorted[i].messages)[j], json)]])
  BY <1>2, Zenon DEF RoleMessages
<1>12. [i \in DOMAIN sorted |->
         [j \in DOMAIN ByMessage(sorted[i].messages) |->
            RoleMessageFrom(ByMessage(sorted[i].messages)[j], json)]]
       = [i \in 1 .. Len(q) |-> Mapped(q[i], g)]
  <2>1. DOMAIN sorted = 1 .. Len(ts)
    BY <1>3
  <2>2. \A i \in 1 .. Len(ts) :
          [j \in DOMAIN ByMessage(sorted[i].messages) |->
             RoleMessageFrom(ByMessage(sorted[i].messages)[j], json)] = Mapped(q[i], g)
    BY <1>10
  <2> QED BY <1>6, <2>1, <2>2, Zenon
<1>13. AllSaid(ts) = FlattenSeq(q)
  BY <1>5 DEF AllSaid
<1> QED BY <1>9, <1>11, <1>12, <1>13

\* Every input is of one call at most.
TurnsOfOneCall(ts) ==
  \A t \in DOMAIN ts : \A i \in DOMAIN ts[t].messages : OfOneCall(ts[t].messages[i])

\* So is every message of the turns, joined.
LEMMA SaidOfOneCall ==
  ASSUME NEW ts \in Seq(Turn), TurnsOfOneCall(ts)
  PROVE  \A k \in DOMAIN AllSaid(ts) : OfOneCall(AllSaid(ts)[k])
<1>1. PICK M : M = {m \in Message : OfOneCall(m)}
  OBVIOUS
<1>2. PICK q : q = [i \in DOMAIN ts |-> ts[i].messages]
  OBVIOUS
<1>3. \A i \in 1 .. Len(ts) : q[i] \in Seq(M)
  <2> SUFFICES ASSUME NEW i \in 1 .. Len(ts) PROVE q[i] \in Seq(M)
    OBVIOUS
  <2>1. i \in DOMAIN ts /\ q[i] = ts[i].messages
    BY <1>2
  <2>2. q[i] \in Seq(Message)
    BY <2>1, AllSaidSeqs
  <2>3. \A k \in DOMAIN q[i] : OfOneCall(q[i][k])
    BY <2>1 DEF TurnsOfOneCall
  <2>4. \A k \in 1 .. Len(q[i]) : q[i][k] \in M
    BY <1>1, <2>2, <2>3
  <2> QED BY <2>2, <2>4
<1>4. q \in Seq(Seq(M))
  <2>1. PICK Q : Q = Seq(M)
    OBVIOUS
  <2>2. q \in Seq(Q)
    <3>1. q = [i \in 1 .. Len(ts) |-> q[i]] /\ Len(ts) \in Nat
      BY <1>2
    <3>2. \A i \in 1 .. Len(ts) : q[i] \in Q
      BY <1>3, <2>1
    <3> QED BY <3>1, <3>2
  <2> QED BY <2>1, <2>2
<1>5. PICK s : s = FlattenSeq(q)
  OBVIOUS
<1>6. s \in Seq(M)
  BY <1>4, <1>5, FlattenType
<1>7. \A k \in DOMAIN s : s[k] \in M
  BY <1>6
<1>8. AllSaid(ts) = s
  BY <1>2, <1>5 DEF AllSaid
<1> QED BY <1>1, <1>7, <1>8

\* The service tells what the page shows.
Agrees(log, shown, json) ==
  /\ log.prompt = shown.prompt
  /\ Len(log.response) = Len(shown.response)
  /\ \A i \in DOMAIN log.response :
       /\ shown.response[i].result \in json => log.response[i] = shown.response[i]
       /\ [log.response[i] EXCEPT !.result = shown.response[i].result] = shown.response[i]

\* Of a session that was put in order the service tells what the page shows.
LEMMA LogAsShown ==
  ASSUME NEW ts, NumberedTurns(ts), TurnsLed(ts), TurnsOfOneCall(ts), NEW json,
         NEW log, log = AgentLog(Reversed(ts), json),
         NEW onPage, onPage = [prompt |-> PromptText(ts), response |-> ResponseText(ts)]
  PROVE  Agrees(log, onPage, json)
<1> SUFFICES /\ log.prompt = PromptText(ts)
             /\ Len(log.response) = Len(ResponseText(ts))
             /\ \A i \in DOMAIN log.response :
                  /\ ResponseText(ts)[i].result \in json => log.response[i] = ResponseText(ts)[i]
                  /\ [log.response[i] EXCEPT !.result = ResponseText(ts)[i].result] = ResponseText(ts)[i]
  <2>1. onPage.prompt = PromptText(ts) /\ onPage.response = ResponseText(ts)
    OBVIOUS
  <2> QED BY <2>1 DEF Agrees
<1>1. PICK s : s = AllSaid(ts)
  OBVIOUS
<1>2. PICK g : g = [m \in Message |-> RoleMessageFrom(m, json)]
  OBVIOUS
<1>3. PICK v : v = Mapped(s, g)
  OBVIOUS
<1>4. s \in Seq(Message) /\ Led(s) /\ \A k \in DOMAIN s : OfOneCall(s[k])
  <2>1. ts \in Seq(Turn)
    BY DEF NumberedTurns
  <2> QED BY <1>1, <2>1, SaidIsLed, SaidOfOneCall
<1>5. /\ log.prompt = OfRoles(v, AskedRoles)
      /\ log.response = OfRoles(v, AnsweredRoles)
  <2>1. RoleMessages(Reversed(ts), json) = v
    BY <1>1, <1>2, <1>3, RoleMessagesAsSaid
  <2> QED BY <2>1 DEF AgentLog, AskedRoles, AnsweredRoles
<1>6. PromptText(ts) = OfRoles(s, AskedRoles) /\ ResponseText(ts) = OfRoles(s, AnsweredRoles)
  <2>1. OrderedMessages(ts) = s
    BY <1>1, OrderedAsSaid
  <2> QED BY <2>1 DEF PromptText, ResponseText, AskedRoles, AnsweredRoles
<1>7. ASSUME NEW k \in 1 .. Len(s)
      PROVE  /\ v[k] = RoleMessageFrom(s[k], json) /\ s[k] \in Message
             /\ v[k].role = s[k].role
             /\ s[k].role # "tool" => v[k] = s[k]
             /\ s[k].result \in json => v[k] = s[k]
             /\ [v[k] EXCEPT !.result = s[k].result] = s[k]
  <2>1. s[k] \in Message /\ OfOneCall(s[k])
    BY <1>4
  <2>2. v[k] = RoleMessageFrom(s[k], json)
    BY <1>2, <1>3, <2>1 DEF Mapped
  <2>3. PICK m : m = s[k]
    OBVIOUS
  <2>4. m \in Message /\ OfOneCall(m) /\ v[k] = RoleMessageFrom(m, json)
    BY <2>1, <2>2, <2>3
  <2>5. /\ RoleMessageFrom(m, json).role = m.role
        /\ m.role # "tool" => RoleMessageFrom(m, json) = m
        /\ m.result \in json => RoleMessageFrom(m, json) = m
        /\ [RoleMessageFrom(m, json) EXCEPT !.result = m.result] = m
    BY <2>4, ToldAsShown
  <2> QED BY <2>3, <2>4, <2>5, Zenon
<1>8. PICK n \in Nat : n = Len(s) /\ DOMAIN s = 1 .. n
  BY <1>4
<1>9. PICK D : D = {v[k] : k \in 1 .. n}
  OBVIOUS
<1>10. v \in Seq(D) /\ Len(v) = n /\ DOMAIN v = 1 .. n
  <2>1. v = [k \in 1 .. n |-> g[s[k]]]
    BY <1>3, <1>8 DEF Mapped
  <2>2. \A k \in 1 .. n : v[k] \in D
    BY <1>9
  <2>3. DOMAIN v = 1 .. n /\ v = [k \in 1 .. n |-> v[k]]
    BY <2>1
  <2>4. v \in Seq(D)
    BY <2>2, <2>3
  <2> QED BY <2>3, <2>4
<1>11. Led(v)
  <2> SUFFICES ASSUME NEW k \in 1 .. n PROVE v[k].role \in IF k = 1 THEN {"user"} ELSE AnsweredRoles
    BY <1>10 DEF Led
  <2>1. s[k].role \in IF k = 1 THEN {"user"} ELSE AnsweredRoles
    BY <1>4, <1>8 DEF Led
  <2> QED BY <1>7, <1>8, <2>1
<1>12. CASE s = <<>>
  <2>1. n = 0 /\ v = <<>>
    BY <1>8, <1>10, <1>12
  <2>2. OfRoles(s, AskedRoles) = <<>> /\ OfRoles(s, AnsweredRoles) = <<>>
    BY <1>4, <1>12, RolesApart
  <2>3. OfRoles(v, AskedRoles) = <<>> /\ OfRoles(v, AnsweredRoles) = <<>>
    BY <1>10, <1>11, <2>1, RolesApart
  <2>4. log.prompt = <<>> /\ log.response = <<>> /\ PromptText(ts) = <<>> /\ ResponseText(ts) = <<>>
    BY <1>5, <1>6, <2>2, <2>3
  <2> QED BY <2>4
<1>13. CASE s # <<>>
  <2>1. n # 0 /\ v # <<>>
    BY <1>4, <1>8, <1>10, <1>13
  <2>2. OfRoles(s, AskedRoles) = <<s[1]>> /\ OfRoles(s, AnsweredRoles) = Tail(s)
    BY <1>4, <1>13, RolesApart
  <2>3. OfRoles(v, AskedRoles) = <<v[1]>> /\ OfRoles(v, AnsweredRoles) = Tail(v)
    BY <1>10, <1>11, <2>1, RolesApart
  <2>4. v[1] = s[1]
    <3>1. 1 \in 1 .. n
      BY <2>1
    <3>2. s[1].role = "user"
      BY <1>4, <1>8, <3>1 DEF Led
    <3> QED BY <1>7, <1>8, <3>1, <3>2
  <2>5. log.prompt = PromptText(ts)
    BY <1>5, <1>6, <2>2, <2>3, <2>4
  <2>6. PICK a : a = Tail(s)
    OBVIOUS
  <2>7. Len(a) = n - 1 /\ DOMAIN a = 1 .. n - 1 /\ \A i \in 1 .. n - 1 : a[i] = s[i + 1]
    <3>1. a \in Seq(Message) /\ Len(a) = n - 1
      BY <1>4, <1>8, <1>13, <2>6
    <3>2. \A i \in 1 .. n - 1 : a[i] = s[i + 1]
      BY <1>4, <1>8, <1>13, <2>6
    <3> QED BY <3>1, <3>2
  <2>8. PICK b : b = Tail(v)
    OBVIOUS
  <2>9. Len(b) = n - 1 /\ DOMAIN b = 1 .. n - 1 /\ \A i \in 1 .. n - 1 : b[i] = v[i + 1]
    <3>1. b \in Seq(D) /\ Len(b) = n - 1
      BY <1>10, <2>1, <2>8
    <3>2. \A i \in 1 .. n - 1 : b[i] = v[i + 1]
      BY <1>10, <2>1, <2>8
    <3> QED BY <3>1, <3>2
  <2>10. ResponseText(ts) = a /\ log.response = b
    BY <1>5, <1>6, <2>2, <2>3, <2>6, <2>8
  <2>11. ASSUME NEW i \in DOMAIN b
         PROVE  /\ a[i].result \in json => b[i] = a[i]
                /\ [b[i] EXCEPT !.result = a[i].result] = a[i]
    <3>1. PICK k \in 1 .. n : k = i + 1
      <4>1. i + 1 \in 1 .. n
        BY <2>9
      <4> QED BY <4>1
    <3>2. a[i] = s[k] /\ b[i] = v[k]
      BY <2>7, <2>9, <3>1
    <3>3. /\ s[k].result \in json => v[k] = s[k]
          /\ [v[k] EXCEPT !.result = s[k].result] = s[k]
      BY <1>7, <1>8
    <3> QED BY <3>2, <3>3
  <2> QED BY <2>5, <2>7, <2>9, <2>10, <2>11
<1> QED BY <1>12, <1>13

\* The first message of a session is its prompt, and no other is.
MessageLed(t, i, m) == m.role \in IF t = 1 /\ i = 1 THEN {"user"} ELSE AnsweredRoles
LedBy(ts, ms) ==
  /\ ts = <<>> => ms # <<>>
  /\ \A t \in 1 .. Len(ts) : \A i \in DOMAIN ts[t].messages : MessageLed(t, i, ts[t].messages[i])
  /\ \A i \in DOMAIN ms : MessageLed(Len(ts) + 1, i, ms[i])

\* A message of the agent or a tool goes behind the prompt.
LEMMA AppendLed ==
  ASSUME NEW ts \in Seq(Turn), NEW ms \in Seq(Message), NEW m, m \in Message, m.role \in AnsweredRoles, LedBy(ts, ms)
  PROVE  LedBy(ts, Append(ms, m))
<1>1. PICK next : next = Append(ms, m)
  OBVIOUS
<1>2. /\ next # <<>> /\ DOMAIN next = DOMAIN ms \cup {Len(ms) + 1} /\ next[Len(ms) + 1] = m
      /\ \A i \in DOMAIN ms : next[i] = ms[i]
  BY <1>1
<1>3. ~(Len(ts) + 1 = 1 /\ Len(ms) + 1 = 1)
  BY DEF LedBy
<1>4. MessageLed(Len(ts) + 1, Len(ms) + 1, m)
  BY <1>3 DEF MessageLed
<1>5. \A i \in DOMAIN next : MessageLed(Len(ts) + 1, i, next[i])
  BY <1>2, <1>4 DEF LedBy
<1> QED BY <1>1, <1>2, <1>5 DEF LedBy

\* finalize_turn moves the messages of the turn in progress to the closed ones.
LEMMA CloseLed ==
  ASSUME NEW ts \in Seq(Turn), NEW ms \in Seq(Message), NEW w \in Turn, w.messages = ms, LedBy(ts, ms)
  PROVE  LedBy(Append(ts, w), <<>>)
<1>1. PICK next : next = Append(ts, w)
  OBVIOUS
<1>2. /\ next # <<>> /\ Len(next) = Len(ts) + 1 /\ next[Len(ts) + 1] = w
      /\ \A t \in 1 .. Len(ts) : next[t] = ts[t]
  BY <1>1
<1>3. ASSUME NEW t \in 1 .. Len(next), NEW i \in DOMAIN next[t].messages
      PROVE  MessageLed(t, i, next[t].messages[i])
  <2>1. CASE t = Len(ts) + 1
    <3>1. next[t].messages = ms
      BY <1>2, <2>1
    <3> QED BY <1>3, <2>1, <3>1 DEF LedBy
  <2>2. CASE t # Len(ts) + 1
    <3>1. t \in 1 .. Len(ts) /\ next[t] = ts[t]
      BY <1>2, <2>2
    <3> QED BY <1>3, <3>1 DEF LedBy
  <2> QED BY <2>1, <2>2
<1> QED BY <1>1, <1>2, <1>3 DEF LedBy

\* flush_assistant adds what the agent said.
LEMMA FlushLed ==
  ASSUME Indexed, LedBy(turns, current)
  PROVE  LedBy(turns, Flushed)
<1>1. CASE Pending = {}
  BY <1>1 DEF Flushed
<1>2. CASE Pending # {}
  <2>1. PICK m : m = Spoken("assistant", msgIndex, Pending)
    OBVIOUS
  <2>2. m \in Message /\ m.role \in AnsweredRoles
    BY <2>1 DEF Indexed, TypeOK, Message, Spoken, Pending, AnsweredRoles
  <2>3. Flushed = Append(current, m)
    BY <1>2, <2>1 DEF Flushed
  <2>4. turns \in Seq(Turn) /\ current \in Seq(Message)
    BY DEF Indexed, TypeOK
  <2> QED BY <2>2, <2>3, <2>4, AppendLed
<1> QED BY <1>1, <1>2

\* The prompt stays in front.
LEMMA InitLed == Init => LedBy(turns, current)
<1> SUFFICES ASSUME Init PROVE LedBy(turns, current)
  OBVIOUS
<1>1. PICK m : m = Spoken("user", 0, {})
  OBVIOUS
<1>2. turns = <<>> /\ current = <<m>> /\ m.role = "user"
  BY <1>1 DEF Init, Spoken
<1> QED BY <1>2 DEF LedBy, MessageLed

\* Every item of the stream goes behind it.
LEMMA NextLed ==
  ASSUME Indexed, LedBy(turns, current), [Next]_vars
  PROVE  LedBy(turns, current)'
<1>1. turns \in Seq(Turn) /\ current \in Seq(Message)
  BY DEF Indexed, TypeOK
<1>2. CASE UNCHANGED <<turns, current>>
  BY <1>2
<1>3. ASSUME NEW c \in Calls, ToolName(c) PROVE LedBy(turns, current)'
  <2>1. current' = Flushed /\ turns' = turns
    BY <1>3 DEF ToolName
  <2> QED BY <2>1, FlushLed
<1>4. ASSUME NEW c \in Calls, ToolResult(c) PROVE LedBy(turns, current)'
  <2>1. turns' = turns
    BY <1>4 DEF ToolResult
  <2>2. CASE tool.name = NoCall
    BY <1>2, <1>4, <2>1, <2>2 DEF ToolResult
  <2>3. CASE tool.name # NoCall
    <3>1. PICK m : m = [role |-> "tool", msg_index |-> msgIndex, call |-> tool.name,
                        input |-> tool.input, result |-> c, chunks |-> {clock + 1}]
      OBVIOUS
    <3>2. m \in Message
      <4>1. /\ tool.name \in Calls /\ tool.name # NoCall /\ tool.input \in SUBSET Calls
            /\ msgIndex \in Nat
        BY <2>3, StreamAssumption DEF Indexed, TypeOK, PendingTool
      <4>2. clock + 1 \in Chunk
        BY <1>4, StreamAssumption DEF ToolResult, Indexed, TypeOK, Chunk
      <4> QED BY <3>1, <4>1, <4>2 DEF Message
    <3>3. m.role \in AnsweredRoles
      BY <3>1 DEF AnsweredRoles
    <3>4. current' = Append(current, m)
      BY <1>4, <2>3, <3>1 DEF ToolResult
    <3>5. LedBy(turns, Append(current, m))
      BY <1>1, <3>2, <3>3, AppendLed
    <3> QED BY <2>1, <3>4, <3>5
  <2> QED BY <2>2, <2>3
<1>5. ASSUME CloseTurn PROVE LedBy(turns, current)'
  <2>1. LedBy(turns, Flushed) /\ Flushed \in Seq(Message)
    BY FlushLed, FlushNumbers
  <2>2. CASE Flushed = <<>>
    <3>1. turns' = turns /\ current' = Flushed
      BY <1>5, <2>2 DEF CloseTurn
    <3> QED BY <2>1, <3>1
  <2>3. CASE Flushed # <<>>
    <3>1. PICK w : w = [turn_index |-> turnIndex, messages |-> Flushed]
      OBVIOUS
    <3>2. w \in Turn /\ w.messages = Flushed
      BY <2>1, <3>1 DEF Turn, Indexed, TypeOK
    <3>3. turns' = Append(turns, w) /\ current' = <<>>
      BY <1>5, <2>3, <3>1 DEF CloseTurn
    <3>4. LedBy(Append(turns, w), <<>>)
      BY <1>1, <2>1, <3>2, CloseLed
    <3> QED BY <3>3, <3>4
  <2> QED BY <2>2, <2>3
<1> QED
  BY <1>2, <1>3, <1>4, <1>5
  DEF Next, TextItem, ReasoningDelta, ToolDelta, ToolCall, Final, FinalResponse, StreamFails, Finish,
      builder, vars

\* What is stored is a session that can be put back in order.
LEMMA StoredIsSession ==
  ASSUME Indexed, LedBy(turns, current)
  PROVE  NumberedTurns(turns) /\ TurnsLed(turns) /\ Stored = AllSaid(turns)
<1>1. turns \in Seq(Turn) /\ DOMAIN turns = 1 .. Len(turns)
  BY DEF Indexed, TypeOK
<1>2. NumberedTurns(turns)
  BY <1>1 DEF Indexed, SessionIsNumbered, NumberedTurns
<1>3. TurnsLed(turns)
  BY <1>1 DEF Indexed, SessionIsNumbered, LedBy, MessageLed, TurnsLed
<1>4. Stored = AllSaid(turns)
  BY DEF Stored, AllSaid
<1> QED BY <1>2, <1>3, <1>4

\* Whatever order the database returns the rows in, LogViewer shows the prompt
\* and then the answer as they were streamed, side by side or not.
THEOREM PageShowsTheStream == Spec => []ShownAsStreamed
<1>1. ASSUME Indexed, LedBy(turns, current) PROVE ShownAsStreamed
  BY <1>1, StoredIsSession, PromptThenResponse DEF ShownAsStreamed
<1>2. Indexed /\ LedBy(turns, current) /\ [Next]_vars => LedBy(turns, current)'
  BY NextLed
<1> QED BY <1>1, <1>2, InitLed, SpecIndexed, PTL DEF Spec

\* When calls are made one at a time, nothing that was streamed is lost, but for
\* the call a broken stream left open, and nothing is moved; the page and the
\* service show it in its order, whatever order the rows come back in
\* (SessionBuilder, LogViewer, list_agent_logs).
THEOREM TranscriptStaysWhole ==
  ASSUME ~SideBySide PROVE Spec => []TranscriptIsWhole
<1>1. ASSUME Serial, LedBy(turns, current) PROVE LogAgrees
  <2>1. NumberedTurns(turns) /\ TurnsLed(turns)
    BY <1>1, StoredIsSession DEF Serial
  <2>2. TurnsOfOneCall(turns)
    BY <1>1 DEF Serial, TurnsMatched, Matched, TurnsOfOneCall, OfOneCall
  <2>3. ASSUME NEW json \in SUBSET Calls,
               NEW log, log = AgentLog(Reversed(turns), json)
        PROVE  /\ log.prompt = PromptText(turns)
               /\ Len(log.response) = Len(ResponseText(turns))
               /\ \A i \in DOMAIN log.response :
                    /\ ResponseText(turns)[i].result \in json => log.response[i] = ResponseText(turns)[i]
                    /\ [log.response[i] EXCEPT !.result = ResponseText(turns)[i].result]
                         = ResponseText(turns)[i]
    <3>1. PICK onPage : onPage = [prompt |-> PromptText(turns), response |-> ResponseText(turns)]
      OBVIOUS
    <3>2. onPage.prompt = PromptText(turns) /\ onPage.response = ResponseText(turns)
      BY <3>1
    <3>3. Agrees(log, onPage, json)
      BY <2>1, <2>2, <2>3, <3>1, LogAsShown
    <3> QED BY <3>2, <3>3, Zenon DEF Agrees
  <2> QED BY <2>3, Zenon DEF LogAgrees
<1>2. Serial /\ [Next]_vars => Serial'
  BY NextSerial
<1>3. Indexed /\ LedBy(turns, current) /\ [Next]_vars => LedBy(turns, current)'
  BY NextLed
<1>4. NothingLostOrMoved /\ ShownAsStreamed /\ LogAgrees => TranscriptIsWhole
  BY DEF TranscriptIsWhole
<1> QED
  BY <1>1, <1>2, <1>3, <1>4, InitSerial, InitLed, SpecIndexed, PageShowsTheStream,
     NothingIsLostOrMoved, PTL DEF Spec

=============================================================================
