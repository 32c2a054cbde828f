-------------------------- MODULE Evaluation_proofs --------------------------
(****************************************************************************)
(* What the parts of an evaluation promise, for panels, diffs, files,       *)
(* prompts, rules and lists of findings of any size.                        *)
(****************************************************************************)
EXTENDS Evaluation, AgentStream_proofs

(* The panel.                                                               *)

Event ==
  [kind : {"ReviewStarted"}, agents : SUBSET Library]
    \cup [kind : {"AgentFinished"}, agent : Library]
    \cup [kind : {"ReviewCompleted"}, calls : [Library -> Nat]]

Types ==
  /\ selected \subseteq Library /\ panel \subseteq Library
  /\ task \in [Library -> TaskState]
  /\ findings \subseteq Library /\ errors \subseteq Library
  /\ sessions \in Seq(Library)
  /\ calls \in [Library -> Nat]
  /\ events \in Seq(Event)
  /\ ended \in [Library -> Over \cup {"none"}]

\* Before the tasks are spawned and after the last is joined, nothing moves.
Quiet ==
  /\ \A a \in Library \ panel : task[a] = "none"
  /\ phase # "running" => \A a \in Library : task[a] \in {"none", "joined"}
  /\ phase = "start" => sessions = <<>>
  /\ phase \in {"completed", "failed"} => AllJoined

\* An agent's usage is what it announced, and what it is about to.
CallsAreCounted ==
  \A a \in Library :
    /\ Announced(a) \in Nat
    /\ calls[a] = Announced(a) + (IF task[a] = "recorded" THEN 1 ELSE 0)

\* Whoever's session was taken was joined, so that it is not taken again, and
\* what was taken of it is what its task ended with.
TakenIsJoined ==
  /\ \A i, j \in DOMAIN sessions : sessions[i] = sessions[j] => i = j
  /\ findings \cup errors = ToSet(sessions)
  /\ findings \cap errors = {}
  /\ \A a \in ToSet(sessions) : task[a] = "joined"
  /\ \A a \in Library :
       /\ task[a] \in Over => ended[a] = task[a]
       /\ task[a] = "joined" =>
            /\ ended[a] = "ok" <=> a \in findings
            /\ ended[a] = "error" <=> a \in errors

\* evaluate returns once, all that was taken or only the errors.
ReturnedAsTaken ==
  /\ phase \in {"start", "running"} => returned = NothingReturned
  /\ phase = "completed" => returned = [findings |-> findings, sessions |-> sessions, message |-> {}]
  /\ phase = "failed" => errors # {} /\ returned = [NothingReturned EXCEPT !.message = errors]

\* The last event, if it is the last.
CompletionIsLast ==
  /\ phase = "completed" => errors = {}
  /\ \A i \in DOMAIN events : events[i].kind = "ReviewCompleted" =>
       i = Len(events) /\ phase = "completed" /\ events[i].calls = calls

PanelInv ==
  /\ Types /\ Quiet /\ CallsAreCounted /\ TakenIsJoined /\ CompletionIsLast
  /\ ReturnedAsTaken

-----------------------------------------------------------------------------
(* Sequences.                                                              *)

AnnouncedAt(a) == {i \in DOMAIN events : events[i].kind = "AgentFinished" /\ events[i].agent = a}

\* Only finitely many agents are announced.
LEMMA AnnouncedIsFinite ==
  ASSUME events \in Seq(Event), NEW a
  PROVE  IsFiniteSet(AnnouncedAt(a)) /\ Announced(a) = Cardinality(AnnouncedAt(a))
<1>1. IsFiniteSet(1 .. Len(events))
  BY FS_Interval
<1>2. AnnouncedAt(a) \subseteq 1 .. Len(events)
  BY DEF AnnouncedAt
<1> QED
  BY <1>1, <1>2, FS_Subset DEF Announced, AnnouncedAt

\* One more announcement counts for its agent; nothing else does.
LEMMA SendCounts ==
  ASSUME events \in Seq(Event), NEW e \in Event, Send(e), NEW a \in Library
  PROVE  /\ events' \in Seq(Event) /\ Announced(a) \in Nat
         /\ Announced(a)' =
              Announced(a) + (IF e.kind = "AgentFinished" /\ e.agent = a THEN 1 ELSE 0)
<1>1. /\ events' \in Seq(Event) /\ Len(events') = Len(events) + 1
      /\ events'[Len(events) + 1] = e
      /\ \A i \in 1 .. Len(events) : events'[i] = events[i]
  BY DEF Send
<1>2. IsFiniteSet(AnnouncedAt(a)) /\ Announced(a) = Cardinality(AnnouncedAt(a))
  BY AnnouncedIsFinite
<1>3. Announced(a)' = Cardinality(AnnouncedAt(a)')
  BY DEF Announced, AnnouncedAt
<1>4. Len(events) + 1 \notin AnnouncedAt(a)
  BY DEF AnnouncedAt
<1>5. CASE e.kind = "AgentFinished" /\ e.agent = a
  <2>1. AnnouncedAt(a)' = AnnouncedAt(a) \cup {Len(events) + 1}
    BY <1>1, <1>5 DEF AnnouncedAt
  <2> QED
    BY <1>1, <1>2, <1>3, <1>4, <1>5, <2>1, FS_AddElement, FS_CardinalityType
<1>6. CASE ~(e.kind = "AgentFinished" /\ e.agent = a)
  <2>1. AnnouncedAt(a)' = AnnouncedAt(a)
    BY <1>1, <1>6 DEF AnnouncedAt
  <2> QED
    BY <1>1, <1>2, <1>3, <1>6, <2>1, FS_CardinalityType
<1> QED
  BY <1>5, <1>6

\* A session more stands behind the others.
LEMMA OneMoreSession ==
  ASSUME sessions \in Seq(Library), NEW a \in Library, sessions' = Append(sessions, a)
  PROVE  /\ sessions' \in Seq(Library) /\ ToSet(sessions') = ToSet(sessions) \cup {a}
         /\ Len(sessions') = Len(sessions) + 1 /\ sessions'[Len(sessions) + 1] = a
         /\ \A i \in 1 .. Len(sessions) : sessions'[i] = sessions[i] /\ sessions[i] \in ToSet(sessions)
  BY DEF ToSet

-----------------------------------------------------------------------------
\* Nothing was spawned yet.
LEMMA PanelStarts == PanelInit => PanelInv
<1> SUFFICES ASSUME PanelInit PROVE PanelInv
  OBVIOUS
<1> USE DEF PanelInit
<1>1. Types /\ ReturnedAsTaken
  BY DEF Types, TaskState, ReturnedAsTaken
<1>2. Quiet
  BY DEF Quiet
<1>3. CallsAreCounted
  <2>1. ASSUME NEW a \in Library PROVE Announced(a) = 0
    <3>1. {i \in DOMAIN events : events[i].kind = "AgentFinished" /\ events[i].agent = a} = {}
      OBVIOUS
    <3> QED
      BY <3>1, FS_EmptySet DEF Announced
  <2> QED
    BY <2>1 DEF CallsAreCounted
<1>4. TakenIsJoined
  BY DEF TakenIsJoined, ToSet, Over
<1>5. CompletionIsLast
  BY DEF CompletionIsLast
<1> QED
  BY <1>1, <1>2, <1>3, <1>4, <1>5 DEF PanelInv

\* An agent is spawned.
LEMMA SpawnStep == PanelInv /\ Spawn => PanelInv'
<1> SUFFICES ASSUME PanelInv, Spawn PROVE PanelInv'
  OBVIOUS
<1> USE DEF PanelInv
<1> DEFINE e == [kind |-> "ReviewStarted", agents |-> selected]
<1>1. /\ phase = "start" /\ phase' = "running" /\ Send(e)
      /\ task' = [a \in Library |-> IF a \in panel' THEN "streaming" ELSE "none"]
      /\ UNCHANGED <<selected, findings, sessions, errors, calls, returned, ended>>
  BY DEF Spawn, taken
<1>2. panel' \subseteq Library
  BY PanelAssumption DEF Spawn, Panels, Candidates, Types
<1>3. e \in Event /\ e.kind = "ReviewStarted"
  BY DEF Event, Types
<1>4. \A a \in Library : events' \in Seq(Event) /\ Announced(a) \in Nat /\ Announced(a)' = Announced(a)
  <2> TAKE a \in Library
  <2> HIDE DEF e
  <2>1. /\ events' \in Seq(Event) /\ Announced(a) \in Nat
        /\ Announced(a)' = Announced(a) + (IF e.kind = "AgentFinished" /\ e.agent = a THEN 1 ELSE 0)
    BY <1>1, <1>3, SendCounts DEF Types
  <2> QED
    BY <1>3, <2>1
<1>5. events' \in Seq(Event)
  BY <1>1, <1>3 DEF Types, Send
<1>6. Types'
  BY <1>1, <1>2, <1>5 DEF Types, TaskState
<1>7. Quiet'
  BY <1>1 DEF Quiet
<1>8. CallsAreCounted'
  BY <1>1, <1>4 DEF CallsAreCounted, Quiet, Types
<1>9. TakenIsJoined'
  BY <1>1 DEF TakenIsJoined, Quiet, ToSet, Over, Types
<1>10. CompletionIsLast' /\ ReturnedAsTaken'
  BY <1>1, <1>3 DEF CompletionIsLast, Send, Types, ReturnedAsTaken
<1> QED
  BY <1>6, <1>7, <1>8, <1>9, <1>10

\* A completion ends, and its usage is recorded.
LEMMA CompletionEndsStep ==
  ASSUME PanelInv, NEW a \in Library, CompletionEnds(a)
  PROVE  PanelInv'
<1> USE DEF PanelInv
<1>1. /\ phase = "running" /\ task[a] = "streaming"
      /\ calls' = [calls EXCEPT ![a] = @ + 1]
      /\ task' = [task EXCEPT ![a] = "recorded"]
      /\ UNCHANGED <<selected, phase, panel, findings, sessions, errors, events, returned, ended>>
  BY DEF CompletionEnds, taken
<1>2. Types'
  BY <1>1 DEF Types, TaskState
<1>3. Quiet'
  BY <1>1 DEF Quiet, Types
<1>4. CallsAreCounted'
  <2>1. \A b \in Library : Announced(b)' = Announced(b)
    BY <1>1 DEF Announced
  <2> QED
    BY <1>1, <2>1 DEF CallsAreCounted, Types
<1>5. TakenIsJoined'
  BY <1>1 DEF TakenIsJoined, Types, Over
<1>6. CompletionIsLast' /\ ReturnedAsTaken'
  BY <1>1 DEF CompletionIsLast, ReturnedAsTaken
<1> QED
  BY <1>2, <1>3, <1>4, <1>5, <1>6

\* The usage recorded so far is announced.
LEMMA AgentFinishedStep ==
  ASSUME PanelInv, NEW a \in Library, AgentFinished(a)
  PROVE  PanelInv'
<1> USE DEF PanelInv
<1> DEFINE e == [kind |-> "AgentFinished", agent |-> a]
<1>1. /\ task[a] = "recorded" /\ Send(e)
      /\ task' = [task EXCEPT ![a] = "streaming"]
      /\ UNCHANGED <<selected, phase, panel, findings, sessions, errors, calls, returned, ended>>
  BY DEF AgentFinished, taken
<1>2. e \in Event /\ e.kind = "AgentFinished" /\ e.agent = a
  BY DEF Event
<1>3. \A b \in Library :
        Announced(b) \in Nat /\ Announced(b)' = Announced(b) + (IF a = b THEN 1 ELSE 0)
  BY <1>1, <1>2, SendCounts DEF Types
<1>4. Types'
  BY <1>1, <1>2 DEF Types, TaskState, Send
<1>5. phase = "running"
  BY <1>1 DEF Quiet
<1>6. Quiet'
  BY <1>1, <1>5 DEF Quiet, Types
<1>7. CallsAreCounted'
  BY <1>1, <1>3 DEF CallsAreCounted, Types
<1>8. TakenIsJoined'
  BY <1>1 DEF TakenIsJoined, Types, Over
<1>9. CompletionIsLast' /\ ReturnedAsTaken'
  BY <1>1, <1>2, <1>5 DEF CompletionIsLast, Send, Types, ReturnedAsTaken
<1> QED
  BY <1>4, <1>6, <1>7, <1>8, <1>9

\* The task of an agent ends.
LEMMA EndStep ==
  ASSUME PanelInv, NEW a \in Library, End(a)
  PROVE  PanelInv'
<1> USE DEF PanelInv
<1>1. PICK r \in Over : task' = [task EXCEPT ![a] = r] /\ ended' = [ended EXCEPT ![a] = r]
  BY DEF End
<1>2. /\ task[a] = "streaming"
      /\ UNCHANGED <<selected, phase, panel, findings, sessions, errors, calls, events, returned>>
  BY DEF End, taken
<1>3. Types'
  BY <1>1, <1>2 DEF Types, TaskState, Over
<1>4. Quiet'
  BY <1>1, <1>2 DEF Quiet, Types, AllJoined
<1>5. CallsAreCounted'
  BY <1>1, <1>2 DEF CallsAreCounted, Announced, Types, Over
<1>6. TakenIsJoined'
  <2>1. a \notin ToSet(sessions)
    BY <1>2 DEF TakenIsJoined
  <2> QED
    BY <1>1, <1>2, <2>1 DEF TakenIsJoined, Types, Over
<1>7. CompletionIsLast' /\ ReturnedAsTaken'
  BY <1>2 DEF CompletionIsLast, ReturnedAsTaken
<1> QED
  BY <1>3, <1>4, <1>5, <1>6, <1>7

\* The panel joins a task that ended.
LEMMA JoinStep ==
  ASSUME PanelInv, NEW a \in Library, Join(a)
  PROVE  PanelInv'
<1> USE DEF PanelInv
<1>1. /\ task[a] \in Over /\ task' = [task EXCEPT ![a] = "joined"]
      /\ UNCHANGED <<selected, phase, panel, calls, events, returned, ended>>
  BY DEF Join, JoinOk, JoinFailed, JoinPanicked, Over
<1>2. phase = "running" /\ a \in panel
  BY <1>1 DEF Quiet, Over
<1>3. a \notin ToSet(sessions)
  BY <1>1 DEF TakenIsJoined, Over
<1>4. Quiet'
  BY <1>1, <1>2 DEF Quiet, Types
<1>5. CallsAreCounted'
  BY <1>1 DEF CallsAreCounted, Announced, Types, Over
<1>6. CompletionIsLast' /\ ReturnedAsTaken'
  BY <1>1, <1>2 DEF CompletionIsLast, ReturnedAsTaken
<1>7. CASE JoinPanicked(a)
  <2>1. UNCHANGED <<findings, sessions, errors>> /\ task[a] = "panic" /\ ended[a] = "panic"
    BY <1>1, <1>7 DEF JoinPanicked, taken, TakenIsJoined
  <2>2. a \notin findings \cup errors
    BY <1>3 DEF TakenIsJoined
  <2>3. Types'
    BY <1>1, <2>1 DEF Types, TaskState
  <2>4. TakenIsJoined'
    BY <1>1, <2>1, <2>2 DEF Types, TakenIsJoined, Over
  <2> QED
    BY <1>4, <1>5, <1>6, <2>3, <2>4
<1>8. CASE JoinOk(a) \/ JoinFailed(a)
  <2>1. /\ sessions' = Append(sessions, a)
        /\ \/ findings' = findings \cup {a} /\ errors' = errors /\ ended[a] = "ok"
           \/ errors' = errors \cup {a} /\ findings' = findings /\ ended[a] = "error"
    BY <1>1, <1>8 DEF JoinOk, JoinFailed, TakenIsJoined
  <2>2. /\ sessions' \in Seq(Library) /\ ToSet(sessions') = ToSet(sessions) \cup {a}
        /\ Len(sessions') = Len(sessions) + 1 /\ sessions'[Len(sessions) + 1] = a
        /\ \A i \in 1 .. Len(sessions) :
             sessions'[i] = sessions[i] /\ sessions[i] \in ToSet(sessions)
    BY <2>1, OneMoreSession DEF Types
  <2>3. Types'
    BY <1>1, <2>1, <2>2 DEF Types, TaskState
  <2>4. \A i, j \in DOMAIN sessions' : sessions'[i] = sessions'[j] => i = j
    <3>1. \A i, j \in 1 .. Len(sessions) : sessions[i] = sessions[j] => i = j
      BY DEF TakenIsJoined, Types
    <3>2. DOMAIN sessions' = 1 .. Len(sessions) + 1
      BY <2>2 DEF Types
    <3>3. Len(sessions) \in Nat
      BY DEF Types
    <3> QED
      BY <1>3, <2>2, <3>1, <3>2, <3>3
  <2>5. /\ findings \cup errors = ToSet(sessions) /\ findings \cap errors = {}
        /\ \A b \in ToSet(sessions) : task[b] = "joined"
    BY DEF TakenIsJoined
  <2>6. findings' \cup errors' = ToSet(sessions') /\ findings' \cap errors' = {}
    BY <1>3, <2>1, <2>2, <2>5
  <2>7. \A b \in ToSet(sessions') : task'[b] = "joined"
    BY <1>1, <2>2, <2>5, <2>6, <2>3 DEF Types
  <2>8. \A b \in Library :
          /\ task'[b] \in Over => ended'[b] = task'[b]
          /\ task'[b] = "joined" =>
               /\ ended'[b] = "ok" <=> b \in findings'
               /\ ended'[b] = "error" <=> b \in errors'
    <3> SUFFICES ASSUME NEW b \in Library
                 PROVE  /\ task'[b] \in Over => ended'[b] = task'[b]
                        /\ task'[b] = "joined" =>
                             /\ ended'[b] = "ok" <=> b \in findings'
                             /\ ended'[b] = "error" <=> b \in errors'
      OBVIOUS
    <3>1. CASE b = a
      <4>1. a \notin findings \cup errors /\ task'[a] = "joined" /\ ended' = ended
        BY <1>1, <1>3, <2>5 DEF Types
      <4> QED
        BY <2>1, <3>1, <4>1 DEF Over
    <3>2. CASE b # a
      <4>1. task'[b] = task[b] /\ ended' = ended
        BY <1>1, <3>2 DEF Types
      <4> QED
        BY <2>1, <3>2, <4>1 DEF TakenIsJoined
    <3> QED
      BY <3>1, <3>2
  <2>9. TakenIsJoined'
    BY <2>4, <2>6, <2>7, <2>8 DEF TakenIsJoined
  <2> QED
    BY <1>4, <1>5, <1>6, <2>3, <2>9
<1> QED
  BY <1>7, <1>8 DEF Join

\* The panel returns what it joined.
LEMMA ReturnStep == PanelInv /\ Return => PanelInv'
<1> SUFFICES ASSUME PanelInv, Return PROVE PanelInv'
  OBVIOUS
<1> USE DEF PanelInv
<1>1. /\ phase = "running" /\ \A a \in panel : task[a] = "joined"
      /\ UNCHANGED <<selected, panel, task, findings, sessions, errors, calls, ended>>
  BY DEF Return, AllJoined, taken
<1>2. \A a \in Library : task[a] \in {"none", "joined"}
  BY <1>1 DEF Quiet
<1>3. phase' \in {"completed", "failed"}
  BY DEF Return
<1>4. Quiet'
  BY <1>1, <1>2, <1>3 DEF Quiet, AllJoined
<1>5. TakenIsJoined'
  BY <1>1 DEF TakenIsJoined
<1>6. CASE /\ errors # {} /\ phase' = "failed" /\ UNCHANGED events
           /\ returned' = [NothingReturned EXCEPT !.message = errors]
  <2>1. Types' /\ CallsAreCounted' /\ CompletionIsLast' /\ ReturnedAsTaken'
    BY <1>1, <1>6 DEF Types, CallsAreCounted, Announced, CompletionIsLast, ReturnedAsTaken
  <2> QED
    BY <1>4, <1>5, <2>1
<1>7. CASE /\ errors = {} /\ phase' = "completed" /\ Send([kind |-> "ReviewCompleted", calls |-> calls])
           /\ returned' = [NothingReturned EXCEPT !.findings = findings, !.sessions = sessions]
  <2> DEFINE e == [kind |-> "ReviewCompleted", calls |-> calls]
  <2>1. e \in Event /\ e.kind = "ReviewCompleted"
    BY DEF Event, Types
  <2>2. Send(e)
    BY <1>7
  <2>3. ASSUME NEW a \in Library PROVE Announced(a)' = Announced(a)
    <3> HIDE DEF e
    <3>1. /\ Announced(a) \in Nat
          /\ Announced(a)' = Announced(a) + (IF e.kind = "AgentFinished" /\ e.agent = a THEN 1 ELSE 0)
      BY <2>1, <2>2, SendCounts DEF Types
    <3> QED
      BY <2>1, <3>1
  <2>4. Types'
    BY <1>1, <1>7, <2>1 DEF Types, Send
  <2>5. CallsAreCounted'
    BY <1>1, <2>3 DEF CallsAreCounted
  <2>6. CompletionIsLast'
    BY <1>1, <1>7 DEF CompletionIsLast, Send, Types
  <2>7. ReturnedAsTaken'
    BY <1>1, <1>7 DEF ReturnedAsTaken, NothingReturned
  <2> QED
    BY <1>4, <1>5, <2>4, <2>5, <2>6, <2>7
<1> QED
  BY <1>6, <1>7 DEF Return

\* The invariant of the panel holds throughout.
LEMMA PanelInvariance == PanelSpec => []PanelInv
<1>1. PanelInv /\ [PanelNext]_panelVars => PanelInv'
  <2> SUFFICES ASSUME PanelInv, [PanelNext]_panelVars PROVE PanelInv'
    OBVIOUS
  <2>1. CASE Spawn \/ Return
    BY <2>1, SpawnStep, ReturnStep
  <2>2. ASSUME NEW a \in Library, CompletionEnds(a) \/ AgentFinished(a) \/ End(a) \/ Join(a)
        PROVE  PanelInv'
    BY <2>2, CompletionEndsStep, AgentFinishedStep, EndStep, JoinStep
  <2>3. CASE UNCHANGED panelVars
    BY <2>3 DEF panelVars, taken, PanelInv, Types, Quiet, CallsAreCounted, Announced,
                TakenIsJoined, CompletionIsLast, ReturnedAsTaken, AllJoined
  <2> QED
    BY <2>1, <2>2, <2>3 DEF PanelNext
<1> QED
  BY PanelStarts, <1>1, PTL DEF PanelSpec

-----------------------------------------------------------------------------
\* What evaluate returns is of the whole panel: the usage of every completion
\* that was announced; the findings and the session of every agent that ended
\* with an output, once, or, when an agent ended with an error, every such error
\* and nothing else; whatever the size of the panel and the order its tasks end in.
THEOREM ReturnsWhole == PanelSpec => []ReturnIsWhole
<1>1. PanelInv => ReturnIsWhole
  <2> SUFFICES ASSUME PanelInv PROVE ReturnIsWhole
    OBVIOUS
  <2> USE DEF PanelInv
  <2>1. ASSUME phase \in {"completed", "failed"}
        PROVE  Ended("error") = errors /\ Ended("ok") = findings
    <3>1. \A a \in panel : a \in Library /\ task[a] = "joined"
      BY <2>1 DEF Quiet, AllJoined, Types
    <3>2. \A a \in findings \cup errors : a \in panel
      <4>1. \A a \in findings \cup errors : a \in Library /\ task[a] = "joined"
        BY DEF TakenIsJoined, Types
      <4> QED
        BY <4>1 DEF Quiet
    <3> QED
      BY <3>1, <3>2 DEF Ended, TakenIsJoined
  <2>2. ASSUME phase = "completed"
        PROVE  /\ Ended("error") = {} /\ returned.message = {}
               /\ returned.findings = Ended("ok") /\ ToSet(returned.sessions) = Ended("ok")
               /\ IsInjective(returned.sessions)
    <3>1. returned.findings = findings /\ returned.sessions = sessions /\ returned.message = {}
      BY <2>2 DEF ReturnedAsTaken
    <3>2. errors = {}
      BY <2>2 DEF CompletionIsLast
    <3> QED
      BY <2>1, <2>2, <3>1, <3>2 DEF TakenIsJoined, IsInjective
  <2>3. ASSUME phase = "failed"
        PROVE  /\ Ended("error") # {}
               /\ returned = [NothingReturned EXCEPT !.message = Ended("error")]
    BY <2>1, <2>3 DEF ReturnedAsTaken
  <2>4. SnapshotIsFinal
    BY DEF SnapshotIsFinal, CompletionIsLast, CallsAreCounted, Quiet
  <2> QED
    BY <2>2, <2>3, <2>4 DEF ReturnIsWhole, AllOrErrors
<1> QED
  BY <1>1, PanelInvariance, PTL

-----------------------------------------------------------------------------
(* The types of the panel.                                                 *)

\* A panel never completes more than it may, and only its agents speak.
PanelTyped ==
  /\ PanelTypeOK
  /\ phase = "start" => events = <<>>

\* An evaluation starts with nothing spawned, counted or announced.
LEMMA PanelStartsTyped == PanelInit => PanelTyped
<1> SUFFICES ASSUME PanelInit PROVE PanelTyped
  OBVIOUS
<1>1. ToSet(sessions) = {} /\ ToSet(events) = {} /\ ToSet(returned.sessions) = {}
  BY DEF PanelInit, ToSet, NothingReturned
<1>2. calls \in [Library -> 0 .. MaxCalls]
  BY PanelAssumption DEF PanelInit
<1> QED
  BY <1>1, <1>2 DEF PanelTyped, PanelTypeOK, PanelInit, TaskState, NothingReturned

\* What is sent joins what was.
LEMMA SentTyped ==
  ASSUME events \in Seq(Event), NEW e, Send(e)
  PROVE  ToSet(events') = ToSet(events) \cup {e}
  BY DEF Send, ToSet

\* Every step keeps the types of the panel.
LEMMA PanelStaysTyped == PanelTyped /\ PanelInv /\ PanelInv' /\ [PanelNext]_panelVars => PanelTyped'
<1> SUFFICES ASSUME PanelTyped, PanelInv, PanelInv', [PanelNext]_panelVars PROVE PanelTyped'
  OBVIOUS
<1> USE DEF PanelTyped
<1>1. /\ Types /\ Types' /\ events \in Seq(Event) /\ sessions \in Seq(Library)
      /\ ended' \in [Library -> Over \cup {"none"}]
      /\ selected' \subseteq Library /\ panel' \subseteq Library /\ task' \in [Library -> TaskState]
      /\ findings' \subseteq Library /\ errors' \subseteq Library
  BY DEF PanelInv, Types
<1>2. CASE Spawn
  <2>1. /\ phase = "start" /\ phase' = "running" /\ small' = small /\ sessions' = sessions /\ calls' = calls
        /\ returned' = returned
        /\ Send([kind |-> "ReviewStarted", agents |-> selected])
    BY <1>2 DEF Spawn, taken
  <2>2. events = <<>> /\ sessions = <<>>
    BY <2>1 DEF PanelInv, Quiet
  <2>3. ToSet(sessions') = {} /\ ToSet(events) = {}
    BY <2>1, <2>2 DEF ToSet
  <2>5. returned.findings = {} /\ returned.message = {} /\ ToSet(returned.sessions) = {}
    BY <2>1 DEF PanelInv, ReturnedAsTaken, NothingReturned, ToSet
  <2>4. ToSet(events') = {[kind |-> "ReviewStarted", agents |-> selected]}
    BY <1>1, <2>1, <2>3, SentTyped
  <2> QED
    BY <1>1, <2>1, <2>3, <2>4, <2>5 DEF PanelTypeOK
<1>3. CASE Return
  <2>1. /\ phase = "running" /\ phase' \in {"completed", "failed"} /\ small' = small /\ panel' = panel
        /\ sessions' = sessions /\ calls' = calls
        /\ events' = events \/ Send([kind |-> "ReviewCompleted", calls |-> calls])
    BY <1>3 DEF Return, taken
  <2>2. ToSet(events') \subseteq ToSet(events) \cup {[kind |-> "ReviewCompleted", calls |-> calls]}
    BY <1>1, <2>1, SentTyped
  <2>3. findings \cup errors \subseteq panel /\ ToSet(sessions) \subseteq panel
    BY DEF PanelTypeOK, PanelInv, TakenIsJoined
  <2>4. returned'.findings \cup returned'.message \cup ToSet(returned'.sessions) \subseteq panel
    <3>1. CASE returned' = [NothingReturned EXCEPT !.message = errors]
      BY <2>3, <3>1 DEF NothingReturned, ToSet
    <3>2. CASE returned' = [NothingReturned EXCEPT !.findings = findings, !.sessions = sessions]
      <4>1. returned'.findings = findings /\ returned'.sessions = sessions /\ returned'.message = {}
        BY <3>2 DEF NothingReturned
      <4> QED
        BY <2>3, <4>1
    <3> QED
      BY <1>3, <3>1, <3>2 DEF Return
  <2> QED
    BY <1>1, <2>1, <2>2, <2>4 DEF PanelTypeOK
<1>4. ASSUME NEW a \in Library, CompletionEnds(a) PROVE PanelTyped'
  <2>1. /\ TotalCalls < MaxCalls /\ calls' = [calls EXCEPT ![a] = @ + 1]
        /\ UNCHANGED <<small, phase, panel, sessions, events, returned>>
    BY <1>4 DEF CompletionEnds, taken
  <2>2. calls \in [Library -> Nat] /\ calls[a] <= TotalCalls /\ TotalCalls \in Nat
    BY PanelAssumption, SumIsNoLess DEF PanelInv, Types, TotalCalls
  <2>3. calls[a] + 1 \in 0 .. MaxCalls
    BY <2>1, <2>2, PanelAssumption
  <2>4. calls' \in [Library -> 0 .. MaxCalls]
    BY <2>1, <2>3 DEF PanelTypeOK
  <2> QED
    BY <1>1, <2>1, <2>4 DEF PanelTypeOK
<1>5. ASSUME NEW a \in Library, AgentFinished(a) PROVE PanelTyped'
  <2>1. /\ task[a] = "recorded" /\ Send([kind |-> "AgentFinished", agent |-> a])
        /\ UNCHANGED <<small, phase, panel, sessions, calls, returned>>
    BY <1>5 DEF AgentFinished, taken
  <2>2. a \in panel /\ phase # "start"
    BY <2>1 DEF PanelInv, Quiet
  <2>3. ToSet(events') = ToSet(events) \cup {[kind |-> "AgentFinished", agent |-> a]}
    BY <1>1, <2>1, SentTyped
  <2> QED
    BY <1>1, <2>1, <2>2, <2>3 DEF PanelTypeOK
<1>6. ASSUME NEW a \in Library, End(a) PROVE PanelTyped'
  BY <1>1, <1>6 DEF End, taken, PanelTypeOK
<1>7. ASSUME NEW a \in Library, Join(a) PROVE PanelTyped'
  <2>1. /\ task[a] \in Over /\ UNCHANGED <<small, phase, panel, calls, events, returned>>
        /\ sessions' = sessions \/ sessions' = Append(sessions, a)
    BY <1>7 DEF Join, JoinOk, JoinFailed, JoinPanicked, Over, taken
  <2>2. a \in panel
    BY <2>1 DEF PanelInv, Quiet, Over
  <2>3. ToSet(sessions') \subseteq panel
    BY <1>1, <2>1, <2>2, OneMoreSession DEF PanelTypeOK
  <2> QED
    BY <1>1, <2>1, <2>3 DEF PanelTypeOK
<1>8. CASE UNCHANGED panelVars
  BY <1>8 DEF panelVars, taken, PanelTypeOK
<1> QED
  BY <1>2, <1>3, <1>4, <1>5, <1>6, <1>7, <1>8 DEF PanelNext

\* The panel stays typed, however many agents the library has and calls they make.
LEMMA PanelTypes == PanelSpec => []PanelTypeOK
<1>1. PanelTyped => PanelTypeOK
  BY DEF PanelTyped
<1> QED
  BY <1>1, PanelInvariance, PanelStartsTyped, PanelStaysTyped, PTL DEF PanelSpec

-----------------------------------------------------------------------------
(* The findings.                                                            *)

\* The findings that are behind a result.
TakenIds == UNION {results[k].from : k \in DOMAIN results}

Unplaced == ToSet(Ungrouped)

\* The first of the findings of a result without a place, and what resembles it
\* further on is taken.
SeedOf(from, j) ==
  /\ j \in DOMAIN Ungrouped /\ j < at /\ Ungrouped[j] \in from
  /\ \A i \in from : Ungrouped[j] <= i
  /\ \A k \in DOMAIN Ungrouped :
       k > j /\ {Ungrouped[j], Ungrouped[k]} \in similar => Ungrouped[k] \in gone

FindingsAreTyped ==
  /\ input \in Seq(Finding)
  /\ stage \in {"start", "groups", "ungrouped", "audit", "cap", "done"}
  /\ groups \subseteq Places
  /\ at \in Nat \ {0}
  /\ gone \subseteq Unplaced
  /\ results \in Seq(Result)

\* A result stands for all of a place, or for findings without one, by the richest.
StandsFor(r) ==
  /\ r.id \in r.from /\ r.from \subseteq Ids
  /\ \A i \in r.from : input[i].size <= input[r.id].size
  /\ \/ input[r.id].place # NoPlace /\ r.from = ToSet(At(input[r.id].place))
     \/ r.from \subseteq Unplaced

AllStand == \A k \in DOMAIN results : StandsFor(results[k])

TakenOnce ==
  \A k, l \in DOMAIN results : k # l => results[k].from \cap results[l].from = {}

\* How far the merge has come.
TakenSoFar ==
  /\ stage = "start" => results = <<>> /\ gone = {} /\ at = 1
  /\ stage = "groups" =>
       /\ gone = {} /\ at = 1 /\ \A p \in groups : At(p) # <<>>
       /\ TakenIds = {i \in Ids : input[i].place # NoPlace /\ input[i].place \notin groups}
  /\ stage = "ungrouped" =>
       TakenIds = {i \in Ids : input[i].place # NoPlace}
                 \cup {Ungrouped[k] : k \in {k \in DOMAIN Ungrouped : k < at}} \cup gone
  /\ stage \in {"audit", "cap"} => TakenIds = Ids

SeedsAhead ==
  stage \in {"groups", "ungrouped"} =>
    \A k \in DOMAIN results :
      results[k].from \subseteq Unplaced => \E j \in DOMAIN Ungrouped : SeedOf(results[k].from, j)

\* No two results without a place start from findings that resemble each other.
SeedsApart ==
  \A k, l \in DOMAIN results :
    (k # l /\ results[k].from \cup results[l].from \subseteq Unplaced) =>
      {Min(results[k].from), Min(results[l].from)} \notin similar

\* What a severity may have become.
Lowers(r) ==
  /\ r.severity >= input[r.id].severity
  /\ IsProtected(input[r.id]) => r.severity = input[r.id].severity
  /\ (/\ "hypothetical_theoretical" \in input[r.id].matches
      /\ "architecture_nits" \notin input[r.id].matches)
        => r.severity <= input[r.id].severity + 1

AllLower == \A k \in DOMAIN results : Lowers(results[k])

SeveritiesSoFar ==
  \A k \in DOMAIN results :
    stage \in {"start", "groups", "ungrouped", "audit"} =>
      results[k].severity = input[results[k].id].severity

FindingsInv ==
  /\ FindingsAreTyped
  /\ AllStand /\ TakenOnce /\ TakenSoFar /\ SeedsAhead /\ SeedsApart /\ AllLower /\ SeveritiesSoFar

-----------------------------------------------------------------------------
\* The fields of a finding.
LEMMA FindingFields ==
  ASSUME input \in Seq(Finding), NEW i \in Ids
  PROVE  /\ input[i] \in Finding /\ i \in Nat
         /\ input[i].size \in Nat /\ input[i].severity \in 0 .. 4
         /\ input[i].place \in Places \cup {NoPlace}
<1>1. input[i] \in Finding /\ i \in Nat
  BY DEF Ids
<1>2. /\ input[i].size \in Sizes /\ input[i].severity \in Severities
      /\ input[i].place \in Places \cup {NoPlace}
  BY <1>1 DEF Finding
<1>3. Sizes \subseteq Nat /\ Severities \subseteq 0 .. 4
  BY FindingsAssumption DEF Severity
<1> QED
  BY <1>1, <1>2, <1>3

\* The findings of a place, in the order of the input.
LEMMA FindingsAt ==
  ASSUME input \in Seq(Finding), NEW p
  PROVE  /\ At(p) \in Seq(Ids) /\ ToSet(At(p)) = {i \in Ids : input[i].place = p}
         /\ \A k, l \in DOMAIN At(p) : k < l => At(p)[k] < At(p)[l]
<1>1. PICK n \in Nat : n = Len(input) /\ Ids = 1 .. n
  BY DEF Ids
<1>2. PICK I : I = {i \in Ids : input[i].place = p}
  OBVIOUS
<1>3. PICK t : t = At(p)
  OBVIOUS
<1>4. I \in SUBSET (1 .. n) /\ t = Picked([i \in 1 .. n |-> i], I)
  BY <1>1, <1>2, <1>3 DEF At
<1>5. t \in Seq(1 .. n) /\ ToSet(t) = I /\ \A k, l \in DOMAIN t : k < l => t[k] < t[l]
  BY <1>4, PlacesInOrder
<1> QED
  BY <1>1, <1>2, <1>3, <1>5

\* Those without a place.
LEMMA WithoutPlace ==
  ASSUME input \in Seq(Finding)
  PROVE  /\ Ungrouped \in Seq(Ids) /\ Ids \subseteq Nat
         /\ Unplaced = {i \in Ids : input[i].place = NoPlace}
         /\ Unplaced = {Ungrouped[k] : k \in DOMAIN Ungrouped}
         /\ \A k, l \in DOMAIN Ungrouped : k < l => Ungrouped[k] < Ungrouped[l]
         /\ DOMAIN Ungrouped = 1 .. Len(Ungrouped) /\ Len(Ungrouped) \in Nat
<1>1. PICK u : u = Ungrouped
  OBVIOUS
<1>2. u \in Seq(Ids) /\ ToSet(u) = {i \in Ids : input[i].place = NoPlace}
      /\ \A k, l \in DOMAIN u : k < l => u[k] < u[l]
  BY <1>1, FindingsAt DEF Ungrouped
<1>3. ToSet(u) = {u[k] : k \in DOMAIN u}
  BY DEF ToSet
<1>4. DOMAIN u = 1 .. Len(u) /\ Len(u) \in Nat
  BY <1>2
<1>5. Ids \subseteq Nat
  BY DEF Ids
<1> QED
  BY <1>1, <1>2, <1>3, <1>4, <1>5 DEF Unplaced

\* What resembles the seed and is not taken.
LEMMA AlikeAre ==
  ASSUME input \in Seq(Finding), at \in DOMAIN Ungrouped
  PROVE  /\ Alike \in Seq(Ids)
         /\ ToSet(Alike) = {Ungrouped[k] : k \in {k \in DOMAIN Ungrouped :
              k > at /\ {Seed, Ungrouped[k]} \in similar /\ Ungrouped[k] \notin gone}}
<1>1. PICK u : u = Ungrouped
  OBVIOUS
<1>2. u \in Seq(Ids) /\ DOMAIN u = 1 .. Len(u) /\ Len(u) \in Nat /\ at \in 1 .. Len(u)
  BY <1>1, WithoutPlace
<1>3. PICK K : K = {k \in at + 1 .. Len(u) : {Seed, u[k]} \in similar /\ u[k] \notin gone}
  OBVIOUS
<1>4. PICK t : t = Picked(u, K)
  OBVIOUS
<1>5. t = Alike
  BY <1>1, <1>3, <1>4 DEF Alike
<1>6. K \cap DOMAIN u = {k \in DOMAIN u : k > at /\ {Seed, u[k]} \in similar /\ u[k] \notin gone}
  BY <1>2, <1>3
<1>7. t \in Seq(Ids) /\ ToSet(t) = {u[k] : k \in K \cap DOMAIN u}
  BY <1>2, <1>4, PickedPlaces, PickedMembers
<1> QED
  BY <1>1, <1>5, <1>6, <1>7

\* Of findings one is the richest: the last of the largest.
LEMMA BestIsRichest ==
  ASSUME input \in Seq(Finding), NEW g, ToSet(g) \subseteq Ids, ToSet(g) # {}
  PROVE  Best(g) \in ToSet(g) /\ \A j \in ToSet(g) : input[j].size <= input[Best(g)].size
<1>1. PICK G : G = ToSet(g)
  OBVIOUS
<1>2. PICK n \in Nat : Ids = 1 .. n
  BY DEF Ids
<1>3. \A i \in G : i \in 1 .. n /\ input[i].size \in Nat
  BY <1>1, <1>2, FindingFields
<1> DEFINE Rich(i) == \A j \in G : \/ input[j].size < input[i].size
                                   \/ input[j].size = input[i].size /\ j <= i
           Upto(k) == {j \in G : j <= k}
           RichUpto(i, k) == \A j \in Upto(k) : \/ input[j].size < input[i].size
                                                \/ input[j].size = input[i].size /\ j <= i
           S == {k \in Nat : Upto(k) # {} => \E i \in Upto(k) : RichUpto(i, k)}
<1>4. 0 \in S
  BY <1>3
<1>5. ASSUME NEW k \in Nat, k \in S PROVE k + 1 \in S
  <2>1. CASE k + 1 \notin G
    <3>1. Upto(k + 1) = Upto(k)
      BY <1>3, <2>1
    <3> QED
      BY <1>5, <3>1
  <2>2. CASE k + 1 \in G
    <3>1. Upto(k + 1) = Upto(k) \cup {k + 1} /\ k + 1 \in Upto(k + 1)
      BY <1>3, <2>2
    <3>2. CASE Upto(k) = {}
      <4>1. RichUpto(k + 1, k + 1)
        BY <1>3, <2>2, <3>1, <3>2
      <4> QED
        BY <3>1, <4>1
    <3>3. CASE Upto(k) # {}
      <4>1. PICK i \in Upto(k) : RichUpto(i, k)
        BY <1>5, <3>3
      <4>2. CASE input[k + 1].size < input[i].size
        <5>1. RichUpto(i, k + 1)
          BY <3>1, <4>1, <4>2
        <5> QED
          BY <3>1, <4>1, <5>1
      <4>3. CASE ~(input[k + 1].size < input[i].size)
        <5>1. input[k + 1].size >= input[i].size /\ input[i].size \in Nat /\ input[k + 1].size \in Nat
          BY <1>3, <2>2, <4>1, <4>3
        <5>2. ASSUME NEW j \in Upto(k)
              PROVE  \/ input[j].size < input[k + 1].size
                     \/ input[j].size = input[k + 1].size /\ j <= k + 1
          <6>1. input[j].size \in Nat /\ j \in Nat /\ j <= k
            BY <1>3
          <6>2. \/ input[j].size < input[i].size
                \/ input[j].size = input[i].size /\ j <= i
            BY <4>1
          <6> QED
            BY <5>1, <6>1, <6>2
        <5>3. RichUpto(k + 1, k + 1)
          BY <3>1, <5>2
        <5> QED
          BY <3>1, <5>3
      <4> QED
        BY <4>2, <4>3
    <3> QED
      BY <3>2, <3>3
  <2> QED
    BY <2>1, <2>2
<1>6. n \in S
  <2> HIDE DEF S
  <2> QED
    BY <1>4, <1>5, SetInduction
<1>7. Upto(n) = G
  BY <1>3
<1>8. PICK i \in G : Rich(i)
  BY <1>1, <1>6, <1>7
<1>9. PICK b : b = Best(g)
  OBVIOUS
<1>10. b = CHOOSE h \in G : Rich(h)
  BY <1>1, <1>9 DEF Best
<1>11. b \in G /\ Rich(b)
  BY <1>8, <1>10
<1>12. \A j \in G : input[j].size <= input[b].size
  BY <1>3, <1>11
<1> QED
  BY <1>1, <1>9, <1>11, <1>12

\* A merge of findings of one place, or without one.
LEMMA MergeStands ==
  ASSUME FindingsAreTyped, NEW g, NEW r, r = Merge(g), ToSet(g) \subseteq Ids, ToSet(g) # {},
         \/ \E p \in Places : ToSet(g) = ToSet(At(p))
         \/ ToSet(g) \subseteq Unplaced
  PROVE  /\ r \in Result /\ r.from = ToSet(g)
         /\ StandsFor(r) /\ Lowers(r) /\ r.severity = input[r.id].severity
<1>1. PICK b \in ToSet(g) : b = Best(g) /\ \A j \in ToSet(g) : input[j].size <= input[b].size
  BY BestIsRichest DEF FindingsAreTyped
<1>2. r.id = b /\ r.severity = input[b].severity /\ r.from = ToSet(g)
  BY <1>1 DEF Merge
<1>3. b \in Ids
  BY <1>1
<1>4. input[b].severity \in Severity /\ input[b].severity \in Nat
  BY <1>3, FindingFields DEF FindingsAreTyped, Severity
<1>5. r \in Result
  BY <1>1, <1>2, <1>3, <1>4 DEF Merge, Result
<1>6. Lowers(r)
  BY <1>2, <1>4 DEF Lowers
<1>7. StandsFor(r)
  <2>1. CASE ToSet(g) \subseteq Unplaced
    BY <1>1, <1>2, <2>1 DEF StandsFor
  <2>2. ASSUME NEW p \in Places, ToSet(g) = ToSet(At(p)) PROVE StandsFor(r)
    <3>1. ToSet(At(p)) = {i \in Ids : input[i].place = p}
      BY FindingsAt DEF FindingsAreTyped
    <3>2. input[b].place = p /\ p # NoPlace
      BY <1>1, <2>2, <3>1, FindingsAssumption
    <3> QED
      BY <1>1, <1>2, <2>2, <3>2 DEF StandsFor
  <2> QED
    BY <2>1, <2>2
<1> QED
  BY <1>2, <1>5, <1>6, <1>7

-----------------------------------------------------------------------------
(* The steps.                                                               *)

\* Any list of findings, before it is processed.
LEMMA FindingsStart == FindingsInit => FindingsInv
<1> SUFFICES ASSUME FindingsInit PROVE FindingsInv
  OBVIOUS
<1>1. PICK n \in Nat : input \in [1 .. n -> Finding]
  BY FindingsAssumption DEF FindingsInit, Inputs
<1>2. input \in Seq(Finding)
  BY <1>1
<1>3. results = <<>> /\ <<>> \in Seq(Result) /\ DOMAIN <<>> = {}
  BY DEF FindingsInit
<1> QED
  BY <1>2, <1>3 DEF FindingsInit, FindingsInv, FindingsAreTyped, TakenOnce, TakenSoFar, SeedsAhead,
                    SeedsApart, AllStand, AllLower, SeveritiesSoFar

\* The results are judged by the findings, which do not change.
LEMMA ResultsStand ==
  ASSUME UNCHANGED input, \A k \in DOMAIN results' : StandsFor(results'[k]) /\ Lowers(results'[k])
  PROVE  AllStand' /\ AllLower'
<1>1. AllStand'
  BY DEF AllStand, StandsFor, At, Unplaced, Ungrouped, Ids
<1>2. AllLower'
  BY DEF AllLower, Lowers, IsProtected, Matches
<1> QED
  BY <1>1, <1>2

\* One result more, of findings that are not taken yet.
LEMMA OneResult ==
  ASSUME FindingsInv, NEW r \in Result, results' = Append(results, r), UNCHANGED <<input, similar>>,
         StandsFor(r), Lowers(r), r.severity = input[r.id].severity, r.from \cap TakenIds = {}
  PROVE  /\ results' \in Seq(Result) /\ DOMAIN results' = DOMAIN results \cup {Len(results) + 1}
         /\ Len(results) + 1 \notin DOMAIN results
         /\ results'[Len(results) + 1] = r
         /\ \A k \in DOMAIN results : results'[k] = results[k]
         /\ AllStand' /\ AllLower'
         /\ \A k \in DOMAIN results' :
              stage \in {"start", "groups", "ungrouped", "audit"} =>
                results'[k].severity = input[results'[k].id].severity
         /\ TakenOnce' /\ TakenIds' = TakenIds \cup r.from
<1>1. PICK n \in Nat : n = Len(results) /\ DOMAIN results = 1 .. n /\ results \in Seq(Result)
  BY DEF FindingsInv, FindingsAreTyped
<1>2. /\ results' \in Seq(Result) /\ DOMAIN results' = 1 .. n + 1 /\ results'[n + 1] = r
      /\ \A k \in 1 .. n : results'[k] = results[k]
  BY <1>1
<1>3. 1 .. n + 1 = (1 .. n) \cup {n + 1} /\ n + 1 \notin 1 .. n
  OBVIOUS
<1>6. \A k \in 1 .. n + 1 : StandsFor(results'[k]) /\ Lowers(results'[k])
  BY <1>1, <1>2, <1>3 DEF FindingsInv, AllStand, AllLower
<1>7. AllStand' /\ AllLower'
  BY <1>2, <1>6, ResultsStand
<1>8. \A k \in 1 .. n + 1 :
        stage \in {"start", "groups", "ungrouped", "audit"} =>
          results'[k].severity = input[results'[k].id].severity
  BY <1>1, <1>2, <1>3 DEF FindingsInv, SeveritiesSoFar
<1>9. \A k \in 1 .. n : results[k].from \cap r.from = {}
  BY <1>1 DEF TakenIds
<1>10. TakenOnce'
  <2>1. ASSUME NEW k \in 1 .. n + 1, NEW l \in 1 .. n + 1, k # l
        PROVE  results'[k].from \cap results'[l].from = {}
    <3>1. CASE k \in 1 .. n /\ l \in 1 .. n
      BY <1>1, <1>2, <2>1, <3>1 DEF FindingsInv, TakenOnce
    <3>2. CASE k = n + 1
      BY <1>2, <1>3, <1>9, <2>1, <3>2
    <3>3. CASE l = n + 1
      BY <1>2, <1>3, <1>9, <2>1, <3>3
    <3> QED
      BY <1>3, <3>1, <3>2, <3>3
  <2> QED
    BY <1>2, <2>1 DEF TakenOnce
<1>11. TakenIds' = TakenIds \cup r.from
  <2>1. TakenIds' = UNION {results'[k].from : k \in 1 .. n + 1}
    BY <1>2 DEF TakenIds
  <2>2. TakenIds = UNION {results'[k].from : k \in 1 .. n}
    BY <1>1, <1>2 DEF TakenIds
  <2> QED
    BY <1>2, <1>3, <2>1, <2>2
<1> QED
  BY <1>1, <1>2, <1>3, <1>7, <1>8, <1>10, <1>11

\* One finding at most: it is its own result.
LEMMA FewStep == ASSUME FindingsInv, Few PROVE FindingsInv'
<1>1. PICK n \in Nat : n = Len(input) /\ Ids = 1 .. n /\ n <= 1 /\ input \in Seq(Finding)
  BY DEF FindingsInv, FindingsAreTyped, Few, Ids
<1>2. /\ UNCHANGED <<input, similar, groups, at, gone>> /\ stage' = "audit"
      /\ results' = [i \in 1 .. n |-> Merge(<<i>>)] /\ stage = "start" /\ gone = {} /\ at = 1
  BY <1>1 DEF FindingsInv, TakenSoFar, Few
<1>3. Ids' = Ids /\ Unplaced' = Unplaced /\ \A p : At(p)' = At(p)
  BY <1>2 DEF Ids, Unplaced, Ungrouped, At
<1>4. ASSUME NEW i \in 1 .. n, NEW r, r = Merge(<<i>>)
      PROVE  /\ r \in Result /\ r.from = {i}
             /\ StandsFor(r) /\ Lowers(r) /\ r.severity = input[r.id].severity
  <2>1. ToSet(<<i>>) = {i} /\ i \in Ids
    BY <1>1 DEF ToSet
  <2>2. input[i].place \in Places \cup {NoPlace}
    BY <1>1, FindingFields
  <2>3. \A j \in Ids : j = i
    BY <1>1
  <2>4. CASE input[i].place = NoPlace
    BY <1>1, <2>1, <2>4, WithoutPlace, MergeStands, <1>4 DEF FindingsInv
  <2>5. CASE input[i].place \in Places
    <3>1. ToSet(At(input[i].place)) = {i}
      BY <1>1, <2>1, <2>3, FindingsAt
    <3> QED
      BY <2>1, <2>5, <3>1, MergeStands, <1>4 DEF FindingsInv
  <2> QED
    BY <2>2, <2>4, <2>5
<1>5. /\ DOMAIN results' = 1 .. n /\ results' \in Seq(Result)
      /\ \A k \in 1 .. n : results'[k].from = {k} /\ StandsFor(results'[k]) /\ Lowers(results'[k])
                         /\ results'[k].severity = input[results'[k].id].severity
  BY <1>2, <1>4
<1>6. FindingsAreTyped'
  BY <1>2, <1>3, <1>5 DEF FindingsInv, FindingsAreTyped, Result
<1>7. AllStand' /\ AllLower'
  BY <1>2, <1>5, ResultsStand
<1>8. TakenOnce' /\ SeedsApart'
  <2>1. \A k, l \in 1 .. n : k = l
    BY <1>1
  <2> QED
    BY <1>5, <2>1 DEF TakenOnce, SeedsApart
<1>9. TakenIds' = Ids
  BY <1>1, <1>5 DEF TakenIds
<1>10. TakenSoFar' /\ SeedsAhead' /\ SeveritiesSoFar'
  BY <1>2, <1>3, <1>5, <1>7, <1>9 DEF TakenSoFar, SeedsAhead, SeveritiesSoFar
<1> QED
  BY <1>5, <1>6, <1>7, <1>8, <1>10 DEF FindingsInv

\* What does not touch the results, nor takes back what is gone.
LEMMA ResultsStay ==
  ASSUME FindingsInv, UNCHANGED <<input, similar, results>>, at <= at', gone' = gone,
         FindingsAreTyped', TakenSoFar',
         stage' \in {"start", "groups", "ungrouped", "audit"} => stage \in {"start", "groups", "ungrouped", "audit"},
         stage' \in {"groups", "ungrouped"} => stage \in {"groups", "ungrouped"} \/ results = <<>>
  PROVE  FindingsInv'
<1>1. AllStand' /\ AllLower'
  BY ResultsStand DEF FindingsInv, AllStand, AllLower
<1>2. TakenOnce' /\ SeveritiesSoFar'
  BY DEF FindingsInv, TakenOnce, SeveritiesSoFar
<1>3. Ungrouped' = Ungrouped /\ Unplaced' = Unplaced
  BY DEF Unplaced, Ungrouped, At, Ids
<1>4. SeedsApart'
  BY <1>3 DEF FindingsInv, SeedsApart
<1>5. SeedsAhead'
  <2>1. CASE results = <<>>
    BY <2>1 DEF SeedsAhead
  <2>2. ASSUME results # <<>>, stage' \in {"groups", "ungrouped"},
               NEW k \in DOMAIN results, results[k].from \subseteq Unplaced
        PROVE  \E j \in DOMAIN Ungrouped : SeedOf(results[k].from, j)'
    <3>1. PICK j \in DOMAIN Ungrouped : SeedOf(results[k].from, j)
      BY <2>2 DEF FindingsInv, SeedsAhead
    <3>2. j < at'
      <4>1. j \in Nat /\ at \in Nat /\ at' \in Nat
        BY WithoutPlace DEF FindingsInv, FindingsAreTyped
      <4> QED
        BY <3>1, <4>1 DEF SeedOf
    <3>3. SeedOf(results[k].from, j)'
      BY <1>3, <3>1, <3>2 DEF SeedOf
    <3> QED
      BY <3>3
  <2>3. DOMAIN Ungrouped' = DOMAIN Ungrouped
    BY <1>3
  <2> QED
    BY <1>3, <2>1, <2>2, <2>3 DEF SeedsAhead
<1> QED
  BY <1>1, <1>2, <1>4, <1>5 DEF FindingsInv

\* The findings are grouped by their places.
LEMMA GroupStep == ASSUME FindingsInv, Group PROVE FindingsInv'
<1>1. /\ UNCHANGED <<input, similar, at, gone, results>> /\ stage = "start" /\ stage' = "groups"
      /\ groups' = {p \in Places : At(p) # <<>>}
      /\ results = <<>> /\ gone = {} /\ at = 1 /\ input \in Seq(Finding)
  BY DEF Group, FindingsInv, FindingsAreTyped, TakenSoFar
<1>2. Ids' = Ids /\ Ungrouped' = Ungrouped /\ Unplaced' = Unplaced
  BY <1>1 DEF Unplaced, Ungrouped, At, Ids
<1>3. FindingsAreTyped'
  BY <1>1, <1>2 DEF FindingsInv, FindingsAreTyped, Result
<1>4. TakenIds' = {}
  BY <1>1 DEF TakenIds
<1>5. ASSUME NEW i \in Ids, input[i].place # NoPlace PROVE input[i].place \in groups'
  <2>1. input[i].place \in Places
    BY <1>1, <1>5, FindingFields
  <2>2. i \in ToSet(At(input[i].place))
    BY <1>1, FindingsAt
  <2>3. At(input[i].place) # <<>>
    BY <2>2 DEF ToSet
  <2> QED
    BY <1>1, <2>1, <2>3
<1>6. \A p \in groups' : At(p)' # <<>>
  BY <1>1 DEF At, Ids
<1>7. TakenSoFar'
  BY <1>1, <1>2, <1>4, <1>5, <1>6 DEF TakenSoFar
<1> QED
  BY <1>1, <1>3, <1>7, ResultsStay DEF FindingsInv, FindingsAreTyped

\* The groups are complete.
LEMMA GroupsMergedStep == ASSUME FindingsInv, GroupsMerged PROVE FindingsInv'
<1>1. /\ UNCHANGED <<input, similar, groups, at, gone, results>> /\ stage = "groups"
      /\ stage' = "ungrouped" /\ groups = {} /\ gone = {} /\ at = 1
      /\ TakenIds = {i \in Ids : input[i].place # NoPlace /\ input[i].place \notin groups}
  BY DEF GroupsMerged, FindingsInv, TakenSoFar
<1>2. Ids' = Ids /\ Ungrouped' = Ungrouped /\ Unplaced' = Unplaced /\ TakenIds' = TakenIds
  BY <1>1 DEF Unplaced, Ungrouped, At, Ids, TakenIds
<1>3. FindingsAreTyped'
  BY <1>1, <1>2 DEF FindingsInv, FindingsAreTyped, Result
<1>4. {k \in DOMAIN Ungrouped : k < at} = {}
  BY <1>1, WithoutPlace DEF FindingsInv, FindingsAreTyped
<1>5. TakenSoFar'
  BY <1>1, <1>2, <1>4 DEF TakenSoFar
<1> QED
  BY <1>1, <1>3, <1>5, ResultsStay DEF FindingsInv, FindingsAreTyped

\* A group is merged into one result.
LEMMA MergeGroupStep == ASSUME FindingsInv, NEW p \in Places, MergeGroup(p) PROVE FindingsInv'
<1>1. PICK r : r = Merge(At(p))
  OBVIOUS
<1>2. /\ UNCHANGED <<input, similar, stage, at, gone>> /\ stage = "groups" /\ p \in groups
      /\ results' = Append(results, r) /\ groups' = groups \ {p}
  BY <1>1 DEF MergeGroup
<1>3. /\ gone = {} /\ at = 1 /\ \A q \in groups : At(q) # <<>>
      /\ TakenIds = {i \in Ids : input[i].place # NoPlace /\ input[i].place \notin groups}
      /\ input \in Seq(Finding)
  BY <1>2 DEF FindingsInv, TakenSoFar, FindingsAreTyped
<1>4. ToSet(At(p)) = {i \in Ids : input[i].place = p} /\ At(p) \in Seq(Ids)
  BY <1>3, FindingsAt
<1>5. ToSet(At(p)) # {}
  <2>1. 1 \in DOMAIN At(p)
    BY <1>2, <1>3, <1>4
  <2> QED
    BY <2>1 DEF ToSet
<1>6. /\ r \in Result /\ r.from = ToSet(At(p)) /\ StandsFor(r) /\ Lowers(r)
      /\ r.severity = input[r.id].severity
  BY <1>1, <1>4, <1>5, MergeStands DEF FindingsInv
<1>7. r.from \cap TakenIds = {}
  BY <1>2, <1>3, <1>4, <1>6
<1>8. PICK n \in Nat : n = Len(results) /\ DOMAIN results = 1 .. n
  BY DEF FindingsInv, FindingsAreTyped
<1>9. /\ results' \in Seq(Result) /\ DOMAIN results' = DOMAIN results \cup {n + 1}
      /\ n + 1 \notin DOMAIN results /\ results'[n + 1] = r
      /\ \A k \in DOMAIN results : results'[k] = results[k]
      /\ AllStand' /\ AllLower'
      /\ \A k \in DOMAIN results' : results'[k].severity = input[results'[k].id].severity
      /\ TakenOnce' /\ TakenIds' = TakenIds \cup r.from
  BY <1>2, <1>6, <1>7, <1>8, OneResult
<1>10. Ids' = Ids /\ Ungrouped' = Ungrouped /\ Unplaced' = Unplaced
  BY <1>2 DEF Unplaced, Ungrouped, At, Ids
<1>11. FindingsAreTyped'
  BY <1>2, <1>9, <1>10 DEF FindingsInv, FindingsAreTyped, Result
<1>12. TakenIds' = {i \in Ids : input[i].place # NoPlace /\ input[i].place \notin groups'}
  <2>1. p # NoPlace
    BY FindingsAssumption
  <2> QED
    BY <1>2, <1>3, <1>4, <1>6, <1>9, <2>1
<1>13. \A q \in groups' : At(q)' # <<>>
  <2>1. \A q \in groups' : At(q) # <<>>
    BY <1>2, <1>3
  <2> QED
    BY <1>2, <2>1 DEF At, Ids
<1>14. TakenSoFar'
  BY <1>2, <1>3, <1>10, <1>12, <1>13 DEF TakenSoFar
<1>15. ~(r.from \subseteq Unplaced)
  <2>1. Unplaced = {i \in Ids : input[i].place = NoPlace} /\ p # NoPlace
    BY <1>3, WithoutPlace, FindingsAssumption
  <2> QED
    BY <1>4, <1>5, <1>6, <2>1
<1>16. SeedsAhead'
  <2>1. ASSUME NEW k \in DOMAIN results', results'[k].from \subseteq Unplaced
        PROVE  \E j \in DOMAIN Ungrouped : SeedOf(results[k].from, j)'
    <3>1. k \in DOMAIN results /\ results'[k] = results[k]
      BY <1>9, <1>15, <2>1
    <3>2. PICK j \in DOMAIN Ungrouped : SeedOf(results[k].from, j)
      BY <1>2, <2>1, <3>1 DEF FindingsInv, SeedsAhead
    <3>3. SeedOf(results[k].from, j)'
      BY <1>2, <1>10, <3>1, <3>2 DEF SeedOf
    <3> QED
      BY <3>3
  <2> QED
    BY <1>10, <2>1 DEF SeedsAhead
<1>17. SeedsApart'
  BY <1>2, <1>9, <1>10, <1>15 DEF FindingsInv, SeedsApart
<1>18. SeveritiesSoFar'
  BY <1>2, <1>9 DEF SeveritiesSoFar
<1> QED
  BY <1>9, <1>11, <1>14, <1>16, <1>17, <1>18 DEF FindingsInv

\* A finding that is gone already is passed over.
LEMMA SkipMergedStep == ASSUME FindingsInv, SkipMerged PROVE FindingsInv'
<1>1. /\ UNCHANGED <<input, similar, stage, groups, gone, results>> /\ stage = "ungrouped"
      /\ at' = at + 1 /\ at <= Len(Ungrouped) /\ Seed \in gone
      /\ at \in Nat \ {0} /\ input \in Seq(Finding)
      /\ TakenIds = {i \in Ids : input[i].place # NoPlace}
                   \cup {Ungrouped[k] : k \in {k \in DOMAIN Ungrouped : k < at}} \cup gone
  BY DEF SkipMerged, FindingsInv, TakenSoFar, FindingsAreTyped
<1>2. Ids' = Ids /\ Ungrouped' = Ungrouped /\ Unplaced' = Unplaced /\ TakenIds' = TakenIds
  BY <1>1 DEF Unplaced, Ungrouped, At, Ids, TakenIds
<1>3. FindingsAreTyped'
  BY <1>1, <1>2 DEF FindingsInv, FindingsAreTyped, Result
<1>4. {k \in DOMAIN Ungrouped : k < at + 1} = {k \in DOMAIN Ungrouped : k < at} \cup {at}
  BY <1>1, WithoutPlace
<1>5. {Ungrouped[k] : k \in {k \in DOMAIN Ungrouped : k < at + 1}}
        = {Ungrouped[k] : k \in {k \in DOMAIN Ungrouped : k < at}} \cup {Seed}
  BY <1>4 DEF Seed
<1>6. TakenIds = {i \in Ids : input[i].place # NoPlace}
                \cup {Ungrouped[k] : k \in {k \in DOMAIN Ungrouped : k < at'}} \cup gone
  BY <1>1, <1>5
<1>7. TakenSoFar'
  BY <1>1, <1>2, <1>6 DEF TakenSoFar
<1> QED
  BY <1>1, <1>3, <1>7, ResultsStay DEF FindingsInv, FindingsAreTyped

\* All findings without a place have been compared.
LEMMA DeduplicatedStep == ASSUME FindingsInv, Deduplicated PROVE FindingsInv'
<1>1. /\ UNCHANGED <<input, similar, groups, at, gone, results>> /\ stage = "ungrouped"
      /\ stage' = "audit" /\ at > Len(Ungrouped)
      /\ at \in Nat \ {0} /\ input \in Seq(Finding) /\ gone \subseteq Unplaced
      /\ TakenIds = {i \in Ids : input[i].place # NoPlace}
                   \cup {Ungrouped[k] : k \in {k \in DOMAIN Ungrouped : k < at}} \cup gone
  BY DEF Deduplicated, FindingsInv, TakenSoFar, FindingsAreTyped
<1>2. Ids' = Ids /\ Ungrouped' = Ungrouped /\ Unplaced' = Unplaced /\ TakenIds' = TakenIds
  BY <1>1 DEF Unplaced, Ungrouped, At, Ids, TakenIds
<1>3. FindingsAreTyped'
  BY <1>1, <1>2 DEF FindingsInv, FindingsAreTyped, Result
<1>4. {k \in DOMAIN Ungrouped : k < at} = DOMAIN Ungrouped
  BY <1>1, WithoutPlace
<1>5. Unplaced = {i \in Ids : input[i].place = NoPlace}
      /\ Unplaced = {Ungrouped[k] : k \in DOMAIN Ungrouped}
  BY <1>1, WithoutPlace
<1>6. TakenIds = Ids
  BY <1>1, <1>4, <1>5
<1>7. TakenSoFar'
  BY <1>1, <1>2, <1>6 DEF TakenSoFar
<1> QED
  BY <1>1, <1>3, <1>7, ResultsStay DEF FindingsInv, FindingsAreTyped

\* Min is the least member of a set of numbers.
LEMMA TheLeast ==
  ASSUME NEW S \in SUBSET Nat, NEW x \in S, \A i \in S : x <= i
  PROVE  Min(S) = x
<1>1. \A y \in S : (\A i \in S : y <= i) => y = x
  OBVIOUS
<1> QED
  BY <1>1 DEF Min

\* The seed takes what resembles it.
LEMMA MergeAlikeStep == ASSUME FindingsInv, MergeAlike PROVE FindingsInv'
<1>1. PICK r : r = Merge(<<Seed>> \o Alike)
  OBVIOUS
<1>2. /\ UNCHANGED <<input, similar, stage, groups>> /\ stage = "ungrouped"
      /\ at <= Len(Ungrouped) /\ Seed \notin gone /\ at' = at + 1
      /\ results' = Append(results, r)
      /\ gone' = gone \cup ToSet(Alike) \cup (IF Alike = <<>> THEN {} ELSE {Seed})
  BY <1>1 DEF MergeAlike
<1>3. /\ at \in Nat \ {0} /\ input \in Seq(Finding) /\ gone \subseteq Unplaced
      /\ TakenIds = {i \in Ids : input[i].place # NoPlace}
                   \cup {Ungrouped[k] : k \in {k \in DOMAIN Ungrouped : k < at}} \cup gone
  BY <1>2 DEF FindingsInv, TakenSoFar, FindingsAreTyped
<1>4. PICK u : u = Ungrouped
  OBVIOUS
<1>5. PICK m \in Nat : m = Len(u) /\ DOMAIN u = 1 .. m /\ at \in 1 .. m
  <2>1. DOMAIN u = 1 .. Len(u) /\ Len(u) \in Nat
    BY <1>3, <1>4, WithoutPlace
  <2>2. at <= Len(u)
    BY <1>2, <1>4
  <2>3. at \in 1 .. Len(u)
    BY <1>3, <2>1, <2>2
  <2> QED
    BY <2>1, <2>3
<1>6. /\ u \in Seq(Ids) /\ Ids \subseteq Nat
      /\ Unplaced = {i \in Ids : input[i].place = NoPlace}
      /\ Unplaced = {u[k] : k \in 1 .. m}
      /\ \A k, l \in 1 .. m : k < l => u[k] < u[l]
  BY <1>3, <1>4, <1>5, WithoutPlace
<1>7. \A k \in 1 .. m : u[k] \in Nat
  BY <1>5, <1>6
<1>8. \A k, l \in 1 .. m : u[k] = u[l] => k = l
  BY <1>6, <1>7
<1>9. PICK seed : seed = Seed /\ seed = u[at]
  BY <1>4 DEF Seed
<1>10. PICK K : K = {k \in 1 .. m : k > at /\ {seed, u[k]} \in similar /\ u[k] \notin gone}
  OBVIOUS
<1>11. PICK A : A = {u[k] : k \in K}
  OBVIOUS
<1>12. Alike \in Seq(Ids) /\ ToSet(Alike) = A
  BY <1>3, <1>4, <1>5, <1>9, <1>10, <1>11, AlikeAre
<1>13. Alike = <<>> => A = {}
  BY <1>12 DEF ToSet
<1>14. seed \in Unplaced /\ A \subseteq Unplaced /\ A \cap gone = {} /\ seed \notin gone
  BY <1>2, <1>5, <1>6, <1>9, <1>10, <1>11
<1>15. PICK g : g = <<seed>> \o Alike
  OBVIOUS
<1>16. ToSet(g) = {seed} \cup A
  <2>1. PICK n \in Nat : n = Len(Alike) /\ DOMAIN Alike = 1 .. n
    BY <1>12
  <2>2. <<seed>> \in Seq(Ids) /\ Len(<<seed>>) = 1 /\ <<seed>>[1] = seed
    BY <1>6, <1>14
  <2>3. g \in Seq(Ids) /\ Len(g) = 1 + n
        /\ \A k \in 1 .. Len(g) : g[k] = IF k <= 1 THEN <<seed>>[k] ELSE Alike[k - 1]
    BY <1>12, <1>15, <2>1, <2>2, ConcatProperties
  <2>4. DOMAIN g = 1 .. n + 1
    BY <2>3
  <2>5. g[1] = seed
    BY <2>2, <2>3
  <2>6. \A k \in 1 .. n : g[k + 1] = Alike[k]
    <3> TAKE k \in 1 .. n
    <3>1. k + 1 \in 1 .. Len(g) /\ ~(k + 1 <= 1) /\ (k + 1) - 1 = k
      BY <2>3
    <3> QED
      BY <2>3, <3>1
  <2>7. ToSet(g) = {g[k] : k \in 1 .. n + 1} /\ A = {Alike[k] : k \in 1 .. n}
    BY <1>12, <2>1, <2>4 DEF ToSet
  <2>8. \A k \in 1 .. n + 1 : k = 1 \/ (k - 1 \in 1 .. n /\ k = (k - 1) + 1)
    OBVIOUS
  <2>9. ASSUME NEW x \in ToSet(g) PROVE x \in {seed} \cup A
    <3>1. PICK k \in 1 .. n + 1 : x = g[k]
      BY <2>7
    <3>2. CASE k = 1
      BY <2>5, <3>1, <3>2
    <3>3. CASE k # 1
      <4>1. k - 1 \in 1 .. n /\ g[k] = Alike[k - 1]
        BY <2>6, <2>8, <3>3
      <4> QED
        BY <2>7, <3>1, <4>1
    <3> QED
      BY <3>2, <3>3
  <2>10. seed \in ToSet(g)
    BY <2>5, <2>7
  <2>11. ASSUME NEW k \in 1 .. n PROVE Alike[k] \in ToSet(g)
    <3>1. k + 1 \in 1 .. n + 1
      OBVIOUS
    <3> QED
      BY <2>6, <2>7, <3>1
  <2> QED
    BY <2>7, <2>9, <2>10, <2>11
<1>17. /\ r \in Result /\ r.from = {seed} \cup A /\ StandsFor(r) /\ Lowers(r)
       /\ r.severity = input[r.id].severity
  <2>1. ToSet(g) \subseteq Unplaced /\ ToSet(g) \subseteq Ids /\ ToSet(g) # {}
    BY <1>6, <1>14, <1>16
  <2>2. r = Merge(g)
    BY <1>1, <1>9, <1>15
  <2>3. FindingsAreTyped
    BY DEF FindingsInv
  <2>4. /\ r \in Result /\ r.from = ToSet(g) /\ StandsFor(r) /\ Lowers(r)
        /\ r.severity = input[r.id].severity
    BY <2>1, <2>2, <2>3, MergeStands
  <2> QED
    BY <1>16, <2>4
<1>18. PICK B : B = {u[k] : k \in {k \in 1 .. m : k < at}}
  OBVIOUS
<1>19. PICK P : P = {i \in Ids : input[i].place # NoPlace}
  OBVIOUS
<1>20. TakenIds = P \cup B \cup gone
  BY <1>3, <1>4, <1>5, <1>18, <1>19
<1>21. r.from \cap TakenIds = {}
  <2>1. P \cap Unplaced = {}
    BY <1>6, <1>19
  <2>2. ASSUME NEW k \in 1 .. m, at <= k PROVE u[k] \notin B
    BY <1>5, <1>8, <1>18, <2>2
  <2>3. seed \notin B /\ A \cap B = {}
    <3>1. seed \notin B
      BY <1>5, <1>9, <2>2
    <3>2. \A k \in K : k \in 1 .. m /\ at <= k
      BY <1>5, <1>10
    <3>3. \A k \in K : u[k] \notin B
      BY <2>2, <3>2
    <3> QED
      BY <1>11, <3>1, <3>3
  <2> QED
    BY <1>14, <1>17, <1>20, <2>1, <2>3
<1>22. PICK n \in Nat : n = Len(results) /\ DOMAIN results = 1 .. n
  BY DEF FindingsInv, FindingsAreTyped
<1>23. /\ results' \in Seq(Result) /\ DOMAIN results' = DOMAIN results \cup {n + 1}
       /\ n + 1 \notin DOMAIN results /\ results'[n + 1] = r
       /\ \A k \in DOMAIN results : results'[k] = results[k]
       /\ AllStand' /\ AllLower'
       /\ \A k \in DOMAIN results' : results'[k].severity = input[results'[k].id].severity
       /\ TakenOnce' /\ TakenIds' = TakenIds \cup r.from
  BY <1>2, <1>17, <1>21, <1>22, OneResult
<1>24. Ids' = Ids /\ Ungrouped' = Ungrouped /\ Unplaced' = Unplaced
  BY <1>2 DEF Unplaced, Ungrouped, At, Ids
<1>25. gone \subseteq gone' /\ A \subseteq gone' /\ gone' \subseteq gone \cup A \cup {seed}
  BY <1>2, <1>9, <1>12, <1>13
<1>26. FindingsAreTyped'
  <2>1. gone' \subseteq Unplaced
    BY <1>3, <1>14, <1>25
  <2> QED
    BY <1>2, <1>3, <1>23, <1>24, <2>1 DEF FindingsInv, FindingsAreTyped, Result
<1>27. TakenSoFar'
  <2>1. {k \in 1 .. m : k < at'} = {k \in 1 .. m : k < at} \cup {at}
    BY <1>2, <1>3, <1>5
  <2>2. {u[k] : k \in {k \in 1 .. m : k < at'}} = B \cup {seed}
    BY <1>9, <1>18, <2>1
  <2>3. TakenIds' = P \cup (B \cup {seed}) \cup gone'
    BY <1>17, <1>20, <1>23, <1>25
  <2>4. TakenIds' = {i \in Ids : input[i].place # NoPlace}
                  \cup {Ungrouped[k] : k \in {k \in DOMAIN Ungrouped : k < at'}} \cup gone'
    BY <1>4, <1>5, <1>19, <2>2, <2>3
  <2> QED
    BY <1>2, <1>24, <2>4 DEF TakenSoFar
<1>28. /\ at \in DOMAIN Ungrouped /\ at < at' /\ Ungrouped[at] = seed
       /\ \A i \in r.from : seed <= i
       /\ \A k \in DOMAIN Ungrouped :
            k > at /\ {seed, Ungrouped[k]} \in similar => Ungrouped[k] \in gone'
  <2>1. ASSUME NEW k \in K PROVE seed <= u[k]
    <3>1. k \in 1 .. m /\ at < k
      BY <1>5, <1>10
    <3>2. u[at] < u[k] /\ u[at] \in Nat /\ u[k] \in Nat
      BY <1>5, <1>6, <1>7, <3>1
    <3> QED
      BY <1>9, <3>2
  <2>2. \A i \in r.from : seed <= i
    BY <1>5, <1>7, <1>9, <1>11, <1>17, <2>1
  <2>3. ASSUME NEW k \in 1 .. m, k > at, {seed, u[k]} \in similar PROVE u[k] \in gone'
    BY <1>10, <1>11, <1>25, <2>3
  <2> QED
    BY <1>2, <1>3, <1>4, <1>5, <1>9, <2>2, <2>3
<1>29. SeedsAhead'
  <2>1. ASSUME NEW k \in DOMAIN results', results'[k].from \subseteq Unplaced
        PROVE  \E j \in DOMAIN Ungrouped : SeedOf(results[k].from, j)'
    <3>1. CASE k = n + 1
      <4>1. results'[k].from = r.from /\ seed \in r.from
        BY <1>17, <1>23, <3>1
      <4>2. PICK j \in DOMAIN Ungrouped : j = at
        BY <1>28
      <4>3. SeedOf(results[k].from, j)'
        BY <1>2, <1>24, <1>28, <4>1, <4>2 DEF SeedOf
      <4> QED
        BY <4>3
    <3>2. CASE k # n + 1
      <4>1. k \in DOMAIN results /\ results'[k] = results[k]
        BY <1>23, <3>2
      <4>2. PICK j \in DOMAIN Ungrouped : SeedOf(results[k].from, j)
        BY <1>2, <2>1, <4>1 DEF FindingsInv, SeedsAhead
      <4>3. j < at'
        BY <1>2, <1>3, <1>4, <1>5, <4>2 DEF SeedOf
      <4>4. SeedOf(results[k].from, j)'
        BY <1>2, <1>24, <1>25, <4>1, <4>2, <4>3 DEF SeedOf
      <4> QED
        BY <4>4
    <3> QED
      BY <3>1, <3>2
  <2> QED
    BY <1>24, <2>1 DEF SeedsAhead
<1>30. Min(r.from) = seed
  <2>1. r.from \in SUBSET Nat /\ seed \in r.from
    BY <1>6, <1>14, <1>17
  <2> QED
    BY <1>28, <2>1, TheLeast
<1>31. ASSUME NEW k \in DOMAIN results, results[k].from \subseteq Unplaced
       PROVE  {Min(results[k].from), seed} \notin similar
  <2>1. PICK j \in DOMAIN Ungrouped : SeedOf(results[k].from, j)
    BY <1>2, <1>31 DEF FindingsInv, SeedsAhead
  <2>2. results[k].from \in SUBSET Nat
    BY <1>6, <1>31
  <2>3. Min(results[k].from) = u[j]
    BY <1>4, <2>1, <2>2, TheLeast DEF SeedOf
  <2>4. j < at /\ j \in 1 .. m
    BY <1>4, <1>5, <2>1 DEF SeedOf
  <2>5. at > j /\ at \in DOMAIN Ungrouped
    BY <1>4, <1>5, <2>4
  <2> QED
    BY <1>4, <1>9, <1>14, <2>1, <2>3, <2>5 DEF SeedOf
<1>32. SeedsApart'
  <2>1. ASSUME NEW k \in DOMAIN results', NEW l \in DOMAIN results', k # l,
               results'[k].from \cup results'[l].from \subseteq Unplaced
        PROVE  {Min(results'[k].from), Min(results'[l].from)} \notin similar
    <3>1. CASE k \in DOMAIN results /\ l \in DOMAIN results
      BY <1>23, <2>1, <3>1 DEF FindingsInv, SeedsApart
    <3>2. CASE k = n + 1
      <4>1. l \in DOMAIN results /\ results'[l] = results[l] /\ results'[k] = r
        BY <1>23, <2>1, <3>2
      <4>2. {Min(results[l].from), seed} \notin similar
        BY <1>31, <2>1, <4>1
      <4>3. {seed, Min(results[l].from)} = {Min(results[l].from), seed}
        OBVIOUS
      <4> QED
        BY <1>30, <4>1, <4>2, <4>3
    <3>3. CASE l = n + 1
      <4>1. k \in DOMAIN results /\ results'[k] = results[k] /\ results'[l] = r
        BY <1>23, <2>1, <3>3
      <4> QED
        BY <1>30, <1>31, <2>1, <4>1
    <3> QED
      BY <1>23, <3>1, <3>2, <3>3
  <2> QED
    BY <1>2, <1>24, <2>1 DEF SeedsApart
<1>33. SeveritiesSoFar'
  BY <1>2, <1>23 DEF SeveritiesSoFar
<1> QED
  BY <1>23, <1>26, <1>27, <1>29, <1>32, <1>33 DEF FindingsInv

-----------------------------------------------------------------------------
\* The category that is matched, and by how much it lowers a severity.
LEMMA QuantumOfMatch ==
  ASSUME NEW f, IsInflated(f)
  PROVE  /\ Quantum[MatchedCategory(f)] \in 1 .. 3
         /\ (/\ "hypothetical_theoretical" \in f.matches
             /\ "architecture_nits" \notin f.matches) => Quantum[MatchedCategory(f)] = 1
<1>1. PICK s : s = Inflated
  OBVIOUS
<1>2. PICK Name : Name = {"architecture_nits", "hypothetical_theoretical", "style_nits"}
  OBVIOUS
<1>3. /\ s \in Seq(Name) /\ DOMAIN s = 1 .. 3 /\ s[1] = "architecture_nits"
      /\ s[2] = "hypothetical_theoretical" /\ s[3] = "style_nits"
  BY <1>1, <1>2 DEF Inflated
<1>4. PICK J : J = {k \in DOMAIN s : s[k] \in f.matches}
  OBVIOUS
<1>5. PICK t : t = Picked(s, J)
  OBVIOUS
<1>6. t = Matches(f, Inflated) /\ J \cap DOMAIN s = J
  BY <1>1, <1>4, <1>5 DEF Matches
<1>7. t \in Seq(Name) /\ Enumerates(t, s, J)
  BY <1>3, <1>5, <1>6, PickedPlaces
<1>8. PICK n \in Nat \ {0} : n = Len(t)
  <2>1. t # <<>>
    BY <1>6 DEF IsInflated
  <2> QED
    BY <1>7, <2>1
<1>9. PICK g \in [1 .. n -> J] :
        /\ \A k, l \in 1 .. n : k < l => g[k] < g[l]
        /\ \A j \in J : \E k \in 1 .. n : g[k] = j
        /\ \A k \in 1 .. n : t[k] = s[g[k]]
  BY <1>7, <1>8 DEF Enumerates
<1>10. 1 \in 1 .. n /\ g[1] \in J /\ g[1] \in 1 .. 3 /\ Head(t) = s[g[1]]
  <2>1. 1 \in 1 .. n /\ Head(t) = t[1]
    BY <1>7, <1>8
  <2> QED
    BY <1>3, <1>4, <1>9, <2>1
<1>11. MatchedCategory(f) = s[g[1]]
  BY <1>6, <1>10 DEF MatchedCategory
<1>12. Quantum[s[1]] = 2 /\ Quantum[s[2]] = 1 /\ Quantum[s[3]] = 3
  BY <1>3 DEF Quantum
<1>13. Quantum[MatchedCategory(f)] \in 1 .. 3
  <2>1. g[1] = 1 \/ g[1] = 2 \/ g[1] = 3
    BY <1>10
  <2> QED
    BY <1>11, <1>12, <2>1
<1>14. ASSUME "hypothetical_theoretical" \in f.matches, "architecture_nits" \notin f.matches
       PROVE  Quantum[MatchedCategory(f)] = 1
  <2>1. 2 \in J /\ 1 \notin J
    BY <1>3, <1>4, <1>14
  <2>2. PICK k \in 1 .. n : g[k] = 2
    BY <1>9, <2>1
  <2>3. CASE k = 1
    BY <1>11, <1>12, <2>2, <2>3
  <2>4. CASE k # 1
    <3>1. g[1] < 2
      BY <1>9, <1>10, <2>2, <2>4
    <3> QED
      BY <1>10, <2>1, <3>1
  <2> QED
    BY <2>3, <2>4
<1> QED
  BY <1>13, <1>14

\* The audit keeps what a finding stands for, and only lowers it.
LEMMA AuditLowers ==
  ASSUME input \in Seq(Finding), NEW r \in Result, r.severity = input[r.id].severity,
         NEW a, a = Audited(r)
  PROVE  a \in Result /\ a.id = r.id /\ a.from = r.from /\ Lowers(a)
<1>1. PICK f : f = input[r.id]
  OBVIOUS
<1>2. r.id \in Ids /\ r.severity \in 0 .. 4 /\ f.severity = r.severity
  BY <1>1 DEF Result, Severity
<1>3. CASE a = r
  BY <1>1, <1>2, <1>3 DEF Lowers
<1>4. CASE ~IsProtected(f) /\ IsInflated(f)
           /\ a = [r EXCEPT !.severity = Lowered(@, Quantum[MatchedCategory(f)])]
  <2>1. PICK q : q = Quantum[MatchedCategory(f)]
    OBVIOUS
  <2>2. q \in 1 .. 3 /\ ((/\ "hypothetical_theoretical" \in f.matches
                          /\ "architecture_nits" \notin f.matches) => q = 1)
    BY <1>4, <2>1, QuantumOfMatch
  <2>3. PICK v : v = Lowered(r.severity, q)
    OBVIOUS
  <2>4. v \in 0 .. 4 /\ v >= r.severity /\ v <= r.severity + q
    BY <1>2, <2>2, <2>3 DEF Lowered
  <2>5. a = [r EXCEPT !.severity = v]
    BY <1>4, <2>1, <2>3
  <2>6. a \in Result /\ a.id = r.id /\ a.from = r.from /\ a.severity = v
    BY <2>4, <2>5 DEF Result, Severity
  <2>7. v \in Nat /\ r.severity \in Nat /\ q \in Nat
    BY <1>2, <2>2, <2>4
  <2>8. Lowers(a)
    BY <1>1, <1>2, <1>4, <2>2, <2>4, <2>6, <2>7 DEF Lowers
  <2> QED
    BY <2>6, <2>8
<1> QED
  BY <1>1, <1>3, <1>4 DEF Audited

\* Inflated severities are lowered.
LEMMA AuditStep == ASSUME FindingsInv, Audit PROVE FindingsInv'
<1>1. /\ UNCHANGED <<input, similar, groups, at, gone>> /\ stage = "audit" /\ stage' = "cap"
      /\ results' = [k \in DOMAIN results |-> Audited(results[k])]
      /\ input \in Seq(Finding) /\ TakenIds = Ids
  BY DEF Audit, FindingsInv, FindingsAreTyped, TakenSoFar
<1>2. PICK n \in Nat : DOMAIN results = 1 .. n /\ results \in Seq(Result)
  BY DEF FindingsInv, FindingsAreTyped
<1>3. ASSUME NEW k \in 1 .. n
      PROVE  /\ results'[k] \in Result /\ results'[k].id = results[k].id
             /\ results'[k].from = results[k].from /\ Lowers(results'[k])
  <2>1. results[k] \in Result /\ results[k].severity = input[results[k].id].severity
    <3>1. results[k] \in Result
      BY <1>2
    <3>2. k \in DOMAIN results /\ SeveritiesSoFar
      BY <1>2 DEF FindingsInv
    <3> QED
      BY <1>1, <3>1, <3>2 DEF SeveritiesSoFar
  <2>2. results'[k] = Audited(results[k])
    BY <1>1, <1>2
  <2> QED
    BY <1>1, <2>1, <2>2, AuditLowers
<1>4. DOMAIN results' = 1 .. n /\ results' \in Seq(Result)
  <2>1. DOMAIN results' = 1 .. n /\ results' = [k \in 1 .. n |-> results'[k]]
    BY <1>1, <1>2
  <2> QED
    BY <1>3, <2>1
<1>5. \A k \in 1 .. n : StandsFor(results'[k])
  BY <1>2, <1>3 DEF FindingsInv, AllStand, StandsFor
<1>6. AllStand' /\ AllLower'
  BY <1>1, <1>3, <1>4, <1>5, ResultsStand
<1>7. Ids' = Ids /\ Ungrouped' = Ungrouped /\ Unplaced' = Unplaced
  BY <1>1 DEF Unplaced, Ungrouped, At, Ids
<1>8. FindingsAreTyped'
  BY <1>1, <1>4, <1>7 DEF FindingsInv, FindingsAreTyped, Result
<1>9. TakenIds' = TakenIds
  BY <1>2, <1>3, <1>4 DEF TakenIds
<1>10. TakenSoFar' /\ SeedsAhead' /\ SeveritiesSoFar'
  BY <1>1, <1>7, <1>9 DEF TakenSoFar, SeedsAhead, SeveritiesSoFar
<1>11. TakenOnce'
  BY <1>2, <1>3, <1>4 DEF FindingsInv, TakenOnce
<1>12. SeedsApart'
  <2>1. ASSUME NEW k \in 1 .. n, NEW l \in 1 .. n, k # l,
               results'[k].from \cup results'[l].from \subseteq Unplaced
        PROVE  {Min(results'[k].from), Min(results'[l].from)} \notin similar
    <3>1. results'[k].from = results[k].from /\ results'[l].from = results[l].from
      BY <1>3
    <3>2. {Min(results[k].from), Min(results[l].from)} \notin similar
      BY <1>2, <2>1, <3>1 DEF FindingsInv, SeedsApart
    <3> QED
      BY <3>1, <3>2
  <2> QED
    BY <1>1, <1>4, <1>7, <2>1 DEF SeedsApart
<1> QED
  BY <1>6, <1>8, <1>10, <1>11, <1>12 DEF FindingsInv

\* Only the first results are kept.
LEMMA TruncateStep == ASSUME FindingsInv, Truncate PROVE FindingsInv'
<1>1. PICK n \in Nat : n = Len(results) /\ DOMAIN results = 1 .. n /\ results \in Seq(Result)
  BY DEF FindingsInv, FindingsAreTyped
<1>2. PICK c : c = Min({Cap, n})
  OBVIOUS
<1>3. c \in 0 .. n
  <2>1. Cap \in Nat
    BY FindingsAssumption
  <2>2. Cap <= n => Min({Cap, n}) = Cap
    BY <2>1, TheLeast
  <2>3. ~(Cap <= n) => Min({Cap, n}) = n
    BY <2>1, TheLeast
  <2> QED
    BY <1>2, <2>1, <2>2, <2>3
<1>4. /\ UNCHANGED <<input, similar, groups, at, gone>> /\ stage = "cap" /\ stage' = "done"
      /\ results' = SubSeq(results, 1, c)
  BY <1>1, <1>2 DEF Truncate
<1>5. /\ results' \in Seq(Result) /\ DOMAIN results' = 1 .. c
      /\ \A k \in 1 .. c : k \in 1 .. n /\ results'[k] = results[k]
  <2>1. results' \in Seq(Result)
    BY <1>1, <1>3, <1>4
  <2>2. DOMAIN results' = 1 .. c
    BY <1>1, <1>3, <1>4
  <2>3. \A k \in 1 .. c : k \in 1 .. n
    BY <1>3
  <2>4. \A k \in 1 .. c : results'[k] = results[k]
    BY <1>1, <1>3, <1>4
  <2> QED
    BY <2>1, <2>2, <2>3, <2>4
<1>6. AllStand' /\ AllLower'
  BY <1>1, <1>4, <1>5, ResultsStand DEF FindingsInv, AllStand, AllLower
<1>7. Ids' = Ids /\ Ungrouped' = Ungrouped /\ Unplaced' = Unplaced
  BY <1>4 DEF Unplaced, Ungrouped, At, Ids
<1>8. FindingsAreTyped'
  BY <1>4, <1>5, <1>7 DEF FindingsInv, FindingsAreTyped, Result
<1>9. TakenSoFar' /\ SeedsAhead' /\ SeveritiesSoFar'
  BY <1>4 DEF TakenSoFar, SeedsAhead, SeveritiesSoFar
<1>10. TakenOnce' /\ SeedsApart'
  BY SMTT(30), <1>1, <1>4, <1>5, <1>7 DEF FindingsInv, TakenOnce, SeedsApart
<1> QED
  BY <1>6, <1>8, <1>9, <1>10 DEF FindingsInv

\* Every stage keeps the invariant.
LEMMA FindingsSteps == FindingsInv /\ [FindingsNext]_findingsVars => FindingsInv'
<1> SUFFICES ASSUME FindingsInv, [FindingsNext]_findingsVars PROVE FindingsInv'
  OBVIOUS
<1>1. CASE UNCHANGED findingsVars
  <2>1. UNCHANGED <<input, similar, stage, groups, at, gone, results>>
    BY <1>1 DEF findingsVars
  <2>2. Ids' = Ids /\ Unplaced' = Unplaced /\ Ungrouped' = Ungrouped /\ TakenIds' = TakenIds
    BY <2>1 DEF Unplaced, Ungrouped, At, Ids, TakenIds
  <2>3. FindingsAreTyped'
    BY <2>1, <2>2 DEF FindingsInv, FindingsAreTyped, Result
  <2>4. TakenSoFar'
    <3>1. \A p \in groups : At(p) # <<>> <=> At(p)' # <<>>
      BY <2>1 DEF At, Ids
    <3> QED
      BY <2>1, <2>2, <3>1 DEF FindingsInv, TakenSoFar
  <2> QED
    BY <2>1, <2>3, <2>4, ResultsStay DEF FindingsInv, FindingsAreTyped
<1>2. CASE FindingsNext
  BY <1>2, FewStep, GroupStep, GroupsMergedStep, SkipMergedStep, MergeAlikeStep, DeduplicatedStep,
     AuditStep, TruncateStep, MergeGroupStep DEF FindingsNext
<1> QED
  BY <1>1, <1>2

\* The invariant says what is promised of the list.
LEMMA FindingsAgree == FindingsInv => FindingsAreSound
<1> SUFFICES ASSUME FindingsInv PROVE FindingsAreSound
  OBVIOUS
<1>1. EveryFindingOnce
  <2>1. ASSUME stage \in {"audit", "cap"}, NEW i \in Ids
        PROVE  Cardinality({k \in DOMAIN results : i \in results[k].from}) = 1
    <3>1. PICK k \in DOMAIN results : i \in results[k].from
      BY <2>1 DEF FindingsInv, TakenSoFar, TakenIds
    <3>2. {l \in DOMAIN results : i \in results[l].from} = {k}
      BY <3>1 DEF FindingsInv, TakenOnce
    <3> QED
      BY <3>2, FS_Singleton
  <2> QED
    BY <2>1 DEF EveryFindingOnce, Merged
<1>2. RichestSpeaks
  <2>1. ASSUME NEW k \in DOMAIN results
        PROVE  /\ \A i \in results[k].from : input[i].size <= input[results[k].id].size
               /\ input[results[k].id].place # NoPlace =>
                    results[k].from = ToSet(At(input[results[k].id].place))
    <3>1. StandsFor(results[k])
      BY <2>1 DEF FindingsInv, AllStand
    <3>2. Unplaced = {i \in Ids : input[i].place = NoPlace}
      BY WithoutPlace DEF FindingsInv, FindingsAreTyped
    <3> QED
      BY <3>1, <3>2 DEF StandsFor
  <2> QED
    BY <2>1 DEF RichestSpeaks
<1>3. SeedsDiffer
  BY DEF FindingsInv, SeedsApart, SeedsDiffer, Unplaced
<1>4. OnlyDowngraded
  BY DEF FindingsInv, AllLower, Lowers, OnlyDowngraded
<1> QED
  BY <1>1, <1>2, <1>3, <1>4 DEF FindingsAreSound

\* However many findings a panel has, in whatever order its agents are joined and the
\* groups come out of their map, and whichever findings resemble each other: the merge
\* puts every finding behind exactly one result, keeps the richest of each, leaves no two
\* seeds that resemble each other, and after it severities only go down, as far as the
\* tables say (semantic_dedup, apply_severity_auditor, post_process_findings).
THEOREM MergeIsSound == FindingsSpec => []FindingsAreSound
<1>1. FindingsInit => FindingsInv
  BY FindingsStart
<1>2. FindingsInv /\ [FindingsNext]_findingsVars => FindingsInv'
  BY FindingsSteps
<1>3. FindingsInv => FindingsAreSound
  BY FindingsAgree
<1> QED
  BY <1>1, <1>2, <1>3, PTL DEF FindingsSpec

-----------------------------------------------------------------------------
(* The types of the findings.                                              *)

\* The findings that are compared end with the last of them.
FindingsTyped ==
  /\ input \in Inputs /\ similar \subseteq Pairs(Ids)
  /\ at <= Len(Ungrouped) + 1

\* There are no more findings without a place than findings.
LEMMA FewerUngrouped ==
  ASSUME input \in Seq(Finding)
  PROVE  Len(Ungrouped) \in Nat /\ Len(Ungrouped) <= Len(input)
<1>1. PICK n \in Nat : n = Len(input) /\ Ids = 1 .. n
  BY DEF Ids
<1>2. PICK I : I = {i \in Ids : input[i].place = NoPlace}
  OBVIOUS
<1>3. PICK s : s = [i \in 1 .. n |-> i]
  OBVIOUS
<1>4. s \in Seq(1 .. n) /\ DOMAIN s = 1 .. n
  BY <1>3
<1>5. Ungrouped = Picked(s, I)
  BY <1>1, <1>2, <1>3 DEF Ungrouped, At
<1>6. Len(Ungrouped) \in Nat /\ Cardinality(I \cap DOMAIN s) = Len(Ungrouped)
  BY <1>4, <1>5, PickedLength
<1>7. IsFiniteSet(1 .. n) /\ Cardinality(1 .. n) = n
  BY FS_Interval
<1>8. Cardinality(I \cap DOMAIN s) <= Cardinality(1 .. n)
  <2>1. I \cap DOMAIN s \subseteq 1 .. n
    BY <1>4
  <2> QED
    BY <1>7, <2>1, FS_Subset
<1> QED
  BY <1>1, <1>6, <1>7, <1>8

\* Nothing is compared yet.
LEMMA FindingsStartTyped == FindingsInit => FindingsTyped
<1> SUFFICES ASSUME FindingsInit PROVE FindingsTyped
  OBVIOUS
<1>1. input \in Seq(Finding)
  BY FindingsStart DEF FindingsInv, FindingsAreTyped
<1>2. Unplaced \subseteq Ids
  BY <1>1, WithoutPlace
<1>3. similar \subseteq Pairs(Ids)
  BY <1>2 DEF FindingsInit, Pairs, kSubset, Unplaced
<1>4. at <= Len(Ungrouped) + 1
  BY <1>1, FewerUngrouped DEF FindingsInit
<1> QED
  BY <1>3, <1>4 DEF FindingsInit, FindingsTyped

\* Every stage keeps the findings, and compares none that is not there.
LEMMA FindingsStayTyped == FindingsTyped /\ FindingsInv /\ [FindingsNext]_findingsVars => FindingsTyped'
<1> SUFFICES ASSUME FindingsTyped, FindingsInv, [FindingsNext]_findingsVars PROVE FindingsTyped'
  OBVIOUS
<1>1. input' = input /\ similar' = similar
  BY DEF FindingsNext, Few, Group, GroupsMerged, SkipMerged, MergeAlike, Deduplicated, Audit, Truncate,
         MergeGroup, findingsVars
<1>2. \/ at' = at
      \/ at' = at + 1 /\ at <= Len(Ungrouped)
  BY DEF FindingsNext, Few, Group, GroupsMerged, SkipMerged, MergeAlike, Deduplicated, Audit, Truncate,
         MergeGroup, findingsVars
<1>3. at \in Nat /\ Len(Ungrouped) \in Nat
  BY FewerUngrouped DEF FindingsInv, FindingsAreTyped
<1>4. Inputs' = Inputs /\ Ids' = Ids /\ Ungrouped' = Ungrouped
  BY <1>1 DEF Inputs, Ids, Ungrouped, At
<1>5. at' <= Len(Ungrouped) + 1
  BY <1>2, <1>3 DEF FindingsTyped
<1> QED
  BY <1>1, <1>4, <1>5 DEF FindingsTyped, Pairs

\* The list of findings stays typed, however many findings a panel has.
LEMMA FindingsTypes == FindingsSpec => []FindingsTypeOK
<1>1. FindingsInv /\ FindingsTyped => FindingsTypeOK
  <2> SUFFICES ASSUME FindingsInv, FindingsTyped PROVE FindingsTypeOK
    OBVIOUS
  <2>1. FindingsAreTyped /\ input \in Seq(Finding)
    BY DEF FindingsInv, FindingsAreTyped
  <2>2. Unplaced \subseteq Ids
    BY <2>1, WithoutPlace
  <2>3. Len(input) \in Nat
    BY <2>1
  <2>4. at \in 1 .. Len(input) + 1
    BY <2>1, <2>3, FewerUngrouped DEF FindingsTyped, FindingsAreTyped
  <2> QED
    BY <2>1, <2>2, <2>4 DEF FindingsTypeOK, FindingsTyped, FindingsAreTyped
<1> QED
  BY <1>1, FindingsStart, FindingsSteps, FindingsStartTyped, FindingsStayTyped, PTL DEF FindingsSpec

-----------------------------------------------------------------------------
(* The diff.                                                                *)

\* Each line behind the one before it.
Ordered(t) == \A k, l \in DOMAIN t : k < l => t[k] < t[l]

\* Two sequences in order are in order, if one is behind the other.
LEMMA JoinedOrdered ==
  ASSUME NEW E \in SUBSET Nat, NEW s \in Seq(E), NEW t \in Seq(E),
         Ordered(s), Ordered(t), \A a \in ToSet(s), b \in ToSet(t) : a < b
  PROVE  s \o t \in Seq(E) /\ Ordered(s \o t) /\ ToSet(s \o t) = ToSet(s) \cup ToSet(t)
<1>0. PICK u : u = s \o t
  OBVIOUS
<1>1. PICK m \in Nat, q \in Nat :
        m = Len(s) /\ q = Len(t) /\ DOMAIN s = 1 .. m /\ DOMAIN t = 1 .. q
  OBVIOUS
<1>2. u \in Seq(E) /\ ToSet(u) = ToSet(s) \cup ToSet(t)
  BY <1>0, JoinedMembers
<1>3. /\ DOMAIN u = 1 .. m + q
      /\ \A k \in 1 .. m : u[k] = s[k]
      /\ \A k \in 1 .. q : u[m + k] = t[k]
  <2>1. Len(u) = m + q
    BY <1>0, <1>1, ConcatProperties
  <2>2. DOMAIN u = 1 .. m + q
    BY <1>2, <2>1
  <2> QED
    BY <1>0, <1>1, <2>2, ConcatProperties
<1>4. /\ \A k \in 1 .. m : s[k] \in ToSet(s) /\ s[k] \in Nat
      /\ \A k \in 1 .. q : t[k] \in ToSet(t) /\ t[k] \in Nat
  <2>1. \A k \in 1 .. m : s[k] \in ToSet(s) /\ s[k] \in E
    BY <1>1 DEF ToSet
  <2>2. \A k \in 1 .. q : t[k] \in ToSet(t) /\ t[k] \in E
    BY <1>1 DEF ToSet
  <2> QED
    BY <2>1, <2>2
<1>5. ASSUME NEW k \in 1 .. m + q, NEW l \in 1 .. m + q, k < l PROVE u[k] < u[l]
  <2>1. CASE l \in 1 .. m
    <3>1. k \in 1 .. m
      BY <1>5, <2>1
    <3> QED
      BY <1>1, <1>3, <1>5, <2>1, <3>1 DEF Ordered
  <2>2. CASE k \in 1 .. m /\ l \notin 1 .. m
    <3>1. PICK j \in 1 .. q : l = m + j
      <4>1. l - m \in 1 .. q /\ l = m + (l - m)
        BY <2>2
      <4> QED
        BY <4>1
    <3> QED
      BY <1>3, <1>4, <2>2, <3>1
  <2>3. CASE k \notin 1 .. m /\ l \notin 1 .. m
    <3>1. PICK i \in 1 .. q, j \in 1 .. q : k = m + i /\ l = m + j
      <4>1. k - m \in 1 .. q /\ k = m + (k - m) /\ l - m \in 1 .. q /\ l = m + (l - m)
        BY <2>3
      <4> QED
        BY <4>1
    <3>2. i < j
      BY <1>5, <3>1
    <3>3. t[i] < t[j]
      BY <1>1, <3>2 DEF Ordered
    <3> QED
      BY <1>3, <3>1, <3>3
  <2>4. k \in 1 .. m \/ l \notin 1 .. m
    BY <1>5
  <2> QED
    BY <2>1, <2>2, <2>3, <2>4
<1> QED
  BY <1>0, <1>2, <1>3, <1>5 DEF Ordered

\* One line more, behind all others.
LEMMA AppendedOrdered ==
  ASSUME NEW E \in SUBSET Nat, NEW s \in Seq(E), NEW i \in E, Ordered(s), \A a \in ToSet(s) : a < i
  PROVE  /\ Append(s, i) \in Seq(E) /\ Ordered(Append(s, i))
         /\ ToSet(Append(s, i)) = ToSet(s) \cup {i}
<1>1. PICK t : t = <<i>>
  OBVIOUS
<1>2. t \in Seq(E) /\ Append(s, i) = s \o t /\ DOMAIN t = {1} /\ t[1] = i
  BY <1>1
<1>3. ToSet(t) = {i} /\ Ordered(t)
  BY <1>2 DEF ToSet, Ordered
<1>4. \A a \in ToSet(s), b \in ToSet(t) : a < b
  BY <1>3
<1> QED
  BY <1>2, <1>3, <1>4, JoinedOrdered

-----------------------------------------------------------------------------
\* What is left of a hunk is in its order, and every line of it that changed is
\* left.
LEMMA ReducedHunk ==
  ASSUME NEW E \in SUBSET Nat, NEW hunk \in Seq(E), NEW u, u = Reduced(hunk)
  PROVE  /\ u \in Seq(E) /\ ToSet(u) \subseteq ToSet(hunk)
         /\ Ordered(hunk) => Ordered(u)
         /\ \A j \in 2 .. Len(hunk) : IsChanged(hunk[j]) => hunk[j] \in ToSet(u)
<1>1. PICK m \in Nat : m = Len(hunk) /\ DOMAIN hunk = 1 .. m
  OBVIOUS
<1>2. PICK C : C = {j \in 2 .. m : IsChanged(hunk[j])}
  OBVIOUS
<1>3. ToSet(hunk) = {hunk[j] : j \in 1 .. m}
  BY <1>1 DEF ToSet
<1>4. CASE C = {}
  <2>1. u = hunk
    BY <1>1, <1>2, <1>4 DEF Reduced
  <2> QED
    BY <1>1, <1>2, <1>4, <2>1
<1>5. CASE C # {}
  <2>1. PICK first \in C : \A j \in C : first <= j
    <3>1. C \in SUBSET Nat
      BY <1>2
    <3> QED
      BY <1>5, <3>1, SmallestExists
  <2>2. PICK last \in C : \A j \in C : j <= last
    <3>1. C \in SUBSET (1 .. m)
      BY <1>2
    <3> QED
      BY <1>5, <3>1, LargestExists
  <2>3. C \subseteq 2 .. m
    BY <1>2
  <2>4. Min(C) = first /\ Max(C) = last
    <3>1. \A y \in C : (\A j \in C : y <= j) => y = first
      BY <2>1, <2>3
    <3>2. \A y \in C : (\A j \in C : y >= j) => y = last
      BY <2>2, <2>3
    <3>3. \A j \in C : last >= j
      BY <2>2, <2>3
    <3> QED
      BY <2>1, <2>2, <3>1, <3>2, <3>3 DEF Min, Max
  <2>5. PICK lo \in 2 .. m : lo = Max({2, first - 1}) /\ lo <= first
    <3>1. first \in 2 .. m
      BY <2>3
    <3>2. CASE first - 1 >= 2
      <4>1. Max({2, first - 1}) = first - 1
        BY <3>1, <3>2 DEF Max
      <4> QED
        BY <3>1, <3>2, <4>1
    <3>3. CASE ~(first - 1 >= 2)
      <4>1. Max({2, first - 1}) = 2
        BY <3>1, <3>3 DEF Max
      <4> QED
        BY <3>1, <4>1
    <3> QED
      BY <3>2, <3>3
  <2>6. PICK hi \in 2 .. m : hi = Min({m, last + 1}) /\ last <= hi
    <3>1. last \in 2 .. m
      BY <2>3
    <3>2. CASE m <= last + 1
      <4>1. Min({m, last + 1}) = m
        BY <3>1, <3>2 DEF Min
      <4> QED
        BY <3>1, <4>1
    <3>3. CASE ~(m <= last + 1)
      <4>1. Min({m, last + 1}) = last + 1
        BY <3>1, <3>3 DEF Min
      <4> QED
        BY <3>1, <3>3, <4>1
    <3> QED
      BY <3>2, <3>3
  <2>7. lo <= hi /\ 1 \in 1 .. m /\ \A j \in C : lo <= j /\ j <= hi
    <3>1. first <= last
      BY <2>1
    <3>2. first \in 2 .. m /\ last \in 2 .. m
      BY <2>3
    <3>3. lo <= hi
      BY <2>5, <2>6, <3>1, <3>2
    <3>4. \A j \in C : lo <= j /\ j <= hi
      BY <2>1, <2>2, <2>3, <2>5, <2>6, <3>2
    <3> QED
      BY <3>2, <3>3, <3>4
  <2>8. u = <<hunk[1]>> \o SubSeq(hunk, lo, hi)
    BY <1>1, <1>2, <1>5, <2>4, <2>5, <2>6 DEF Reduced
  <2>9. PICK v : v = SubSeq(hunk, lo, hi)
    OBVIOUS
  <2>10. PICK q \in Nat : q = hi - lo + 1
    BY <2>7
  <2>11. v \in Seq(E) /\ Len(v) = q /\ \A k \in 1 .. q : v[k] = hunk[lo + k - 1]
    <3>1. lo \in 1 .. m + 1 /\ hi \in (lo - 1) .. m
      BY <2>5, <2>6, <2>7
    <3>2. v \in Seq(E)
      BY <1>1, <2>9, <3>1, SubSeqProperties
    <3>3. Len(v) = q
      BY <1>1, <2>7, <2>9, <2>10, <3>1, SubSeqProperties
    <3>4. \A k \in 1 .. q : v[k] = hunk[lo + k - 1]
      BY <1>1, <2>7, <2>9, <2>10, <3>1, <3>3, SubSeqProperties
    <3> QED
      BY <3>2, <3>3, <3>4
  <2>12. PICK s : s = <<hunk[1]>>
    OBVIOUS
  <2>13. s \in Seq(E) /\ DOMAIN s = {1} /\ s[1] = hunk[1]
    BY <1>1, <2>7, <2>12
  <2>14. ToSet(s) = {hunk[1]} /\ ToSet(v) = {v[k] : k \in 1 .. q}
    <3>1. DOMAIN v = 1 .. q
      BY <2>11
    <3>2. ToSet(v) = {v[k] : k \in 1 .. q}
      BY <3>1 DEF ToSet
    <3>3. ToSet(s) = {s[k] : k \in {1}}
      BY <2>13 DEF ToSet
    <3> QED
      BY <2>13, <3>2, <3>3
  <2>15. \A k \in 1 .. q : lo + k - 1 \in 2 .. m
    <3> TAKE k \in 1 .. q
    <3>1. k <= hi - lo + 1
      BY <2>10
    <3> QED
      BY <3>1
  <2>16. u \in Seq(E) /\ ToSet(u) = ToSet(s) \cup ToSet(v)
    <3>1. u = s \o v
      BY <2>8, <2>9, <2>12
    <3> QED
      BY <2>11, <2>13, <3>1, JoinedMembers
  <2>17. ToSet(u) \subseteq ToSet(hunk)
    <3>1. \A k \in 1 .. q : v[k] \in ToSet(hunk)
      <4> TAKE k \in 1 .. q
      <4>1. lo + k - 1 \in 1 .. m
        BY <2>15
      <4> QED
        BY <1>3, <2>11, <4>1
    <3>2. hunk[1] \in ToSet(hunk)
      BY <1>3, <2>7
    <3> QED
      BY <2>14, <2>16, <3>1, <3>2
  <2>18. ASSUME NEW j \in C PROVE hunk[j] \in ToSet(u)
    <3>1. PICK k \in 1 .. q : k = j - lo + 1
      BY <2>3, <2>7, <2>10
    <3>2. lo + k - 1 = j
      BY <2>3, <3>1
    <3>3. v[k] = hunk[j]
      BY <2>11, <3>2
    <3> QED
      BY <2>14, <2>16, <3>3
  <2>19. ASSUME Ordered(hunk) PROVE Ordered(u)
    <3>1. Ordered(s)
      BY <2>13 DEF Ordered
    <3>2. ASSUME NEW k \in 1 .. q, NEW l \in 1 .. q, k < l PROVE v[k] < v[l]
      <4>1. PICK a \in 1 .. m, b \in 1 .. m : a = lo + k - 1 /\ b = lo + l - 1
        BY <2>15
      <4>2. a < b
        BY <3>2, <4>1
      <4>3. hunk[a] < hunk[b]
        BY <1>1, <2>19, <4>2 DEF Ordered
      <4> QED
        BY <2>11, <4>1, <4>3
    <3>3. Ordered(v)
      BY <2>11, <3>2 DEF Ordered
    <3>4. \A b \in ToSet(v) : hunk[1] < b
      <4>1. ASSUME NEW k \in 1 .. q PROVE hunk[1] < v[k]
        <5>1. PICK a \in 2 .. m : a = lo + k - 1
          BY <2>15
        <5>2. 1 \in 1 .. m /\ a \in 1 .. m /\ 1 < a
          BY <2>7, <5>1
        <5>3. hunk[1] < hunk[a]
          BY <1>1, <2>19, <5>2 DEF Ordered
        <5> QED
          BY <2>11, <5>1, <5>3
      <4> QED
        BY <2>14, <4>1
    <3>5. \A a \in ToSet(s), b \in ToSet(v) : a < b
      BY <2>14, <3>4
    <3>6. u = s \o v
      BY <2>8, <2>9, <2>12
    <3> QED
      BY <2>11, <2>13, <3>1, <3>3, <3>5, <3>6, JoinedOrdered
  <2> QED
    BY <1>1, <1>2, <2>16, <2>17, <2>18, <2>19
<1> QED
  BY <1>4, <1>5

\* The lines read so far are out or in the hunk, in their order, the changed
\* ones all of them.
Stripped(acc, k) ==
  /\ Ordered(acc.out) /\ Ordered(acc.hunk)
  /\ ToSet(acc.out) \cup ToSet(acc.hunk) \subseteq 1 .. k
  /\ \A a \in ToSet(acc.out), b \in ToSet(acc.hunk) : a < b
  /\ acc.hunk # <<>> => diff[acc.hunk[1]].kind = "hunk"
  /\ \A i \in 1 .. k : IsChanged(i) => i \in ToSet(acc.out) \cup ToSet(acc.hunk)

Stripping(E) == [out : Seq(E), hunk : Seq(E)]

\* A hunk that is over goes out: all of it that changed, and in its order.
LEMMA FlushedHunk ==
  ASSUME NEW E \in SUBSET Nat, NEW acc \in Stripping(E), NEW k \in Nat, Stripped(acc, k),
         NEW u, u = acc.out \o Reduced(acc.hunk)
  PROVE  /\ u \in Seq(E) /\ Ordered(u) /\ ToSet(u) \subseteq 1 .. k
         /\ \A i \in 1 .. k : IsChanged(i) => i \in ToSet(u)
<1>1. PICK out \in Seq(E), hunk \in Seq(E) : out = acc.out /\ hunk = acc.hunk
  BY DEF Stripping
<1>2. PICK v : v = Reduced(hunk)
  OBVIOUS
<1>3. /\ v \in Seq(E) /\ ToSet(v) \subseteq ToSet(hunk)
      /\ Ordered(hunk) => Ordered(v)
      /\ \A j \in 2 .. Len(hunk) : IsChanged(hunk[j]) => hunk[j] \in ToSet(v)
  BY <1>2, ReducedHunk
<1>4. /\ Ordered(out) /\ Ordered(v) /\ \A a \in ToSet(out), b \in ToSet(v) : a < b
  BY <1>1, <1>3 DEF Stripped
<1>5. u = out \o v
  BY <1>1, <1>2
<1>6. u \in Seq(E) /\ Ordered(u) /\ ToSet(u) = ToSet(out) \cup ToSet(v)
  BY <1>3, <1>4, <1>5, JoinedOrdered
<1>7. ASSUME NEW i \in 1 .. k, IsChanged(i) PROVE i \in ToSet(u)
  <2>1. i \in ToSet(out) \cup ToSet(hunk)
    BY <1>1, <1>7 DEF Stripped
  <2>2. CASE i \in ToSet(hunk)
    <3>1. PICK j \in 1 .. Len(hunk) : i = hunk[j]
      <4>1. DOMAIN hunk = 1 .. Len(hunk)
        OBVIOUS
      <4> QED
        BY <2>2, <4>1 DEF ToSet
    <3>2. j # 1
      <4>1. hunk # <<>>
        BY <3>1
      <4>2. diff[hunk[1]].kind = "hunk"
        BY <1>1, <4>1 DEF Stripped
      <4> QED
        BY <1>7, <3>1, <4>2 DEF IsChanged
    <3>3. j \in 2 .. Len(hunk)
      BY <3>1, <3>2
    <3> QED
      BY <1>3, <1>6, <1>7, <3>1, <3>3
  <2> QED
    BY <1>6, <2>1, <2>2
<1>8. ToSet(u) \subseteq 1 .. k
  BY <1>1, <1>3, <1>6 DEF Stripped
<1> QED
  BY <1>6, <1>7, <1>8

\* A line more.
LEMMA StripLineTyped ==
  ASSUME NEW E \in SUBSET Nat, NEW acc \in Stripping(E), NEW i \in E
  PROVE  StripLine(acc, i) \in Stripping(E)
<1>1. acc.out \in Seq(E) /\ acc.hunk \in Seq(E) /\ <<i>> \in Seq(E)
  BY DEF Stripping
<1>2. Reduced(acc.hunk) \in Seq(E)
  BY <1>1, ReducedHunk
<1>3. acc.out \o Reduced(acc.hunk) \in Seq(E) /\ Append(acc.hunk, i) \in Seq(E) /\ Append(acc.out, i) \in Seq(E)
  BY <1>1, <1>2
<1>4. CASE IsHeader(i) \/ diff[i].kind = "index"
  BY <1>4 DEF StripLine
<1>5. CASE ~(IsHeader(i) \/ diff[i].kind = "index") /\ diff[i].kind = "hunk"
  BY <1>1, <1>3, <1>5 DEF StripLine, Stripping
<1>6. CASE ~(IsHeader(i) \/ diff[i].kind = "index") /\ diff[i].kind # "hunk" /\ acc.hunk # <<>>
  <2>1. StripLine(acc, i) = [acc EXCEPT !.hunk = Append(acc.hunk, i)]
    BY <1>6 DEF StripLine
  <2> QED
    BY <1>3, <2>1 DEF Stripping
<1>7. CASE ~(IsHeader(i) \/ diff[i].kind = "index") /\ diff[i].kind # "hunk" /\ acc.hunk = <<>>
  <2>1. StripLine(acc, i) = [acc EXCEPT !.out = Append(acc.out, i)]
    BY <1>7 DEF StripLine
  <2> QED
    BY <1>3, <2>1 DEF Stripping
<1> QED
  BY <1>4, <1>5, <1>6, <1>7

\* It is dropped, kept or the hunk's, and a hunk line ends the hunk before it.
LEMMA StripLineKeeps ==
  ASSUME NEW E \in SUBSET Nat, NEW acc \in Stripping(E), NEW k \in Nat, k + 1 \in E, Stripped(acc, k)
  PROVE  Stripped(StripLine(acc, k + 1), k + 1)
<1>1. PICK i \in E : i = k + 1
  OBVIOUS
<1>2. PICK t : t = StripLine(acc, i)
  OBVIOUS
<1>3. PICK out \in Seq(E), hunk \in Seq(E) : out = acc.out /\ hunk = acc.hunk
  BY DEF Stripping
<1>4. /\ Ordered(out) /\ Ordered(hunk) /\ ToSet(out) \subseteq 1 .. k /\ ToSet(hunk) \subseteq 1 .. k
      /\ \A a \in ToSet(out), b \in ToSet(hunk) : a < b
      /\ hunk # <<>> => diff[hunk[1]].kind = "hunk"
      /\ \A j \in 1 .. k : IsChanged(j) => j \in ToSet(out) \cup ToSet(hunk)
  BY <1>3 DEF Stripped
<1>5. 1 .. i = (1 .. k) \cup {i} /\ i \in Nat
  BY <1>1
<1>6. CASE IsHeader(i) \/ diff[i].kind = "index"
  <2>1. t = acc
    BY <1>2, <1>6 DEF StripLine
  <2>2. ~IsChanged(i)
    BY <1>6 DEF IsHeader, IsChanged
  <2> QED
    BY <1>1, <1>2, <1>3, <1>4, <1>5, <2>1, <2>2 DEF Stripped
<1>7. CASE ~(IsHeader(i) \/ diff[i].kind = "index") /\ diff[i].kind = "hunk"
  <2>1. PICK u : u = acc.out \o Reduced(acc.hunk)
    OBVIOUS
  <2>2. t = [out |-> u, hunk |-> <<i>>]
    BY <1>2, <1>7, <2>1 DEF StripLine
  <2>3. /\ u \in Seq(E) /\ Ordered(u) /\ ToSet(u) \subseteq 1 .. k
        /\ \A j \in 1 .. k : IsChanged(j) => j \in ToSet(u)
    BY <2>1, FlushedHunk
  <2>4. t.out = u /\ t.hunk = <<i>> /\ DOMAIN <<i>> = {1} /\ <<i>>[1] = i
    BY <2>2
  <2>5. ToSet(t.hunk) = {i} /\ Ordered(t.hunk)
    BY <2>4 DEF ToSet, Ordered
  <2>6. \A a \in ToSet(u) : a < i
    BY <1>1, <2>3
  <2>7. ~IsChanged(i) /\ diff[t.hunk[1]].kind = "hunk"
    BY <1>7, <2>4 DEF IsChanged
  <2> QED
    BY <1>1, <1>2, <1>5, <2>3, <2>4, <2>5, <2>6, <2>7 DEF Stripped
<1>8. CASE ~(IsHeader(i) \/ diff[i].kind = "index") /\ diff[i].kind # "hunk" /\ hunk # <<>>
  <2>1. PICK h : h = Append(hunk, i)
    OBVIOUS
  <2>2. t = [acc EXCEPT !.hunk = h]
    BY <1>2, <1>3, <1>8, <2>1 DEF StripLine
  <2>3. t.out = out /\ t.hunk = h
    BY <1>3, <2>2 DEF Stripping
  <2>4. \A a \in ToSet(hunk) : a < i
    BY <1>1, <1>4
  <2>5. h \in Seq(E) /\ Ordered(h) /\ ToSet(h) = ToSet(hunk) \cup {i}
    BY <1>4, <2>1, <2>4, AppendedOrdered
  <2>6. h[1] = hunk[1]
    BY <1>8, <2>1
  <2>7. \A a \in ToSet(out) : a < i
    BY <1>1, <1>4
  <2> QED
    BY <1>1, <1>2, <1>4, <1>5, <1>8, <2>3, <2>5, <2>6, <2>7 DEF Stripped
<1>9. CASE ~(IsHeader(i) \/ diff[i].kind = "index") /\ diff[i].kind # "hunk" /\ hunk = <<>>
  <2>1. PICK o : o = Append(out, i)
    OBVIOUS
  <2>2. t = [acc EXCEPT !.out = o]
    BY <1>2, <1>3, <1>9, <2>1 DEF StripLine
  <2>3. t.out = o /\ t.hunk = hunk
    BY <1>3, <2>2 DEF Stripping
  <2>4. \A a \in ToSet(out) : a < i
    BY <1>1, <1>4
  <2>5. o \in Seq(E) /\ Ordered(o) /\ ToSet(o) = ToSet(out) \cup {i}
    BY <1>4, <2>1, <2>4, AppendedOrdered
  <2>6. ToSet(hunk) = {}
    BY <1>9 DEF ToSet
  <2> QED
    BY <1>1, <1>2, <1>4, <1>5, <1>9, <2>3, <2>5, <2>6 DEF Stripped
<1> QED
  BY <1>6, <1>7, <1>8, <1>9

\* The largest of the first numbers.
LEMMA LargestOfFirst ==
  ASSUME NEW k \in Nat
  PROVE  Max(1 .. k + 1) = k + 1 /\ (1 .. k + 1) \ {k + 1} = 1 .. k
<1>1. k + 1 \in 1 .. k + 1 /\ \A y \in 1 .. k + 1 : k + 1 >= y
  OBVIOUS
<1>2. \A x \in 1 .. k + 1 : (\A y \in 1 .. k + 1 : x >= y) => x = k + 1
  OBVIOUS
<1>3. (1 .. k + 1) \ {k + 1} = 1 .. k
  OBVIOUS
<1> QED
  BY <1>1, <1>2, <1>3 DEF Max

\* What strip_diff_metadata keeps is in its order, and no changed line is lost.
LEMMA StrippingLosesNoChange ==
  ASSUME NEW n \in Nat, DOMAIN diff = 1 .. n, NEW kept, kept = StripDiffMetadata
  PROVE  kept \in Seq(1 .. n) /\ Ordered(kept) /\ \A i \in 1 .. n : IsChanged(i) => i \in ToSet(kept)
<1>1. PICK E \in SUBSET Nat : E = 1 .. n
  OBVIOUS
<1>2. PICK nothing : nothing = [out |-> <<>>, hunk |-> <<>>]
  OBVIOUS
<1>3. nothing \in Stripping(E) /\ Stripped(nothing, 0)
  <2>1. <<>> \in Seq(E) /\ DOMAIN <<>> = {} /\ 1 .. 0 = {}
    OBVIOUS
  <2>2. nothing.out = <<>> /\ nothing.hunk = <<>>
    BY <1>2
  <2>3. ToSet(<<>>) = {}
    BY <2>1 DEF ToSet
  <2>4. Ordered(<<>>)
    BY <2>1 DEF Ordered
  <2> QED
    BY <1>2, <2>1, <2>2, <2>3, <2>4 DEF Stripping, Stripped
<1>4. IsFiniteSet(E)
  <2>1. 1 \in Int /\ n \in Int
    OBVIOUS
  <2> QED
    BY <1>1, <2>1, FS_Interval
<1>5. PICK eachLine : eachLine = [p \in E \X Stripping(E) |-> StripLine(p[2], p[1])]
  OBVIOUS
<1>6. eachLine \in [E \X Stripping(E) -> Stripping(E)]
  BY <1>5, StripLineTyped
<1>7. PICK ch : ch = [s \in SUBSET E |-> Max(s)]
  OBVIOUS
<1>8. \A s \in SUBSET E : ch[s] = Max(s) /\ (s # {} => ch[s] \in s)
  <2> TAKE s \in SUBSET E
  <2>1. ch[s] = Max(s)
    BY <1>7
  <2>2. ASSUME s # {} PROVE Max(s) \in s
    <3>1. s \in SUBSET (1 .. n)
      BY <1>1
    <3>2. PICK m \in s : \A i \in s : i <= m
      BY <2>2, <3>1, LargestExists
    <3>3. \A i \in s : m >= i
      BY <3>1, <3>2
    <3> QED
      BY <3>2, <3>3 DEF Max
  <2> QED
    BY <2>1, <2>2
<1>9. PICK g \in [SUBSET E -> Stripping(E)] : Unfolds(g, E, nothing, ch, eachLine)
  <2>1. \A s \in SUBSET E : s # {} => ch[s] \in s
    BY <1>8
  <2>2. PICK R : R = Stripping(E)
    OBVIOUS
  <2>3. nothing \in R /\ eachLine \in [E \X R -> R]
    BY <1>3, <1>6, <2>2
  <2>4. \E g \in [SUBSET E -> R] : Unfolds(g, E, nothing, ch, eachLine)
    BY <1>4, <2>1, <2>3, RecursionOverSets
  <2> QED
    BY <2>2, <2>4
<1>10. \A s \in SUBSET E : g[s] = IF s = {} THEN nothing ELSE StripLine(g[s \ {Max(s)}], Max(s))
  <2> TAKE s \in SUBSET E
  <2>1. g[s] = IF s = {} THEN nothing ELSE eachLine[<<ch[s], g[s \ {ch[s]}]>>]
    BY <1>9 DEF Unfolds
  <2>2. s # {} => ch[s] \in E /\ g[s \ {ch[s]}] \in Stripping(E)
    BY <1>8
  <2>3. s # {} => eachLine[<<ch[s], g[s \ {ch[s]}]>>] = StripLine(g[s \ {ch[s]}], ch[s])
    BY <1>5, <2>2
  <2> QED
    BY <1>8, <2>1, <2>3
<1>11. PICK seq : seq = [i \in DOMAIN diff |-> i]
  OBVIOUS
<1>12. DOMAIN seq = E /\ \A s \in SUBSET E : s # {} => seq[Max(s)] = Max(s)
  <2>1. DOMAIN seq = E /\ \A i \in E : seq[i] = i
    BY <1>1, <1>11
  <2>2. \A s \in SUBSET E : s # {} => Max(s) \in E
    BY <1>8
  <2> QED
    BY <2>1, <2>2
<1> DEFINE Strips(q) == q = [s \in SUBSET DOMAIN seq |->
                               IF s = {} THEN nothing ELSE StripLine(q[s \ {Max(s)}], seq[Max(s)])]
<1>13. PICK h : h = CHOOSE q : Strips(q)
  OBVIOUS
<1>14. FoldLeftDomain(StripLine, nothing, diff) = h[DOMAIN seq]
  BY <1>11, <1>13 DEF FoldLeftDomain, FoldLeft, MapThenFoldSet
<1>15. Strips(h)
  <2>1. g = [s \in SUBSET E |-> g[s]]
    OBVIOUS
  <2>2. g = [s \in SUBSET E |-> IF s = {} THEN nothing ELSE StripLine(g[s \ {Max(s)}], seq[Max(s)])]
    BY <1>10, <1>12, <2>1
  <2>3. Strips(g)
    BY <1>12, <2>2
  <2> HIDE DEF Strips
  <2> QED
    BY <1>13, <2>3
<1>16. \A s \in SUBSET E : h[s] = IF s = {} THEN nothing ELSE StripLine(h[s \ {Max(s)}], Max(s))
  BY <1>12, <1>15
<1> HIDE DEF Strips
<1> DEFINE K == {k \in Nat : k \in 0 .. n => h[1 .. k] \in Stripping(E) /\ Stripped(h[1 .. k], k)}
<1>17. 0 \in K
  <2>1. 1 .. 0 = {}
    OBVIOUS
  <2>2. h[{}] = nothing
    BY <1>16
  <2> QED
    BY <1>3, <2>1, <2>2
<1>18. ASSUME NEW k \in Nat, k \in K PROVE k + 1 \in K
  <2> SUFFICES ASSUME k + 1 \in 0 .. n
               PROVE  h[1 .. k + 1] \in Stripping(E) /\ Stripped(h[1 .. k + 1], k + 1)
    OBVIOUS
  <2>1. h[1 .. k] \in Stripping(E) /\ Stripped(h[1 .. k], k)
    BY <1>18
  <2>2. k + 1 \in E
    BY <1>1
  <2>3. 1 .. k + 1 \in SUBSET E /\ 1 .. k + 1 # {}
    <3>1. k + 1 \in 1 .. k + 1
      OBVIOUS
    <3>2. \A i \in 1 .. k + 1 : i \in E
      BY <1>1
    <3> QED
      BY <3>1, <3>2
  <2>4. h[1 .. k + 1] = StripLine(h[1 .. k], k + 1)
    <3>1. h[1 .. k + 1] = StripLine(h[(1 .. k + 1) \ {Max(1 .. k + 1)}], Max(1 .. k + 1))
      BY <1>16, <2>3
    <3>2. Max(1 .. k + 1) = k + 1 /\ (1 .. k + 1) \ {k + 1} = 1 .. k
      BY LargestOfFirst
    <3> QED
      BY <3>1, <3>2
  <2>5. PICK acc \in Stripping(E) : acc = h[1 .. k] /\ Stripped(acc, k)
    BY <2>1
  <2>6. StripLine(acc, k + 1) \in Stripping(E) /\ Stripped(StripLine(acc, k + 1), k + 1)
    BY <2>2, <2>5, StripLineTyped, StripLineKeeps
  <2> QED
    BY <2>4, <2>5, <2>6
<1>19. PICK acc \in Stripping(E) : acc = h[E] /\ Stripped(acc, n)
  <2>1. n \in K
    <3> HIDE DEF K
    <3> QED
      BY <1>17, <1>18, SetInduction
  <2> QED
    BY <1>1, <2>1
<1>20. PICK u : u = acc.out \o Reduced(acc.hunk)
  OBVIOUS
<1>21. kept = u
  BY <1>2, <1>12, <1>14, <1>19, <1>20 DEF StripDiffMetadata
<1>22. /\ u \in Seq(E) /\ Ordered(u) /\ ToSet(u) \subseteq 1 .. n
       /\ \A i \in 1 .. n : IsChanged(i) => i \in ToSet(u)
  BY <1>19, <1>20, FlushedHunk
<1> QED
  BY <1>1, <1>21, <1>22

-----------------------------------------------------------------------------
Section == [head : Nat, body : Seq(Nat)]
Line == Headers \cup [kind : Kinds]

\* The lines from one to another.
IsFrom(b, first, last) == b \in Seq(Nat) /\ ToSet(b) = first .. last /\ Len(b) = last - first + 1

\* A section that another header ends.
IsEnded(s) ==
  \E e \in HeaderLines :
    /\ e > s.head /\ IsFrom(s.body, s.head + 1, e - 1)
    /\ \A i \in HeaderLines : i > s.head => e <= i

\* While the diff is read, its headers but the last have a section each.
Cutting ==
  /\ IF diff = <<>> THEN header = 0 ELSE header \in HeaderLines
  /\ \A i \in HeaderLines : i <= header
  /\ IsFrom(body, header + 1, Len(diff))
  /\ {sections[k].head : k \in DOMAIN sections} = HeaderLines \ {header}
  /\ \A k \in DOMAIN sections : IsEnded(sections[k])
  /\ \A i \in HeaderLines \ {header} : diff[i].parses

HeadsInOrder == \A k, l \in DOMAIN sections : k < l => sections[k].head < sections[l].head

DiffInv ==
  /\ diff \in Seq(Line) /\ sections \in Seq(Section)
  /\ step \in {"reading", "read", "filtered", "asked", "panicked"}
  /\ step = "reading" => Cutting /\ HeadsInOrder
  /\ step # "reading" =>
       \A k \in DOMAIN sections : sections[k].head \in HeaderLines /\ SectionIsWhole(sections[k])
  /\ step = "read" => HeadsInOrder /\ {sections[k].head : k \in DOMAIN sections} = HeaderLines
  /\ step \in {"filtered", "asked"} =>
       /\ Len(sections) + SumFunctionOnSet(counter, Filters) = Cardinality(HeaderLines)
       /\ \A k \in DOMAIN sections : diff[sections[k].head].filters = {}
  /\ step = "asked" /\ single => \A i \in HeaderLines : ~diff[i].full
  /\ step = "panicked" => \E i \in HeaderLines : ~diff[i].parses

\* A section that another header ends is whole.
LEMMA EndedIsWhole ==
  ASSUME diff \in Seq(Line), NEW s \in Section, IsEnded(s)
  PROVE  SectionIsWhole(s)
<1>1. PICK e \in HeaderLines :
        /\ e > s.head /\ IsFrom(s.body, s.head + 1, e - 1)
        /\ \A i \in HeaderLines : i > s.head => e <= i
  BY DEF IsEnded
<1>2. PICK later : later = {i \in HeaderLines : i > s.head}
  OBVIOUS
<1>3. HeaderLines \subseteq Nat /\ s.head \in Nat
  BY DEF HeaderLines, Section
<1>4. e \in later /\ (\A i \in later : e <= i) /\ \A y \in later : (\A i \in later : y <= i) => y = e
  BY <1>1, <1>2, <1>3
<1>5. Min(later) = e /\ later # {}
  BY <1>4 DEF Min
<1>6. PICK end : end = IF later = {} THEN Len(diff) ELSE Min(later) - 1
  OBVIOUS
<1>7. end = e - 1 /\ e \in Nat
  BY <1>3, <1>5, <1>6
<1>8. ToSet(s.body) = s.head + 1 .. end /\ Len(s.body) = end - s.head
  <2>1. (e - 1) - (s.head + 1) + 1 = end - s.head
    BY <1>3, <1>7
  <2> QED
    BY <1>1, <1>7, <2>1 DEF IsFrom
<1> QED
  BY <1>2, <1>6, <1>8 DEF SectionIsWhole

\* A line more ends nothing that was not over, and what was over stays as it is.
LEMMA LineMore ==
  ASSUME diff \in Seq(Line), NEW l \in Line, diff' = Append(diff, l)
  PROVE  /\ diff' \in Seq(Line) /\ Len(diff') = Len(diff) + 1 /\ Len(diff) \in Nat
         /\ HeaderLines' = HeaderLines \cup (IF l.kind = "git" THEN {Len(diff) + 1} ELSE {})
         /\ HeaderLines \subseteq 1 .. Len(diff)
         /\ diff'[Len(diff) + 1] = l
         /\ \A i \in HeaderLines : diff'[i] = diff[i]
<1>1. PICK n \in Nat : n = Len(diff) /\ DOMAIN diff = 1 .. n
  OBVIOUS
<1>2. /\ diff' \in Seq(Line) /\ Len(diff') = n + 1 /\ DOMAIN diff' = 1 .. n + 1
      /\ diff'[n + 1] = l /\ \A i \in 1 .. n : diff'[i] = diff[i]
  BY <1>1
<1>3. 1 .. n + 1 = (1 .. n) \cup {n + 1} /\ n + 1 \notin 1 .. n
  OBVIOUS
<1>4. HeaderLines' = {i \in 1 .. n + 1 : diff'[i].kind = "git"}
  BY <1>2 DEF HeaderLines, IsHeader
<1>5. HeaderLines = {i \in 1 .. n : diff[i].kind = "git"}
  BY <1>1 DEF HeaderLines, IsHeader
<1>6. HeaderLines' = HeaderLines \cup (IF l.kind = "git" THEN {n + 1} ELSE {})
  BY <1>2, <1>3, <1>4, <1>5
<1> QED
  BY <1>1, <1>2, <1>5, <1>6

\* Sections that are over are over with any line more.
LEMMA EndedStays ==
  ASSUME NEW s \in Section, HeaderLines \subseteq 1 .. Len(diff), Len(diff) \in Nat, IsEnded(s),
         HeaderLines \subseteq HeaderLines', HeaderLines' \subseteq HeaderLines \cup {Len(diff) + 1}
  PROVE  IsEnded(s)'
<1>1. PICK e \in HeaderLines :
        /\ e > s.head /\ IsFrom(s.body, s.head + 1, e - 1)
        /\ \A i \in HeaderLines : i > s.head => e <= i
  BY DEF IsEnded
<1>2. e \in HeaderLines' /\ e <= Len(diff) + 1
  BY <1>1
<1>3. \A i \in HeaderLines' : i > s.head => e <= i
  BY <1>1, <1>2
<1> QED
  BY <1>1, <1>2, <1>3 DEF IsEnded, IsFrom

\* The sections and one more.
LEMMA SectionMore ==
  ASSUME sections \in Seq(Section), NEW s \in Section, sections' = Append(sections, s)
  PROVE  /\ sections' \in Seq(Section) /\ Len(sections) \in Nat
         /\ DOMAIN sections' = DOMAIN sections \cup {Len(sections) + 1}
         /\ DOMAIN sections = 1 .. Len(sections)
         /\ sections'[Len(sections) + 1] = s
         /\ \A k \in DOMAIN sections : sections'[k] = sections[k]
<1>1. PICK n \in Nat : n = Len(sections) /\ DOMAIN sections = 1 .. n
  OBVIOUS
<1>2. /\ sections' \in Seq(Section) /\ DOMAIN sections' = 1 .. n + 1
      /\ sections'[n + 1] = s /\ \A i \in 1 .. n : sections'[i] = sections[i]
  BY <1>1
<1>3. 1 .. n + 1 = (1 .. n) \cup {n + 1}
  OBVIOUS
<1> QED
  BY <1>1, <1>2, <1>3

\* The section read so far comes last.
LEMMA PushedInOrder ==
  ASSUME DiffInv, step = "reading", header # 0, sections' = Append(sections, Current)
  PROVE  /\ Current \in Section /\ Current.head = header /\ Current.body = body
         /\ sections' \in Seq(Section) /\ HeadsInOrder'
         /\ {sections'[k].head : k \in DOMAIN sections'} = HeaderLines
<1>1. Cutting /\ HeadsInOrder /\ sections \in Seq(Section)
  BY DEF DiffInv
<1>2. header \in HeaderLines /\ HeaderLines \subseteq Nat /\ body \in Seq(Nat)
  BY <1>1 DEF Cutting, HeaderLines, IsFrom
<1>3. PICK s \in Section : s = Current /\ s.head = header /\ s.body = body
  <2>1. Current \in Section
    BY <1>2 DEF Current, Section
  <2> QED
    BY <2>1 DEF Current
<1>4. PICK n \in Nat : n = Len(sections) /\ DOMAIN sections = 1 .. n
  BY <1>1
<1>5. /\ sections' \in Seq(Section) /\ DOMAIN sections' = (1 .. n) \cup {n + 1}
      /\ sections'[n + 1] = s /\ \A k \in 1 .. n : sections'[k] = sections[k]
  BY <1>1, <1>3, <1>4, SectionMore
<1>6. \A k \in 1 .. n : sections[k].head \in HeaderLines \ {header}
  BY <1>1, <1>4 DEF Cutting
<1>7. \A k \in 1 .. n : sections[k].head < header
  <2> TAKE k \in 1 .. n
  <2>1. sections[k].head <= header /\ sections[k].head # header /\ sections[k].head \in Nat
    BY <1>1, <1>2, <1>6 DEF Cutting
  <2> QED
    BY <1>2, <2>1
<1>8. HeadsInOrder'
  <2>1. ASSUME NEW k \in DOMAIN sections', NEW l \in DOMAIN sections', k < l
        PROVE  sections'[k].head < sections'[l].head
    <3>1. k \in 1 .. n
      BY <1>5, <2>1
    <3>2. CASE l \in 1 .. n
      BY <1>1, <1>4, <1>5, <2>1, <3>1, <3>2 DEF HeadsInOrder
    <3>3. CASE l = n + 1
      BY <1>3, <1>5, <1>7, <3>1, <3>3
    <3> QED
      BY <1>5, <3>2, <3>3
  <2> QED
    BY <2>1 DEF HeadsInOrder
<1>9. {sections'[k].head : k \in DOMAIN sections'} = HeaderLines
  <2>1. {sections'[k].head : k \in DOMAIN sections'} = {sections'[k].head : k \in 1 .. n} \cup {header}
    BY <1>3, <1>5
  <2>2. {sections'[k].head : k \in 1 .. n} = {sections[k].head : k \in 1 .. n}
    BY <1>5
  <2>3. {sections[k].head : k \in 1 .. n} = HeaderLines \ {header}
    BY <1>1, <1>4 DEF Cutting
  <2> QED
    BY <1>2, <2>1, <2>2, <2>3
<1> QED
  BY <1>3, <1>5, <1>8, <1>9

\* A whole section is one as long as the diff stays.
LEMMA WholeStays ==
  ASSUME diff' = diff
  PROVE  HeaderLines' = HeaderLines /\ \A s \in Section : SectionIsWhole(s) => SectionIsWhole(s)'
<1>1. HeaderLines' = HeaderLines
  BY DEF HeaderLines, IsHeader
<1>2. ASSUME NEW s \in Section, SectionIsWhole(s) PROVE SectionIsWhole(s)'
  BY <1>1, <1>2 DEF SectionIsWhole
<1> QED
  BY <1>1, <1>2

-----------------------------------------------------------------------------
\* A header ends the section before it.
LEMMA HeaderRead ==
  ASSUME DiffInv, NEW h \in Headers, ReadHeader(h)
  PROVE  DiffInv'
<1>1. Cutting /\ HeadsInOrder /\ diff \in Seq(Line) /\ sections \in Seq(Section) /\ step = "reading"
  BY DEF DiffInv, ReadHeader
<1>2. /\ step' = "reading" /\ diff' = Append(diff, h) /\ ~Unparsed
      /\ body' = <<>> /\ header' = Len(diff) + 1
      /\ IF header = 0 THEN sections' = sections ELSE sections' = Append(sections, Current)
  BY <1>1 DEF ReadHeader, PushSection
<1>3. PICK n \in Nat : n = Len(diff)
  BY <1>1
<1>4. h \in Line /\ h.kind = "git"
  BY DiffAssumption DEF Line
<1>5. /\ diff' \in Seq(Line) /\ Len(diff') = n + 1 /\ HeaderLines' = HeaderLines \cup {n + 1}
      /\ HeaderLines \subseteq 1 .. n /\ \A i \in HeaderLines : diff'[i] = diff[i]
  BY <1>1, <1>2, <1>3, <1>4, LineMore
<1>6. /\ sections' \in Seq(Section) /\ HeadsInOrder'
      /\ {sections'[k].head : k \in DOMAIN sections'} = HeaderLines
      /\ \A k \in DOMAIN sections' : sections'[k] \in Section /\ IsEnded(sections[k])'
  <2>1. CASE header = 0
    <3>1. HeaderLines = {}
      BY <1>1, <1>5, <2>1 DEF Cutting
    <3>2. DOMAIN sections = {}
      BY <1>1, <3>1 DEF Cutting
    <3> QED
      BY <1>1, <1>2, <2>1, <3>1, <3>2 DEF HeadsInOrder
  <2>2. CASE header # 0
    <3>1. /\ Current \in Section /\ Current.head = header /\ Current.body = body
          /\ sections' \in Seq(Section) /\ HeadsInOrder'
          /\ {sections'[k].head : k \in DOMAIN sections'} = HeaderLines
      BY <1>1, <1>2, <2>2, PushedInOrder
    <3>2. ASSUME NEW s \in Section, IsEnded(s) PROVE IsEnded(s)'
      BY <1>1, <1>3, <1>5, <3>2, EndedStays
    <3>3. ASSUME NEW s \in Section, s = Current PROVE IsEnded(s)'
      <4>1. s.head = header /\ s.body = body /\ header \in Nat
        <5>1. header \in 1 .. n
          BY <1>1, <1>5, <2>2 DEF Cutting
        <5> QED
          BY <3>1, <3>3, <5>1
      <4>2. IsFrom(s.body, s.head + 1, (n + 1) - 1) /\ header <= n
        <5>1. IsFrom(body, header + 1, n)
          BY <1>1, <1>3 DEF Cutting
        <5>2. (n + 1) - 1 = n
          OBVIOUS
        <5>3. header \in 1 .. n
          BY <1>1, <1>5, <2>2 DEF Cutting
        <5> QED
          BY <4>1, <5>1, <5>2, <5>3
      <4>3. \A i \in HeaderLines' : i > s.head => n + 1 <= i
        <5> TAKE i \in HeaderLines'
        <5>1. CASE i \in HeaderLines
          <6>1. i <= header
            BY <1>1, <5>1 DEF Cutting
          <6>2. i \in 1 .. n
            BY <1>5, <5>1
          <6> QED
            BY <4>1, <6>1, <6>2
        <5> QED
          BY <1>5, <5>1
      <4>4. n + 1 \in HeaderLines' /\ n + 1 > s.head
        BY <1>5, <4>1, <4>2
      <4> QED
        BY <4>2, <4>3, <4>4 DEF IsEnded, IsFrom
    <3>4. ASSUME NEW k \in DOMAIN sections' PROVE sections'[k] \in Section /\ IsEnded(sections[k])'
      <4>1. PICK s \in Section : s = sections'[k]
        BY <3>1, <3>4
      <4>2. CASE k \in DOMAIN sections
        <5>1. s = sections[k]
          BY <1>1, <1>2, <2>2, <3>1, <4>1, <4>2, SectionMore
        <5>2. IsEnded(s)
          BY <1>1, <4>2, <5>1 DEF Cutting
        <5>3. IsEnded(s)'
          BY <3>2, <5>2
        <5> QED
          BY <4>1, <5>3
      <4>3. CASE k \notin DOMAIN sections
        <5>1. s = Current
          BY <1>1, <1>2, <2>2, <3>1, <3>4, <4>1, <4>3, SectionMore
        <5>2. IsEnded(s)'
          BY <3>3, <5>1
        <5> QED
          BY <4>1, <5>2
      <4> QED
        BY <4>2, <4>3
    <3> QED
      BY <3>1, <3>4
  <2> QED
    BY <2>1, <2>2
<1>7. Cutting'
  <2>1. header' \in HeaderLines' /\ \A i \in HeaderLines' : i <= header'
    <3>1. header' = n + 1
      BY <1>2, <1>3
    <3>2. HeaderLines \subseteq 1 .. n /\ HeaderLines' = HeaderLines \cup {n + 1}
      BY <1>5
    <3>3. \A i \in 1 .. n : i <= n + 1
      OBVIOUS
    <3>4. ASSUME NEW i \in HeaderLines' PROVE i <= n + 1
      <4>1. CASE i = n + 1
        BY <4>1
      <4>2. CASE i # n + 1
        BY <3>2, <3>3, <4>2
      <4> QED
        BY <4>1, <4>2
    <3> QED
      BY <3>1, <3>2, <3>4
  <2>2. diff' # <<>>
    BY <1>5
  <2>3. IsFrom(<<>>, n + 1 + 1, n + 1)
    <3>1. PICK b : b = <<>>
      OBVIOUS
    <3>2. b \in Seq(Nat) /\ DOMAIN b = {} /\ Len(b) = 0
      BY <3>1
    <3>3. ToSet(b) = {}
      BY <3>2 DEF ToSet
    <3>4. n + 1 + 1 .. n + 1 = {} /\ n + 1 - (n + 1 + 1) + 1 = 0
      OBVIOUS
    <3>5. IsFrom(b, n + 1 + 1, n + 1)
      BY <3>2, <3>3, <3>4 DEF IsFrom
    <3> QED
      BY <3>1, <3>5
  <2>4. HeaderLines' \ {header'} = HeaderLines
    BY <1>2, <1>3, <1>5
  <2>5. ASSUME NEW i \in HeaderLines PROVE diff'[i].parses
    <3>1. i # header => diff[i].parses
      BY <1>1 DEF Cutting
    <3>2. i = header => diff[i].parses
      BY <1>2, <1>5 DEF Unparsed
    <3> QED
      BY <1>5, <3>1, <3>2
  <2>6. IsFrom(body, header + 1, Len(diff))'
    BY <1>2, <1>3, <1>5, <2>3 DEF IsFrom
  <2> QED
    BY <1>6, <2>1, <2>2, <2>4, <2>5, <2>6 DEF Cutting
<1> QED
  BY <1>2, <1>5, <1>6, <1>7 DEF DiffInv

\* A line more is a line more of the section that is read.
LEMMA LineRead ==
  ASSUME DiffInv, NEW k \in Kinds, ReadLine(k)
  PROVE  DiffInv'
<1>1. Cutting /\ HeadsInOrder /\ diff \in Seq(Line) /\ sections \in Seq(Section) /\ step = "reading"
  BY DEF DiffInv, ReadLine
<1>2. /\ step' = "reading" /\ diff' = Append(diff, [kind |-> k]) /\ header' = header /\ sections' = sections
      /\ body' = Append(body, Len(diff) + 1) /\ diff # <<>>
  BY <1>1 DEF ReadLine
<1>3. PICK n \in Nat : n = Len(diff)
  BY <1>1
<1>4. PICK l \in Line : l = [kind |-> k] /\ l.kind # "git"
  <2>1. [kind |-> k] \in [kind : Kinds] /\ [kind |-> k].kind = k /\ k # "git"
    BY DEF Kinds
  <2>2. [kind |-> k] \in Line
    BY <2>1 DEF Line
  <2> QED
    BY <2>1, <2>2
<1>5. /\ diff' \in Seq(Line) /\ Len(diff') = n + 1 /\ HeaderLines' = HeaderLines
      /\ HeaderLines \subseteq 1 .. n /\ \A i \in HeaderLines : diff'[i] = diff[i]
  BY <1>1, <1>2, <1>3, <1>4, LineMore
<1>6. header \in HeaderLines /\ header \in 1 .. n /\ IsFrom(body, header + 1, n)
  BY <1>1, <1>2, <1>3, <1>5 DEF Cutting
<1>7. IsFrom(body', header + 1, n + 1)
  <2>1. PICK t : t = <<n + 1>>
    OBVIOUS
  <2>2. t \in Seq(Nat) /\ DOMAIN t = {1} /\ t[1] = n + 1
    BY <2>1
  <2>3. body \in Seq(Nat) /\ ToSet(body) = header + 1 .. n /\ Len(body) = n - (header + 1) + 1
    BY <1>6 DEF IsFrom
  <2>4. body' = body \o t
    BY <1>2, <1>3, <2>1, <2>3
  <2>5. PICK b : b = body'
    OBVIOUS
  <2>6. b = body \o t
    BY <2>4, <2>5
  <2>7. b \in Seq(Nat) /\ ToSet(b) = ToSet(body) \cup ToSet(t)
    BY ZenonT(40), <2>2, <2>3, <2>6, JoinedMembers
  <2>8. ToSet(t) = {n + 1}
    BY <2>2 DEF ToSet
  <2>9. ToSet(b) = header + 1 .. n + 1
    BY <1>6, <2>3, <2>7, <2>8
  <2>10. Len(b) = Len(body) + 1
    BY <1>2, <1>3, <2>3, <2>5
  <2>11. Len(b) = (n + 1) - (header + 1) + 1
    BY <1>6, <2>3, <2>10
  <2>12. IsFrom(b, header + 1, n + 1)
    BY <2>7, <2>9, <2>11, Zenon DEF IsFrom
  <2> QED
    BY <2>5, <2>12
<1>8. ASSUME NEW j \in DOMAIN sections PROVE IsEnded(sections[j])'
  <2>1. PICK s \in Section : s = sections[j]
    BY <1>1, <1>8
  <2>2. IsEnded(s)
    BY <1>1, <1>8, <2>1 DEF Cutting
  <2>3. IsEnded(s)'
    BY <1>1, <1>3, <1>5, <2>2, EndedStays
  <2> QED
    BY <1>2, <2>1, <2>3
<1>9. Cutting'
  <2>1. header' \in HeaderLines' /\ \A i \in HeaderLines' : i <= header'
    BY <1>1, <1>2, <1>5, <1>6 DEF Cutting
  <2>2. diff' # <<>>
    BY <1>5
  <2>3. {sections'[j].head : j \in DOMAIN sections'} = HeaderLines' \ {header'}
    BY <1>1, <1>2, <1>5 DEF Cutting
  <2>4. \A i \in HeaderLines' \ {header'} : diff'[i].parses
    BY <1>1, <1>2, <1>5 DEF Cutting
  <2>5. IsFrom(body, header + 1, Len(diff))'
    BY <1>2, <1>3, <1>5, <1>7 DEF IsFrom
  <2>6. \A j \in DOMAIN sections' : IsEnded(sections[j])'
    BY <1>2, <1>8
  <2> QED
    BY <2>1, <2>2, <2>3, <2>4, <2>5, <2>6 DEF Cutting
<1> QED
  BY <1>1, <1>2, <1>5, <1>9 DEF DiffInv, HeadsInOrder

\* At the end of the diff every header has its section.
LEMMA EndRead ==
  ASSUME DiffInv, ReadEnd
  PROVE  DiffInv'
<1>1. Cutting /\ HeadsInOrder /\ diff \in Seq(Line) /\ sections \in Seq(Section) /\ step = "reading"
  BY DEF DiffInv, ReadEnd
<1>2. /\ step' = "read" /\ diff' = diff
      /\ IF header = 0 THEN sections' = sections ELSE sections' = Append(sections, Current)
  BY <1>1 DEF ReadEnd, PushSection
<1>3. HeaderLines' = HeaderLines
  BY <1>2, WholeStays
<1>4. PICK n \in Nat : n = Len(diff) /\ HeaderLines \subseteq 1 .. n
  BY <1>1 DEF HeaderLines
<1>5. /\ sections' \in Seq(Section) /\ HeadsInOrder'
      /\ {sections'[k].head : k \in DOMAIN sections'} = HeaderLines
      /\ \A k \in DOMAIN sections' : sections'[k] \in Section /\ SectionIsWhole(sections[k])'
  <2>1. CASE header = 0
    <3>1. HeaderLines = {}
      BY <1>1, <1>4, <2>1 DEF Cutting
    <3>2. DOMAIN sections = {}
      BY <1>1, <3>1 DEF Cutting
    <3> QED
      BY <1>1, <1>2, <2>1, <3>1, <3>2 DEF HeadsInOrder
  <2>2. CASE header # 0
    <3>1. /\ Current \in Section /\ Current.head = header /\ Current.body = body
          /\ sections' \in Seq(Section) /\ HeadsInOrder'
          /\ {sections'[k].head : k \in DOMAIN sections'} = HeaderLines
      BY <1>1, <1>2, <2>2, PushedInOrder
    <3>2. SectionIsWhole(Current)
      <4>1. PICK later : later = {i \in HeaderLines : i > header}
        OBVIOUS
      <4>2. header \in 1 .. n /\ IsFrom(body, header + 1, n)
        BY <1>1, <1>4, <2>2 DEF Cutting
      <4>3. later = {}
        <5>1. \A i \in HeaderLines : i <= header
          BY <1>1 DEF Cutting
        <5>2. \A i \in HeaderLines : ~(i > header)
          BY <1>4, <4>2, <5>1
        <5> QED
          BY <4>1, <5>2
      <4>4. ToSet(body) = header + 1 .. n /\ Len(body) = n - header
        BY <4>2 DEF IsFrom
      <4> QED
        BY <1>4, <3>1, <4>1, <4>3, <4>4 DEF SectionIsWhole
    <3>3. ASSUME NEW k \in DOMAIN sections' PROVE sections'[k] \in Section /\ SectionIsWhole(sections[k])'
      <4>1. PICK s \in Section : s = sections'[k]
        BY <3>1, <3>3
      <4>2. SectionIsWhole(s)
        <5>1. CASE k \in DOMAIN sections
          <6>1. s = sections[k]
            BY <1>1, <1>2, <2>2, <3>1, <4>1, <5>1, SectionMore
          <6>2. IsEnded(s)
            BY <1>1, <5>1, <6>1 DEF Cutting
          <6> QED
            BY <1>1, <6>2, EndedIsWhole
        <5>2. CASE k \notin DOMAIN sections
          <6>1. s = Current
            BY <1>1, <1>2, <2>2, <3>1, <3>3, <4>1, <5>2, SectionMore
          <6> QED
            BY <3>2, <6>1
        <5> QED
          BY <5>1, <5>2
      <4>3. SectionIsWhole(s)'
        BY <1>2, <4>2, WholeStays
      <4> QED
        BY <4>1, <4>3
    <3> QED
      BY <3>1, <3>3
  <2> QED
    BY <2>1, <2>2
<1> QED
  <2>1. \A k \in DOMAIN sections' : sections'[k].head \in HeaderLines'
    BY <1>3, <1>5
  <2> QED
    BY <1>1, <1>2, <1>3, <1>5, <2>1 DEF DiffInv

\* A header that git quoted is where it ends otherwise.
LEMMA EndedByPath ==
  ASSUME DiffInv, UnwrapFails
  PROVE  DiffInv'
<1>1. Cutting /\ diff \in Seq(Line) /\ sections \in Seq(Section) /\ step = "reading"
  BY DEF DiffInv, UnwrapFails
<1>2. step' = "panicked" /\ diff' = diff /\ sections' = sections /\ header # 0 /\ ~diff[header].parses
  BY DEF UnwrapFails, Panic, Unparsed
<1>3. HeaderLines' = HeaderLines
  BY <1>2, WholeStays
<1>4. header \in HeaderLines
  BY <1>1, <1>2 DEF Cutting
<1>5. ASSUME NEW k \in DOMAIN sections
      PROVE  sections[k].head \in HeaderLines /\ SectionIsWhole(sections[k])'
  <2>1. PICK s \in Section : s = sections[k]
    BY <1>1, <1>5
  <2>2. IsEnded(s) /\ s.head \in HeaderLines
    BY <1>1, <1>5, <2>1 DEF Cutting
  <2>3. SectionIsWhole(s)
    BY <1>1, <2>2, EndedIsWhole
  <2>4. SectionIsWhole(s)'
    BY <1>2, <2>3, WholeStays
  <2> QED
    BY <1>2, <2>1, <2>2, <2>4
<1>6. \A k \in DOMAIN sections' : sections'[k].head \in HeaderLines' /\ SectionIsWhole(sections[k])'
  BY <1>2, <1>3, <1>5
<1> QED
  BY <1>1, <1>2, <1>3, <1>4, <1>6 DEF DiffInv

-----------------------------------------------------------------------------
\* As many sections as headers.
LEMMA SectionsCounted ==
  ASSUME DiffInv, step = "read"
  PROVE  Cardinality(HeaderLines) = Len(sections)
<1>1. HeadsInOrder /\ sections \in Seq(Section) /\ {sections[k].head : k \in DOMAIN sections} = HeaderLines
  BY DEF DiffInv
<1>2. PICK n \in Nat : n = Len(sections) /\ DOMAIN sections = 1 .. n
  BY <1>1
<1>3. PICK t : t = [k \in 1 .. n |-> sections[k].head]
  OBVIOUS
<1>4. t \in Seq(Nat) /\ DOMAIN t = 1 .. n /\ Len(t) = n /\ \A k \in 1 .. n : t[k] = sections[k].head
  <2>1. \A k \in 1 .. n : sections[k] \in Section
    BY <1>1, <1>2
  <2>2. \A k \in 1 .. n : sections[k].head \in Nat
    BY <2>1 DEF Section
  <2> QED
    BY <1>3, <2>2
<1>5. Distinct(t)
  <2>1. ASSUME NEW k \in 1 .. n, NEW l \in 1 .. n, k # l PROVE t[k] # t[l]
    <3>1. k < l => t[k] < t[l]
      BY <1>1, <1>2, <1>4 DEF HeadsInOrder
    <3>2. l < k => t[l] < t[k]
      BY <1>1, <1>2, <1>4 DEF HeadsInOrder
    <3>3. t[k] \in Nat /\ t[l] \in Nat /\ (k < l \/ l < k)
      BY <1>4, <2>1
    <3> QED
      BY <3>1, <3>2, <3>3
  <2> QED
    BY <1>4, <2>1 DEF Distinct
<1>6. ToSet(t) = HeaderLines
  <2>1. ToSet(t) = {t[k] : k \in 1 .. n}
    BY <1>4 DEF ToSet
  <2>2. {t[k] : k \in 1 .. n} = {sections[k].head : k \in 1 .. n}
    BY <1>4
  <2> QED
    BY <1>1, <1>2, <2>1, <2>2
<1> QED
  BY <1>2, <1>4, <1>5, <1>6, DistinctMembers

\* A section is left, or counted once.
LEMMA FilesFiltered ==
  ASSUME DiffInv, FilterFiles
  PROVE  DiffInv'
<1>1. /\ diff \in Seq(Line) /\ sections \in Seq(Section) /\ step = "read"
      /\ \A k \in DOMAIN sections : sections[k].head \in HeaderLines /\ SectionIsWhole(sections[k])
  BY DEF DiffInv, FilterFiles
<1>2. PICK I : I = {i \in DOMAIN sections : ~IsFiltered(sections[i])}
  OBVIOUS
<1>3. /\ step' = "filtered" /\ diff' = diff /\ sections' = Picked(sections, I)
      /\ counter' = [c \in Filters |-> Cardinality(Counted(c))]
  BY <1>2 DEF FilterFiles
<1>4. HeaderLines' = HeaderLines
  BY <1>3, WholeStays
<1>5. PICK n \in Nat : n = Len(sections) /\ DOMAIN sections = 1 .. n
  BY <1>1
<1>6. I \cap DOMAIN sections = I /\ I \in SUBSET (1 .. n)
  BY <1>2, <1>5
<1>7. sections' \in Seq(Section) /\ ToSet(sections') = {sections[i] : i \in I}
  BY <1>1, <1>3, <1>6, PickedPlaces, PickedMembers
<1>8. ASSUME NEW k \in DOMAIN sections'
      PROVE  /\ sections'[k].head \in HeaderLines /\ SectionIsWhole(sections[k])'
             /\ diff[sections'[k].head].filters = {}
  <2>1. sections'[k] \in ToSet(sections')
    BY <1>8 DEF ToSet
  <2>2. PICK i \in I : sections'[k] = sections[i]
    BY <1>7, <2>1
  <2>3. PICK s \in Section : s = sections[i]
    BY <1>1, <1>6, <1>5
  <2>4. s.head \in HeaderLines /\ SectionIsWhole(s)
    BY <1>1, <1>5, <1>6, <2>3
  <2>5. SectionIsWhole(s)'
    BY <1>3, <2>4, WholeStays
  <2>6. diff[s.head].filters = {}
    BY <1>2, <2>3 DEF IsFiltered, PathFilters
  <2> QED
    BY <2>2, <2>3, <2>4, <2>5, <2>6
<1>9. Len(sections') + SumFunctionOnSet(counter', Filters) = Cardinality(HeaderLines)
  <2>1. PICK f : f = [c \in Filters |-> Counted(c)]
    OBVIOUS
  <2>2. PICK F : F = {i \in 1 .. n : IsFiltered(sections[i])}
    OBVIOUS
  <2>3. \A c \in Filters : f[c] = {i \in F : c = Min(PathFilters(sections[i]))}
    BY <1>5, <2>1, <2>2 DEF Counted
  <2>4. f \in [Filters -> SUBSET (1 .. n)] /\ \A c, d \in Filters : c # d => f[c] \cap f[d] = {}
    <3>1. \A c \in Filters : f[c] \in SUBSET (1 .. n)
      BY <2>2, <2>3
    <3>2. \A c, d \in Filters : c # d => f[c] \cap f[d] = {}
      BY <2>3
    <3> QED
      BY <2>1, <3>1, <3>2
  <2>5. ASSUME NEW i \in F PROVE Min(PathFilters(sections[i])) \in Filters
    <3>1. PICK fs : fs = PathFilters(sections[i])
      OBVIOUS
    <3>2. fs # {} /\ fs \in SUBSET Filters
      <4>1. sections[i].head \in HeaderLines
        BY <1>1, <1>5, <2>2
      <4>2. diff[sections[i].head] \in Headers
        BY <1>1, <4>1 DEF HeaderLines, IsHeader, Line, Kinds
      <4> QED
        BY <2>2, <3>1, <4>2, DiffAssumption DEF IsFiltered, PathFilters
    <3>3. fs \in SUBSET Nat
      BY <3>2, DiffAssumption
    <3>4. PICK m \in fs : \A j \in fs : m <= j
      BY <3>2, <3>3, SmallestExists
    <3>5. Min(fs) \in fs
      BY <3>4 DEF Min
    <3> QED
      BY <3>1, <3>2, <3>5
  <2>6. UNION {f[c] : c \in Filters} = F
    <3>1. \A i \in F : \E c \in Filters : i \in f[c]
      BY <2>3, <2>5
    <3>2. \A c \in Filters : \A i \in f[c] : i \in F
      BY <2>3
    <3> QED
      BY <3>1, <3>2
  <2>7. PICK cnt : cnt = counter'
    OBVIOUS
  <2>8. cnt = [c \in Filters |-> Cardinality(f[c])]
    BY <1>3, <2>1, <2>7
  <2>9. SumFunctionOnSet(cnt, Filters) = Cardinality(UNION {f[c] : c \in Filters})
    <3>1. IsFiniteSet(Filters)
      BY DiffAssumption
    <3> QED
      BY <2>4, <2>8, <3>1, SumOfParts
  <2>10. IsFiniteSet(I) /\ Len(sections') \in Nat /\ Cardinality(I) = Len(sections')
    BY <1>1, <1>3, <1>6, PickedLength
  <2>11. IsFiniteSet(1 .. n) /\ Cardinality(1 .. n) = n
    <3>1. 1 \in Int /\ n \in Int /\ (1 > n => n = 0) /\ n - 1 + 1 = n
      OBVIOUS
    <3> QED
      BY <3>1, FS_Interval
  <2>12. IsFiniteSet(F) /\ Cardinality(F) \in Nat
    <3>1. F \in SUBSET (1 .. n)
      BY <2>2
    <3> QED
      BY <2>11, <3>1, FS_Subset, FS_CardinalityType
  <2>13. I \cup F = 1 .. n /\ I \cap F = {}
    BY <1>2, <1>5, <2>2
  <2>14. n = Len(sections') + Cardinality(F)
    <3>1. Cardinality(I \cup F) = Cardinality(I) + Cardinality(F) - Cardinality(I \cap F)
      BY <2>10, <2>12, FS_Union
    <3>2. Cardinality(I \cap F) = 0
      BY <2>13, FS_EmptySet
    <3>3. PICK a \in Nat, b \in Nat : a = Len(sections') /\ b = Cardinality(F)
      BY <2>10, <2>12
    <3>4. n = a + b - 0
      BY <2>10, <2>11, <2>13, <3>1, <3>2, <3>3
    <3> QED
      BY <3>3, <3>4
  <2>15. n = Cardinality(HeaderLines)
    BY <1>1, <1>5, SectionsCounted
  <2> QED
    BY <2>6, <2>7, <2>9, <2>14, <2>15
<1> QED
  BY <1>1, <1>3, <1>4, <1>7, <1>8, <1>9 DEF DiffInv

\* One generalist is enough only for a diff in none of the languages.
LEMMA SizeAsked ==
  ASSUME DiffInv, AskSize
  PROVE  DiffInv'
<1>1. /\ diff \in Seq(Line) /\ sections \in Seq(Section) /\ step = "filtered"
      /\ \A k \in DOMAIN sections : sections[k].head \in HeaderLines /\ SectionIsWhole(sections[k])
      /\ Len(sections) + SumFunctionOnSet(counter, Filters) = Cardinality(HeaderLines)
      /\ \A k \in DOMAIN sections : diff[sections[k].head].filters = {}
  BY DEF DiffInv, AskSize
<1>2. step' = "asked" /\ diff' = diff /\ sections' = sections /\ counter' = counter
  BY DEF AskSize
<1>3. HeaderLines' = HeaderLines
  BY <1>2, WholeStays
<1>4. single' => \A i \in HeaderLines : ~diff[i].full
  <2>1. single' = (/\ ~TouchesFullPanelLanguages
                   /\ Len(sections) <= SmallFiles
                   /\ LineCount <= SmallLines)
    BY DEF AskSize
  <2>2. single' => ~TouchesFullPanelLanguages
    BY <2>1, Zenon
  <2> QED
    BY <2>2 DEF TouchesFullPanelLanguages
<1>5. \A k \in DOMAIN sections : SectionIsWhole(sections[k])'
  <2> TAKE k \in DOMAIN sections
  <2>1. PICK s \in Section : s = sections[k]
    BY <1>1
  <2>2. SectionIsWhole(s)'
    BY <1>1, <1>2, <2>1, WholeStays
  <2> QED
    BY <1>2, <2>1, <2>2
<1>6. \A k \in DOMAIN sections' :
        /\ sections'[k].head \in HeaderLines' /\ SectionIsWhole(sections[k])'
        /\ diff'[sections'[k].head].filters = {}
  BY <1>1, <1>2, <1>3, <1>5
<1> QED
  BY <1>1, <1>2, <1>3, <1>4, <1>6 DEF DiffInv

\* Nothing is read yet.
LEMMA DiffStarts == DiffInit => DiffInv
<1> SUFFICES ASSUME DiffInit PROVE DiffInv
  OBVIOUS
<1>1. diff = <<>> /\ sections = <<>> /\ header = 0 /\ body = <<>> /\ step = "reading"
  BY DEF DiffInit
<1>2. HeaderLines = {}
  BY <1>1 DEF HeaderLines
<1>3. IsFrom(body, header + 1, Len(diff))
  <2>1. body \in Seq(Nat) /\ DOMAIN body = {} /\ Len(body) = 0 /\ Len(diff) = 0
    BY <1>1
  <2>2. ToSet(body) = {}
    BY <2>1 DEF ToSet
  <2>3. 0 + 1 .. 0 = {} /\ 0 - (0 + 1) + 1 = 0
    OBVIOUS
  <2> QED
    BY <1>1, <2>1, <2>2, <2>3 DEF IsFrom
<1>4. diff \in Seq(Line) /\ sections \in Seq(Section) /\ DOMAIN sections = {}
  BY <1>1
<1>5. Cutting /\ HeadsInOrder
  BY <1>1, <1>2, <1>3, <1>4 DEF Cutting, HeadsInOrder
<1> QED
  BY <1>1, <1>4, <1>5 DEF DiffInv

\* Every line that is read, and every step after, keeps the diff in its sections.
LEMMA DiffSteps == DiffInv /\ [DiffNext]_diffVars => DiffInv'
<1> SUFFICES ASSUME DiffInv, [DiffNext]_diffVars PROVE DiffInv'
  OBVIOUS
<1>1. CASE \E h \in Headers : ReadHeader(h)
  BY <1>1, HeaderRead
<1>2. CASE \E k \in Kinds : ReadLine(k)
  BY <1>2, LineRead
<1>3. CASE ReadEnd
  BY <1>3, EndRead
<1>4. CASE UnwrapFails
  BY <1>4, EndedByPath
<1>5. CASE FilterFiles
  BY <1>5, FilesFiltered
<1>6. CASE AskSize
  BY <1>6, SizeAsked
<1>7. CASE UNCHANGED diffVars
  <2>1. /\ diff' = diff /\ sections' = sections /\ header' = header /\ body' = body /\ step' = step
        /\ counter' = counter /\ single' = single
    BY <1>7 DEF diffVars
  <2>2. HeaderLines' = HeaderLines
    BY <2>1 DEF HeaderLines, IsHeader
  <2>3. \A k \in DOMAIN sections : IsEnded(sections[k]) => IsEnded(sections[k])'
    BY <2>1, <2>2 DEF IsEnded, IsFrom
  <2>4. step = "reading" => Cutting' /\ HeadsInOrder'
    <3>1. IsFrom(body, header + 1, Len(diff)) => IsFrom(body, header + 1, Len(diff))'
      BY <2>1 DEF IsFrom
    <3> QED
      BY <2>1, <2>2, <2>3, <3>1 DEF DiffInv, Cutting, HeadsInOrder
  <2>5. step # "reading" => \A k \in DOMAIN sections :
          sections[k].head \in HeaderLines /\ SectionIsWhole(sections[k])'
    <3> SUFFICES ASSUME step # "reading", NEW k \in DOMAIN sections
                 PROVE  sections[k].head \in HeaderLines /\ SectionIsWhole(sections[k])'
      OBVIOUS
    <3>1. PICK s \in Section : s = sections[k] /\ SectionIsWhole(s) /\ s.head \in HeaderLines
      BY DEF DiffInv
    <3>2. SectionIsWhole(s)'
      BY <2>1, <3>1, WholeStays
    <3> QED
      BY <2>1, <3>1, <3>2
  <2> QED
    BY <2>1, <2>2, <2>4, <2>5 DEF DiffInv, HeadsInOrder
<1> QED
  BY <1>1, <1>2, <1>3, <1>4, <1>5, <1>6, <1>7 DEF DiffNext

\* Nothing is lost between the diff and what the agents are chosen by: whatever
\* is read, in whatever order, a file is a section, whole, or counted once among
\* the dropped ones, no changed line is stripped, and a diff in a language that
\* needs the panel is not left to one generalist.
THEOREM DiffStaysWhole == DiffSpec => []DiffIsWhole
<1>1. DiffInv => DiffIsWhole
  <2> SUFFICES ASSUME DiffInv PROVE DiffIsWhole
    OBVIOUS
  <2>1. /\ diff \in Seq(Line) /\ sections \in Seq(Section)
        /\ ToSet(sections) = {sections[k] : k \in DOMAIN sections}
    BY DEF DiffInv, ToSet
  <2>2. step # "reading" => \A s \in ToSet(sections) : SectionIsWhole(s)
    BY <2>1 DEF DiffInv
  <2>3. step = "read" => {s.head : s \in ToSet(sections)} = HeaderLines
    <3>1. {s.head : s \in ToSet(sections)} = {sections[k].head : k \in DOMAIN sections}
      BY <2>1
    <3> QED
      BY <3>1 DEF DiffInv
  <2>4. step \in {"filtered", "asked"} =>
          /\ Len(sections) + SumFunctionOnSet(counter, Filters) = Cardinality(HeaderLines)
          /\ \A s \in ToSet(sections) : diff[s.head].filters = {}
    BY <2>1 DEF DiffInv
  <2>5. PICK n \in Nat : DOMAIN diff = 1 .. n
    BY <2>1
  <2>6. PICK kept : kept = StripDiffMetadata
    OBVIOUS
  <2>7. Ordered(kept) /\ \A i \in 1 .. n : IsChanged(i) => i \in ToSet(kept)
    BY <2>5, <2>6, StrippingLosesNoChange
  <2>8. step = "asked" /\ single => \A i \in HeaderLines : ~diff[i].full
    BY DEF DiffInv
  <2>9. step = "panicked" => \E i \in HeaderLines : ~diff[i].parses
    BY DEF DiffInv
  <2> QED
    BY <2>2, <2>3, <2>4, <2>5, <2>6, <2>7, <2>8, <2>9 DEF DiffIsWhole, Ordered
<1> QED
  BY <1>1, DiffStarts, DiffSteps, PTL DEF DiffSpec

-----------------------------------------------------------------------------
(* The types of the diff.                                                  *)

\* The lines of a section are lines of the diff.
Within(s, lines) == s.head \in lines /\ ToSet(s.body) \subseteq lines

DiffTyped ==
  /\ \A k \in DOMAIN sections : Within(sections[k], DOMAIN diff)
  /\ header \in 0 .. Len(diff) /\ ToSet(body) \subseteq DOMAIN diff
  /\ counter \in [Filters -> Nat] /\ single \in BOOLEAN

\* A diff starts with no line read and no section cut.
LEMMA DiffStartsTyped == DiffInit => DiffTyped
<1> SUFFICES ASSUME DiffInit PROVE DiffTyped
  OBVIOUS
<1>1. diff = <<>> /\ sections = <<>> /\ body = <<>> /\ header = 0 /\ single = FALSE
  BY DEF DiffInit
<1>2. DOMAIN sections = {} /\ ToSet(body) = {} /\ Len(diff) = 0
  BY <1>1 DEF ToSet
<1>3. counter \in [Filters -> Nat]
  BY DEF DiffInit
<1>4. header \in 0 .. Len(diff)
  BY <1>1
<1>5. ToSet(body) \subseteq DOMAIN diff
  BY <1>2
<1>6. \A k \in DOMAIN sections : Within(sections[k], DOMAIN diff)
  BY <1>2
<1>7. single \in BOOLEAN
  BY <1>1
<1> QED
  BY <1>3, <1>4, <1>5, <1>6, <1>7 DEF DiffTyped

\* What is pushed is a section of lines that were read.
LEMMA PushedWithin ==
  ASSUME DiffTyped, DiffInv, NEW n, PushSection(n), diff' = diff \/ \E l \in Line : diff' = Append(diff, l)
  PROVE  /\ \A k \in DOMAIN sections' : Within(sections'[k], DOMAIN diff')
         /\ DOMAIN diff \subseteq DOMAIN diff'
<1>1. diff \in Seq(Line) /\ sections \in Seq(Section)
  BY DEF DiffInv
<1>2. DOMAIN diff \subseteq DOMAIN diff'
  <2>1. ASSUME NEW l \in Line, diff' = Append(diff, l) PROVE DOMAIN diff \subseteq DOMAIN diff'
    BY <1>1, <2>1
  <2> QED
    BY <2>1
<1>3. \A s : Within(s, DOMAIN diff) => Within(s, DOMAIN diff')
  BY <1>2 DEF Within
<1>4. CASE header = 0
  <2>1. sections' = sections
    BY <1>4 DEF PushSection
  <2> QED
    BY <1>2, <1>3, <2>1 DEF DiffTyped, Within
<1>5. CASE header # 0
  <2>1. sections' = Append(sections, Current)
    BY <1>5 DEF PushSection
  <2>2. Within(Current, DOMAIN diff)
    <3>1. header \in DOMAIN diff
      BY <1>1, <1>5 DEF DiffTyped
    <3> QED
      BY <3>1 DEF DiffTyped, Within, Current
  <2>3. PICK c : c = Current
    OBVIOUS
  <2>4. ASSUME NEW k \in DOMAIN sections' PROVE Within(sections'[k], DOMAIN diff)
    <3>1. sections'[k] = c \/ (k \in DOMAIN sections /\ sections'[k] = sections[k])
      BY <1>1, <2>1, <2>3
    <3> QED
      BY <2>2, <2>3, <3>1 DEF DiffTyped
  <2> QED
    BY <1>2, <1>3, <2>4 DEF Within
<1> QED
  BY <1>4, <1>5

\* Every step keeps the types of the diff.
LEMMA DiffStaysTyped == DiffTyped /\ DiffInv /\ [DiffNext]_diffVars => DiffTyped'
<1> SUFFICES ASSUME DiffTyped, DiffInv, [DiffNext]_diffVars PROVE DiffTyped'
  OBVIOUS
<1>1. diff \in Seq(Line) /\ sections \in Seq(Section)
  BY DEF DiffInv
<1>2. ASSUME NEW h \in Headers, ReadHeader(h) PROVE DiffTyped'
  <2>1. /\ diff' = Append(diff, h) /\ PushSection(Len(diff) + 1) /\ counter' = counter /\ single' = single
    BY <1>2 DEF ReadHeader
  <2>2. \A k \in DOMAIN sections' : Within(sections'[k], DOMAIN diff')
    BY <2>1, PushedWithin DEF Line
  <2>3. header' = Len(diff) + 1 /\ body' = <<>> /\ Len(diff') = Len(diff) + 1 /\ Len(diff) \in Nat
    BY <1>1, <2>1 DEF PushSection
  <2>4. ToSet(body') = {}
    BY <2>3 DEF ToSet
  <2> QED
    BY <2>1, <2>2, <2>3, <2>4 DEF DiffTyped
<1>3. ASSUME NEW k \in Kinds, ReadLine(k) PROVE DiffTyped'
  <2>1. /\ diff' = Append(diff, [kind |-> k]) /\ body' = Append(body, Len(diff) + 1) /\ step = "reading"
        /\ UNCHANGED <<sections, header, counter, single>>
    BY <1>3 DEF ReadLine
  <2>2. PICK l : l = [kind |-> k]
    OBVIOUS
  <2>3. Len(diff') = Len(diff) + 1 /\ Len(diff) \in Nat /\ DOMAIN diff' = DOMAIN diff \cup {Len(diff) + 1}
    BY <1>1, <2>1, <2>2
  <2>4. body \in Seq(Nat)
    BY <2>1 DEF DiffInv, Cutting, IsFrom
  <2>5. ToSet(body') = ToSet(body) \cup {Len(diff) + 1}
    <3>1. PICK n \in Nat, m \in Nat : n = Len(diff) + 1 /\ m = Len(body)
      BY <2>3, <2>4
    <3>2. /\ DOMAIN body = 1 .. m /\ DOMAIN body' = 1 .. m + 1 /\ body'[m + 1] = n
          /\ \A i \in 1 .. m : body'[i] = body[i]
      BY <2>1, <2>4, <3>1
    <3>3. 1 .. m + 1 = (1 .. m) \cup {m + 1}
      OBVIOUS
    <3> QED
      BY <3>1, <3>2, <3>3 DEF ToSet
  <2>6. \A i \in DOMAIN sections' : Within(sections'[i], DOMAIN diff')
    BY <2>1, <2>3 DEF DiffTyped, Within
  <2>7. header' \in 0 .. Len(diff')
    BY <2>1, <2>3 DEF DiffTyped
  <2> QED
    BY <2>1, <2>3, <2>5, <2>6, <2>7 DEF DiffTyped
<1>4. CASE ReadEnd
  <2>1. PushSection(0) /\ UNCHANGED <<diff, counter, single>>
    BY <1>4 DEF ReadEnd
  <2>2. \A k \in DOMAIN sections' : Within(sections'[k], DOMAIN diff')
    BY <2>1, PushedWithin
  <2>3. header' = 0 /\ body' = <<>> /\ Len(diff') \in Nat
    BY <1>1, <2>1 DEF PushSection
  <2>4. ToSet(body') = {}
    BY <2>3 DEF ToSet
  <2> QED
    BY <2>1, <2>2, <2>3, <2>4 DEF DiffTyped
<1>5. CASE FilterFiles
  <2>1. UNCHANGED <<diff, header, body, single>>
    BY <1>5 DEF FilterFiles
  <2>2. PICK I : I = {i \in DOMAIN sections : ~IsFiltered(sections[i])}
    OBVIOUS
  <2>3. sections' = Picked(sections, I)
    BY <1>5, <2>2 DEF FilterFiles
  <2>4. ToSet(sections') \subseteq {sections[i] : i \in I \cap DOMAIN sections}
    BY <1>1, <2>3, PickedMembers
  <2>5. \A k \in DOMAIN sections' : sections'[k] \in ToSet(sections')
    BY DEF ToSet
  <2>6. \A k \in DOMAIN sections' : Within(sections'[k], DOMAIN diff')
    BY <2>1, <2>4, <2>5 DEF DiffTyped, Within
  <2>7. ASSUME NEW c \in Filters PROVE Cardinality(Counted(c)) \in Nat
    <3>1. DOMAIN sections = 1 .. Len(sections) /\ Len(sections) \in Nat
      BY <1>1
    <3>2. IsFiniteSet(1 .. Len(sections))
      BY <3>1, FS_Interval
    <3>3. Counted(c) \subseteq 1 .. Len(sections)
      BY <3>1 DEF Counted
    <3> QED
      BY <3>2, <3>3, FS_Subset, FS_CardinalityType
  <2>8. counter' \in [Filters -> Nat]
    BY <1>5, <2>7 DEF FilterFiles
  <2> QED
    BY <2>1, <2>6, <2>8 DEF DiffTyped
<1>6. CASE UnwrapFails \/ AskSize
  <2>1. UNCHANGED <<diff, sections, header, body, counter>> /\ single' \in BOOLEAN
    BY <1>6 DEF UnwrapFails, Panic, AskSize, DiffTyped
  <2> QED
    BY <2>1 DEF DiffTyped, Within
<1>7. CASE UNCHANGED diffVars
  BY <1>7 DEF diffVars, DiffTyped, Within
<1> QED
  BY <1>2, <1>3, <1>4, <1>5, <1>6, <1>7 DEF DiffNext

\* The diff stays typed, however long it is.
LEMMA DiffTypes == DiffSpec => []DiffTypeOK
<1>1. DiffInv /\ DiffTyped => DiffTypeOK
  BY DEF DiffInv, DiffTyped, DiffTypeOK, Line, Within, ToSet
<1> QED
  BY <1>1, DiffStarts, DiffSteps, DiffStartsTyped, DiffStaysTyped, PTL DEF DiffSpec

-----------------------------------------------------------------------------
(* The tools.                                                               *)

Tools == {"none", "shell", "grep", "list_dir"}

\* The types of the file, of the reader and of the commands.
FileIsTyped == text \in Seq(Nat) /\ edits \in Nat

ReaderIsTyped ==
  /\ reader \in [at : Nat, first : Nat, size : Nat, got : Seq(Nat), since : Nat,
                 end : {"idle", "reading", "whole", "panicked", "too_far"}]
  /\ reader.since <= edits

CommandRecords == [tool : Tools, process : {"none", "alive", "over"},
          answer : {"none", "output", "failed", "timeout", "panicked"}]

CommandIsOne(c) ==
  /\ c \in CommandRecords
  /\ c.tool = "none" => c.process = "none"
  /\ c.answer = "timeout" => c.tool \in {"shell", "grep"}
  /\ c.process = "alive" => c.answer \in {"none", "timeout"}

CommandsAreTyped ==
  DOMAIN command = Commands /\ \A q \in Commands : CommandIsOne(command[q])

\* Where the next page begins, and that what came before it was in the file.
PagesJoin ==
  Undisturbed /\ reader.end # "idle" =>
    /\ reader.first >= 1
    /\ reader.got = SubSeq(text, reader.first, reader.first + Len(reader.got) - 1)
    /\ reader.got # <<>> => reader.first + Len(reader.got) <= Len(text) + 1
    /\ reader.end = "reading" => Start + 1 = reader.first + Len(reader.got)
    /\ reader.end = "whole" => reader.first + Len(reader.got) = Len(text) + 1
    /\ reader.end \in {"panicked", "too_far"} => reader.first > Len(text) + 1

ToolInv == FileIsTyped /\ ReaderIsTyped /\ CommandsAreTyped /\ PagesJoin

-----------------------------------------------------------------------------
\* The larger and the smaller of two numbers.
LEMMA Larger == ASSUME NEW a \in Int, NEW b \in Int PROVE Max({a, b}) = IF a >= b THEN a ELSE b
<1> DEFINE m == IF a >= b THEN a ELSE b
<1>1. m \in {a, b} /\ \A y \in {a, b} : m >= y
  OBVIOUS
<1>2. \A x \in {a, b} : (\A y \in {a, b} : x >= y) => x = m
  OBVIOUS
<1> HIDE DEF m
<1>3. Max({a, b}) \in {a, b} /\ \A y \in {a, b} : Max({a, b}) >= y
  BY <1>1 DEF Max
<1> QED
  BY <1>2, <1>3 DEF m

\* The least of two numbers.
LEMMA Smaller == ASSUME NEW a \in Int, NEW b \in Int PROVE Min({a, b}) = IF a <= b THEN a ELSE b
<1> DEFINE m == IF a <= b THEN a ELSE b
<1>1. m \in {a, b} /\ \A y \in {a, b} : m <= y
  OBVIOUS
<1>2. \A x \in {a, b} : (\A y \in {a, b} : x <= y) => x = m
  OBVIOUS
<1> HIDE DEF m
<1>3. Min({a, b}) \in {a, b} /\ \A y \in {a, b} : Min({a, b}) <= y
  BY <1>1 DEF Min
<1> QED
  BY <1>2, <1>3 DEF m

\* A page: where it begins, its size and its lines.
LEMMA PageLemma ==
  ASSUME FileIsTyped, ReaderIsTyped
  PROVE  /\ Start \in Nat /\ PageLines \in Nat \ {0}
         /\ Left \in Int /\ Left = Len(text) - Start
         /\ Page \in Seq(Nat)
         /\ Left >= 0 => /\ Len(Page) = IF PageLines <= Left THEN PageLines ELSE Left
                         /\ Page = SubSeq(text, Start + 1, Start + Len(Page))
<1>1. /\ reader.at \in Nat /\ reader.size \in Nat
      /\ DefaultLines \in Nat \ {0} /\ LeastLines \in Nat \ {0}
      /\ text \in Seq(Nat) /\ Len(text) \in Nat
  BY ToolAssumption DEF FileIsTyped, ReaderIsTyped
<1>2. Start \in Nat
  BY <1>1, Larger DEF Start
<1>3. PageLines \in Nat \ {0}
  <2>1. (IF reader.size = 0 THEN DefaultLines ELSE reader.size) \in Nat
    BY <1>1
  <2> QED
    BY SMTT(30), <1>1, <2>1, Larger DEF PageLines
<1> DEFINE end == Min({Start + PageLines, Len(text)})
<1>4. end = IF Start + PageLines <= Len(text) THEN Start + PageLines ELSE Len(text)
  BY <1>1, <1>2, <1>3, Smaller
<1>5. Page = SubSeq(text, Start + 1, end) /\ end \in Nat /\ end <= Len(text)
  BY <1>1, <1>2, <1>3, <1>4 DEF Page
<1> HIDE DEF end
<1>6. Page \in Seq(Nat)
  BY <1>1, <1>2, <1>5
<1>7. Left = Len(text) - Start /\ Left \in Int
  BY <1>1, <1>2 DEF Left
<1>8. ASSUME Left >= 0 PROVE Len(Page) = end - Start
  BY <1>1, <1>2, <1>3, <1>4, <1>5, <1>7, <1>8
<1> QED
  BY SMTT(30), <1>1, <1>2, <1>3, <1>4, <1>5, <1>6, <1>7, <1>8

-----------------------------------------------------------------------------
\* Nothing was called.
LEMMA ToolsStart == ToolInit => ToolInv
<1> SUFFICES ASSUME ToolInit PROVE ToolInv
  OBVIOUS
<1> USE ToolAssumption DEF ToolInit
<1>1. FileIsTyped
  BY DEF FileIsTyped
<1>2. ReaderIsTyped
  BY DEF ReaderIsTyped, NoReader
<1>3. CommandsAreTyped
  BY DEF CommandsAreTyped, CommandIsOne, CommandRecords, Tools, NoCommand
<1>4. PagesJoin
  BY DEF PagesJoin, NoReader
<1> QED
  BY <1>1, <1>2, <1>3, <1>4 DEF ToolInv

\* A file is opened to be read by pages.
LEMMA OpenFileStep ==
  ASSUME ToolInv, NEW s \in Asked, NEW n \in Asked, OpenFile(s, n)
  PROVE  ToolInv'
<1> USE DEF ToolInv
<1>1. s \in Nat /\ n \in Nat
  BY ToolAssumption
<1>2. Max({s, 1}) \in Nat /\ Max({s, 1}) >= 1
  BY <1>1, Larger
<1>3. /\ reader' = [at |-> s, first |-> Max({s, 1}), size |-> n, got |-> <<>>,
                    since |-> edits, end |-> "reading"]
      /\ UNCHANGED <<text, edits, command>>
  BY DEF OpenFile, NoReader
<1>4. FileIsTyped' /\ CommandsAreTyped'
  BY <1>3 DEF FileIsTyped, CommandsAreTyped
<1>5. ReaderIsTyped'
  <2> DEFINE f == Max({s, 1})
  <2>1. f \in Nat /\ reader' = [at |-> s, first |-> f, size |-> n, got |-> <<>>,
                              since |-> edits, end |-> "reading"]
    BY <1>2, <1>3
  <2> HIDE DEF f
  <2> QED
    BY <1>1, <1>3, <2>1 DEF ReaderIsTyped, FileIsTyped
<1>6. Start' = reader'.first - 1 /\ reader'.first \in Nat /\ reader'.first >= 1
  BY <1>2, <1>3 DEF Start
<1>7. reader'.got = <<>> /\ reader'.end = "reading"
  BY <1>3
<1>8. PagesJoin'
  <2>1. <<>> = SubSeq(text', reader'.first, reader'.first + Len(<<>>) - 1)
    <3>1. Len(<<>>) = 0 /\ reader'.first + Len(<<>>) - 1 < reader'.first
      BY <1>6
    <3> QED
      BY <1>6, <3>1, SubSeqEmpty
  <2> QED
    BY <1>6, <1>7, <2>1 DEF PagesJoin
<1> QED
  BY <1>4, <1>5, <1>8

\* A page of a file is read.
LEMMA ReadFileStep ==
  ASSUME ToolInv, ReadFile
  PROVE  ToolInv'
<1> USE DEF ToolInv
<1>1. reader.end = "reading" /\ UNCHANGED <<text, edits, command>>
  BY DEF ReadFile
<1>2. /\ Start \in Nat /\ PageLines \in Nat \ {0}
      /\ Left \in Int /\ Left = Len(text) - Start
      /\ Page \in Seq(Nat)
      /\ Left >= 0 => /\ Len(Page) = IF PageLines <= Left THEN PageLines ELSE Left
                      /\ Page = SubSeq(text, Start + 1, Start + Len(Page))
  BY PageLemma
<1> FileIsTyped' /\ CommandsAreTyped'
  BY <1>1 DEF FileIsTyped, CommandsAreTyped
<1>3. /\ text \in Seq(Nat) /\ Len(text) \in Nat /\ reader.got \in Seq(Nat)
      /\ Len(reader.got) \in Nat /\ reader.first \in Nat
  BY DEF FileIsTyped, ReaderIsTyped
<1>4. CASE /\ Left < 0
           /\ \E e \in {"panicked", "too_far"} : reader' = [reader EXCEPT !.end = e]
  <2>1. ReaderIsTyped'
    BY <1>1, <1>4 DEF ReaderIsTyped
  <2>2. ASSUME Undisturbed PROVE reader.got = <<>> /\ reader.first > Len(text) + 1
    BY SMTT(30), <1>1, <1>2, <1>3, <1>4, <2>2 DEF PagesJoin
  <2>3. /\ reader'.end \in {"panicked", "too_far"} /\ reader'.got = reader.got
        /\ reader'.first = reader.first /\ reader'.since = reader.since
    BY <1>4 DEF ReaderIsTyped
  <2>4. PagesJoin'
    BY <1>1, <2>2, <2>3 DEF PagesJoin, Undisturbed
  <2> QED
    BY <2>1, <2>4
<1>5. CASE /\ Left >= 0
           /\ reader' = [reader EXCEPT !.got = @ \o Page, !.at = Start + Len(Page) + 1,
                                       !.end = IF IsCut THEN "reading" ELSE "whole"]
  <2> DEFINE got == reader.got \o Page
             end == IF IsCut THEN "reading" ELSE "whole"
  <2>1. /\ reader'.got = got /\ reader'.at = Start + Len(Page) + 1 /\ reader'.end = end
        /\ reader'.first = reader.first /\ reader'.since = reader.since
        /\ reader'.size = reader.size
    BY <1>5 DEF ReaderIsTyped
  <2>2. got \in Seq(Nat) /\ Len(got) = Len(reader.got) + Len(Page) /\ Len(Page) \in Nat
    BY <1>2, <1>3
  <2>3. end \in {"reading", "whole"} /\ (end = "whole" => ~IsCut)
    OBVIOUS
  <2> HIDE DEF got, end
  <2>4. reader' = [at |-> Start + Len(Page) + 1, first |-> reader.first, size |-> reader.size,
                   got |-> got, since |-> reader.since, end |-> end]
    BY <1>5, <2>1 DEF ReaderIsTyped
  <2>5. ReaderIsTyped'
    BY <1>1, <1>2, <2>2, <2>3, <2>4 DEF ReaderIsTyped
  <2>6. Start' = Start + Len(Page)
    <3>1. reader'.at \in Nat /\ reader'.at >= 1 /\ reader'.at = Start + Len(Page) + 1
      BY <1>2, <2>1, <2>2
    <3>2. Max({reader'.at, 1}) = reader'.at
      BY <3>1, Larger
    <3>3. Start' = Max({reader'.at, 1}) - 1
      BY DEF Start
    <3> QED
      BY <1>2, <2>2, <3>1, <3>2, <3>3
  <2>7. PagesJoin'
    <3> SUFFICES ASSUME Undisturbed' PROVE PagesJoin'
      BY DEF PagesJoin
    <3>1. Undisturbed
      BY <1>1, <2>1 DEF Undisturbed
    <3>2. /\ reader.first >= 1
          /\ reader.got = SubSeq(text, reader.first, reader.first + Len(reader.got) - 1)
          /\ reader.got # <<>> => reader.first + Len(reader.got) <= Len(text) + 1
          /\ Start + 1 = reader.first + Len(reader.got)
      BY <1>1, <3>1 DEF PagesJoin
    <3>3. Start <= Len(text) /\ Start + Len(Page) <= Len(text)
      BY SMTT(30), <1>2, <1>3, <1>5
    <3>4. got = SubSeq(text, reader.first, Start + Len(Page))
      <4> DEFINE m == reader.first
                 k == Start
                 n == Start + Len(Page)
      <4> HIDE DEF m, k, n
      <4>5. /\ m \in Nat /\ k \in Nat /\ n \in Nat /\ m >= 1 /\ n = k + Len(Page)
            /\ k + 1 = m + Len(reader.got) /\ k <= Len(text) /\ n <= Len(text)
        BY <1>2, <1>3, <2>2, <3>2, <3>3 DEF m, k, n
      <4>1. m \in 1 .. Len(text) + 1 /\ k \in m - 1 .. Len(text) /\ n \in k .. Len(text)
        BY <1>3, <2>2, <4>5
      <4>2. SubSeq(text, m, k) \o SubSeq(text, k + 1, n) = SubSeq(text, m, n)
        BY <1>3, <4>1, ConcatAdjacentSubSeq
      <4>3. reader.got = SubSeq(text, m, k)
        <5>1. m + Len(reader.got) - 1 = k
          BY <1>3, <4>5
        <5> QED
          BY <3>2, <5>1 DEF m
      <4>4. Page = SubSeq(text, k + 1, n)
        BY <1>2, <1>5 DEF k, n
      <4> QED
        BY <4>2, <4>3, <4>4 DEF got, m, n
    <3>5. end = "whole" => Len(Page) = Left
      BY <1>2, <1>5, <2>2, <2>3 DEF IsCut
    <3>6. reader.first + Len(got) - 1 = Start + Len(Page) /\ Len(got) \in Nat
      <4>1. Start + 1 = reader.first + Len(reader.got)
        BY <3>2
      <4>2. /\ Start \in Int /\ reader.first \in Int /\ Len(reader.got) \in Int
            /\ Len(Page) \in Int /\ Len(got) = Len(reader.got) + Len(Page)
        BY <1>2, <1>3, <2>2
      <4>3. reader.first + Len(got) - 1 = Start + Len(Page)
        BY <4>1, <4>2, Z3
      <4> QED
        BY <2>2, <4>3, LenProperties
    <3>7. reader'.got = SubSeq(text', reader'.first, reader'.first + Len(reader'.got) - 1)
      BY <1>1, <2>1, <3>4, <3>6
    <3>8. reader'.first + Len(reader'.got) <= Len(text') + 1
      BY SMTT(40), <1>1, <1>2, <1>3, <2>1, <2>2, <3>3, <3>6
    <3>9. Start' + 1 = reader'.first + Len(reader'.got)
      <4>1. /\ Start' = Start + Len(Page) /\ reader'.first = reader.first /\ reader'.got = got
            /\ Start \in Int /\ Len(Page) \in Int /\ reader.first \in Int /\ Len(got) \in Int
        BY <1>2, <1>3, <2>1, <2>2, <2>6, <3>6
      <4> QED
        BY <3>6, <4>1
    <3>10. reader'.end = "whole" => reader'.first + Len(reader'.got) = Len(text') + 1
      BY SMTT(40), <1>1, <1>2, <1>3, <2>1, <2>2, <3>5, <3>6
    <3> QED
      BY <2>1, <2>3, <3>2, <3>7, <3>8, <3>9, <3>10 DEF PagesJoin
  <2> QED
    BY <2>5, <2>7
<1> QED
  BY <1>4, <1>5 DEF ReadFile

\* Somebody edits the file.
LEMMA EditStep ==
  ASSUME ToolInv, NEW q \in Commands, Edit(q)
  PROVE  ToolInv'
<1> USE DEF ToolInv
<1>1. /\ edits' = edits + 1 /\ UNCHANGED <<reader, command>>
      /\ text' \in {Append(text, MaxFile + edits + 1), <<>>, SubSeq(text, 1, Len(text) - 1)}
  BY DEF Edit
<1>2. text' \in Seq(Nat)
  <2>1. text \in Seq(Nat) /\ MaxFile + edits + 1 \in Nat
    BY ToolAssumption DEF FileIsTyped
  <2>2. /\ Append(text, MaxFile + edits + 1) \in Seq(Nat)
        /\ <<>> \in Seq(Nat) /\ SubSeq(text, 1, Len(text) - 1) \in Seq(Nat)
    BY <2>1
  <2> QED
    BY <1>1, <2>2
<1>3. FileIsTyped' /\ ReaderIsTyped' /\ CommandsAreTyped'
  BY SMTT(40), <1>1, <1>2 DEF FileIsTyped, ReaderIsTyped, CommandsAreTyped
<1>4. ~Undisturbed'
  BY <1>1 DEF Undisturbed, FileIsTyped, ReaderIsTyped
<1> QED
  BY <1>3, <1>4 DEF PagesJoin

\* A command is run, ends or runs out of time.
LEMMA CommandSteps ==
  ASSUME ToolInv, NEW q \in Commands,
         (\E t \in {"shell", "grep", "list_dir"} : StartCommand(q, t))
           \/ CommandEnds(q) \/ TimeoutElapsed(q)
  PROVE  ToolInv'
<1> USE DEF ToolInv
<1>1. UNCHANGED <<text, edits, reader>>
  BY DEF StartCommand, CommandEnds, TimeoutElapsed
<1>2. PagesJoin' /\ FileIsTyped' /\ ReaderIsTyped'
  BY <1>1 DEF PagesJoin, FileIsTyped, ReaderIsTyped, Undisturbed, Start
<1>3. command[q] \in CommandRecords /\ CommandIsOne(command[q])
  BY DEF CommandsAreTyped, CommandIsOne
<1>4. ASSUME NEW c, CommandIsOne(c), command' = [command EXCEPT ![q] = c]
      PROVE  CommandsAreTyped'
  BY <1>4 DEF CommandsAreTyped
<1>5. ASSUME NEW t \in {"shell", "grep", "list_dir"}, StartCommand(q, t)
      PROVE  CommandsAreTyped'
  <2>1. CommandIsOne([tool |-> t, process |-> "alive", answer |-> "none"])
    BY DEF CommandIsOne, CommandRecords, Tools
  <2> QED
    BY <1>4, <1>5, <2>1 DEF StartCommand
<1>6. CASE TimeoutElapsed(q)
  <2>1. command' = [command EXCEPT ![q] = [command[q] EXCEPT !.answer = "timeout"]]
    BY <1>3, <1>6 DEF TimeoutElapsed, CommandsAreTyped
  <2>2. CommandIsOne([command[q] EXCEPT !.answer = "timeout"])
    BY <1>3, <1>6 DEF TimeoutElapsed, CommandIsOne, CommandRecords, Tools
  <2>3. CommandsAreTyped'
    <3> DEFINE c == [command[q] EXCEPT !.answer = "timeout"]
    <3> HIDE DEF c
    <3> QED
      BY <1>4, <2>1, <2>2 DEF c
  <2> QED
    BY <1>2, <2>3
<1>7. CASE CommandEnds(q)
  <2>1. PICK a \in Answers(command[q].tool) :
          command' = [command EXCEPT ![q].process = "over",
                        ![q].answer = IF @ = "none" THEN a ELSE @]
    BY <1>7 DEF CommandEnds
  <2>2. command[q].process = "alive" /\ command[q].tool \in {"shell", "grep", "list_dir"}
    BY <1>3, <1>7 DEF CommandEnds, CommandIsOne, CommandRecords, Tools
  <2>3. a \in {"output", "failed", "panicked"}
    BY <2>1, <2>2 DEF Answers, ShellAnswers, GrepAnswers, ListDirAnswers
  <2> DEFINE b == IF command[q].answer = "none" THEN a ELSE command[q].answer
             c == [command[q] EXCEPT !.process = "over", !.answer = b]
  <2>4. b \in {"none", "output", "failed", "timeout", "panicked"}
        /\ (b = "timeout" => command[q].answer = "timeout")
    BY <1>3, <2>3 DEF CommandRecords
  <2>5. command' = [command EXCEPT ![q] = c]
    BY <2>1 DEF CommandsAreTyped
  <2> HIDE DEF b
  <2>6. c \in CommandRecords /\ c.answer = b /\ c.process = "over" /\ c.tool = command[q].tool
    BY <1>3, <2>4 DEF CommandRecords
  <2> HIDE DEF c
  <2>7. CommandIsOne(c)
    BY <1>3, <2>2, <2>4, <2>6 DEF CommandIsOne
  <2>8. CommandsAreTyped'
    BY <1>4, <2>5, <2>7
  <2> QED
    BY <1>2, <2>8
<1> QED
  BY <1>2, <1>5, <1>6, <1>7

\* Every step of the tools.
LEMMA ToolInvariance == ToolSpec => []ToolInv
<1>1. ToolInv /\ [ToolNext]_toolVars => ToolInv'
  <2> SUFFICES ASSUME ToolInv, [ToolNext]_toolVars PROVE ToolInv'
    OBVIOUS
  <2>1. CASE UNCHANGED toolVars
    BY <2>1 DEF toolVars, ToolInv, FileIsTyped, ReaderIsTyped, CommandsAreTyped, PagesJoin, Undisturbed,
                Start
  <2>2. CASE ReadFile
    BY <2>2, ReadFileStep
  <2>3. ASSUME NEW s \in Asked, NEW n \in Asked, OpenFile(s, n) PROVE ToolInv'
    BY <2>3, OpenFileStep
  <2>4. ASSUME NEW q \in Commands,
               \/ \E t \in {"shell", "grep", "list_dir"} : StartCommand(q, t)
               \/ Edit(q) \/ CommandEnds(q) \/ TimeoutElapsed(q)
        PROVE  ToolInv'
    BY <2>4, EditStep, CommandSteps
  <2> QED
    BY <2>1, <2>2, <2>3, <2>4 DEF ToolNext
<1> QED
  BY ToolsStart, <1>1, PTL DEF ToolSpec

\* Pages of a file that nobody edits are the whole file, each line once and in
\* order, and only a timeout leaves a command running, for files and pages of
\* any size and any number of edits and calls (read_file, shell, grep, list_dir).
THEOREM ToolsAreTruthful == ToolSpec => []ToolsTellTheTruth
<1>1. ToolInv => ToolsTellTheTruth
  <2> SUFFICES ASSUME ToolInv PROVE ToolsTellTheTruth
    OBVIOUS
  <2>1. PagesCoverTheFile
    BY DEF ToolInv, PagesJoin, PagesCoverTheFile
  <2>2. AnsweredIsOver
    BY DEF ToolInv, CommandsAreTyped, CommandIsOne, AnsweredIsOver
  <2> QED
    BY <2>1, <2>2 DEF ToolsTellTheTruth
<1> QED
  BY <1>1, ToolInvariance, PTL

-----------------------------------------------------------------------------
(* The types of the tools.                                                 *)

\* A command is one of the calls, and the file is edited as often as it may be.
ToolTyped == edits <= MaxEdits /\ command \in [Commands -> CommandRecords]

\* No step of a command or of the reader leaves the calls and edits there may be.
LEMMA ToolsStayTyped == ToolTyped /\ ToolInv /\ ToolInv' /\ [ToolNext]_toolVars => ToolTyped'
<1> SUFFICES ASSUME ToolTyped, ToolInv, ToolInv', [ToolNext]_toolVars PROVE ToolTyped'
  OBVIOUS
<1> USE DEF ToolTyped
<1>1. ASSUME UNCHANGED edits, NEW q \in Commands, NEW c, command' = [command EXCEPT ![q] = c]
      PROVE  ToolTyped'
  <2>1. command'[q] = c /\ command'[q] \in CommandRecords
    BY <1>1 DEF ToolInv, CommandsAreTyped, CommandIsOne
  <2> QED
    BY <1>1, <2>1
<1>2. CASE ReadFile \/ \E s, n \in Asked : OpenFile(s, n)
  BY <1>2 DEF ReadFile, OpenFile
<1>3. ASSUME NEW q \in Commands, NEW t, StartCommand(q, t) PROVE ToolTyped'
  <2>1. PICK c : c = [tool |-> t, process |-> "alive", answer |-> "none"]
    OBVIOUS
  <2> QED
    BY <1>1, <1>3, <2>1 DEF StartCommand
<1>4. ASSUME NEW q \in Commands, Edit(q) PROVE ToolTyped'
  BY <1>4, ToolAssumption DEF Edit, ToolInv, FileIsTyped
<1>5. ASSUME NEW q \in Commands, CommandEnds(q) \/ TimeoutElapsed(q) PROVE ToolTyped'
  <2>1. UNCHANGED edits
    BY <1>5 DEF CommandEnds, TimeoutElapsed
  <2>2. \E c : command' = [command EXCEPT ![q] = c]
    <3>1. PICK d : d = command[q]
      OBVIOUS
    <3>2. command[q] = d /\ d \in CommandRecords
      BY <3>1
    <3>3. CASE CommandEnds(q)
      <4>1. PICK a \in Answers(command[q].tool) :
              command' = [command EXCEPT ![q].process = "over", ![q].answer = IF @ = "none" THEN a ELSE @]
        BY <3>3 DEF CommandEnds
      <4> QED
        BY <4>1
    <3>4. CASE TimeoutElapsed(q)
      BY <3>4 DEF TimeoutElapsed
    <3> QED
      BY <1>5, <3>3, <3>4
  <2> QED
    BY <1>1, <2>1, <2>2
<1>6. CASE UNCHANGED toolVars
  BY <1>6 DEF toolVars
<1> QED
  BY <1>2, <1>3, <1>4, <1>5, <1>6 DEF ToolNext

\* The tools stay typed, whatever the file, its pages and the commands.
LEMMA ToolTypes == ToolSpec => []ToolTypeOK
<1>1. ToolInit => ToolTyped
  BY ToolAssumption DEF ToolInit, ToolTyped, CommandRecords, Tools, NoCommand
<1>2. ToolInv /\ ToolTyped => ToolTypeOK
  <2> SUFFICES ASSUME ToolInv, ToolTyped PROVE ToolTypeOK
    OBVIOUS
  <2>1. edits \in 0 .. MaxEdits
    BY ToolAssumption DEF ToolInv, FileIsTyped, ToolTyped
  <2> QED
    BY <2>1 DEF ToolInv, FileIsTyped, ReaderIsTyped, ToolTyped, ToolTypeOK, CommandRecords, Tools
<1> QED
  BY <1>1, <1>2, ToolInvariance, ToolsStayTyped, PTL DEF ToolSpec

-----------------------------------------------------------------------------
(* The prompts.                                                             *)

Readied == {"loaded", "rendering", "rendered"}

\* The library is the last file of every role, and nothing is embedded later.
LibraryIsLast ==
  /\ agentFiles \in Seq(AgentFile)
  /\ promptStage \in Readied => library = [r \in LoadedRoles |-> EntryOf(r)]

\* The context every section sees is the agent's fields over the caller's
\* variables.
BaseIsGiven ==
  promptStage \in {"rendering", "rendered"} =>
    base = [n \in given \cup Fields |-> IF n \in Fields THEN OfAgent(agent) ELSE OfCaller]

\* What was rendered so far: the base, and sections that show nothing else.
SectionsShowBase ==
  /\ \A n \in DOMAIN base : n \in DOMAIN context /\ context[n] = base[n]
  /\ \A n \in DOMAIN context \ DOMAIN base :
       /\ n \in DOMAIN promptSections
       /\ n \in broken => context[n] = Raw
       /\ n \notin broken => context[n].shows = [m \in promptSections[n] |-> Value(base, m)]

ContextIsBase ==
  /\ promptStage = "rendering" => SectionsShowBase
  /\ promptStage = "rendered" /\ "agent" \in templates =>
       SectionsShowBase /\ DOMAIN promptSections \subseteq DOMAIN context

PromptInv == LibraryIsLast /\ BaseIsGiven /\ ContextIsBase

\* Nothing is loaded.
LEMMA PromptStarts == PromptInit => PromptInv
<1> SUFFICES ASSUME PromptInit PROVE PromptInv
  OBVIOUS
<1>1. agentFiles \in Seq(AgentFile) /\ promptStage = "embedded"
  <2>1. agentFiles = <<>> /\ promptStage = "embedded"
    BY DEF PromptInit
  <2> QED
    BY <2>1
<1> QED
  BY <1>1 DEF PromptInv, LibraryIsLast, BaseIsGiven, ContextIsBase, Readied

\* Before the prompts are loaded there is nothing to say of them.
LEMMA StillEmbedded ==
  ASSUME PromptInv, promptStage' \in {"embedded", "built"}, agentFiles' \in Seq(AgentFile)
  PROVE  PromptInv'
  BY DEF PromptInv, LibraryIsLast, BaseIsGiven, ContextIsBase, Readied

\* The library is made of the files there are.
LEMMA NewStep ==
  ASSUME PromptInv, New
  PROVE  PromptInv'
<1>1. UNCHANGED <<agentFiles, promptSections, templates, broken, agent, given, base, context>>
  BY DEF New
<1>2. \/ promptStage' = "unusable"
      \/ library' = [r \in LoadedRoles |-> EntryOf(r)] /\ promptStage' = "loaded"
  BY DEF New
<1>3. LoadedRoles' = LoadedRoles /\ \A r : EntryOf(r)' = EntryOf(r)
  BY <1>1 DEF LoadedRoles, EntryOf
<1>4. LibraryIsLast'
  BY <1>1, <1>2, <1>3 DEF PromptInv, LibraryIsLast, Readied
<1>5. BaseIsGiven' /\ ContextIsBase'
  BY <1>2 DEF BaseIsGiven, ContextIsBase
<1> QED
  BY <1>4, <1>5 DEF PromptInv

\* Rendering does not touch the library.
LEMMA LibraryStays ==
  ASSUME PromptInv, UNCHANGED <<agentFiles, library>>, promptStage \in Readied
  PROVE  LibraryIsLast'
<1>1. LoadedRoles' = LoadedRoles /\ \A r : EntryOf(r)' = EntryOf(r)
  BY DEF LoadedRoles, EntryOf
<1> QED
  BY <1>1 DEF PromptInv, LibraryIsLast

\* A prompt is asked for.
LEMMA RenderStep ==
  ASSUME PromptInv, NEW r \in Roles, NEW vs \in SUBSET Names, Render(r, vs)
  PROVE  PromptInv'
<1>1. /\ promptStage = "loaded" /\ promptStage' = "rendering"
      /\ agent' = r /\ given' = vs
      /\ base' = [n \in vs \cup Fields |-> IF n \in Fields THEN OfAgent(r) ELSE OfCaller]
      /\ context' = base'
      /\ UNCHANGED <<agentFiles, promptSections, templates, broken, library>>
  BY DEF Render
<1>2. LibraryIsLast'
  BY <1>1, LibraryStays DEF Readied
<1>3. BaseIsGiven'
  BY <1>1 DEF BaseIsGiven
<1>4. ContextIsBase'
  BY <1>1 DEF ContextIsBase, SectionsShowBase
<1> QED
  BY <1>2, <1>3, <1>4 DEF PromptInv

\* A section is rendered, in no order that is promised.
LEMMA RenderSectionStep ==
  ASSUME PromptInv, NEW s \in SectionNames, RenderSection(s)
  PROVE  PromptInv'
<1> DEFINE shown == [m \in promptSections[s] |-> Value(base, m)]
           new == IF s \in broken THEN Raw ELSE [from |-> "section", shows |-> shown]
<1>1. /\ promptStage = "rendering" /\ s \in DOMAIN promptSections /\ s \notin DOMAIN context
      /\ context' = [n \in DOMAIN context \cup {s} |-> IF n = s THEN new ELSE context[n]]
      /\ UNCHANGED <<agentFiles, promptSections, templates, broken, library, promptStage, agent,
                     given, base>>
  BY DEF RenderSection, Unrendered, Scope
<1>2. (s \in broken => new = Raw) /\ (s \notin broken => new.shows = shown)
  OBVIOUS
<1> HIDE DEF new, shown
<1>3. /\ DOMAIN context' = DOMAIN context \cup {s} /\ context'[s] = new
      /\ \A n \in DOMAIN context : context'[n] = context[n]
  BY <1>1
<1>4. SectionsShowBase
  BY <1>1 DEF PromptInv, ContextIsBase
<1>5. s \notin DOMAIN base
  BY <1>1, <1>4 DEF SectionsShowBase
<1>6. \A n : (\A m : Value(base, m)' = Value(base, m))
  BY <1>1 DEF Value
<1>7. \A n \in DOMAIN base' : n \in DOMAIN context' /\ context'[n] = base'[n]
  BY <1>1, <1>3, <1>4 DEF SectionsShowBase
<1>8. \A n \in DOMAIN context' \ DOMAIN base' :
        /\ n \in DOMAIN promptSections'
        /\ n \in broken' => context'[n] = Raw
        /\ n \notin broken' => context'[n].shows = [m \in promptSections'[n] |-> Value(base, m)']
  <2> SUFFICES ASSUME NEW n \in DOMAIN context' \ DOMAIN base'
               PROVE  /\ n \in DOMAIN promptSections'
                      /\ n \in broken' => context'[n] = Raw
                      /\ n \notin broken' =>
                           context'[n].shows = [m \in promptSections'[n] |-> Value(base, m)']
    OBVIOUS
  <2>1. /\ n \in DOMAIN promptSections
        /\ n \in broken => context'[n] = Raw
        /\ n \notin broken => context'[n].shows = [m \in promptSections[n] |-> Value(base, m)]
    <3>1. CASE n = s
      BY <1>1, <1>2, <1>3, <3>1 DEF shown
    <3>2. CASE n # s
      BY <1>1, <1>3, <1>4, <3>2 DEF SectionsShowBase
    <3> QED
      BY <3>1, <3>2
  <2> QED
    BY <1>1, <1>6, <2>1
<1>9. SectionsShowBase'
  BY <1>7, <1>8 DEF SectionsShowBase
<1>10. LibraryIsLast' /\ BaseIsGiven'
  BY <1>1, LibraryStays DEF Readied, PromptInv, BaseIsGiven
<1>11. ContextIsBase'
  BY <1>1, <1>9 DEF ContextIsBase
<1> QED
  BY <1>10, <1>11 DEF PromptInv

\* The template is rendered with the sections in it.
LEMMA RenderTemplateStep ==
  ASSUME PromptInv, RenderTemplate
  PROVE  PromptInv'
<1>1. /\ promptStage = "rendering" /\ promptStage' = "rendered"
      /\ Unrendered = {}
      /\ "agent" \in templates => context' = context
      /\ UNCHANGED <<agentFiles, promptSections, templates, broken, library, agent, given, base>>
  BY DEF RenderTemplate
<1>2. LibraryIsLast' /\ BaseIsGiven'
  BY <1>1, LibraryStays DEF Readied, PromptInv, BaseIsGiven
<1>3. "agent" \in templates => SectionsShowBase' /\ DOMAIN promptSections \subseteq DOMAIN context
  BY <1>1 DEF PromptInv, ContextIsBase, SectionsShowBase, Unrendered, Value
<1> QED
  BY <1>1, <1>2, <1>3 DEF PromptInv, ContextIsBase

\* Every step of the library and of a rendering.
LEMMA PromptInvariance == PromptSpec => []PromptInv
<1>1. PromptInv /\ [PromptNext]_promptVars => PromptInv'
  <2> SUFFICES ASSUME PromptInv, [PromptNext]_promptVars PROVE PromptInv'
    OBVIOUS
  <2>1. CASE UNCHANGED promptVars
    BY <2>1 DEF promptVars, PromptInv, LibraryIsLast, BaseIsGiven, ContextIsBase,
                SectionsShowBase, LoadedRoles, EntryOf, Value
  <2>2. CASE EmbedAgent
    <3>1. PICK f \in AgentFile : agentFiles' = Append(agentFiles, f)
      BY <2>2 DEF EmbedAgent
    <3>2. agentFiles' \in Seq(AgentFile)
      BY <3>1 DEF PromptInv, LibraryIsLast
    <3> QED
      BY <2>2, <3>2, StillEmbedded DEF EmbedAgent
  <2>3. CASE EmbedSections
    BY <2>3, StillEmbedded DEF EmbedSections, PromptInv, LibraryIsLast
  <2>4. ASSUME NEW r \in Roles, NEW vs \in SUBSET Names, Render(r, vs) PROVE PromptInv'
    BY <2>4, RenderStep
  <2>5. ASSUME NEW s \in SectionNames, RenderSection(s) PROVE PromptInv'
    BY <2>5, RenderSectionStep
  <2>6. CASE New \/ RenderTemplate
    BY <2>6, NewStep, RenderTemplateStep
  <2> QED
    BY <2>1, <2>2, <2>3, <2>4, <2>5, <2>6 DEF PromptNext
<1> QED
  BY PromptStarts, <1>1, PTL DEF PromptSpec

\* The entry of a role is of the last file that has it.
LEMMA LastFileWins ==
  ASSUME PromptInv, NEW i \in DOMAIN agentFiles
  PROVE  EntryOf(agentFiles[i].role) >= i
<1> DEFINE files == {j \in DOMAIN agentFiles : agentFiles[j].role = agentFiles[i].role}
<1>1. agentFiles \in Seq(AgentFile) /\ Len(agentFiles) \in Nat
      /\ DOMAIN agentFiles = 1 .. Len(agentFiles)
  BY DEF PromptInv, LibraryIsLast
<1>2. i \in files /\ files \in SUBSET (1 .. Len(agentFiles))
  BY <1>1
<1> HIDE DEF files
<1>3. \E m \in files : \A j \in files : j <= m
  BY <1>1, <1>2, LargestExists
<1>4. EntryOf(agentFiles[i].role) = CHOOSE m \in files : \A j \in files : j <= m
  BY DEF EntryOf, files
<1>5. EntryOf(agentFiles[i].role) \in files
      /\ \A j \in files : j <= EntryOf(agentFiles[i].role)
  BY <1>3, <1>4, Zenon
<1>6. i <= EntryOf(agentFiles[i].role) /\ i \in Int /\ EntryOf(agentFiles[i].role) \in Int
  BY <1>1, <1>2, <1>5
<1> QED
  BY <1>6

\* The names of the context of a rendered prompt, and what they stand for.
LEMMA RenderedPrompt ==
  ASSUME PromptInv, promptStage = "rendered", "agent" \in templates
  PROVE  /\ DOMAIN context = Fields \cup given \cup DOMAIN promptSections
         /\ \A n \in DOMAIN context :
              CASE n \in Fields -> context[n] = OfAgent(agent)
                [] n \in given \ Fields -> context[n] = OfCaller
                [] n \in broken \ (Fields \cup given) -> context[n] = Raw
                [] OTHER -> context[n].shows =
                     [m \in promptSections[n] |-> CASE m \in Fields -> "agent"
                                              [] m \in given \ Fields -> "caller"
                                              [] OTHER -> "nothing"]
<1>1. base = [n \in given \cup Fields |-> IF n \in Fields THEN OfAgent(agent) ELSE OfCaller]
  BY DEF PromptInv, BaseIsGiven
<1>2. SectionsShowBase /\ DOMAIN promptSections \subseteq DOMAIN context
  BY DEF PromptInv, ContextIsBase
<1>3. /\ DOMAIN base = given \cup Fields
      /\ \A n \in Fields : base[n] = OfAgent(agent)
      /\ \A n \in given \ Fields : base[n] = OfCaller
  BY <1>1
<1>4. DOMAIN context = Fields \cup given \cup DOMAIN promptSections
  BY <1>2, <1>3 DEF SectionsShowBase
<1>5. OfAgent(agent).from = "agent" /\ OfCaller.from = "caller"
  BY DEF OfAgent, OfCaller
<1>6. ASSUME NEW m
      PROVE  Value(base, m) = CASE m \in Fields -> "agent"
                                [] m \in given \ Fields -> "caller"
                                [] OTHER -> "nothing"
  <2>1. CASE m \in Fields
    BY <1>3, <1>5, <2>1 DEF Value
  <2>2. CASE m \notin Fields /\ m \in given
    BY <1>3, <1>5, <2>2 DEF Value
  <2>3. CASE m \notin Fields /\ m \notin given
    BY <1>3, <2>3 DEF Value
  <2> QED
    BY <2>1, <2>2, <2>3
<1>7. ASSUME NEW n \in DOMAIN context, n \notin Fields, n \notin given, n \notin broken
      PROVE  context[n].shows = [m \in promptSections[n] |-> CASE m \in Fields -> "agent"
                                              [] m \in given \ Fields -> "caller"
                                              [] OTHER -> "nothing"]
  <2>1. context[n].shows = [m \in promptSections[n] |-> Value(base, m)]
    BY <1>2, <1>3, <1>7 DEF SectionsShowBase
  <2> QED
    BY <1>6, <2>1
<1>8. \A n \in Fields : context[n] = OfAgent(agent)
  BY <1>2, <1>3 DEF SectionsShowBase
<1>9. \A n \in given \ Fields : context[n] = OfCaller
  BY <1>2, <1>3 DEF SectionsShowBase
<1>10. \A n \in DOMAIN context : n \in broken \ (Fields \cup given) => context[n] = Raw
  BY <1>2, <1>3 DEF SectionsShowBase
<1> QED
  BY <1>4, <1>7, <1>8, <1>9, <1>10

\* A prompt is what its last file says, rendered in a context that does not
\* depend on the order of the sections, for any number of files, sections and
\* variables (new, render_prompt).
THEOREM PromptsAreWhole == PromptSpec => []PromptIsWhole
<1>1. PromptInv => PromptIsWhole
  <2> SUFFICES ASSUME PromptInv PROVE PromptIsWhole
    OBVIOUS
  <2>1. ASSUME promptStage \in Readied, NEW i \in DOMAIN agentFiles,
               agentFiles[i].kind = "entry"
        PROVE  /\ agentFiles[i].role \in DOMAIN library
               /\ library[agentFiles[i].role] >= i
    <3>1. agentFiles[i] \in {g \in ToSet(agentFiles) : g.kind = "entry"}
      BY <2>1 DEF ToSet
    <3>2. agentFiles[i].role \in LoadedRoles
      BY <3>1 DEF LoadedRoles
    <3>3. library = [r \in LoadedRoles |-> EntryOf(r)]
      BY <2>1 DEF PromptInv, LibraryIsLast
    <3>4. EntryOf(agentFiles[i].role) >= i
      BY LastFileWins
    <3> QED
      BY <3>2, <3>3, <3>4
  <2> QED
    BY <2>1, RenderedPrompt DEF PromptIsWhole, Readied
<1> QED
  BY <1>1, PromptInvariance, PTL

-----------------------------------------------------------------------------
(* The types of the prompts.                                               *)

\* The roles of the library are roles.
LEMMA LoadedAreRoles ==
  ASSUME agentFiles \in Seq(AgentFile)
  PROVE  LoadedRoles \subseteq Roles
<1>1. \A f \in ToSet(agentFiles) : f \in AgentFile
  BY DEF ToSet
<1>2. \A f \in AgentFile : f.kind = "entry" => f.role \in Roles
  BY DEF AgentFile
<1> QED
  BY <1>1, <1>2 DEF LoadedRoles

\* Loading and rendering keep the types of the library and of the context.
LEMMA PromptStaysTyped == PromptTypeOK /\ PromptInv /\ PromptInv' /\ [PromptNext]_promptVars => PromptTypeOK'
<1> SUFFICES ASSUME PromptTypeOK, PromptInv, PromptInv', [PromptNext]_promptVars PROVE PromptTypeOK'
  OBVIOUS
<1>1. agentFiles \in Seq(AgentFile) /\ agentFiles' \in Seq(AgentFile)
  BY DEF PromptInv, LibraryIsLast
<1>2. CASE EmbedAgent
  BY <1>1, <1>2 DEF EmbedAgent, PromptTypeOK
<1>3. CASE EmbedSections
  <2>1. PICK names \in SUBSET SectionNames :
          /\ promptSections' \in [names -> SUBSET Names]
          /\ templates' \in {{}, {"judge"}, {"agent", "judge"}}
          /\ broken' \in {{}} \cup {{n} : n \in names \cup templates'}
    BY <1>3 DEF EmbedSections
  <2>2. DOMAIN promptSections' \subseteq SectionNames /\ broken' \subseteq SectionNames \cup templates'
    BY <2>1
  <2>3. promptStage' = "built" /\ UNCHANGED <<agentFiles, library, agent, given, base, context>>
    BY <1>3 DEF EmbedSections
  <2> QED
    BY <1>1, <2>1, <2>2, <2>3 DEF PromptTypeOK
<1>4. CASE New
  <2>1. /\ UNCHANGED <<promptSections, templates, broken, agent, given, base, context>>
        /\ promptStage' \in {"unusable", "loaded"}
        /\ library' = library \/ library' = [r \in LoadedRoles |-> EntryOf(r)]
    BY <1>4 DEF New
  <2>2. DOMAIN library' \subseteq Roles
    BY <1>1, <2>1, LoadedAreRoles DEF PromptTypeOK
  <2> QED
    BY <1>1, <2>1, <2>2 DEF PromptTypeOK
<1>5. ASSUME NEW r \in Roles, NEW vs \in SUBSET Names, Render(r, vs) PROVE PromptTypeOK'
  <2>1. /\ UNCHANGED <<promptSections, templates, broken, library>>
        /\ promptStage' = "rendering" /\ agent' = r /\ given' = vs
        /\ base' = [n \in vs \cup Fields |-> IF n \in Fields THEN OfAgent(r) ELSE OfCaller]
        /\ context' = base'
    BY <1>5 DEF Render
  <2>2. DOMAIN base' = vs \cup Fields
    BY <2>1
  <2> QED
    BY <1>1, <2>1, <2>2 DEF PromptTypeOK, Names
<1>6. ASSUME NEW s \in SectionNames, RenderSection(s) PROVE PromptTypeOK'
  <2>1. /\ UNCHANGED <<promptSections, templates, broken, library, promptStage, agent, given, base>>
        /\ DOMAIN context' = DOMAIN context \cup {s}
    BY <1>6 DEF RenderSection
  <2> QED
    BY <1>1, <2>1 DEF PromptTypeOK, Names
<1>7. CASE RenderTemplate
  <2>1. /\ UNCHANGED <<promptSections, templates, broken, library, agent, given, base>>
        /\ promptStage' = "rendered"
        /\ context' = context \/ context' = <<>>
    BY <1>7 DEF RenderTemplate
  <2>2. DOMAIN context' \subseteq Names
    <3>1. DOMAIN <<>> = {}
      OBVIOUS
    <3>2. context' = context => DOMAIN context' \subseteq Names
      BY DEF PromptTypeOK
    <3>3. context' = <<>> => DOMAIN context' \subseteq Names
      BY <3>1
    <3> QED
      BY <2>1, <3>2, <3>3
  <2> QED
    BY <1>1, <2>1, <2>2 DEF PromptTypeOK
<1>8. CASE UNCHANGED promptVars
  BY <1>8 DEF promptVars, PromptTypeOK
<1> QED
  BY <1>2, <1>3, <1>4, <1>5, <1>6, <1>7, <1>8 DEF PromptNext

\* The prompts stay typed, however many files and sections there are.
LEMMA PromptTypes == PromptSpec => []PromptTypeOK
<1>1. PromptInit => PromptTypeOK
  <2> SUFFICES ASSUME PromptInit PROVE PromptTypeOK
    OBVIOUS
  <2>1. agentFiles \in Seq(AgentFile)
    BY PromptStarts DEF PromptInv, LibraryIsLast
  <2>2. /\ promptSections = <<>> /\ templates = {} /\ broken = {} /\ library = <<>> /\ promptStage = "embedded"
        /\ agent = "" /\ given = {} /\ base = <<>> /\ context = <<>>
    BY DEF PromptInit
  <2>3. DOMAIN promptSections = {} /\ DOMAIN library = {} /\ DOMAIN base = {} /\ DOMAIN context = {}
    <3>1. \A s : s = <<>> => DOMAIN s = {}
      OBVIOUS
    <3> QED
      BY <2>2, <3>1, Zenon
  <2> QED
    BY <2>1, <2>2, <2>3 DEF PromptTypeOK
<1> QED
  BY <1>1, PromptInvariance, PromptStaysTyped, PTL DEF PromptSpec

-----------------------------------------------------------------------------
(* The rules.                                                               *)

\* What the preamble of a change shows.
PreambleFor(paths) ==
  [k \in DOMAIN RulesMatching(paths) |->
    [rule |-> RulesMatching(paths)[k], heading |-> RuleOf(RulesMatching(paths)[k]).described,
     body |-> RuleOf(RulesMatching(paths)[k]).body]]

\* The directory does not change once it is loaded, and the preamble is of what
\* was asked for last.
RuleInv ==
  /\ ruleFiles \in Seq(RuleFile) /\ ruleStep \in {"written", "loaded", "asked"}
  /\ ruleStep # "written" =>
       /\ ruleSet = [always_rules |-> Loaded(TRUE), rules |-> Loaded(FALSE)]
       /\ badFiles = Cardinality({i \in DOMAIN ruleFiles : IsSkipped(ruleFiles[i])})
  /\ ruleStep = "asked" => preamble = PreambleFor(askedPaths)

\* Each step keeps the directory and what was made of it.
LEMMA RuleInvInductive ==
  /\ RuleInit => RuleInv
  /\ RuleInv /\ [RuleNext]_ruleVars => RuleInv'
<1>1. RuleInit => RuleInv
  BY DEF RuleInit, RuleInv
<1>2. ASSUME RuleInv, [RuleNext]_ruleVars PROVE RuleInv'
  <2>1. ASSUME NEW k \in Kind, CreateFile(k) PROVE RuleInv'
    <3>1. <<>> \in Seq(Piece)
      OBVIOUS
    <3>2. [kind |-> k, content |-> <<>>] \in RuleFile
      BY <3>1 DEF RuleFile
    <3>3. ruleFiles' \in Seq(RuleFile)
      BY <1>2, <2>1, <3>2 DEF CreateFile, RuleInv
    <3> QED
      BY <1>2, <2>1, <3>3 DEF CreateFile, RuleInv
  <2>2. ASSUME NEW p \in Piece, WritePiece(p) PROVE RuleInv'
    <3>1. PICK n \in Nat : n = Len(ruleFiles) /\ n \in DOMAIN ruleFiles
      BY <1>2, <2>2 DEF WritePiece, RuleInv
    <3>2. ruleFiles[n] \in RuleFile
      BY <1>2, <3>1 DEF RuleInv
    <3>3. PICK f : f = [ruleFiles[n] EXCEPT !.content = Append(@, p)]
      OBVIOUS
    <3>4. Append(ruleFiles[n].content, p) \in Seq(Piece)
      BY <3>2 DEF RuleFile
    <3>5. f \in RuleFile
      BY <3>2, <3>3, <3>4 DEF RuleFile
    <3>6. ruleFiles' = [ruleFiles EXCEPT ![n] = f]
      BY <2>2, <3>1, <3>3 DEF WritePiece
    <3>7. ruleFiles' \in Seq(RuleFile)
      BY <1>2, <3>1, <3>5, <3>6 DEF RuleInv
    <3> QED
      BY <1>2, <2>2, <3>7 DEF WritePiece, RuleInv
  <2>3. CASE LoadFromDir
    <3>1. Loaded(TRUE)' = Loaded(TRUE) /\ Loaded(FALSE)' = Loaded(FALSE)
      BY <2>3 DEF LoadFromDir, Loaded, RuleOf
    <3> QED
      BY <1>2, <2>3, <3>1 DEF LoadFromDir, RuleInv
  <2>4. ASSUME NEW paths \in SUBSET RulePaths, FormatPreamble(paths) PROVE RuleInv'
    <3>1. Loaded(TRUE)' = Loaded(TRUE) /\ Loaded(FALSE)' = Loaded(FALSE)
      BY <2>4 DEF FormatPreamble, Loaded, RuleOf
    <3>2. preamble' = PreambleFor(paths)
      BY <2>4 DEF FormatPreamble, PreambleFor
    <3>3. PreambleFor(askedPaths)' = PreambleFor(paths)
      BY ZenonT(40), <2>4 DEF FormatPreamble, PreambleFor, RulesMatching, RuleMatchesPath, RuleOf
    <3> QED
      BY <1>2, <2>4, <3>1, <3>2, <3>3 DEF FormatPreamble, RuleInv
  <2>5. CASE UNCHANGED ruleVars
    <3>1. /\ Loaded(TRUE)' = Loaded(TRUE) /\ Loaded(FALSE)' = Loaded(FALSE)
          /\ PreambleFor(askedPaths)' = PreambleFor(askedPaths)
      BY <2>5 DEF ruleVars, Loaded, PreambleFor, RulesMatching, RuleMatchesPath, RuleOf
    <3> QED
      BY <1>2, <2>5, <3>1 DEF ruleVars, RuleInv
  <2> QED
    BY <1>2, <2>1, <2>2, <2>3, <2>4, <2>5 DEF RuleNext
<1> QED
  BY <1>1, <1>2

\* The rules of one kind, each once.
LEMMA LoadedOnce ==
  ASSUME RuleInv, NEW b \in BOOLEAN
  PROVE  LET I == {i \in DOMAIN ruleFiles : IsLoaded(ruleFiles[i]) /\ RuleOf(i).always_apply = b} IN
         /\ Loaded(b) \in Seq(DOMAIN ruleFiles) /\ Distinct(Loaded(b))
         /\ ToSet(Loaded(b)) = I /\ IsFiniteSet(I) /\ Cardinality(I) = Len(Loaded(b))
<1> DEFINE I == {i \in DOMAIN ruleFiles : IsLoaded(ruleFiles[i]) /\ RuleOf(i).always_apply = b}
<1>1. PICK n \in Nat : DOMAIN ruleFiles = 1 .. n
  BY DEF RuleInv
<1>2. I \in SUBSET (1 .. n)
  BY <1>1
<1>3. PICK J \in SUBSET (1 .. n) : J = I
  BY <1>2
<1>4. PICK t : t = Loaded(b)
  OBVIOUS
<1>5. t = Picked([i \in 1 .. n |-> i], J)
  BY <1>1, <1>3, <1>4 DEF Loaded
<1>6. t \in Seq(1 .. n) /\ ToSet(t) = J /\ \A k, l \in DOMAIN t : k < l => t[k] < t[l]
  BY ZenonT(40), <1>5, PlacesInOrder
<1>7. Distinct(t)
  <2>1. DOMAIN t \subseteq Nat /\ \A k \in DOMAIN t : t[k] \in Nat
    BY <1>6
  <2>2. ASSUME NEW k \in DOMAIN t, NEW l \in DOMAIN t, k # l PROVE t[k] # t[l]
    <3>1. k < l \/ l < k
      BY <2>1, <2>2
    <3>2. t[k] < t[l] \/ t[l] < t[k]
      BY <1>6, <3>1
    <3> QED
      BY <2>1, <3>2
  <2> QED
    BY <2>2 DEF Distinct
<1>8. IsFiniteSet(ToSet(t)) /\ Cardinality(ToSet(t)) = Len(t)
  BY <1>6, <1>7, DistinctMembers
<1> QED
  BY <1>1, <1>3, <1>4, <1>6, <1>7, <1>8

\* What the set of rules holds once it is loaded.
LEMMA LoadedSet ==
  ASSUME RuleInv, ruleStep # "written"
  PROVE  ruleSet.always_rules = Loaded(TRUE) /\ ruleSet.rules = Loaded(FALSE)
<1>1. PICK a, r : a = Loaded(TRUE) /\ r = Loaded(FALSE)
  OBVIOUS
<1>2. ruleSet = [always_rules |-> a, rules |-> r]
  BY <1>1, Zenon DEF RuleInv
<1> QED
  BY <1>1, <1>2

\* Every markdown file is a rule, once, or counted.
LEMMA EveryFileOnce ==
  ASSUME RuleInv, ruleStep # "written"
  PROVE  /\ Len(ruleSet.always_rules) + Len(ruleSet.rules) + badFiles
              = Cardinality({i \in DOMAIN ruleFiles : ruleFiles[i].kind \in {"md", "unreadable"}})
         /\ ToSet(ruleSet.always_rules) \cap ToSet(ruleSet.rules) = {}
<1> DEFINE I(b) == {i \in DOMAIN ruleFiles : IsLoaded(ruleFiles[i]) /\ RuleOf(i).always_apply = b}
           K == {i \in DOMAIN ruleFiles : IsSkipped(ruleFiles[i])}
           M == {i \in DOMAIN ruleFiles : ruleFiles[i].kind \in {"md", "unreadable"}}
<1>1. /\ ruleSet.always_rules = Loaded(TRUE) /\ ruleSet.rules = Loaded(FALSE)
      /\ badFiles = Cardinality(K)
  <2>1. badFiles = Cardinality(K)
    BY Zenon DEF RuleInv
  <2> HIDE DEF K
  <2> QED
    BY <2>1, LoadedSet
<1>2. /\ ToSet(Loaded(TRUE)) = I(TRUE) /\ IsFiniteSet(I(TRUE)) /\ Cardinality(I(TRUE)) = Len(Loaded(TRUE))
      /\ ToSet(Loaded(FALSE)) = I(FALSE) /\ IsFiniteSet(I(FALSE))
      /\ Cardinality(I(FALSE)) = Len(Loaded(FALSE))
  BY LoadedOnce
<1>3. IsFiniteSet(K)
  <2>1. PICK n \in Nat : DOMAIN ruleFiles = 1 .. n
    BY DEF RuleInv
  <2>2. IsFiniteSet(1 .. n)
    <3>1. 1 \in Int /\ n \in Int
      OBVIOUS
    <3> QED
      BY <3>1, FS_Interval
  <2> QED
    BY <2>1, <2>2, FS_Subset
<1>4. \A i \in DOMAIN ruleFiles : RuleOf(i).always_apply \in BOOLEAN
  <2> TAKE i \in DOMAIN ruleFiles
  <2>1. PICK c : c = ruleFiles[i].content
    OBVIOUS
  <2>2. PICK b : b = (Lines(c, "always_apply") # {})
    OBVIOUS
  <2>3. b \in BOOLEAN
    BY <2>2
  <2>4. ParseRuleFile(c).always_apply = IF HasFrontmatter(c) THEN b ELSE TRUE
    BY <2>2 DEF ParseRuleFile
  <2> QED
    BY <2>1, <2>3, <2>4 DEF RuleOf
<1>5. M = (I(TRUE) \cup I(FALSE)) \cup K
  <2>1. \A i \in DOMAIN ruleFiles : ruleFiles[i].kind \in Kind
    <3>1. ruleFiles \in Seq(RuleFile)
      BY DEF RuleInv
    <3>2. \A i \in DOMAIN ruleFiles : ruleFiles[i] \in RuleFile
      BY <3>1
    <3> QED
      BY <3>2 DEF RuleFile
  <2>2. \A i \in DOMAIN ruleFiles :
          i \in M <=> (IsLoaded(ruleFiles[i]) \/ IsSkipped(ruleFiles[i]))
    BY <2>1 DEF IsLoaded, IsSkipped, Kind
  <2>3. \A i \in DOMAIN ruleFiles : IsLoaded(ruleFiles[i]) => i \in I(TRUE) \cup I(FALSE)
    BY <1>4
  <2> QED
    BY <2>2, <2>3
<1>6. I(TRUE) \cap I(FALSE) = {}
  OBVIOUS
<1>7. (I(TRUE) \cup I(FALSE)) \cap K = {}
  BY DEF IsLoaded, IsSkipped
<1>8. PICK A, B : A = I(TRUE) /\ B = I(FALSE)
  OBVIOUS
<1>9. PICK C : C = K
  OBVIOUS
<1> HIDE DEF I, K, M
<1>10. /\ IsFiniteSet(A \cup B)
       /\ Cardinality(A \cup B) = Cardinality(A) + Cardinality(B) - Cardinality(A \cap B)
  BY <1>2, <1>8, FS_Union
<1>11. Cardinality((A \cup B) \cup C)
         = Cardinality(A \cup B) + Cardinality(C) - Cardinality((A \cup B) \cap C)
  BY <1>3, <1>9, <1>10, FS_Union
<1>12. Cardinality({}) = 0 /\ Cardinality(A) \in Nat /\ Cardinality(B) \in Nat /\ Cardinality(C) \in Nat
  BY <1>2, <1>3, <1>8, <1>9, FS_EmptySet, FS_CardinalityType
<1>13. Cardinality(M) = Cardinality(A) + Cardinality(B) + Cardinality(C)
  <2>1. M = (A \cup B) \cup C
    BY <1>5, <1>8, <1>9
  <2>2. A \cap B = {} /\ (A \cup B) \cap C = {}
    BY <1>6, <1>7, <1>8, <1>9
  <2>3. Cardinality(A \cup B) = Cardinality(A) + Cardinality(B)
    <3>1. Cardinality(A \cap B) = 0
      BY <1>12, <2>2
    <3> QED
      BY <1>10, <1>12, <3>1
  <2>4. Cardinality((A \cup B) \cap C) = 0
    BY <1>12, <2>2
  <2> QED
    BY <1>11, <1>12, <2>1, <2>3, <2>4
<1> QED
  BY <1>1, <1>2, <1>6, <1>8, <1>9, <1>13 DEF M

\* What matches: the rules that always apply, and of the others those that a
\* path of the change makes apply, each once.
LEMMA MatchedOnce ==
  ASSUME RuleInv, ruleStep # "written", NEW paths, NEW t, t = RulesMatching(paths)
  PROVE  /\ t \in Seq(DOMAIN ruleFiles) /\ Distinct(t)
         /\ ToSet(t) = {i \in ToSet(Loaded(TRUE)) \cup ToSet(Loaded(FALSE)) :
              \/ RuleOf(i).always_apply
              \/ \E g \in RuleOf(i).globs \ BrokenGlobs : GlobPaths[g] \cap paths # {}}
<1>1. PICK a, r : a = Loaded(TRUE) /\ r = Loaded(FALSE)
  OBVIOUS
<1>2. PICK P : P = {k \in DOMAIN r : \E p \in paths : RuleMatchesPath(r[k], p)}
  OBVIOUS
<1>3. /\ a \in Seq(DOMAIN ruleFiles) /\ Distinct(a) /\ r \in Seq(DOMAIN ruleFiles) /\ Distinct(r)
      /\ \A i \in ToSet(a) : RuleOf(i).always_apply = TRUE
      /\ \A i \in ToSet(r) : RuleOf(i).always_apply = FALSE
  BY <1>1, LoadedOnce
<1>4. t = a \o Picked(r, P)
  <2>1. ruleSet.always_rules = a /\ ruleSet.rules = r
    BY <1>1, LoadedSet
  <2> QED
    BY <1>2, <2>1 DEF RulesMatching
<1>5. PICK u : u = Picked(r, P)
  OBVIOUS
<1>6. u \in Seq(DOMAIN ruleFiles) /\ Distinct(u) /\ ToSet(u) = {r[k] : k \in P \cap DOMAIN r}
  BY <1>3, <1>5, PickedPlaces, PickedDistinct, PickedMembers
<1>7. ToSet(r) = {r[k] : k \in DOMAIN r}
  BY DEF ToSet
<1>8. ToSet(a) \cap ToSet(u) = {}
  <2>1. ToSet(u) \subseteq ToSet(r)
    BY <1>6, <1>7
  <2> QED
    BY <1>3, <2>1
<1>9. /\ t \in Seq(DOMAIN ruleFiles) /\ ToSet(t) = ToSet(a) \cup ToSet(u) /\ Distinct(t)
  <2>1. t = a \o u
    BY <1>4, <1>5
  <2>2. /\ t \in Seq(DOMAIN ruleFiles) /\ ToSet(t) = ToSet(a) \cup ToSet(u)
        /\ Distinct(a) /\ Distinct(u) /\ ToSet(a) \cap ToSet(u) = {} => Distinct(t)
    BY <1>3, <1>6, <2>1, JoinedMembers
  <2> QED
    BY <1>3, <1>6, <1>8, <2>2
<1>10. \A i : (\E p \in paths : RuleMatchesPath(i, p))
         <=> \E g \in RuleOf(i).globs \ BrokenGlobs : GlobPaths[g] \cap paths # {}
  BY DEF RuleMatchesPath
<1>11. ToSet(u) = {i \in ToSet(r) : \E p \in paths : RuleMatchesPath(i, p)}
  BY <1>2, <1>6, <1>7
<1>12. ToSet(u) = {i \in ToSet(r) : \E g \in RuleOf(i).globs \ BrokenGlobs : GlobPaths[g] \cap paths # {}}
  BY <1>10, <1>11
<1> QED
  BY <1>1, <1>3, <1>9, <1>12

\* The separators of a file, in their order.
LEMMA CutsAreSeparators ==
  ASSUME NEW c \in Seq(Piece), NEW t, t = Cuts(c)
  PROVE  /\ t \in Seq(1 .. Len(c)) /\ ToSet(t) = {i \in 1 .. Len(c) : c[i] = Separator}
         /\ \A k, l \in DOMAIN t : k < l => t[k] < t[l]
<1>1. PICK n \in Nat : n = Len(c) /\ DOMAIN c = 1 .. n
  OBVIOUS
<1>2. PICK I \in SUBSET (1 .. n) : I = {i \in 1 .. n : c[i] = Separator}
  OBVIOUS
<1>3. t = Picked([i \in 1 .. n |-> i], I)
  BY <1>1, <1>2 DEF Cuts
<1> QED
  BY <1>1, <1>2, <1>3, PlacesInOrder

\* Of a file with frontmatter, what follows its second separator is left.
LEMMA BodyIsTheRest ==
  ASSUME NEW c \in Seq(Piece), ~IsMalformed(c), NEW b, b = ParseRuleFile(c).body,
         NEW start, start = Len(c) - Len(b)
  PROVE  /\ b = SubSeq(c, start + 1, Len(c))
         /\ Cardinality({j \in 1 .. start : c[j] = Separator})
              = IF HasFrontmatter(c) THEN 2 ELSE 0
         /\ start > 0 => c[start] = Separator
<1>1. PICK n \in Nat : n = Len(c) /\ DOMAIN c = 1 .. n
  OBVIOUS
<1>2. CASE ~HasFrontmatter(c)
  <2>1. b = c /\ start = 0
    BY <1>1, <1>2 DEF ParseRuleFile
  <2>2. c = SubSeq(c, 1, Len(c))
    <3>1. SubSeq(c, 1, n) \in Seq(Piece) /\ Len(SubSeq(c, 1, n)) = n
          /\ \A i \in 1 .. n : SubSeq(c, 1, n)[i] = c[i]
      BY <1>1
    <3> QED
      BY <1>1, <3>1, SeqEqual
  <2>3. {j \in 1 .. start : c[j] = Separator} = {}
    BY <2>1
  <2> QED
    BY <1>2, <2>1, <2>2, <2>3, FS_EmptySet
<1>3. CASE HasFrontmatter(c)
  <2>1. PICK t : t = Cuts(c)
    OBVIOUS
  <2>2. /\ t \in Seq(1 .. n) /\ ToSet(t) = {i \in 1 .. n : c[i] = Separator}
        /\ \A k, l \in DOMAIN t : k < l => t[k] < t[l]
    BY <1>1, <2>1, CutsAreSeparators
  <2>3. PICK m \in Nat : m = Len(t) /\ DOMAIN t = 1 .. m
    BY <2>2
  <2>4. m >= 2
    BY <1>3, <2>1, <2>3 DEF IsMalformed
  <2>5. 1 \in DOMAIN t /\ 2 \in DOMAIN t /\ ToSet(t) = {t[k] : k \in DOMAIN t}
    BY <2>3, <2>4 DEF ToSet
  <2>6. PICK x \in 1 .. n, y \in 1 .. n : x = t[1] /\ y = t[2]
    BY <2>2, <2>5
  <2>7. x < y /\ c[x] = Separator /\ c[y] = Separator
    <3>1. t[1] \in ToSet(t) /\ t[2] \in ToSet(t)
      BY <2>5
    <3> QED
      BY <2>2, <2>5, <2>6, <3>1
  <2>8. b = SubSeq(c, y + 1, n)
    BY <1>1, <1>3, <2>1, <2>6 DEF ParseRuleFile
  <2>9. Len(b) = n - y
    BY <1>1, <2>6, <2>8
  <2>10. start = y
    BY <1>1, <2>6, <2>9
  <2>11. {j \in 1 .. y : c[j] = Separator} = {x, y}
    <3>1. ASSUME NEW j \in 1 .. y, c[j] = Separator PROVE j \in {x, y}
      <4>1. j \in ToSet(t)
        BY <2>2, <2>6, <3>1
      <4>2. PICK k \in 1 .. m : j = t[k]
        BY <2>3, <2>5, <4>1
      <4>3. ~(2 < k)
        <5>1. 2 < k => t[2] < t[k]
          BY <2>2, <2>3, <2>5, <4>2
        <5>2. ~(y < j)
          BY <2>6
        <5> QED
          BY <2>6, <4>2, <5>1, <5>2
      <4>4. k = 1 \/ k = 2
        BY <4>2, <4>3
      <4> QED
        BY <2>6, <4>2, <4>4
    <3>2. x \in 1 .. y /\ y \in 1 .. y
      BY <2>6, <2>7
    <3> QED
      BY <2>7, <3>1, <3>2
  <2>12. Cardinality({x, y}) = 2
    <3>1. IsFiniteSet({x}) /\ Cardinality({x}) = 1
      BY FS_Singleton
    <3>2. y \notin {x} /\ {x, y} = {x} \cup {y}
      BY <2>6, <2>7
    <3>3. Cardinality({x} \cup {y}) = Cardinality({x}) + 1
      BY <3>1, <3>2, FS_AddElement
    <3> QED
      BY <3>1, <3>2, <3>3
  <2> QED
    BY <1>1, <1>3, <2>7, <2>8, <2>10, <2>11, <2>12
<1> QED
  BY <1>2, <1>3

\* A preamble shows what applies, each rule once, and of each what follows its
\* frontmatter.
LEMMA PreambleIsWhole ==
  ASSUME RuleInv, ruleStep = "asked"
  PROVE  /\ Cardinality(ShownRules) = Len(preamble)
         /\ ShownRules = {i \in ToSet(ruleSet.always_rules) \cup ToSet(ruleSet.rules) :
              \/ RuleOf(i).always_apply
              \/ \E g \in RuleOf(i).globs \ BrokenGlobs : GlobPaths[g] \cap askedPaths # {}}
         /\ \A k \in DOMAIN preamble :
              LET c == ruleFiles[preamble[k].rule].content
                  start == Len(c) - Len(preamble[k].body)
              IN /\ preamble[k].body = SubSeq(c, start + 1, Len(c))
                 /\ Cardinality({j \in 1 .. start : c[j] = Separator})
                      = IF HasFrontmatter(c) THEN 2 ELSE 0
                 /\ start > 0 => c[start] = Separator
<1>1. PICK t : t = RulesMatching(askedPaths)
  OBVIOUS
<1>2. /\ t \in Seq(DOMAIN ruleFiles) /\ Distinct(t)
      /\ ToSet(t) = {i \in ToSet(Loaded(TRUE)) \cup ToSet(Loaded(FALSE)) :
           \/ RuleOf(i).always_apply
           \/ \E g \in RuleOf(i).globs \ BrokenGlobs : GlobPaths[g] \cap askedPaths # {}}
  BY <1>1, MatchedOnce
<1>3. /\ ruleSet.always_rules = Loaded(TRUE) /\ ruleSet.rules = Loaded(FALSE)
      /\ preamble = [k \in DOMAIN t |->
           [rule |-> t[k], heading |-> RuleOf(t[k]).described, body |-> RuleOf(t[k]).body]]
  <2>1. ruleStep # "written"
    OBVIOUS
  <2>2. preamble = PreambleFor(askedPaths)
    BY Zenon DEF RuleInv
  <2> QED
    BY <1>1, <2>1, <2>2, LoadedSet DEF PreambleFor
<1>4. PICK n \in Nat : n = Len(t) /\ DOMAIN t = 1 .. n
  BY <1>2
<1>5. /\ DOMAIN preamble = 1 .. n
      /\ \A k \in 1 .. n : preamble[k].rule = t[k] /\ preamble[k].body = RuleOf(t[k]).body
  BY <1>3, <1>4
<1>6. Len(preamble) = n
  BY <1>3, <1>4
<1>7. ShownRules = ToSet(t)
  BY <1>4, <1>5 DEF ShownRules, ToSet
<1>8. Cardinality(ToSet(t)) = n
  BY <1>2, <1>4, DistinctMembers
<1>9. ASSUME NEW k \in DOMAIN preamble
      PROVE  LET c == ruleFiles[preamble[k].rule].content
                 start == Len(c) - Len(preamble[k].body)
             IN /\ preamble[k].body = SubSeq(c, start + 1, Len(c))
                /\ Cardinality({j \in 1 .. start : c[j] = Separator})
                     = IF HasFrontmatter(c) THEN 2 ELSE 0
                /\ start > 0 => c[start] = Separator
  <2>1. t[k] \in ToSet(t)
    BY <1>4, <1>5 DEF ToSet
  <2>2. t[k] \in DOMAIN ruleFiles /\ IsLoaded(ruleFiles[t[k]])
    <3>1. t[k] \in ToSet(Loaded(TRUE)) \cup ToSet(Loaded(FALSE))
      BY <1>2, <2>1
    <3>2. \A b \in BOOLEAN : \A i \in ToSet(Loaded(b)) : i \in DOMAIN ruleFiles /\ IsLoaded(ruleFiles[i])
      BY LoadedOnce
    <3> QED
      BY <3>1, <3>2
  <2>3. PICK c \in Seq(Piece) : c = ruleFiles[t[k]].content /\ ~IsMalformed(c)
    <3>1. ruleFiles \in Seq(RuleFile)
      BY DEF RuleInv
    <3>2. ruleFiles[t[k]] \in RuleFile
      BY <2>2, <3>1
    <3> QED
      BY <2>2, <3>2 DEF RuleFile, IsLoaded
  <2>4. PICK b : b = preamble[k].body
    OBVIOUS
  <2>5. b = ParseRuleFile(c).body
    BY <1>5, <2>3, <2>4 DEF RuleOf
  <2>6. PICK start : start = Len(c) - Len(b)
    OBVIOUS
  <2>7. /\ b = SubSeq(c, start + 1, Len(c))
        /\ Cardinality({j \in 1 .. start : c[j] = Separator})
             = IF HasFrontmatter(c) THEN 2 ELSE 0
        /\ start > 0 => c[start] = Separator
    BY <2>3, <2>5, <2>6, BodyIsTheRest
  <2> QED
    BY <1>5, <2>3, <2>4, <2>6, <2>7
<1> QED
  BY <1>2, <1>3, <1>6, <1>7, <1>8, <1>9

\* A bad rule file costs itself only, and a preamble shows every rule that
\* applies, once, and only what follows its frontmatter (load_from_dir, matching,
\* format_preamble), for directories, files and changes of any size.
THEOREM RulesStayWhole == RuleSpec => []RulesAreWhole
<1>1. RuleInv => RulesAreWhole
  <2> SUFFICES ASSUME RuleInv PROVE RulesAreWhole
    OBVIOUS
  <2>1. ruleStep = "asked" => ruleStep # "written"
    OBVIOUS
  <2>2. ruleStep # "written" =>
          /\ Len(ruleSet.always_rules) + Len(ruleSet.rules) + badFiles
               = Cardinality({i \in DOMAIN ruleFiles : ruleFiles[i].kind \in {"md", "unreadable"}})
          /\ ToSet(ruleSet.always_rules) \cap ToSet(ruleSet.rules) = {}
    BY EveryFileOnce
  <2> QED
    BY <2>2, PreambleIsWhole DEF RulesAreWhole
<1> QED
  BY <1>1, RuleInvInductive, PTL DEF RuleSpec

-----------------------------------------------------------------------------
(* The types of the rules.                                                 *)

\* Nothing is loaded before the directory is, and nothing shown before it is asked for.
RuleTyped ==
  /\ askedPaths \subseteq RulePaths
  /\ ruleStep = "written" => ruleSet = [always_rules |-> <<>>, rules |-> <<>>] /\ badFiles = 0
  /\ ruleStep # "asked" => preamble = <<>>

\* Writing, loading and asking for rules keep their types.
LEMMA RulesStayTyped == RuleTyped /\ [RuleNext]_ruleVars => RuleTyped'
<1> SUFFICES ASSUME RuleTyped, [RuleNext]_ruleVars PROVE RuleTyped'
  OBVIOUS
<1>1. ASSUME UNCHANGED <<ruleStep, ruleSet, badFiles, askedPaths, preamble>> PROVE RuleTyped'
  BY <1>1 DEF RuleTyped
<1>2. CASE UNCHANGED ruleVars
  BY <1>1, <1>2 DEF ruleVars
<1>3. ASSUME NEW k, CreateFile(k) PROVE RuleTyped'
  BY <1>1, <1>3 DEF CreateFile
<1>4. ASSUME NEW p, WritePiece(p) PROVE RuleTyped'
  BY <1>1, <1>4 DEF WritePiece
<1>5. CASE LoadFromDir
  BY <1>5 DEF LoadFromDir, RuleTyped
<1>6. ASSUME NEW paths \in SUBSET RulePaths, FormatPreamble(paths) PROVE RuleTyped'
  <2>1. askedPaths' = paths /\ ruleStep' = "asked"
    BY <1>6 DEF FormatPreamble
  <2> QED
    BY <2>1 DEF RuleTyped
<1> QED
  BY <1>2, <1>3, <1>4, <1>5, <1>6 DEF RuleNext

\* What the invariant says of the types.
LEMMA RulesTyped == ASSUME RuleInv, RuleTyped PROVE RuleTypeOK
<1>1. PICK n \in Nat : n = Len(ruleFiles) /\ DOMAIN ruleFiles = 1 .. n
  BY DEF RuleInv
<1>2. \A f \in ToSet(ruleFiles) : f.kind \in Kind /\ ToSet(f.content) \subseteq Piece
  <2>1. \A f \in ToSet(ruleFiles) : f \in RuleFile
    BY DEF RuleInv, ToSet
  <2>2. \A f \in RuleFile : f.kind \in Kind /\ f.content \in Seq(Piece)
    BY DEF RuleFile
  <2>3. \A c \in Seq(Piece) : ToSet(c) \subseteq Piece
    BY DEF ToSet
  <2> QED
    BY <2>1, <2>2, <2>3
<1>3. ToSet(ruleSet.always_rules) \cup ToSet(ruleSet.rules) \subseteq DOMAIN ruleFiles
  <2>1. CASE ruleStep = "written"
    <3>1. ruleSet.always_rules = <<>> /\ ruleSet.rules = <<>>
      BY <2>1 DEF RuleTyped
    <3> QED
      BY <3>1 DEF ToSet
  <2>2. CASE ruleStep # "written"
    <3>1. ruleSet.always_rules = Loaded(TRUE) /\ ruleSet.rules = Loaded(FALSE)
      BY <2>2, LoadedSet
    <3>2. ToSet(Loaded(TRUE)) \subseteq DOMAIN ruleFiles /\ ToSet(Loaded(FALSE)) \subseteq DOMAIN ruleFiles
      BY LoadedOnce
    <3> QED
      BY <3>1, <3>2
  <2> QED
    BY <2>1, <2>2
<1>4. badFiles \in 0 .. Len(ruleFiles)
  <2>1. CASE ruleStep = "written"
    BY <1>1, <2>1 DEF RuleTyped
  <2>2. CASE ruleStep # "written"
    <3>1. PICK K : K = {i \in DOMAIN ruleFiles : IsSkipped(ruleFiles[i])}
      OBVIOUS
    <3>2. badFiles = Cardinality(K) /\ K \subseteq 1 .. n
      BY <1>1, <2>2, <3>1 DEF RuleInv
    <3>3. IsFiniteSet(1 .. n) /\ Cardinality(1 .. n) = n
      BY FS_Interval
    <3>4. Cardinality(K) \in Nat /\ Cardinality(K) <= n
      <4>1. IsFiniteSet(K) /\ Cardinality(K) <= Cardinality(1 .. n)
        BY <3>2, <3>3, FS_Subset
      <4> QED
        BY <3>3, <4>1, FS_CardinalityType
    <3> QED
      BY <1>1, <3>2, <3>4
  <2> QED
    BY <2>1, <2>2
<1>5. \A k \in DOMAIN preamble : preamble[k].rule \in DOMAIN ruleFiles
  <2>1. CASE ruleStep # "asked"
    BY <2>1 DEF RuleTyped
  <2>2. CASE ruleStep = "asked"
    <3>1. PICK t : t = RulesMatching(askedPaths)
      OBVIOUS
    <3>2. t \in Seq(DOMAIN ruleFiles)
      BY <2>2, <3>1, MatchedOnce
    <3>3. preamble = [k \in DOMAIN t |-> [rule |-> t[k], heading |-> RuleOf(t[k]).described,
                                          body |-> RuleOf(t[k]).body]]
      BY <2>2, <3>1 DEF RuleInv, PreambleFor
    <3> QED
      BY <3>2, <3>3
  <2> QED
    BY <2>1, <2>2
<1> QED
  BY <1>2, <1>3, <1>4, <1>5 DEF RuleTypeOK, RuleInv, RuleTyped

\* The rules stay typed, whatever the directory holds.
LEMMA RuleTypes == RuleSpec => []RuleTypeOK
<1>1. RuleInit => RuleTyped
  BY DEF RuleInit, RuleTyped
<1>2. RuleInv /\ RuleTyped => RuleTypeOK
  BY RulesTyped
<1> QED
  BY <1>1, <1>2, RuleInvInductive, RulesStayTyped, PTL DEF RuleSpec

-----------------------------------------------------------------------------
(* The score.                                                               *)

\* The findings claimed so far are the first of the pool, in turn, and what is
\* left of it is the rest.
PoolInTurn ==
  /\ goldens \in Nat /\ next \in 1 .. goldens + 1
  /\ truePos \in Seq(Nat \X Nat) /\ falseNeg \in Seq(Nat) /\ unmatched \in Seq(Nat)
  /\ \A i \in 1 .. Len(truePos) : truePos[i][2] = i
  /\ \A i \in 1 .. Len(unmatched) : unmatched[i] = Len(truePos) + i
  /\ {truePos[i][1] : i \in 1 .. Len(truePos)} \cup ToSet(falseNeg) = 1 .. next - 1
  /\ Len(truePos) + Len(falseNeg) = next - 1

JudgesInTurn ==
  /\ DOMAIN verdict = AllGoldens
  /\ verdicts \subseteq AllGoldens /\ judgeErrors \subseteq AllGoldens
  /\ VerdictsAreKept

ScoreInv == PoolInTurn /\ JudgesInTurn

\* No finding is claimed.
LEMMA ScoreStarts == ScoringInit => ScoreInv
<1> SUFFICES ASSUME ScoringInit PROVE ScoreInv
  OBVIOUS
<1>1. PICK n \in 0 .. MaxPool : unmatched = [i \in 1 .. n |-> i]
  BY DEF ScoringInit
<1>2. n \in Nat /\ goldens \in Nat
  BY ScoringAssumption DEF ScoringInit
<1>3. unmatched \in Seq(Nat) /\ Len(unmatched) = n /\ \A i \in 1 .. n : unmatched[i] = i
  BY <1>1, <1>2
<1>4. truePos = <<>> /\ falseNeg = <<>> /\ next = 1
  BY DEF ScoringInit
<1>5. truePos \in Seq(Nat \X Nat) /\ falseNeg \in Seq(Nat) /\ Len(truePos) = 0 /\ Len(falseNeg) = 0
      /\ ToSet(falseNeg) = {} /\ 1 .. Len(truePos) = {} /\ 1 .. next - 1 = {}
  BY <1>4 DEF ToSet
<1>6. PoolInTurn
  BY <1>2, <1>3, <1>4, <1>5 DEF PoolInTurn
<1>7. JudgesInTurn
  BY DEF ScoringInit, JudgesInTurn, VerdictsAreKept
<1> QED
  BY <1>6, <1>7 DEF ScoreInv

\* A finding is found and removed at one place of the pool, or at none.
LEMMA Matching ==
  ASSUME PoolInTurn, MatchGolden
  PROVE  PoolInTurn'
<1>1. /\ goldens \in Nat /\ next \in Nat /\ next \in 1 .. goldens /\ next' = next + 1
      /\ goldens' = goldens
      /\ truePos \in Seq(Nat \X Nat) /\ falseNeg \in Seq(Nat) /\ unmatched \in Seq(Nat)
      /\ Len(truePos) \in Nat /\ Len(falseNeg) \in Nat
  BY DEF PoolInTurn, MatchGolden
<1>2. /\ \A i \in 1 .. Len(truePos) : truePos[i][2] = i
      /\ \A i \in 1 .. Len(unmatched) : unmatched[i] = Len(truePos) + i
      /\ {truePos[i][1] : i \in 1 .. Len(truePos)} \cup ToSet(falseNeg) = 1 .. next - 1
      /\ Len(truePos) + Len(falseNeg) = next - 1
  BY DEF PoolInTurn
<1>3. 1 .. next' - 1 = (1 .. next - 1) \cup {next} /\ next' \in 1 .. goldens + 1
  BY <1>1
<1>4. CASE TruePositive
  <2>1. unmatched # <<>>
    BY <1>4 DEF TruePositive, JudgeComment, ToSet
  <2>2. /\ Len(unmatched) \in Nat \ {0} /\ Head(unmatched) = Len(truePos) + 1
        /\ Tail(unmatched) \in Seq(Nat) /\ Len(Tail(unmatched)) = Len(unmatched) - 1
        /\ \A i \in 1 .. Len(unmatched) - 1 : Tail(unmatched)[i] = unmatched[i + 1]
    <3>1. Len(unmatched) \in Nat \ {0}
      BY <1>1, <2>1
    <3>2. Head(unmatched) = unmatched[1] /\ 1 \in 1 .. Len(unmatched)
      BY <1>1, <2>1, <3>1
    <3>3. Head(unmatched) = Len(truePos) + 1
      BY <1>2, <3>2
    <3>4. unmatched \in Seq(Nat) /\ unmatched # <<>>
      BY <1>1, <3>1
    <3>5. Tail(unmatched) \in Seq(Nat) /\ Len(Tail(unmatched)) = Len(unmatched) - 1
      BY <3>4
    <3>6. \A i \in 1 .. Len(unmatched) - 1 : Tail(unmatched)[i] = unmatched[i + 1]
      BY <3>4
    <3> QED
      BY <3>1, <3>3, <3>5, <3>6
  <2>3. PICK e : e = <<next, Len(truePos) + 1>>
    OBVIOUS
  <2>4. truePos' = Append(truePos, e) /\ unmatched' = Tail(unmatched) /\ UNCHANGED falseNeg
    BY <1>4, <2>2, <2>3 DEF TruePositive
  <2>5. e \in Nat \X Nat /\ e[1] = next /\ e[2] = Len(truePos) + 1
    BY <1>1, <2>3
  <2>6. /\ truePos' \in Seq(Nat \X Nat) /\ Len(truePos') = Len(truePos) + 1
        /\ truePos'[Len(truePos) + 1] = e
        /\ \A i \in 1 .. Len(truePos) : truePos'[i] = truePos[i]
    BY <1>1, <2>4, <2>5
  <2>7. 1 .. Len(truePos') = (1 .. Len(truePos)) \cup {Len(truePos) + 1}
    BY <1>1, <2>6
  <2>8. \A i \in 1 .. Len(truePos') : truePos'[i][2] = i
    BY <1>2, <2>5, <2>6, <2>7
  <2>9. \A i \in 1 .. Len(unmatched') : unmatched'[i] = Len(truePos') + i
    <3> TAKE i \in 1 .. Len(unmatched')
    <3>1. i \in 1 .. Len(unmatched) - 1 /\ i + 1 \in 1 .. Len(unmatched)
      BY <2>2, <2>4
    <3>2. unmatched'[i] = Len(truePos) + (i + 1)
      BY <1>2, <2>2, <2>4, <3>1
    <3> QED
      BY <1>1, <2>6, <3>1, <3>2
  <2>10. {truePos'[i][1] : i \in 1 .. Len(truePos')}
           = {truePos[i][1] : i \in 1 .. Len(truePos)} \cup {next}
    <3> DEFINE F == {truePos[i][1] : i \in 1 .. Len(truePos)}
    <3>1. \A i \in 1 .. Len(truePos) : truePos'[i][1] = truePos[i][1]
      BY <2>6
    <3>2. truePos'[Len(truePos) + 1][1] = next
      BY <2>5, <2>6
    <3> QED
      BY <2>7, <3>1, <3>2
  <2>11. {truePos'[i][1] : i \in 1 .. Len(truePos')} \cup ToSet(falseNeg') = 1 .. next' - 1
    BY <1>2, <1>3, <2>4, <2>10
  <2>12. Len(truePos') + Len(falseNeg') = next' - 1
    BY <1>1, <1>2, <2>4, <2>6
  <2>13. goldens' \in Nat /\ next' \in 1 .. goldens' + 1 /\ falseNeg' \in Seq(Nat)
    BY <1>1, <1>3, <2>4
  <2>14. truePos' \in Seq(Nat \X Nat) /\ unmatched' \in Seq(Nat)
    BY <2>2, <2>4, <2>6
  <2> QED
    BY <2>8, <2>9, <2>11, <2>12, <2>13, <2>14 DEF PoolInTurn
<1>5. CASE FalseNegative
  <2>1. falseNeg' = Append(falseNeg, next) /\ UNCHANGED <<unmatched, truePos>>
    BY <1>5 DEF FalseNegative
  <2>2. /\ falseNeg' \in Seq(Nat) /\ Len(falseNeg') = Len(falseNeg) + 1
        /\ falseNeg'[Len(falseNeg) + 1] = next
        /\ \A i \in 1 .. Len(falseNeg) : falseNeg'[i] = falseNeg[i]
        /\ DOMAIN falseNeg' = (1 .. Len(falseNeg)) \cup {Len(falseNeg) + 1}
        /\ DOMAIN falseNeg = 1 .. Len(falseNeg)
    BY <1>1, <2>1
  <2>3. ToSet(falseNeg') = ToSet(falseNeg) \cup {next}
    BY <2>2 DEF ToSet
  <2>4. {truePos'[i][1] : i \in 1 .. Len(truePos')} \cup ToSet(falseNeg') = 1 .. next' - 1
    BY <1>2, <1>3, <2>1, <2>3
  <2>5. Len(truePos') + Len(falseNeg') = next' - 1
    BY <1>1, <1>2, <2>1, <2>2
  <2> QED
    BY <1>1, <1>2, <1>3, <2>1, <2>2, <2>4, <2>5 DEF PoolInTurn
<1> QED
  BY <1>4, <1>5 DEF MatchGolden

\* Every step of the matching.
LEMMA ScoreSteps == ScoreInv /\ [ScoringNext]_scoringVars => ScoreInv'
<1> SUFFICES ASSUME ScoreInv, [ScoringNext]_scoringVars PROVE ScoreInv'
  OBVIOUS
<1> USE DEF ScoreInv
<1>1. CASE MatchGolden
  <2>1. JudgesInTurn'
    BY <1>1 DEF MatchGolden, JudgesInTurn, VerdictsAreKept, AllGoldens, judging
  <2> QED
    BY <1>1, <2>1, Matching
<1>2. ASSUME SpawnJudges \/ \E g \in AllGoldens : JudgeAnswers(g) \/ JoinVerdict(g)
      PROVE  ScoreInv'
  <2>0. UNCHANGED <<goldens, unmatched, next, truePos, falseNeg>>
    BY <1>2 DEF SpawnJudges, JudgeAnswers, JoinVerdict, pool
  <2>1. PoolInTurn'
    BY ZenonT(40), <2>0 DEF PoolInTurn, ToSet
  <2>2. CASE SpawnJudges
    BY <2>1, <2>2 DEF SpawnJudges, JudgesInTurn, VerdictsAreKept, AllGoldens
  <2>3. ASSUME NEW g \in AllGoldens, JudgeAnswers(g) PROVE ScoreInv'
    BY <2>1, <2>3 DEF JudgeAnswers, JudgesInTurn, VerdictsAreKept, AllGoldens
  <2>4. ASSUME NEW g \in AllGoldens, JoinVerdict(g) PROVE ScoreInv'
    BY <2>1, <2>4 DEF JoinVerdict, JudgesInTurn, VerdictsAreKept, AllGoldens
  <2> QED
    BY <1>2, <2>2, <2>3, <2>4
<1>3. CASE UNCHANGED scoringVars
  BY <1>3 DEF scoringVars, pool, judging, PoolInTurn, JudgesInTurn, VerdictsAreKept, AllGoldens
<1> QED
  BY <1>1, <1>2, <1>3 DEF ScoringNext

\* Findings that are claimed in turn are shared out.
LEMMA TurnsPartition == PoolInTurn => ScoreIsAPartition
<1> SUFFICES ASSUME PoolInTurn PROVE ScoreIsAPartition
  OBVIOUS
<1>1. /\ Len(truePos) \in Nat /\ Len(unmatched) \in Nat /\ Len(falseNeg) \in Nat
      /\ next \in Nat
      /\ DOMAIN truePos = 1 .. Len(truePos) /\ DOMAIN unmatched = 1 .. Len(unmatched)
  BY DEF PoolInTurn
<1>2. /\ \A i \in 1 .. Len(truePos) : truePos[i][2] = i
      /\ \A i \in 1 .. Len(unmatched) : unmatched[i] = Len(truePos) + i
      /\ {truePos[i][1] : i \in 1 .. Len(truePos)} \cup ToSet(falseNeg) = 1 .. next - 1
      /\ Len(truePos) + Len(falseNeg) = next - 1
  BY DEF PoolInTurn
<1> DEFINE m == Len(truePos)
           k == Len(unmatched)
<1>3. Taken = 1 .. m
  BY <1>1, <1>2 DEF Taken
<1>4. ToSet(unmatched) = m + 1 .. m + k
  <2>1. ToSet(unmatched) = {m + i : i \in 1 .. k}
    BY <1>1, <1>2 DEF ToSet
  <2>2. ASSUME NEW x \in m + 1 .. m + k PROVE x \in {m + i : i \in 1 .. k}
    <3>1. x - m \in 1 .. k /\ x = m + (x - m)
      BY <1>1
    <3> QED
      BY <3>1
  <2>3. \A i \in 1 .. k : m + i \in m + 1 .. m + k
    BY <1>1
  <2> QED
    BY <2>1, <2>2, <2>3
<1>5. Taken \cap ToSet(unmatched) = {} /\ Taken \cup ToSet(unmatched) = 1 .. m + k
  BY <1>1, <1>3, <1>4
<1>6. Cardinality(1 .. m) = m /\ Cardinality(1 .. m + k) = m + k
  <2>1. 1 \in Int /\ m \in Int /\ m + k \in Int
    BY <1>1
  <2>2. \A a, b \in Int : Cardinality(a .. b) = IF a > b THEN 0 ELSE b - a + 1
    BY FS_Interval
  <2>3. Cardinality(1 .. m) = IF 1 > m THEN 0 ELSE m - 1 + 1
    BY <2>1, <2>2
  <2>4. Cardinality(1 .. m + k) = IF 1 > m + k THEN 0 ELSE (m + k) - 1 + 1
    BY <2>1, <2>2
  <2> QED
    BY <1>1, <2>3, <2>4
<1>7. /\ Metrics.true_positives = m /\ Metrics.false_positives = k
      /\ Metrics.false_negatives = Len(falseNeg)
  BY DEF Metrics
<1>8. Precision(Metrics)[2] \in {1, m + k}
  BY <1>1, <1>7 DEF Precision
<1>9. Recall(Metrics)[2] \in {1, next - 1}
  BY <1>1, <1>2, <1>7 DEF Recall
<1> QED
  BY <1>1, <1>2, <1>3, <1>5, <1>6, <1>8, <1>9 DEF ScoreIsAPartition

\* What is counted is what was judged, once: every golden is matched or missed,
\* no finding is claimed twice, and a verdict is of a golden that was asked
\* about, for any number of findings and goldens and whichever of their texts
\* contain each other (run_consensus_post, judge_finding).
THEOREM ScoresAreWhole == ScoringSpec => []ScoreIsWhole
<1>1. ScoreInv => ScoreIsWhole
  BY TurnsPartition DEF ScoreInv, JudgesInTurn, ScoreIsWhole
<1> QED
  BY <1>1, ScoreStarts, ScoreSteps, PTL DEF ScoringSpec

-----------------------------------------------------------------------------
(* The types of a score.                                                   *)

\* A score starts with nothing matched, missed or judged.
LEMMA ScoringStartsTyped == ScoringInit => ScoringTypeOK
<1> SUFFICES ASSUME ScoringInit PROVE ScoringTypeOK
  OBVIOUS
<1>1. PICK P, A : P = 1 .. MaxPool /\ A = AllGoldens
  OBVIOUS
<1>2. unmatched \in Seq(P)
  <2>1. PICK n \in 0 .. MaxPool : unmatched = [i \in 1 .. n |-> i]
    BY DEF ScoringInit
  <2>2. n \in Nat /\ \A i \in 1 .. n : i \in P
    BY <1>1, <2>1, ScoringAssumption
  <2>3. unmatched \in [1 .. n -> P]
    BY <2>1, <2>2
  <2> QED
    BY <2>2, <2>3
<1>3. goldens \in Nat /\ next \in 1 .. goldens + 1
  BY ScoringAssumption DEF ScoringInit
<1>4. truePos = <<>> /\ falseNeg = <<>>
  BY DEF ScoringInit
<1>5. truePos \in Seq(A \X P) /\ falseNeg \in Seq(A)
  BY <1>4
<1> QED
  BY <1>1, <1>2, <1>3, <1>5 DEF ScoringInit, ScoringTypeOK

\* A golden is matched with a finding of the pool, or missed.
LEMMA MatchingTyped ==
  ASSUME ScoringTypeOK, ScoreInv, MatchGolden
  PROVE  ScoringTypeOK'
<1>1. PICK P, A : P = 1 .. MaxPool /\ A = AllGoldens
  OBVIOUS
<1>2. /\ unmatched \in Seq(P) /\ truePos \in Seq(A \X P) /\ falseNeg \in Seq(A)
      /\ goldens \in 0 .. MaxGoldens /\ goldens \in Nat
  BY <1>1, ScoringAssumption DEF ScoringTypeOK
<1>3. /\ next <= goldens /\ next' = next + 1 /\ UNCHANGED <<goldens, overlap, verdict, verdicts, judgeErrors>>
      /\ TruePositive \/ FalseNegative
  BY DEF MatchGolden, judging
<1>4. AllGoldens' = AllGoldens /\ next \in A /\ next' \in 1 .. goldens' + 1
  BY <1>1, <1>2, <1>3 DEF AllGoldens, ScoringTypeOK
<1>5. /\ unmatched' \in Seq(P) /\ truePos' \in Seq(A \X P) /\ falseNeg' \in Seq(A)
  <2>1. CASE TruePositive
    <3>1. unmatched # <<>>
      BY <2>1 DEF TruePositive, JudgeComment, ToSet
    <3>2. Head(unmatched) \in P /\ Tail(unmatched) \in Seq(P)
      BY <1>2, <3>1
    <3>3. PICK e : e = <<next, Head(unmatched)>>
      OBVIOUS
    <3>4. e \in A \X P
      BY <1>4, <3>2, <3>3
    <3>5. truePos' = Append(truePos, e) /\ unmatched' = Tail(unmatched) /\ falseNeg' = falseNeg
      BY <2>1, <3>3 DEF TruePositive
    <3>6. PICK G : G = A \X P
      OBVIOUS
    <3>7. truePos' \in Seq(G)
      BY <1>2, <3>4, <3>5, <3>6
    <3> QED
      BY <1>2, <3>2, <3>5, <3>6, <3>7
  <2>2. CASE FalseNegative
    BY <1>2, <1>4, <2>2 DEF FalseNegative
  <2> QED
    BY <1>3, <2>1, <2>2
<1> QED
  BY <1>1, <1>3, <1>4, <1>5 DEF ScoringTypeOK

\* Every step keeps the types of the score.
LEMMA ScoringStaysTyped == ScoringTypeOK /\ ScoreInv /\ [ScoringNext]_scoringVars => ScoringTypeOK'
<1> SUFFICES ASSUME ScoringTypeOK, ScoreInv, [ScoringNext]_scoringVars PROVE ScoringTypeOK'
  OBVIOUS
<1>1. CASE MatchGolden
  BY <1>1, MatchingTyped
<1> DEFINE Verdicts == {"none", "running", "ok", "error", "panic", "joined"}
<1>2. ASSUME UNCHANGED <<goldens, overlap, pool>>, verdict' \in [AllGoldens -> Verdicts],
             verdicts' \subseteq AllGoldens, judgeErrors' \subseteq AllGoldens
      PROVE  ScoringTypeOK'
  BY <1>2 DEF ScoringTypeOK, AllGoldens, pool
<1>3. CASE SpawnJudges
  BY <1>2, <1>3 DEF SpawnJudges, ScoringTypeOK
<1>4. ASSUME NEW g \in AllGoldens, JudgeAnswers(g) PROVE ScoringTypeOK'
  BY <1>2, <1>4 DEF JudgeAnswers, ScoringTypeOK
<1>5. ASSUME NEW g \in AllGoldens, JoinVerdict(g) PROVE ScoringTypeOK'
  BY <1>2, <1>5 DEF JoinVerdict, ScoringTypeOK
<1>6. CASE UNCHANGED scoringVars
  BY <1>2, <1>6 DEF scoringVars, judging, ScoringTypeOK
<1> QED
  BY <1>1, <1>3, <1>4, <1>5, <1>6 DEF ScoringNext

\* The score stays typed, however many findings and goldens there are.
LEMMA ScoringTypes == ScoringSpec => []ScoringTypeOK
  BY ScoreStarts, ScoreSteps, ScoringStartsTyped, ScoringStaysTyped, PTL DEF ScoringSpec

-----------------------------------------------------------------------------
(* The evaluation.                                                         *)

\* What does not run stays as it is, so that an evaluation is one of its parts.
THEOREM EvaluationIsItsParts ==
  EvaluationSpec =>
    /\ Spec /\ PanelSpec /\ FindingsSpec /\ DiffSpec
    /\ ScoringSpec /\ ToolSpec /\ PromptSpec /\ RuleSpec
<1>1. EvaluationInit =>
        /\ Init /\ PanelInit /\ FindingsInit /\ DiffInit
        /\ ScoringInit /\ ToolInit /\ PromptInit /\ RuleInit
  BY DEF EvaluationInit
<1>2. [EvaluationNext]_evaluationVars =>
        /\ [Next]_vars /\ [PanelNext]_panelVars /\ [FindingsNext]_findingsVars /\ [DiffNext]_diffVars
        /\ [ScoringNext]_scoringVars /\ [ToolNext]_toolVars /\ [PromptNext]_promptVars
        /\ [RuleNext]_ruleVars
  BY DEF EvaluationNext, evaluationVars
<1> QED
  BY <1>1, <1>2, PTL DEF EvaluationSpec, Spec, PanelSpec, FindingsSpec, DiffSpec, ScoringSpec,
     ToolSpec, PromptSpec, RuleSpec

\* Whatever part runs, its state and that of the others stay typed (EvaluationTypeOK).
THEOREM EvaluationTypes == EvaluationSpec => []EvaluationTypeOK
<1>1. /\ TypeOK /\ PanelTypeOK /\ FindingsTypeOK /\ DiffTypeOK /\ ScoringTypeOK
      /\ ToolTypeOK /\ PromptTypeOK /\ RuleTypeOK
      => EvaluationTypeOK
  BY DEF EvaluationTypeOK
<1> QED
  BY <1>1, EvaluationIsItsParts, BuilderTypes, PanelTypes, FindingsTypes, DiffTypes, ScoringTypes,
     ToolTypes, PromptTypes, RuleTypes, PTL

\* An evaluation keeps every promise of its parts, when calls are made one at a time:
\* transcripts are whole and in order, the findings sound, every agent's return
\* whole, no line of the diff lost, the score of what was judged, the tools' pages,
\* the prompts and the rules whole.
THEOREM EvaluationIsWhole ==
  ASSUME ~SideBySide
  PROVE  EvaluationSpec =>
           [](/\ SessionIsNumbered /\ ToolMessagesMatch /\ TranscriptIsWhole /\ FindingsAreSound
              /\ ReturnIsWhole /\ DiffIsWhole /\ ScoreIsWhole /\ ToolsTellTheTruth
              /\ PromptIsWhole /\ RulesAreWhole)
<1>1. Spec => []ToolMessagesMatch
  BY ToolMessagesHold
<1>2. Spec => []TranscriptIsWhole
  BY TranscriptStaysWhole
<1> QED
  BY <1>1, <1>2, EvaluationIsItsParts, TranscriptOrdered, MergeIsSound, ReturnsWhole, DiffStaysWhole,
     ScoresAreWhole, ToolsAreTruthful, PromptsAreWhole, RulesStayWhole, PTL

=============================================================================
