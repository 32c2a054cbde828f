-------------------------------- MODULE Panel --------------------------------
(***************************************************************************)
(* One evaluation of a diff: the agents get_agents_for_diff picks run as    *)
(* tasks of a JoinSet, record their usage in the shared AnalyticsTracker,   *)
(* publish events, and are joined by run_reviewers; evaluate then returns   *)
(* findings and sessions, or nothing but the errors.                        *)
(*                                                                         *)
(* What a single agent streams is AgentStream; the findings are Findings.   *)
(***************************************************************************)
EXTENDS Naturals, FiniteSets, SequencesExt

CONSTANTS
  Library,      \* agents of the PromptLibrary
  Generalists,  \* those with generalist_agent set
  MaxCalls      \* bound: completions of the panel

ASSUME PanelAssumption ==
  /\ IsFiniteSet(Library) /\ Generalists \subseteq Library
  /\ MaxCalls \in Nat

VARIABLES
  selected,   \* EvalConfig.agents
  small,      \* should_use_single_agent(diff)
  phase,      \* where evaluate is
  panel,      \* effective_agents
  task,       \* task[a]: what the task of a is at
  findings,   \* agents whose findings were taken
  sessions,   \* agents whose sessions were taken, in order
  errors,     \* agents whose errors were taken
  calls,      \* AnalyticsTracker: call_count by agent
  events,     \* what was published, chunks left out
  returned,   \* what evaluate handed to its caller
  ended       \* history: how the task of each agent ended

taken == <<findings, sessions, errors>>
panelVars == <<selected, small, phase, panel, task, taken, calls, events, returned, ended>>

TaskState == {"none", "streaming", "recorded", "ok", "error", "panic", "joined"}
Over == {"ok", "error", "panic"}

NothingReturned == [findings |-> {}, sessions |-> <<>>, message |-> {}]

PanelTypeOK ==
  /\ selected \subseteq Library
  /\ small \in BOOLEAN
  /\ phase \in {"start", "running", "completed", "failed"}
  /\ panel \subseteq Library
  /\ task \in [Library -> TaskState]
  /\ findings \subseteq Library
  /\ ToSet(sessions) \subseteq panel
  /\ errors \subseteq Library
  /\ calls \in [Library -> 0 .. MaxCalls]
  /\ \A e \in ToSet(events) :
       e \in [kind : {"AgentFinished"}, agent : panel]
         \/ e.kind \in {"ReviewStarted", "ReviewCompleted"}
  /\ returned.findings \cup returned.message \cup ToSet(returned.sessions) \subseteq panel
  /\ ended \in [Library -> Over \cup {"none"}]

PanelInit ==
  /\ selected \in SUBSET Library
  /\ small \in BOOLEAN
  /\ phase = "start"
  /\ panel = {}
  /\ task = [a \in Library |-> "none"]
  /\ findings = {}
  /\ sessions = <<>>
  /\ errors = {}
  /\ calls = [a \in Library |-> 0]
  /\ events = <<>>
  /\ returned = NothingReturned
  /\ ended = [a \in Library |-> "none"]

-----------------------------------------------------------------------------
(* get_agents_for_diff: nobody selected means everybody; a small diff gets  *)
(* the generalist of the library, selected or not; the others never do.     *)

Candidates == IF selected = {} THEN Library ELSE selected

Panels ==
  IF small /\ Generalists # {} THEN {{g} : g \in Generalists}
                               ELSE {Candidates \ Generalists}

Send(e) == events' = Append(events, e)

\* ReviewStarted names the selected agents, then the tasks are spawned.
Spawn ==
  /\ phase = "start"
  /\ Send([kind |-> "ReviewStarted", agents |-> selected])
  /\ panel' \in Panels
  /\ task' = [a \in Library |-> IF a \in panel' THEN "streaming" ELSE "none"]
  /\ phase' = "running"
  /\ UNCHANGED <<selected, small, taken, calls, returned, ended>>

-----------------------------------------------------------------------------
(* The tasks.                                                              *)

TotalCalls == SumFunctionOnSet(calls, Library)

\* A completion ends: its usage is recorded under the agent ...
CompletionEnds(a) ==
  /\ phase = "running" /\ task[a] = "streaming" /\ TotalCalls < MaxCalls
  /\ calls' = [calls EXCEPT ![a] = @ + 1]
  /\ task' = [task EXCEPT ![a] = "recorded"]
  /\ UNCHANGED <<selected, small, phase, panel, taken, events, returned, ended>>

\* ... and then announced.
AgentFinished(a) ==
  /\ task[a] = "recorded"
  /\ Send([kind |-> "AgentFinished", agent |-> a])
  /\ task' = [task EXCEPT ![a] = "streaming"]
  /\ UNCHANGED <<selected, small, phase, panel, taken, calls, returned, ended>>

\* The stream ends with an output or without one, or the task panics.
End(a) ==
  /\ task[a] = "streaming"
  /\ \E r \in Over :
       /\ task' = [task EXCEPT ![a] = r]
       /\ ended' = [ended EXCEPT ![a] = r]
  /\ UNCHANGED <<selected, small, phase, panel, taken, calls, events, returned>>

-----------------------------------------------------------------------------
(* run_reviewers' join loop.                                               *)

JoinFailed(a) ==
  /\ task[a] = "error"
  /\ sessions' = Append(sessions, a)
  /\ errors' = errors \cup {a}
  /\ UNCHANGED findings

JoinOk(a) ==
  /\ task[a] = "ok"
  /\ sessions' = Append(sessions, a)
  /\ findings' = findings \cup {a}
  /\ UNCHANGED errors

\* A panic is logged; nothing is taken.
JoinPanicked(a) ==
  /\ task[a] = "panic"
  /\ UNCHANGED taken

Join(a) ==
  /\ JoinOk(a) \/ JoinFailed(a) \/ JoinPanicked(a)
  /\ task' = [task EXCEPT ![a] = "joined"]
  /\ UNCHANGED <<selected, small, phase, panel, calls, events, returned, ended>>

\* Mutants of AllJoined: the loop ends with the first task; it waits for
\* agents that were not spawned.
AllJoinedFirst == panel = {} \/ \E a \in panel : task[a] = "joined"
AllJoinedSelected == \A a \in Candidates : task[a] = "joined"

AllJoined == \A a \in panel : task[a] = "joined"

\* evaluate returns: a message made of the errors and nothing else, or
\* ReviewCompleted is sent and the results are returned.
Return ==
  /\ phase = "running" /\ AllJoined
  /\ \/ /\ errors # {}
        /\ phase' = "failed"
        /\ returned' = [NothingReturned EXCEPT !.message = errors]
        /\ UNCHANGED events
     \/ /\ errors = {}
        /\ phase' = "completed"
        /\ returned' = [NothingReturned EXCEPT !.findings = findings, !.sessions = sessions]
        /\ Send([kind |-> "ReviewCompleted", calls |-> calls])
  /\ UNCHANGED <<selected, small, panel, task, taken, calls, ended>>

PanelNext ==
  \/ Spawn \/ Return
  \/ \E a \in Library : CompletionEnds(a) \/ AgentFinished(a) \/ End(a) \/ Join(a)

PanelSpec == PanelInit /\ [][PanelNext]_panelVars

-----------------------------------------------------------------------------
(* Properties.                                                             *)

Announced(a) == Cardinality({i \in DOMAIN events :
                  events[i].kind = "AgentFinished" /\ events[i].agent = a})

\* ReviewCompleted is the last event, and its analytics hold every completion
\* that was announced, under the agent that made it: nobody is still
\* streaming when evaluate takes the snapshot.
SnapshotIsFinal ==
  \A i \in DOMAIN events : events[i].kind = "ReviewCompleted" =>
    /\ i = Len(events)
    /\ phase = "completed"
    /\ \A a \in Library : events[i].calls[a] = Announced(a)

Ended(how) == {a \in panel : ended[a] = how}

\* Whoever ends first and in whatever order they are joined: when no agent
\* ended with an error, evaluate returns the findings and the session of each
\* that ended with an output, once; a panicked one is missing without a word.
\* One error is enough for evaluate to return the errors, all of them, and
\* neither a finding nor a session of anybody.
AllOrErrors ==
  /\ phase = "completed" =>
       /\ Ended("error") = {} /\ returned.message = {}
       /\ returned.findings = Ended("ok") /\ ToSet(returned.sessions) = Ended("ok")
       /\ IsInjective(returned.sessions)
  /\ phase = "failed" =>
       /\ Ended("error") # {}
       /\ returned = [NothingReturned EXCEPT !.message = Ended("error")]

\* What evaluate returns is of the whole panel: the last word on its usage, and
\* the errors or else all findings and all sessions.
ReturnIsWhole == SnapshotIsFinal /\ AllOrErrors

=============================================================================
