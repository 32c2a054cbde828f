------------------------------ MODULE Evaluation ------------------------------
(***************************************************************************)
(* What one evaluation is made of: the diff it is about, the rules and the   *)
(* prompts of the agents, their panel, transcripts and tools, the findings   *)
(* they end in and their score.  The parts share no state, so a behaviour is one of any of them.  *)
(***************************************************************************)
EXTENDS Transcript, Panel, Findings, DiffSections, Scoring, ToolCalls, PromptLibrary,
  RuleFiles

VARIABLE part  \* which of them

\* The headers of the instance: a path is kept, or matches a filter or two; its
\* language needs the panel or not; or it is quoted.
MCHeaders ==
  [kind : {"git"}, filters : {{}, {1}, {1, 2}}, full : BOOLEAN, parses : {TRUE}]
    \cup [kind : {"git"}, filters : {{}}, full : {FALSE}, parses : {FALSE}]

\* Patterns for some paths, for all and for none.
MCGlobPaths == [py |-> {"main.py"}, all |-> {"main.py", "lib.rs"}, open |-> {}]

evaluationVars == <<part, vars, panelVars, findingsVars, diffVars, scoringVars, toolVars, promptVars, ruleVars>>

\* What does not run stays in one initial state.
EvaluationInit ==
  /\ part \in {"agent", "panel", "findings", "diff", "scoring", "tools", "prompts", "rules"}
  /\ Init
  /\ PanelInit /\ (part # "panel" => selected = {} /\ small)
  /\ (part # "findings" => input = <<>>) /\ FindingsInit
  /\ DiffInit
  /\ (part # "scoring" => goldens = 0 /\ unmatched = <<>>) /\ ScoringInit
  /\ (part # "tools" => text = <<>>) /\ ToolInit
  /\ PromptInit
  /\ RuleInit

EvaluationNext ==
  \/ /\ part = "agent" /\ Next
     /\ UNCHANGED <<part, panelVars, findingsVars, diffVars, scoringVars, toolVars, promptVars, ruleVars>>
  \/ /\ part = "panel" /\ PanelNext
     /\ UNCHANGED <<part, vars, findingsVars, diffVars, scoringVars, toolVars, promptVars, ruleVars>>
  \/ /\ part = "findings" /\ FindingsNext
     /\ UNCHANGED <<part, vars, panelVars, diffVars, scoringVars, toolVars, promptVars, ruleVars>>
  \/ /\ part = "diff" /\ DiffNext
     /\ UNCHANGED <<part, vars, panelVars, findingsVars, scoringVars, toolVars, promptVars, ruleVars>>
  \/ /\ part = "scoring" /\ ScoringNext
     /\ UNCHANGED <<part, vars, panelVars, findingsVars, diffVars, toolVars, promptVars, ruleVars>>
  \/ /\ part = "tools" /\ ToolNext
     /\ UNCHANGED <<part, vars, panelVars, findingsVars, diffVars, scoringVars, promptVars, ruleVars>>
  \/ /\ part = "prompts" /\ PromptNext
     /\ UNCHANGED <<part, vars, panelVars, findingsVars, diffVars, scoringVars, toolVars, ruleVars>>
  \/ /\ part = "rules" /\ RuleNext
     /\ UNCHANGED <<part, vars, panelVars, findingsVars, diffVars, scoringVars, toolVars, promptVars>>

\* The panel's fairness: tokio runs every task that is ready, and rig ends
\* every stream, if only with an error.
EvaluationSpec ==
  /\ EvaluationInit /\ [][EvaluationNext]_evaluationVars
  /\ WF_panelVars(part = "panel" /\ Spawn)
  /\ WF_panelVars(part = "panel" /\ Return)
  /\ \A a \in Library :
       /\ WF_panelVars(part = "panel" /\ End(a))
       /\ WF_panelVars(part = "panel" /\ AgentFinished(a))
       /\ WF_panelVars(part = "panel" /\ Join(a))

-----------------------------------------------------------------------------
(* Properties.                                                             *)

\* The types of the parts.
EvaluationTypeOK ==
  TypeOK /\ PanelTypeOK /\ FindingsTypeOK /\ DiffTypeOK /\ ScoringTypeOK /\ ToolTypeOK
    /\ PromptTypeOK /\ RuleTypeOK

\* A review that started returns when its streams end (run_reviewers).
PanelReturns == (part = "panel" /\ phase = "start") ~> phase \in {"completed", "failed"}

=============================================================================
