------------------------------- MODULE LivePanes -------------------------------
(***************************************************************************)
(* The panes of the live page.  The agents of a review publish on one       *)
(* broadcast channel; the page takes the events off its EventSource and     *)
(* keeps, by agent, the text so far and a status.  Every pull request of a  *)
(* benchmark is announced as started and as completed on that channel       *)
(* while the agents of the others go on.  A connection that broke           *)
(* is opened again by the browser and goes on with what is published then;  *)
(* a receiver that is too slow skips what the channel no longer keeps.      *)
(*                                                                         *)
(* Whether the stream ends and the page leaves is ReviewStream.             *)
(***************************************************************************)
EXTENDS Naturals, SequencesExt, FiniteSetsExt

CONSTANTS
  Speakers,  \* agents that run on the review
  Listed,    \* those the review was registered with
  Kept,      \* capacity of the channel: 1024 in the code
  MaxSaid    \* bound: events of the review

ASSUME PanesAssumption == Kept \in Nat \ {0} /\ MaxSaid \in Nat

\* The chunks of an agent, and its usage after each completion.
Kinds == {"Thinking", "Output", "Tool", "AgentFinished"}
Endings == {"ReviewCompleted", "ReviewFailed"}

\* What is said of a review, or of a pull request of a benchmark.
Marks == {"ReviewStarted"} \cup Endings

VARIABLES
  registered,  \* whether live_review_agents has the review
  said,        \* what was published, in order
  tab,        \* where the page is, and the agents it has panes for
  panes,       \* agent_states
  stream       \* stream_status

paneVars == <<registered, said, tab, panes, stream>>

Pane == [response : Seq(1 .. MaxSaid), thinking : Seq(1 .. MaxSaid),
         status : {"Pending", "Completed"}]
NoPane == [response |-> <<>>, thinking |-> <<>>, status |-> "Pending"]

PaneInit ==
  /\ registered = FALSE
  /\ said = <<>>
  /\ tab = [pc |-> "closed", agents |-> {}, cursor |-> 0, skipped |-> {}]
  /\ panes = [a \in Speakers |-> NoPane]
  /\ stream = "Pending"

PaneTypeOK ==
  /\ panes \in [Speakers -> Pane]
  /\ tab.pc \in {"closed", "broken", "open", "left"} /\ tab.agents \subseteq Listed
  /\ tab.cursor \in 0 .. Len(said) /\ tab.skipped \subseteq 1 .. tab.cursor
  /\ stream \in {"Pending", "Running", "Completed", "Failed"}

\* register_live_review, after the row is stored; only then agents run.
RegisterPanes ==
  /\ ~registered /\ registered' = TRUE
  /\ UNCHANGED <<said, tab, panes, stream>>

\* Agents of several evaluations and the evaluations themselves, in any order:
\* one that is over does not keep the others from going on.
Publish ==
  /\ registered /\ Len(said) < MaxSaid
  /\ \/ \E a \in Speakers, k \in Kinds : said' = Append(said, [kind |-> k, agent |-> a])
     \/ \E k \in Marks : said' = Append(said, [kind |-> k])
  /\ UNCHANGED <<registered, tab, panes, stream>>

-----------------------------------------------------------------------------
(* The page.  skipped is history: the numbers of the events it did not get. *)

\* live_review_agents, or none for a review that is not registered.
ListLiveReviewAgents == IF registered THEN Listed ELSE {}

\* The agents are asked for once, when the page opens.
OpenPanes ==
  /\ tab.pc = "closed"
  /\ tab' = [tab EXCEPT !.pc = "broken", !.agents = ListLiveReviewAgents]
  /\ stream' = "Running"
  /\ UNCHANGED <<registered, said, panes>>

\* Mutant of ConnectPage: what was published before is sent again.
ConnectPageAgain ==
  /\ tab.pc = "broken" /\ registered
  /\ tab' = [tab EXCEPT !.pc = "open", !.cursor = 0]
  /\ UNCHANGED <<registered, said, panes, stream>>

\* The browser subscribes, for the first time or again.
ConnectPage ==
  /\ tab.pc = "broken" /\ registered
  /\ tab' = [tab EXCEPT !.pc = "open", !.cursor = Len(said),
                          !.skipped = @ \cup (tab.cursor + 1 .. Len(said))]
  /\ UNCHANGED <<registered, said, panes, stream>>

BreakConnection ==
  /\ tab.pc = "open"
  /\ tab' = [tab EXCEPT !.pc = "broken"]
  /\ UNCHANGED <<registered, said, panes, stream>>

Lost == IF Len(said) > Kept THEN Len(said) - Kept ELSE 0

Lag ==
  /\ tab.pc = "open" /\ tab.cursor < Lost
  /\ tab' = [tab EXCEPT !.cursor = Lost, !.skipped = @ \cup (tab.cursor + 1 .. Lost)]
  /\ UNCHANGED <<registered, said, panes, stream>>

\* A pane after event i: text is appended, a tool's chunks are not shown.  No
\* agent announces its start.
Applied(p, i) ==
  CASE said[i].kind = "Output" -> [p EXCEPT !.response = Append(@, i)]
    [] said[i].kind = "Thinking" -> [p EXCEPT !.thinking = Append(@, i)]
    [] said[i].kind = "AgentFinished" -> [p EXCEPT !.status = "Completed"]
    [] OTHER -> p

\* The status of the stream after an event of kind k.
Shown(k) ==
  CASE k = "ReviewStarted" -> "Running"
    [] k = "ReviewCompleted" -> "Completed"
    [] k = "ReviewFailed" -> "Failed"

\* After an ending the page leaves if the row has ended too, and stays otherwise.
ReceiveEvent ==
  LET i == tab.cursor + 1 IN
  /\ tab.pc = "open" /\ Lost <= tab.cursor /\ i <= Len(said)
  /\ IF said[i].kind \in Marks
       THEN /\ stream' = Shown(said[i].kind)
            /\ \E pc \in {"open"} \cup (IF said[i].kind \in Endings THEN {"left"} ELSE {}) :
                 tab' = [tab EXCEPT !.cursor = i, !.pc = pc]
            /\ UNCHANGED panes
       ELSE /\ panes' = [panes EXCEPT ![said[i].agent] = Applied(@, i)]
            /\ tab' = [tab EXCEPT !.cursor = i]
            /\ UNCHANGED stream
  /\ UNCHANGED <<registered, said>>

PaneNext ==
  RegisterPanes \/ Publish \/ OpenPanes \/ ConnectPage \/ BreakConnection \/ Lag \/ ReceiveEvent

PaneSpec == PaneInit /\ [][PaneNext]_paneVars

-----------------------------------------------------------------------------
(* Properties.                                                             *)

\* What a said of a kind, up to where the page is, and the page was there for.
Got(a, kind) ==
  {i \in (1 .. tab.cursor) \ tab.skipped : said[i].kind = kind /\ said[i].agent = a}

Increasing(s) == \A i, j \in DOMAIN s : i < j => s[i] < s[j]

\* A pane holds what its agent said, in the order it was said and no piece
\* twice, all but what the channel had dropped when the page lagged and what was
\* published while it was not connected, through the endings of other pull
\* requests; it is completed by its agent's own word and nothing else.
PaneIsItsAgents ==
  \A a \in Speakers :
    LET p == panes[a] IN
    /\ Increasing(p.response) /\ ToSet(p.response) = Got(a, "Output")
    /\ Increasing(p.thinking) /\ ToSet(p.thinking) = Got(a, "Thinking")
    /\ p.status = "Completed" <=> Got(a, "AgentFinished") # {}

=============================================================================
