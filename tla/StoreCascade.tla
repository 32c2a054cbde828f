----------------------------- MODULE StoreCascade -----------------------------
(***************************************************************************)
(* The derived Save and LoadChildren of a review, its agent sessions, their *)
(* turns and messages, on the store's tables.  Neither runs in a            *)
(* transaction: each statement is a step of its own, and the task of a      *)
(* review saves while get_review loads and reconciles.                      *)
(*                                                                         *)
(* A review's task is reduced to its saves; ReviewLifecycle has the rest.   *)
(***************************************************************************)
EXTENDS Naturals, SequencesExt, Subsequences

CONSTANTS
  Reviews,    \* reviews that are running at the start
  Loads,      \* page loads of get_review
  AgentCount, \* agents of the panel of each review
  TurnCount,  \* turns of each agent, of one message each
  MaxErrors   \* bound: statements that fail

\* The task of a review and a page load are different writers, and finitely many
\* clients load pages.
ASSUME CascadeAssumption ==
  /\ AgentCount \in Nat \ {0}
  /\ TurnCount \in Nat
  /\ MaxErrors \in Nat
  /\ Reviews \cap Loads = {} /\ IsFiniteSet(Loads)

Writers == Reviews \cup Loads
Agents == 1 .. AgentCount

\* Statements: an upsert of the review row, an upsert of a session row, the
\* insertion of a turn, and that of a message of the turn saved last.
Statement ==
  [kind : {"review"}, status : {"Completed", "Failed"}]
    \cup [kind : {"session"}, agent : Agents]
    \cup [kind : {"turn", "message"}, agent : Agents, index : 1 .. TurnCount]

VARIABLES
  status,    \* status[r]: of r's row in reviews
  session,   \* session[r]: agents that wrote agent_sessions' row of r, 0 for none
  turns,     \* agent_turns, by primary key
  messages,  \* agent_turn_messages, by primary key
  active,    \* active_reviews
  job,       \* job[r]: what the task of r is at
  todo,      \* todo[w]: statements w still has to execute
  review,    \* review[w]: the review w works on
  parent,    \* parent[w]: __parent_pk, the turn w inserted last
  load,      \* load[p]: what get_review has read so far
  errors     \* statements that failed

tables == <<status, session, turns, messages>>
cascadeVars == <<tables, active, job, todo, review, parent, load, errors>>

NoLoad ==
  [pc |-> "idle", status |-> "Running", whole |-> FALSE, queue |-> <<>>, read |-> <<>>]

CascadeTypeOK ==
  /\ status \in [Reviews -> {"Running", "Completed", "Failed"}]
  /\ session \in [Reviews -> {0} \cup Agents]
  /\ \A t \in ToSet(turns) :
       t \in [review : Reviews, agent : Agents, index : 1 .. TurnCount]
  /\ \A m \in ToSet(messages) :
       m \in [turn : DOMAIN turns, agent : Agents, index : 1 .. TurnCount]
  /\ active \subseteq Reviews
  /\ job \in [Reviews -> {"working", "saving", "marking", "done"}]
  /\ \A w \in Writers :
       /\ ToSet(todo[w]) \subseteq Statement
       /\ review[w] \in Reviews
       /\ parent[w] \in {0} \cup DOMAIN turns
  /\ \A p \in Loads :
       /\ load[p].pc \in {"idle", "sessions", "turns", "messages", "check", "save"}
       /\ ToSet(load[p].queue) \subseteq DOMAIN turns
       /\ ToSet(load[p].read) \subseteq Statement
  /\ errors \in 0 .. MaxErrors

CascadeInit ==
  /\ status = [r \in Reviews |-> "Running"]
  /\ session = [r \in Reviews |-> 0]
  /\ turns = <<>>
  /\ messages = <<>>
  /\ active = Reviews
  /\ job = [r \in Reviews |-> "working"]
  /\ todo = [w \in Writers |-> <<>>]
  /\ review \in {f \in [Writers -> Reviews] : \A r \in Reviews : f[r] = r}
  /\ parent = [w \in Writers |-> 0]
  /\ load = [p \in Loads |-> NoLoad]
  /\ errors = 0

-----------------------------------------------------------------------------
(* What a save executes, parents before children.                          *)

Upsert(s) == [kind |-> "review", status |-> s]
TurnOf(a, i) ==
  <<[kind |-> "turn", agent |-> a, index |-> i],
    [kind |-> "message", agent |-> a, index |-> i]>>
SessionOf(a) ==
  <<[kind |-> "session", agent |-> a]>> \o FlattenSeq([i \in 1 .. TurnCount |-> TurnOf(a, i)])

\* Every agent's session, built under the id of the review.
Transcript == FlattenSeq([a \in Agents |-> SessionOf(a)])

\* Save of a review with the given children.
SaveReview(s, children) == <<Upsert(s)>> \o children

-----------------------------------------------------------------------------
(* The statements.                                                         *)

UpsertReview(r, s) ==
  /\ status' = [status EXCEPT ![r] = s.status]
  /\ UNCHANGED <<session, turns, messages, parent>>

\* An insertion that meets the row of another agent updates it.
UpsertSession(r, s) ==
  /\ session' = [session EXCEPT ![r] = s.agent]
  /\ UNCHANGED <<status, turns, messages, parent>>

InsertTurn(w, s) ==
  /\ turns' = Append(turns, [review |-> review[w], agent |-> s.agent, index |-> s.index])
  /\ parent' = [parent EXCEPT ![w] = Len(turns')]
  /\ UNCHANGED <<status, session, messages>>

\* Mutant of InsertMessage: the key is the one the table gave out last.
InsertMessageUnderLast(w, s) ==
  /\ messages' = Append(messages,
       [turn |-> Len(turns), agent |-> s.agent, index |-> s.index])
  /\ UNCHANGED <<status, session, turns, parent>>

InsertMessage(w, s) ==
  /\ messages' = Append(messages,
       [turn |-> parent[w], agent |-> s.agent, index |-> s.index])
  /\ UNCHANGED <<status, session, turns, parent>>

Execute(w) ==
  /\ todo[w] # <<>>
  /\ LET s == Head(todo[w]) IN
       \/ s.kind = "review" /\ UpsertReview(review[w], s)
       \/ s.kind = "session" /\ UpsertSession(review[w], s)
       \/ s.kind = "turn" /\ InsertTurn(w, s)
       \/ s.kind = "message" /\ InsertMessage(w, s)
  /\ todo' = [todo EXCEPT ![w] = Tail(@)]
  /\ UNCHANGED <<active, job, review, load, errors>>

\* The first error ends the save; what is stored stays.
StatementFails(w) ==
  /\ todo[w] # <<>> /\ errors < MaxErrors
  /\ errors' = errors + 1
  /\ todo' = [todo EXCEPT ![w] = <<>>]
  /\ job' = IF w \in Reviews /\ job[w] = "saving" /\ status[w] = "Running"
              THEN [job EXCEPT ![w] = "marking"] ELSE job
  /\ UNCHANGED <<tables, active, review, parent, load>>

-----------------------------------------------------------------------------
(* The task of a review.                                                   *)

\* The pipeline returned: the completed review, or the failed one, which is
\* saved without its sessions.
Save(r) ==
  /\ job[r] = "working"
  /\ \E children \in {SaveReview("Completed", Transcript), SaveReview("Failed", <<>>)} :
       todo' = [todo EXCEPT ![r] = children]
  /\ job' = [job EXCEPT ![r] = "saving"]
  /\ UNCHANGED <<tables, active, review, parent, load, errors>>

\* The save failed on the row itself: ensure_terminal_review_state marks the
\* review, which it holds without sessions.
Mark(r) ==
  /\ job[r] = "marking"
  /\ todo' = [todo EXCEPT ![r] = SaveReview("Failed", <<>>)]
  /\ job' = [job EXCEPT ![r] = "saving"]
  /\ UNCHANGED <<tables, active, review, parent, load, errors>>

Unregister(r) ==
  /\ job[r] = "saving" /\ todo[r] = <<>>
  /\ job' = [job EXCEPT ![r] = "done"]
  /\ active' = active \ {r}
  /\ UNCHANGED <<tables, todo, review, parent, load, errors>>

-----------------------------------------------------------------------------
(* get_review: the row, its sessions, their turns, and the messages of one  *)
(* turn after the other, then reconcile_review_state.                       *)

LoadRow(p) ==
  LET r == review[p] IN
  /\ load[p].pc = "idle"
  /\ load' = [load EXCEPT ![p] =
       [NoLoad EXCEPT !.pc = "sessions", !.status = status[r],
                      !.whole = status[r] = "Completed" /\ todo[r] = <<>> /\ errors = 0]]
  /\ UNCHANGED <<tables, active, job, todo, review, parent, errors>>

LoadSessions(p) ==
  LET a == session[review[p]] IN
  /\ load[p].pc = "sessions"
  /\ load' = [load EXCEPT ![p].pc = IF a = 0 THEN "check" ELSE "turns",
                          ![p].read = IF a = 0 THEN <<>>
                                               ELSE <<[kind |-> "session", agent |-> a]>>]
  /\ UNCHANGED <<tables, active, job, todo, review, parent, errors>>

\* Every turn of the session's id, of whichever agent.
LoadTurns(p) ==
  /\ load[p].pc = "turns"
  /\ load' = [load EXCEPT ![p].pc = "messages",
       ![p].queue = Picked([i \in DOMAIN turns |-> i],
                           {i \in DOMAIN turns : turns[i].review = review[p]})]
  /\ UNCHANGED <<tables, active, job, todo, review, parent, errors>>

\* The messages of a turn.
Under(i) == Picked(messages, {j \in DOMAIN messages : messages[j].turn = i})

LoadMessages(p) ==
  LET i == Head(load[p].queue)
      t == [kind |-> "turn", agent |-> turns[i].agent, index |-> turns[i].index]
      ms == Under(i) IN
  /\ load[p].pc = "messages" /\ load[p].queue # <<>>
  /\ load' = [load EXCEPT
       ![p].queue = Tail(@),
       ![p].read = @ \o <<t>> \o
         [k \in DOMAIN ms |->
            [kind |-> "message", agent |-> ms[k].agent, index |-> ms[k].index]]]
  /\ UNCHANGED <<tables, active, job, todo, review, parent, errors>>

LoadEnds(p) ==
  /\ load[p].pc = "messages" /\ load[p].queue = <<>>
  /\ load' = [load EXCEPT ![p].pc = "check"]
  /\ UNCHANGED <<tables, active, job, todo, review, parent, errors>>

\* A row read as running whose review is not active is saved as failed, with
\* the children it was loaded with.
Reconcile(p) ==
  /\ load[p].pc = "check"
  /\ \/ /\ load[p].status = "Running" /\ review[p] \notin active
        /\ todo' = [todo EXCEPT ![p] = SaveReview("Failed", load[p].read)]
        /\ load' = [load EXCEPT ![p].pc = "save"]
     \/ /\ load[p].status # "Running" \/ review[p] \in active
        /\ load' = [load EXCEPT ![p] = NoLoad]
        /\ UNCHANGED todo
  /\ UNCHANGED <<tables, active, job, review, parent, errors>>

Answer(p) ==
  /\ load[p].pc = "save" /\ todo[p] = <<>>
  /\ load' = [load EXCEPT ![p] = NoLoad]
  /\ UNCHANGED <<tables, active, job, todo, review, parent, errors>>

CascadeNext ==
  \/ \E w \in Writers : Execute(w) \/ StatementFails(w)
  \/ \E r \in Reviews : Save(r) \/ Mark(r) \/ Unregister(r)
  \/ \E p \in Loads :
       \/ LoadRow(p) \/ LoadSessions(p) \/ LoadTurns(p) \/ LoadMessages(p)
       \/ LoadEnds(p) \/ Reconcile(p) \/ Answer(p)

CascadeSpec == CascadeInit /\ [][CascadeNext]_cascadeVars

-----------------------------------------------------------------------------
(* Properties.                                                             *)

\* A message is stored under the turn it was said in, whoever else is
\* inserting turns between the two statements (__parent_pk).
MessagesUnderTheirTurn ==
  \A m \in ToSet(messages) :
    turns[m.turn].agent = m.agent /\ turns[m.turn].index = m.index

\* No child without its parent, and a review that still looks running has no
\* transcript yet: marking it cannot double one (build_save_function's order).
ParentsFirst ==
  \A r \in Reviews :
    /\ session[r] # 0 => status[r] # "Running"
    /\ (\E t \in ToSet(turns) : t.review = r) => session[r] # 0

WithoutSessions(ss) == Picked(ss, {i \in DOMAIN ss : ss[i].kind # "session"})

\* A load that began after a save without errors reads every turn with its
\* message, once and in order, and only those of its review, while the other
\* review is being saved (load_children); unless an older load marks the review
\* failed meanwhile.
LoadIsWhole ==
  \A p \in Loads :
    load[p].pc = "check" /\ load[p].whole /\ status[review[p]] = "Completed" =>
      WithoutSessions(load[p].read) = WithoutSessions(Transcript)

Copies(t) == Cardinality({i \in DOMAIN turns : turns[i] = t})

\* A turn is stored once by the job, and each load that was under way when the
\* row ended at most doubles it: its reconciliation inserts what it has read
\* again, under a row it marks as failed, and no later load does it any more
\* (reconcile_review_state).
DoubledByTornLoads ==
  \A t \in ToSet(turns) :
    /\ Copies(t) <= 2 ^ Cardinality({p \in Loads : review[p] = t.review})
    /\ Copies(t) > 1 => status[t.review] = "Failed" /\ job[t.review] = "done"

\* Whoever writes, the rows of a review hang together: a message under the
\* turn it was said in, a turn under a session, no session before the review has
\* ended; who loads after a save gets all of them, and who loaded before it may
\* store them once more.
CascadeIsWhole ==
  MessagesUnderTheirTurn /\ ParentsFirst /\ LoadIsWhole /\ DoubledByTornLoads

\* "A list of turns the agent has taken in this session": the row of a session
\* and the turns under it are of one agent.
OneAgentPerSession ==
  \A t \in ToSet(turns) : session[t.review] = t.agent

=============================================================================
