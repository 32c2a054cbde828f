--------------------------- MODULE ReviewLifecycle ---------------------------
(***************************************************************************)
(* The life of a review on the web server: the request handler that starts *)
(* it (start_review, start_benchmark), the background task that runs it    *)
(* under run_launch_job_with_recovery, and the page loads that read it and *)
(* "reconcile" rows that look abandoned.  The three share the store and    *)
(* three maps of AppState, each behind a lock of its own, and nothing      *)
(* else: there is no transaction and no lock held across two of the steps  *)
(* below, so one step is one store call, one locked section or one         *)
(* broadcast send.                                                         *)
(*                                                                         *)
(* The environment may fail store calls, drop the handler of a client that *)
(* disconnected, and kill the process; how often is bounded by constants.  *)
(***************************************************************************)
EXTENDS Naturals, Sequences, FiniteSets

CONSTANTS
  Reviews,      \* ids handed out by new_review_id
  Benchmarks,   \* those of them started by start_benchmark
  Readers,      \* concurrent page loads (list_reviews, get_review)
  None,         \* no review
  MaxPrs,       \* bound: pull requests of one benchmark
  MaxFaults,    \* bound: store calls that return an error
  MaxDrops,     \* bound: start handlers dropped half way
  MaxCrashes    \* bound: restarts of the server process

ASSUME ConstantsAssumption ==
  /\ Benchmarks \subseteq Reviews
  /\ None \notin Reviews
  /\ MaxPrs \in Nat \ {0}
  /\ MaxFaults \in Nat
  /\ MaxDrops \in Nat
  /\ MaxCrashes \in Nat

VARIABLES
  row,       \* row[r]: what the reviews table holds
  results,   \* results[r]: stored PrResult rows of r
  active,    \* AppState.active_reviews
  channels,  \* keys of AppState.review_channels
  agents,    \* keys of AppState.live_review_agents
  launcher,  \* launcher[r]: where the start handler is
  job,       \* job[r]: where the background task is
  sent,      \* sent[r]: events broadcast on r's channel, in order
  reader,    \* reader[p]: where page load p is
  budget     \* what is left of the environment's misbehaviour

registry == <<active, channels, agents>>
vars == <<row, results, active, channels, agents, launcher, job, sent, reader,
          budget>>

-----------------------------------------------------------------------------
(* Rows.  `analytics' stands for the runtime blob (analytics and duration). *)

Status == {"Absent", "Running", "Completed", "Failed"}
Row == [status : Status, analytics : BOOLEAN, error : BOOLEAN]

AbsentRow    == [status |-> "Absent",    analytics |-> FALSE, error |-> FALSE]
RunningRow   == [status |-> "Running",   analytics |-> FALSE, error |-> FALSE]
CompletedRow == [status |-> "Completed", analytics |-> TRUE,  error |-> FALSE]

\* What the job stores when the evaluation itself failed.
JobFailedRow == [status |-> "Failed", analytics |-> TRUE, error |-> TRUE]

\* Mutant of MarkedRow: the running row it was made from.
MarkedRowUnchanged == RunningRow

\* What mark_review_failed and reconcile_review_state store: both start from
\* a running row, so the runtime blob they write is empty.
MarkedRow == [status |-> "Failed", analytics |-> FALSE, error |-> TRUE]

Terminal(w) == w.status \in {"Completed", "Failed"}

-----------------------------------------------------------------------------
(* The control state of the actors.                                        *)

LauncherPc == {"idle", "saved", "activated", "channelled", "done", "failed",
               "dropped"}

\* The background task holds the sender and is the review's live job from
\* "evaluate" to "unregisterAgents".
Working == {"evaluate", "results", "announce", "ensure", "mark", "markAnnounce"}
Leaving == {"unregister", "unregisterChannel", "unregisterAgents"}
JobPc   == Working \cup Leaving \cup {"none", "done", "killed"}

\* todo: pull requests still being evaluated; oks: evaluated successfully;
\* saved: results stored.
Job == [pc : JobPc, todo : 0 .. MaxPrs, oks : 0 .. MaxPrs, saved : 0 .. MaxPrs]
NoJob == [pc |-> "none", todo |-> 0, oks |-> 0, saved |-> 0]

\* What is sent while agents work ("progress") is an action of ReviewStream: no
\* step below reads it.
Event == {"progress", "completed", "failed"}

\* todo: reviews of the loaded snapshot not yet reconciled; stale: the one
\* found inactive, about to be saved; seenActive: history variable, which
\* reviews were active when the snapshot was loaded.
Reader == [todo : SUBSET Reviews, stale : Reviews \cup {None},
           seenActive : SUBSET Reviews]
IdleReader == [todo |-> {}, stale |-> None, seenActive |-> {}]

Budget == [faults : 0 .. MaxFaults, drops : 0 .. MaxDrops,
           crashes : 0 .. MaxCrashes]

TypeOK ==
  /\ row \in [Reviews -> Row]
  /\ results \in [Reviews -> 0 .. MaxPrs]
  /\ active \subseteq Reviews
  /\ channels \subseteq Reviews
  /\ agents \subseteq Reviews
  /\ launcher \in [Reviews -> LauncherPc]
  /\ job \in [Reviews -> Job]
  /\ sent \in [Reviews -> Seq(Event)]
  /\ reader \in [Readers -> Reader]
  /\ budget \in Budget

Init ==
  /\ row = [r \in Reviews |-> AbsentRow]
  /\ results = [r \in Reviews |-> 0]
  /\ active = {}
  /\ channels = {}
  /\ agents = {}
  /\ launcher = [r \in Reviews |-> "idle"]
  /\ job = [r \in Reviews |-> NoJob]
  /\ sent = [r \in Reviews |-> <<>>]
  /\ reader = [p \in Readers |-> IdleReader]
  /\ budget = [faults |-> MaxFaults, drops |-> MaxDrops, crashes |-> MaxCrashes]

-----------------------------------------------------------------------------
(* Store calls and sends.                                                  *)

Save(r, w) == row' = [row EXCEPT ![r] = w] /\ UNCHANGED budget

StoreFails ==
  /\ budget.faults > 0
  /\ budget' = [budget EXCEPT !.faults = @ - 1]

Send(r, e) == sent' = [sent EXCEPT ![r] = Append(@, e)]

JobGoes(r, pc) == job' = [job EXCEPT ![r].pc = pc]

-----------------------------------------------------------------------------
(* The start handler: the row first, then the three maps, then the task.   *)

SaveRunning(r) ==
  /\ launcher[r] = "idle"
  /\ \/ /\ Save(r, RunningRow)
        /\ launcher' = [launcher EXCEPT ![r] = "saved"]
     \/ /\ StoreFails
        /\ launcher' = [launcher EXCEPT ![r] = "failed"]
        /\ UNCHANGED row
  /\ UNCHANGED <<results, registry, job, sent, reader>>

RegisterActive(r) ==
  /\ launcher[r] = "saved"
  /\ active' = active \cup {r}
  /\ launcher' = [launcher EXCEPT ![r] = "activated"]
  /\ UNCHANGED <<row, results, channels, agents, job, sent, reader, budget>>

RegisterChannel(r) ==
  /\ launcher[r] = "activated"
  /\ channels' = channels \cup {r}
  /\ launcher' = [launcher EXCEPT ![r] = "channelled"]
  /\ UNCHANGED <<row, results, active, agents, job, sent, reader, budget>>

PrCounts(r) == IF r \in Benchmarks THEN 1 .. MaxPrs ELSE {1}

\* Mutant: spawned before the channel is registered.
SpawnEarly(r) ==
  /\ launcher[r] \in {"activated", "channelled"}
  /\ agents' = agents \cup {r}
  /\ launcher' = [launcher EXCEPT ![r] = "done"]
  /\ \E n \in PrCounts(r) :
       job' = [job EXCEPT ![r] = [NoJob EXCEPT !.pc = "evaluate", !.todo = n]]
  /\ UNCHANGED <<row, results, active, channels, sent, reader, budget>>

\* The handler spawns the task as soon as the third map is written.
RegisterAgentsAndSpawn(r) ==
  /\ launcher[r] = "channelled"
  /\ agents' = agents \cup {r}
  /\ launcher' = [launcher EXCEPT ![r] = "done"]
  /\ \E n \in PrCounts(r) :
       job' = [job EXCEPT ![r] = [NoJob EXCEPT !.pc = "evaluate", !.todo = n]]
  /\ UNCHANGED <<row, results, active, channels, sent, reader, budget>>

\* External: hyper drops the handler of a closed connection, which it can do
\* wherever the handler waits.
DropHandler(r) ==
  /\ launcher[r] \in {"saved", "activated", "channelled"}
  /\ budget.drops > 0
  /\ budget' = [budget EXCEPT !.drops = @ - 1]
  /\ launcher' = [launcher EXCEPT ![r] = "dropped"]
  /\ UNCHANGED <<row, results, registry, job, sent, reader>>

-----------------------------------------------------------------------------
(* The background task: run_review_job and run_benchmark_job.  A single    *)
(* review is the case of one pull request; where the two differ is said.   *)

\* Mutant: one evaluation too many.
AfterPrLate(r) == IF job[r].todo = 0 THEN "results" ELSE "evaluate"

AfterPr(r) == IF job[r].todo = 1 THEN "results" ELSE "evaluate"

\* evaluate publishes ReviewCompleted as its last act, before anything of the
\* outcome is stored; in a benchmark every pull request does.
PrEvaluated(r) ==
  /\ job[r].pc = "evaluate"
  /\ Send(r, "completed")
  /\ job' = [job EXCEPT ![r].pc = AfterPr(r), ![r].todo = @ - 1, ![r].oks = @ + 1]
  /\ UNCHANGED <<row, results, registry, launcher, reader, budget>>

\* An agent error fails the pull request's evaluation and publishes nothing.
PrFails(r) ==
  /\ job[r].pc = "evaluate"
  /\ job' = [job EXCEPT ![r].pc = AfterPr(r), ![r].todo = @ - 1]
  /\ UNCHANGED <<row, results, registry, launcher, sent, reader, budget>>

\* Unknown roles, no client, an error of run_benchmark, or a panic.
AbortJob(r) ==
  /\ job[r].pc = "evaluate"
  /\ JobGoes(r, "ensure")
  /\ UNCHANGED <<row, results, registry, launcher, sent, reader, budget>>

SaveResult(r) ==
  /\ job[r].pc = "results"
  /\ job[r].saved < job[r].oks
  /\ \/ /\ results' = [results EXCEPT ![r] = @ + 1]
        /\ job' = [job EXCEPT ![r].saved = @ + 1]
        /\ UNCHANGED budget
     \/ /\ StoreFails
        /\ JobGoes(r, "ensure")
        /\ UNCHANGED results
  /\ UNCHANGED <<row, registry, launcher, sent, reader>>

\* Mutant: completed without a single result.
FinalRowAtLeastZero(r) == IF job[r].oks >= 0 THEN CompletedRow ELSE JobFailedRow

FinalRow(r) == IF job[r].oks > 0 THEN CompletedRow ELSE JobFailedRow

\* Mutant: a review that completed returns without being unregistered.
AfterFinalReturns(r) ==
  IF r \notin Benchmarks /\ job[r].oks > 0 THEN "done" ELSE "announce"

\* A single review that completed is not announced again: evaluate did it.
AfterFinal(r) ==
  IF r \notin Benchmarks /\ job[r].oks > 0 THEN "unregister" ELSE "announce"

\* The row is saved before its agent sessions, one statement each: an error
\* in a session leaves the completed row behind.
SaveFinal(r) ==
  /\ job[r].pc = "results"
  /\ job[r].saved = job[r].oks
  /\ \/ Save(r, FinalRow(r)) /\ JobGoes(r, AfterFinal(r))
     \/ StoreFails /\ JobGoes(r, "ensure") /\ UNCHANGED row
     \/ /\ r \notin Benchmarks /\ job[r].oks > 0
        /\ StoreFails
        /\ row' = [row EXCEPT ![r] = CompletedRow]
        /\ JobGoes(r, "ensure")
  /\ UNCHANGED <<results, registry, launcher, sent, reader>>

\* A single review is announced here only when it failed, and its job then
\* returns an error to run_launch_job_with_recovery.
Announce(r) ==
  /\ job[r].pc = "announce"
  /\ Send(r, IF job[r].oks > 0 THEN "completed" ELSE "failed")
  /\ JobGoes(r, IF r \in Benchmarks THEN "unregister" ELSE "ensure")
  /\ UNCHANGED <<row, results, registry, launcher, reader, budget>>

\* Mutants of EnsureTerminal: the stored status not looked at; the review
\* taken off the active list before it is marked.
EnsureUnchecked(r) ==
  /\ job[r].pc = "ensure"
  /\ JobGoes(r, "mark")
  /\ UNCHANGED <<row, results, registry, launcher, sent, reader, budget>>

EnsureUnregisters(r) ==
  /\ job[r].pc = "ensure"
  /\ active' = active \ {r}
  /\ JobGoes(r, IF Terminal(row[r]) THEN "unregister" ELSE "mark")
  /\ UNCHANGED <<row, results, channels, agents, launcher, sent, reader, budget>>

\* ensure_terminal_review_state: a row that cannot be loaded counts as not
\* terminal.
EnsureTerminal(r) ==
  /\ job[r].pc = "ensure"
  /\ \/ Terminal(row[r]) /\ JobGoes(r, "unregister") /\ UNCHANGED budget
     \/ ~Terminal(row[r]) /\ JobGoes(r, "mark") /\ UNCHANGED budget
     \/ StoreFails /\ JobGoes(r, "mark")
  /\ UNCHANGED <<row, results, registry, launcher, sent, reader>>

\* Mutant: an error of the save is returned before the announcement.
MarkFailedReturns(r) ==
  /\ job[r].pc = "mark"
  /\ \/ Save(r, MarkedRow) /\ JobGoes(r, "markAnnounce")
     \/ StoreFails /\ JobGoes(r, "unregister") /\ UNCHANGED row
  /\ UNCHANGED <<results, registry, launcher, sent, reader>>

\* mark_review_failed: an error of the save is logged, and the failure is
\* announced all the same.
MarkFailed(r) ==
  /\ job[r].pc = "mark"
  /\ \/ Save(r, MarkedRow)
     \/ StoreFails /\ UNCHANGED row
  /\ JobGoes(r, "markAnnounce")
  /\ UNCHANGED <<results, registry, launcher, sent, reader>>

MarkAnnounce(r) ==
  /\ job[r].pc = "markAnnounce"
  /\ Send(r, "failed")
  /\ JobGoes(r, "unregister")
  /\ UNCHANGED <<row, results, registry, launcher, reader, budget>>

Unregister(r) ==
  /\ job[r].pc = "unregister"
  /\ active' = active \ {r}
  /\ JobGoes(r, "unregisterChannel")
  /\ UNCHANGED <<row, results, channels, agents, launcher, sent, reader, budget>>

UnregisterChannel(r) ==
  /\ job[r].pc = "unregisterChannel"
  /\ channels' = channels \ {r}
  /\ JobGoes(r, "unregisterAgents")
  /\ UNCHANGED <<row, results, active, agents, launcher, sent, reader, budget>>

\* The task ends here and drops the last sender of the channel.
UnregisterAgents(r) ==
  /\ job[r].pc = "unregisterAgents"
  /\ agents' = agents \ {r}
  /\ JobGoes(r, "done")
  /\ UNCHANGED <<row, results, active, channels, launcher, sent, reader, budget>>

-----------------------------------------------------------------------------
(* Page loads.  The rows are read first, the active list after that, once  *)
(* for each running row, and the rows found inactive are saved as failed.  *)

RunningRows == {r \in Reviews : row[r].status = "Running"}

\* list_reviews takes all running rows, get_review its own.
Snapshots == {RunningRows} \cup {{r} : r \in RunningRows}

Load(p) ==
  /\ reader[p] = IdleReader
  /\ \E S \in Snapshots \ {{}} :
       reader' = [reader EXCEPT ![p] =
                    [todo |-> S, stale |-> None, seenActive |-> S \cap active]]
  /\ UNCHANGED <<row, results, registry, launcher, job, sent, budget>>

\* Done with one review: the history variable is forgotten with the last.
Without(rd, r) ==
  IF rd.todo = {r} THEN IdleReader
                   ELSE [rd EXCEPT !.todo = @ \ {r}, !.stale = None]

CheckActive(p) ==
  /\ reader[p].stale = None
  /\ \E r \in reader[p].todo :
       reader' = [reader EXCEPT ![p] =
                    IF r \in active THEN Without(@, r)
                                    ELSE [@ EXCEPT !.stale = r]]
  /\ UNCHANGED <<row, results, registry, launcher, job, sent, budget>>

\* Mutant: the status is corrected in the answer and not in the store.
ReconcileAnswerOnly(p) ==
  /\ reader[p].stale # None
  /\ reader' = [reader EXCEPT ![p] = Without(@, reader[p].stale)]
  /\ UNCHANGED <<row, results, registry, launcher, job, sent, budget>>

\* The row saved is the one that was loaded, not the one now in the store.
Reconcile(p) ==
  LET r == reader[p].stale IN
  /\ r # None
  /\ \/ Save(r, MarkedRow)
     \/ StoreFails /\ UNCHANGED row
  /\ reader' = [reader EXCEPT ![p] = Without(@, r)]
  /\ UNCHANGED <<results, registry, launcher, job, sent>>

-----------------------------------------------------------------------------
\* External: the process dies and starts again; only the store survives.
Crash ==
  /\ budget.crashes > 0
  /\ budget' = [budget EXCEPT !.crashes = @ - 1]
  /\ active' = {}
  /\ channels' = {}
  /\ agents' = {}
  /\ launcher' = [r \in Reviews |->
                    IF launcher[r] \in {"saved", "activated", "channelled"}
                      THEN "dropped" ELSE launcher[r]]
  /\ job' = [r \in Reviews |-> IF job[r].pc \in Working \cup Leaving
                                 THEN [job[r] EXCEPT !.pc = "killed"]
                                 ELSE job[r]]
  /\ reader' = [p \in Readers |-> IdleReader]
  /\ UNCHANGED <<row, results, sent>>

LauncherStep(r) ==
  RegisterActive(r) \/ RegisterChannel(r) \/ RegisterAgentsAndSpawn(r)

JobStep(r) ==
  \/ PrEvaluated(r) \/ PrFails(r) \/ AbortJob(r)
  \/ SaveResult(r) \/ SaveFinal(r) \/ Announce(r)
  \/ EnsureTerminal(r) \/ MarkFailed(r) \/ MarkAnnounce(r)
  \/ Unregister(r) \/ UnregisterChannel(r) \/ UnregisterAgents(r)

ReaderStep(p) == CheckActive(p) \/ Reconcile(p)

ServerNext ==
  \/ \E r \in Reviews : \/ SaveRunning(r) \/ LauncherStep(r) \/ DropHandler(r)
                        \/ JobStep(r)
  \/ \E p \in Readers : Load(p) \/ ReaderStep(p)

Next == ServerNext \/ Crash

Spec == Init /\ [][Next]_vars

-----------------------------------------------------------------------------
(* Fairness.  Spawned tasks and accepted requests are scheduled by tokio;  *)
(* a started handler goes on, an evaluation ends (the model providers      *)
(* answer or fail: the code itself sets no time limit), and somebody keeps *)
(* a page open that polls.  Starting a review, dropped handlers and        *)
(* crashes are not fair.                                                   *)

TaskFairness ==
  \A r \in Reviews : WF_vars(LauncherStep(r)) /\ WF_vars(JobStep(r))
ReaderFairness ==
  \A p \in Readers : WF_vars(Load(p)) /\ WF_vars(ReaderStep(p))

FairSpec == Spec /\ TaskFairness /\ ReaderFairness

-----------------------------------------------------------------------------
(* Properties.                                                             *)

\* From the first step of the background task to its last announcement the
\* review is in all three maps, so that loads see it active, subscribers find
\* its channel and the live page its agents (register_live_review runs before
\* the spawn, unregister_live_review after the recovery).
WorkingJobIsRegistered ==
  \A r \in Reviews :
    job[r].pc \in Working => r \in active \cap channels \cap agents

Registering == {"activated", "channelled"}

\* The maps do not leak: an entry belongs to a handler that is still going to
\* spawn the task, or to a task that is still going to remove it.  The one
\* exception is a handler dropped between the two.
RegistryIsOwned ==
  \A r \in active \cup channels \cup agents :
    \/ launcher[r] \in Registering
    \/ job[r].pc \in Working \cup Leaving
    \/ launcher[r] = "dropped"

LastSent(r) == sent[r][Len(sent[r])]

\* Nobody is left waiting by a job that is over: either the row is terminal,
\* or the last event on the channel was a failure and a store call did fail
\* (run_launch_job_with_recovery and ensure_terminal_review_state).
ExitIsKnown ==
  \A r \in Reviews :
    job[r].pc \in Leaving \cup {"done"} /\ ~Terminal(row[r]) =>
      sent[r] # <<>> /\ LastSent(r) = "failed" /\ budget.faults < MaxFaults

\* A completed row always has its pull request results behind it, all of
\* them, whatever failed and wherever the process died.
CompletedIsBacked ==
  \A r \in Reviews :
    row[r].status = "Completed" => results[r] = job[r].oks /\ results[r] > 0

\* The columns of a row agree: a reason exactly when it failed, the runtime
\* blob only on terminal rows and on every completed one.
RowIsConsistent ==
  \A r \in Reviews :
    /\ row[r].error <=> row[r].status = "Failed"
    /\ row[r].analytics => Terminal(row[r])
    /\ row[r].status = "Completed" => row[r].analytics

\* A load that saw the review active and later finds it inactive never meets
\* a job that is still working: what it overwrites is the row of a job that
\* is over.
ReconcileSparesSeenJobs ==
  \A p \in Readers :
    LET r == reader[p].stale IN
    r # None /\ r \in reader[p].seenActive => job[r].pc \notin Working

FaultsUsed == MaxFaults - budget.faults

\* A failure that was announced is not stored as a completion, unless three
\* store calls failed: the sessions of the completed row, the reload of
\* ensure_terminal_review_state and the save of mark_review_failed.
AnnouncedFailureStands ==
  \A r \in Reviews :
    /\ row[r].status = "Completed"
    /\ \E i \in DOMAIN sent[r] : sent[r][i] = "failed"
    => FaultsUsed >= 3

\* What a reader of the store sees of all this: the handler, the task and the
\* loads together implement ReviewRecord.
Record == INSTANCE ReviewRecord WITH status <- [r \in Reviews |-> row[r].status]

\* Whatever the interleaving of handlers, tasks, recoveries, loads and restarts
\* (start_review, run_launch_job_with_recovery, reconcile_review_state), the
\* stored review starts once, collects its results before it completes,
\* completes with a result behind it and never runs again.
ImplementsReviewRecord == Record!Spec

\* A review that ended never looks running again, whoever writes last.
TerminalIsFinal ==
  [][\A r \in Reviews : Terminal(row[r]) => Terminal(row[r]')]_vars

\* Every running row ends, although jobs abort, store calls fail and the
\* process restarts: the job, its recovery, or a later load sees to it.
EventuallyTerminal ==
  \A r \in Reviews : row[r].status = "Running" ~> Terminal(row[r])

\* A review does not stay live forever: its job takes it off all three maps,
\* however it ended (page loads read the maps and never clean them).
EventuallyUnregistered ==
  \A r \in Reviews :
    r \in active \cup channels \cup agents
      ~> r \notin active \cup channels \cup agents

=============================================================================
