----------------------- MODULE ReviewLifecycle_proofs -----------------------
(***************************************************************************)
(* Proofs about ReviewLifecycle, for any number of reviews, benchmarks,    *)
(* page loads, store errors, dropped handlers and restarts.  The inductive *)
(* invariant IInv has one part for each thing that must be remembered; the *)
(* parts are preserved one by one, and the theorems follow from them.      *)
(***************************************************************************)
EXTENDS ReviewLifecycle, TLAPS

\* The counters of a job, and the results table following one of them.
JobCounts ==
  \A r \in Reviews :
    /\ job[r].saved <= job[r].oks
    /\ job[r].todo + job[r].oks <= MaxPrs
    /\ job[r].pc = "evaluate" => job[r].todo >= 1
    /\ job[r].pc = "none" => job[r].saved = 0
    /\ results[r] = job[r].saved

\* What the position of the handler and of the task says of the row and of
\* the maps.
Phases ==
  \A r \in Reviews :
    /\ job[r].pc = "none" <=> launcher[r] # "done"
    /\ launcher[r] = "idle" => row[r].status = "Absent"
    /\ launcher[r] \in {"idle", "failed", "saved"} =>
         r \notin active /\ r \notin channels /\ r \notin agents
    /\ launcher[r] \in {"activated", "channelled"} => r \in active
    /\ launcher[r] = "channelled" => r \in channels
    /\ job[r].pc \in Working =>
         r \in active /\ r \in channels /\ r \in agents

\* A completed row was written after the last result.
Backed ==
  \A r \in Reviews :
    row[r].status = "Completed" =>
      /\ job[r].pc \notin {"none", "evaluate", "results"}
      /\ job[r].saved = job[r].oks
      /\ job[r].oks > 0

\* Loads only hold reviews that have a row.
Loaded ==
  \A p \in Readers : \A r \in Reviews :
    r \in reader[p].todo \/ r = reader[p].stale => row[r].status # "Absent"

\* A review seen active by a load is still so, or its task went through the
\* first step of unregister_live_review.
Gone(r) == r \notin active /\ job[r].pc \in (Leaving \ {"unregister"}) \cup {"done"}
Seen ==
  \A p \in Readers :
    /\ \A r \in reader[p].seenActive : r \in active \/ Gone(r)
    /\ reader[p].stale \in reader[p].seenActive => Gone(reader[p].stale)

IInv ==
  /\ TypeOK
  /\ JobCounts
  /\ Phases
  /\ RowIsConsistent
  /\ Backed
  /\ Loaded
  /\ Seen

-----------------------------------------------------------------------------
(* The types of what the helpers write.                                    *)

\* The five rows the code can write are rows.
LEMMA RowTypes ==
  /\ AbsentRow \in Row
  /\ RunningRow \in Row
  /\ CompletedRow \in Row
  /\ JobFailedRow \in Row
  /\ MarkedRow \in Row
BY DEF AbsentRow, RunningRow, CompletedRow, JobFailedRow, MarkedRow, Row, Status

\* A store error takes one from the bound and no more.
LEMMA StoreFailsType == ASSUME budget \in Budget, StoreFails PROVE budget' \in Budget
BY ConstantsAssumption DEF StoreFails, Budget

\* A save leaves a table of rows.
LEMMA SaveType ==
  ASSUME row \in [Reviews -> Row], budget \in Budget, NEW r \in Reviews, NEW w \in Row,
         Save(r, w)
  PROVE  row' \in [Reviews -> Row] /\ budget' \in Budget
BY DEF Save

\* A broadcast event is appended to the channel's history.
LEMMA SendType ==
  ASSUME sent \in [Reviews -> Seq(Event)], NEW r \in Reviews, NEW e \in Event, Send(r, e)
  PROVE  sent' \in [Reviews -> Seq(Event)]
BY DEF Send

\* A task that moves on keeps its counters.
LEMMA JobGoesType ==
  ASSUME job \in [Reviews -> Job], NEW r \in Reviews, NEW pc \in JobPc, JobGoes(r, pc)
  PROVE  job' \in [Reviews -> Job]
BY DEF JobGoes, Job

\* A task that finished a pull request counts it.
LEMMA JobUpdateType ==
  ASSUME NEW j \in Job, NEW pc \in JobPc, NEW t \in 0 .. MaxPrs, NEW o \in 0 .. MaxPrs
  PROVE  /\ [j EXCEPT !.pc = pc, !.todo = t] \in Job
         /\ [j EXCEPT !.pc = pc, !.todo = t, !.oks = o] \in Job
BY DEF Job

\* Every step keeps the types; JobCounts bounds the counters.
LEMMA TypeStep == ASSUME TypeOK, JobCounts, [Next]_vars PROVE TypeOK'
<1>1. ASSUME NEW r \in Reviews, SaveRunning(r) PROVE TypeOK'
  <2>1. row' \in [Reviews -> Row] /\ budget' \in Budget
    BY <1>1, RowTypes, SaveType, StoreFailsType DEF SaveRunning, TypeOK
  <2>2. launcher' \in [Reviews -> LauncherPc]
    BY <1>1 DEF SaveRunning, TypeOK, LauncherPc
  <2>3. QED
    BY <1>1, <2>1, <2>2 DEF SaveRunning, TypeOK, registry
<1>2. ASSUME NEW r \in Reviews, LauncherStep(r) PROVE TypeOK'
  <2>1. launcher' \in [Reviews -> LauncherPc]
    BY <1>2 DEF LauncherStep, RegisterActive, RegisterChannel, RegisterAgentsAndSpawn,
       TypeOK, LauncherPc
  <2>2. job' \in [Reviews -> Job]
    <3>1. \A n \in PrCounts(r) : [NoJob EXCEPT !.pc = "evaluate", !.todo = n] \in Job
      <4>1. ASSUME NEW n \in PrCounts(r) PROVE n \in 0 .. MaxPrs
        BY ConstantsAssumption DEF PrCounts
      <4>2. NoJob \in Job /\ "evaluate" \in JobPc
        BY ConstantsAssumption DEF NoJob, Job, JobPc, Working
      <4>3. QED
        BY <4>1, <4>2 DEF Job
    <3>2. QED
      BY ZenonT(40), <1>2, <3>1 DEF LauncherStep, RegisterActive, RegisterChannel, RegisterAgentsAndSpawn,
         TypeOK
  <2>3. QED
    BY <1>2, <2>1, <2>2 DEF LauncherStep, RegisterActive, RegisterChannel,
       RegisterAgentsAndSpawn, TypeOK
<1>3. ASSUME NEW r \in Reviews, DropHandler(r) PROVE TypeOK'
  <2>1. budget' \in Budget
    <3>1. budget \in Budget
      BY DEF TypeOK
    <3>2. QED
      BY <1>3, <3>1, ConstantsAssumption DEF DropHandler, Budget
  <2>2. launcher' \in [Reviews -> LauncherPc]
    BY <1>3 DEF DropHandler, TypeOK, LauncherPc
  <2>3. QED
    BY <1>3, <2>1, <2>2 DEF DropHandler, TypeOK, registry
<1>5. ASSUME NEW r \in Reviews, PrEvaluated(r) \/ PrFails(r) PROVE TypeOK'
  <2>1. job' \in [Reviews -> Job]
    <3>1. job[r] \in Job /\ job[r].todo >= 1 /\ job[r].todo + job[r].oks <= MaxPrs
      BY <1>5 DEF PrEvaluated, PrFails, TypeOK, JobCounts
    <3>2. job[r].todo - 1 \in 0 .. MaxPrs /\ job[r].oks + 1 \in 0 .. MaxPrs
      BY <3>1, ConstantsAssumption DEF Job
    <3>3. AfterPr(r) \in JobPc
      BY DEF AfterPr, JobPc, Working
    <3>4. CASE PrEvaluated(r)
      <4>1. [job[r] EXCEPT !.pc = AfterPr(r), !.todo = @ - 1, !.oks = @ + 1] \in Job
        BY <3>1, <3>2, <3>3, JobUpdateType
      <4>2. QED
        BY <3>4, <4>1 DEF PrEvaluated, TypeOK
    <3>5. CASE PrFails(r)
      <4>1. [job[r] EXCEPT !.pc = AfterPr(r), !.todo = @ - 1] \in Job
        BY <3>1, <3>2, <3>3, JobUpdateType
      <4>2. QED
        BY <3>5, <4>1 DEF PrFails, TypeOK
    <3>6. QED
      BY <1>5, <3>4, <3>5
  <2>2. sent' \in [Reviews -> Seq(Event)]
    BY <1>5, SendType DEF PrEvaluated, PrFails, TypeOK, Event
  <2>3. QED
    BY <1>5, <2>1, <2>2 DEF PrEvaluated, PrFails, TypeOK, registry
<1>6. ASSUME NEW r \in Reviews, AbortJob(r) PROVE TypeOK'
  BY <1>6, JobGoesType DEF AbortJob, TypeOK, registry, JobPc, Working
<1>7. ASSUME NEW r \in Reviews, SaveResult(r) PROVE TypeOK'
  <2>1. job[r] \in Job /\ job[r].saved < job[r].oks /\ results[r] = job[r].saved
    BY <1>7 DEF SaveResult, TypeOK, JobCounts
  <2>2. job[r].saved + 1 \in 0 .. MaxPrs
    BY <2>1, ConstantsAssumption DEF Job
  <2>3. CASE results' = [results EXCEPT ![r] = @ + 1] /\ job' = [job EXCEPT ![r].saved = @ + 1]
             /\ UNCHANGED budget
    <3>1. job' \in [Reviews -> Job]
      BY <2>1, <2>2, <2>3 DEF TypeOK, Job
    <3>2. results' \in [Reviews -> 0 .. MaxPrs]
      BY <2>1, <2>2, <2>3 DEF TypeOK
    <3>3. QED
      BY <1>7, <2>3, <3>1, <3>2 DEF SaveResult, TypeOK, registry
  <2>4. CASE StoreFails /\ JobGoes(r, "ensure") /\ UNCHANGED results
    BY <1>7, <2>4, StoreFailsType, JobGoesType DEF SaveResult, TypeOK, registry, JobPc, Working
  <2>5. QED
    BY <1>7, <2>3, <2>4 DEF SaveResult
<1>8. ASSUME NEW r \in Reviews, SaveFinal(r) PROVE TypeOK'
  <2>1. FinalRow(r) \in Row /\ CompletedRow \in Row
    BY RowTypes DEF FinalRow
  <2>2. row' \in [Reviews -> Row] /\ budget' \in Budget
    BY <1>8, <2>1, SaveType, StoreFailsType DEF SaveFinal, TypeOK
  <2>3. AfterFinal(r) \in JobPc /\ "ensure" \in JobPc
    BY DEF AfterFinal, JobPc, Working, Leaving
  <2>4. job' \in [Reviews -> Job]
    BY <1>8, <2>3, JobGoesType DEF SaveFinal, TypeOK
  <2>5. QED
    BY <1>8, <2>2, <2>4 DEF SaveFinal, TypeOK, registry
<1>9. ASSUME NEW r \in Reviews, Announce(r) \/ MarkAnnounce(r) PROVE TypeOK'
  <2>1. job' \in [Reviews -> Job]
    BY <1>9, JobGoesType DEF Announce, MarkAnnounce, TypeOK, JobPc, Working, Leaving
  <2>2. sent' \in [Reviews -> Seq(Event)]
    BY <1>9, SendType DEF Announce, MarkAnnounce, TypeOK, Event
  <2>3. QED
    BY <1>9, <2>1, <2>2 DEF Announce, MarkAnnounce, TypeOK, registry
<1>10. ASSUME NEW r \in Reviews, EnsureTerminal(r) PROVE TypeOK'
  <2>1. job' \in [Reviews -> Job]
    BY <1>10, JobGoesType DEF EnsureTerminal, TypeOK, JobPc, Working, Leaving
  <2>2. budget' \in Budget
    BY <1>10, StoreFailsType DEF EnsureTerminal, TypeOK
  <2>3. QED
    BY <1>10, <2>1, <2>2 DEF EnsureTerminal, TypeOK, registry
<1>11. ASSUME NEW r \in Reviews, MarkFailed(r) PROVE TypeOK'
  <2>1. job' \in [Reviews -> Job]
    BY <1>11, JobGoesType DEF MarkFailed, TypeOK, JobPc, Working
  <2>2. row' \in [Reviews -> Row] /\ budget' \in Budget
    BY <1>11, RowTypes, SaveType, StoreFailsType DEF MarkFailed, TypeOK
  <2>3. QED
    BY <1>11, <2>1, <2>2 DEF MarkFailed, TypeOK, registry
<1>12. ASSUME NEW r \in Reviews, Unregister(r) \/ UnregisterChannel(r) \/ UnregisterAgents(r)
       PROVE  TypeOK'
  <2>1. job' \in [Reviews -> Job]
    BY <1>12, JobGoesType DEF Unregister, UnregisterChannel, UnregisterAgents, TypeOK, JobPc,
       Leaving
  <2>2. QED
    BY <1>12, <2>1 DEF Unregister, UnregisterChannel, UnregisterAgents, TypeOK
<1>13. ASSUME NEW p \in Readers, Load(p) \/ CheckActive(p) PROVE TypeOK'
  <2>1. IdleReader \in Reader
    BY DEF IdleReader, Reader
  <2>2. reader \in [Readers -> Reader]
    BY DEF TypeOK
  <2>3. reader' \in [Readers -> Reader]
    <3>1. CASE Load(p)
      <4>1. \A S \in Snapshots : [todo |-> S, stale |-> None, seenActive |-> S \cap active] \in Reader
        BY DEF Snapshots, RunningRows, Reader
      <4>2. QED
        BY <2>2, <3>1, <4>1 DEF Load
    <3>2. CASE CheckActive(p)
      <4>1. \A r \in reader[p].todo :
              /\ Without(reader[p], r) \in Reader
              /\ [reader[p] EXCEPT !.stale = r] \in Reader
        BY <2>1, <2>2 DEF Without, Reader
      <4>2. QED
        BY <2>2, <3>2, <4>1 DEF CheckActive
    <3>3. QED
      BY <1>13, <3>1, <3>2
  <2>4. QED
    BY <1>13, <2>3 DEF Load, CheckActive, TypeOK, registry
<1>14. ASSUME NEW p \in Readers, Reconcile(p) PROVE TypeOK'
  <2>1. IdleReader \in Reader
    BY DEF IdleReader, Reader
  <2>2. reader[p].stale \in Reviews
    BY <1>14 DEF Reconcile, TypeOK, Reader
  <2>3. reader' \in [Readers -> Reader]
    BY <1>14, <2>1 DEF Reconcile, Without, TypeOK, Reader
  <2>4. row' \in [Reviews -> Row] /\ budget' \in Budget
    BY <1>14, <2>2, RowTypes, SaveType, StoreFailsType DEF Reconcile, TypeOK
  <2>5. QED
    BY <1>14, <2>3, <2>4 DEF Reconcile, TypeOK, registry
<1>15. ASSUME Crash PROVE TypeOK'
  <2>1. budget' \in Budget
    <3>1. budget \in Budget
      BY DEF TypeOK
    <3>2. QED
      BY <1>15, <3>1, ConstantsAssumption DEF Crash, Budget
  <2>2. launcher' \in [Reviews -> LauncherPc]
    BY <1>15 DEF Crash, TypeOK, LauncherPc
  <2>3. job' \in [Reviews -> Job]
    BY ZenonT(40), <1>15 DEF Crash, TypeOK, Job, JobPc
  <2>4. reader' \in [Readers -> Reader]
    BY <1>15 DEF Crash, IdleReader, Reader
  <2>5. QED
    BY <1>15, <2>1, <2>2, <2>3, <2>4 DEF Crash, TypeOK
<1>16. ASSUME UNCHANGED vars PROVE TypeOK'
  BY <1>16 DEF vars, TypeOK
<1>17. QED
  BY <1>1, <1>2, <1>3, <1>5, <1>6, <1>7, <1>8, <1>9, <1>10, <1>11, <1>12, <1>13, <1>14,
     <1>15, <1>16 DEF Next, ServerNext, JobStep, ReaderStep

-----------------------------------------------------------------------------
(* The parts of the invariant, step by step.                               *)

\* Steps of a task that count nothing.
LEMMA CountsGoes ==
  ASSUME TypeOK, JobCounts, NEW r \in Reviews, NEW pc, pc \notin {"none", "evaluate"},
         JobGoes(r, pc), UNCHANGED results
  PROVE  JobCounts'
BY DEF TypeOK, JobCounts, JobGoes, Job

\* Every step keeps the counters in order.
LEMMA CountsStep == ASSUME TypeOK, Phases, JobCounts, [Next]_vars PROVE JobCounts'
<1>1. ASSUME UNCHANGED <<job, results>> PROVE JobCounts'
  BY <1>1 DEF JobCounts
<1>2. ASSUME NEW r \in Reviews, RegisterAgentsAndSpawn(r) PROVE JobCounts'
  <2>1. job[r].pc = "none" /\ results[r] = 0
    BY <1>2 DEF RegisterAgentsAndSpawn, Phases, JobCounts
  <2>2. PICK n \in PrCounts(r) :
          job' = [job EXCEPT ![r] = [NoJob EXCEPT !.pc = "evaluate", !.todo = n]]
    BY <1>2 DEF RegisterAgentsAndSpawn
  <2>3. n \in Nat /\ n >= 1 /\ n <= MaxPrs
    BY ConstantsAssumption DEF PrCounts
  <2>4. UNCHANGED results
    BY <1>2 DEF RegisterAgentsAndSpawn
  <2>5. QED
    BY <2>1, <2>2, <2>3, <2>4 DEF TypeOK, JobCounts, NoJob
<1>3. ASSUME NEW r \in Reviews, PrEvaluated(r) PROVE JobCounts'
  BY SMTT(30), <1>3 DEF PrEvaluated, AfterPr, TypeOK, JobCounts, Job
<1>4. ASSUME NEW r \in Reviews, PrFails(r) PROVE JobCounts'
  BY <1>4 DEF PrFails, AfterPr, TypeOK, JobCounts, Job
<1>5. ASSUME NEW r \in Reviews, SaveResult(r) PROVE JobCounts'
  <2>1. CASE results' = [results EXCEPT ![r] = @ + 1]
             /\ job' = [job EXCEPT ![r].saved = @ + 1]
    BY <1>5, <2>1 DEF SaveResult, TypeOK, JobCounts, Job
  <2>2. CASE JobGoes(r, "ensure") /\ UNCHANGED results
    BY <2>2, CountsGoes
  <2>3. QED
    BY <1>5, <2>1, <2>2 DEF SaveResult
<1>6. ASSUME NEW r \in Reviews, AbortJob(r) \/ SaveFinal(r) \/ Announce(r) \/ EnsureTerminal(r)
                                \/ MarkFailed(r) \/ MarkAnnounce(r)
      PROVE  JobCounts'
  <2>1. UNCHANGED results
    BY <1>6 DEF AbortJob, SaveFinal, Announce, EnsureTerminal, MarkFailed, MarkAnnounce
  <2>2. \E pc \in {"ensure", "announce", "unregister", "mark", "markAnnounce"} : JobGoes(r, pc)
    BY <1>6 DEF AbortJob, SaveFinal, AfterFinal, Announce, EnsureTerminal, MarkFailed,
       MarkAnnounce
  <2>3. QED
    BY <2>1, <2>2, CountsGoes
<1>7. ASSUME NEW r \in Reviews, Unregister(r) \/ UnregisterChannel(r) \/ UnregisterAgents(r)
      PROVE  JobCounts'
  BY <1>7, CountsGoes DEF Unregister, UnregisterChannel, UnregisterAgents
<1>8. ASSUME Crash PROVE JobCounts'
  BY <1>8 DEF Crash, TypeOK, JobCounts, Job, Working, Leaving
<1>9. ASSUME NEW r \in Reviews, SaveRunning(r) \/ RegisterActive(r) \/ RegisterChannel(r)
                                \/ DropHandler(r)
      PROVE  JobCounts'
  BY <1>1, <1>9 DEF SaveRunning, RegisterActive, RegisterChannel, DropHandler
<1>10. ASSUME NEW p \in Readers, Load(p) \/ CheckActive(p) \/ Reconcile(p) PROVE JobCounts'
  BY <1>1, <1>10 DEF Load, CheckActive, Reconcile
<1>11. QED
  BY <1>1, <1>2, <1>3, <1>4, <1>5, <1>6, <1>7, <1>8, <1>9, <1>10
     DEF Next, ServerNext, LauncherStep, JobStep, ReaderStep, vars

\* All that can happen to a row.
LEMMA RowWrites ==
  ASSUME TypeOK, [Next]_vars
  PROVE  \/ UNCHANGED row
         \/ \E r \in Reviews : /\ launcher[r] = "idle"
                              /\ row' = [row EXCEPT ![r] = RunningRow]
         \/ \E r \in Reviews : /\ job[r].pc = "results"
                              /\ job[r].saved = job[r].oks
                              /\ job[r].oks > 0
                              /\ row' = [row EXCEPT ![r] = CompletedRow]
         \/ \E r \in Reviews : /\ job[r].pc \in Working
                              /\ \E w \in {JobFailedRow, MarkedRow} :
                                   row' = [row EXCEPT ![r] = w]
         \/ \E p \in Readers : /\ reader[p].stale \in Reviews
                              /\ row' = [row EXCEPT ![reader[p].stale] = MarkedRow]
<1> DEFINE Goal == \/ UNCHANGED row
                   \/ \E r \in Reviews : /\ launcher[r] = "idle"
                                        /\ row' = [row EXCEPT ![r] = RunningRow]
                   \/ \E r \in Reviews : /\ job[r].pc = "results"
                                        /\ job[r].saved = job[r].oks
                                        /\ job[r].oks > 0
                                        /\ row' = [row EXCEPT ![r] = CompletedRow]
                   \/ \E r \in Reviews : /\ job[r].pc \in Working
                                        /\ \E w \in {JobFailedRow, MarkedRow} :
                                             row' = [row EXCEPT ![r] = w]
                   \/ \E p \in Readers : /\ reader[p].stale \in Reviews
                                        /\ row' = [row EXCEPT ![reader[p].stale] = MarkedRow]
<1>1. ASSUME NEW r \in Reviews, SaveRunning(r) PROVE Goal
  BY <1>1 DEF SaveRunning, Save
<1>2. ASSUME NEW r \in Reviews, SaveFinal(r) PROVE Goal
  <2>1. job[r].pc = "results" /\ job[r].saved = job[r].oks /\ job[r].oks \in Nat
    BY <1>2 DEF SaveFinal, TypeOK, Job
  <2>2. CASE UNCHANGED row
    BY <2>2
  <2>3. CASE job[r].oks > 0 /\ row' = [row EXCEPT ![r] = CompletedRow]
    BY <2>1, <2>3
  <2>4. CASE ~(job[r].oks > 0) /\ row' = [row EXCEPT ![r] = JobFailedRow]
    BY <2>1, <2>4 DEF Working
  <2>5. QED
    BY <1>2, <2>2, <2>3, <2>4 DEF SaveFinal, Save, FinalRow
<1>3. ASSUME NEW r \in Reviews, MarkFailed(r) PROVE Goal
  BY <1>3 DEF MarkFailed, Save, Working
<1>4. ASSUME NEW p \in Readers, Reconcile(p) PROVE Goal
  <2>1. reader[p].stale \in Reviews
    BY <1>4 DEF Reconcile, TypeOK, Reader
  <2>2. QED
    BY <1>4, <2>1 DEF Reconcile, Save
<1>5. ASSUME NEW r \in Reviews, LauncherStep(r) \/ DropHandler(r) PROVE Goal
  BY <1>5 DEF LauncherStep, RegisterActive, RegisterChannel, RegisterAgentsAndSpawn,
     DropHandler
<1>6. ASSUME NEW r \in Reviews, PrEvaluated(r) \/ PrFails(r) \/ AbortJob(r) \/ SaveResult(r)
                                \/ Announce(r)
      PROVE  Goal
  BY <1>6 DEF PrEvaluated, PrFails, AbortJob, SaveResult, Announce
<1>7. ASSUME NEW r \in Reviews, EnsureTerminal(r) \/ MarkAnnounce(r) \/ Unregister(r)
                                \/ UnregisterChannel(r) \/ UnregisterAgents(r)
      PROVE  Goal
  BY <1>7 DEF EnsureTerminal, MarkAnnounce, Unregister, UnregisterChannel, UnregisterAgents
<1>8. ASSUME NEW p \in Readers, Load(p) \/ CheckActive(p) PROVE Goal
  BY <1>8 DEF Load, CheckActive
<1>9. ASSUME Crash \/ UNCHANGED vars PROVE Goal
  BY <1>9 DEF Crash, vars
<1>10. QED
  BY <1>1, <1>2, <1>3, <1>4, <1>5, <1>6, <1>7, <1>8, <1>9
     DEF Next, ServerNext, JobStep, ReaderStep

\* Every row written is consistent.
LEMMA ConsistentStep ==
  ASSUME TypeOK, RowIsConsistent, [Next]_vars PROVE RowIsConsistent'
<1>1. CASE UNCHANGED row
  BY <1>1 DEF RowIsConsistent, Terminal
<1>2. ASSUME NEW r \in Reviews, NEW w \in {RunningRow, CompletedRow, JobFailedRow, MarkedRow},
             row' = [row EXCEPT ![r] = w]
      PROVE  RowIsConsistent'
  BY <1>2 DEF TypeOK, RowIsConsistent, Terminal, RunningRow, CompletedRow, JobFailedRow,
     MarkedRow
<1>3. QED
  BY <1>1, <1>2, RowWrites

\* Only the first write of a row is not terminal.
LEMMA TerminalStep ==
  ASSUME TypeOK, Phases, [Next]_vars, NEW r \in Reviews, Terminal(row[r])
  PROVE  Terminal(row'[r])
<1>1. \A w \in {CompletedRow, JobFailedRow, MarkedRow} : Terminal(w)
  BY DEF Terminal, CompletedRow, JobFailedRow, MarkedRow
<1>2. \A q \in Reviews : launcher[q] = "idle" => ~Terminal(row[q])
  BY DEF Phases, Terminal
<1>3. QED
  BY <1>1, <1>2, RowWrites DEF TypeOK

\* The task of r moves on without touching the maps.
LEMMA PhasesJob ==
  ASSUME Phases, NEW r \in Reviews, job[r].pc \in Working, job'[r].pc # "none",
         \A q \in Reviews \ {r} : job'[q] = job[q] /\ row'[q] = row[q],
         UNCHANGED <<launcher, active, channels, agents>>
  PROVE  Phases'
BY DEF Phases, Working

\* Every step keeps handler, task, row and maps in phase.
LEMMA PhasesStep == ASSUME TypeOK, Loaded, Phases, [Next]_vars PROVE Phases'
<1> USE DEF Phases
<1>1. ASSUME NEW r \in Reviews, SaveRunning(r) PROVE Phases'
  BY <1>1 DEF SaveRunning, Save, TypeOK, registry
<1>2. ASSUME NEW r \in Reviews, RegisterActive(r) PROVE Phases'
  BY <1>2 DEF RegisterActive, TypeOK
<1>3. ASSUME NEW r \in Reviews, RegisterChannel(r) PROVE Phases'
  BY <1>3 DEF RegisterChannel, TypeOK
<1>4. ASSUME NEW r \in Reviews, RegisterAgentsAndSpawn(r) PROVE Phases'
  <2>1. PICK n : job' = [job EXCEPT ![r] = [NoJob EXCEPT !.pc = "evaluate", !.todo = n]]
    BY <1>4 DEF RegisterAgentsAndSpawn
  <2>2. job'[r].pc = "evaluate"
    BY <2>1 DEF TypeOK, NoJob
  <2>3. \A q \in Reviews : q # r => job'[q] = job[q]
    BY <2>1 DEF TypeOK
  <2>4. QED
    BY <1>4, <2>2, <2>3 DEF RegisterAgentsAndSpawn, TypeOK
<1>5. ASSUME NEW r \in Reviews, DropHandler(r) PROVE Phases'
  BY <1>5 DEF DropHandler, TypeOK, registry
<1>7. ASSUME NEW r \in Reviews, PrEvaluated(r) \/ PrFails(r) PROVE Phases'
  <2>1. job[r].pc = "evaluate" /\ job'[r].pc \in {"evaluate", "results"}
    BY <1>7 DEF PrEvaluated, PrFails, AfterPr, TypeOK, Job
  <2>2. \A q \in Reviews \ {r} : job'[q] = job[q] /\ row'[q] = row[q]
    BY <1>7 DEF PrEvaluated, PrFails, TypeOK
  <2>3. QED
    BY <1>7, <2>1, <2>2, PhasesJob DEF PrEvaluated, PrFails, registry, Working
<1>8. ASSUME NEW r \in Reviews, AbortJob(r) \/ SaveResult(r) PROVE Phases'
  <2>1. job[r].pc \in Working /\ job'[r].pc \in Working
    BY <1>8 DEF AbortJob, SaveResult, JobGoes, TypeOK, Job, Working
  <2>2. \A q \in Reviews \ {r} : job'[q] = job[q] /\ row'[q] = row[q]
    BY <1>8 DEF AbortJob, SaveResult, JobGoes, TypeOK
  <2>3. QED
    BY <1>8, <2>1, <2>2, PhasesJob DEF AbortJob, SaveResult, registry, Working
<1>9. ASSUME NEW r \in Reviews, SaveFinal(r) \/ MarkFailed(r) PROVE Phases'
  <2>1. job[r].pc \in Working /\ job'[r].pc # "none"
    BY <1>9 DEF SaveFinal, AfterFinal, MarkFailed, JobGoes, TypeOK, Job, Working
  <2>2. \A q \in Reviews \ {r} : job'[q] = job[q] /\ row'[q] = row[q]
    BY <1>9 DEF SaveFinal, MarkFailed, Save, JobGoes, TypeOK
  <2>3. QED
    BY <1>9, <2>1, <2>2, PhasesJob DEF SaveFinal, MarkFailed, registry, Working
<1>10. ASSUME NEW r \in Reviews, Announce(r) \/ EnsureTerminal(r) \/ MarkAnnounce(r)
       PROVE  Phases'
  <2>1. job[r].pc \in Working /\ job'[r].pc # "none"
    BY <1>10 DEF Announce, EnsureTerminal, MarkAnnounce, JobGoes, TypeOK, Job, Working
  <2>2. \A q \in Reviews \ {r} : job'[q] = job[q] /\ row'[q] = row[q]
    BY <1>10 DEF Announce, EnsureTerminal, MarkAnnounce, JobGoes, TypeOK
  <2>3. QED
    BY <1>10, <2>1, <2>2, PhasesJob DEF Announce, EnsureTerminal, MarkAnnounce, registry,
       Working
<1>11. ASSUME NEW r \in Reviews, Unregister(r) \/ UnregisterChannel(r) \/ UnregisterAgents(r)
       PROVE  Phases'
  <2>1. job[r].pc \in Leaving /\ job'[r].pc \in Leaving \cup {"done"}
    BY <1>11 DEF Unregister, UnregisterChannel, UnregisterAgents, JobGoes, TypeOK, Job, Leaving
  <2>2. \A q \in Reviews \ {r} : /\ job'[q] = job[q]
                                 /\ q \in active => q \in active'
                                 /\ q \in channels => q \in channels'
                                 /\ q \in agents => q \in agents'
    BY <1>11 DEF Unregister, UnregisterChannel, UnregisterAgents, JobGoes, TypeOK
  <2>3. /\ active' \subseteq active /\ channels' \subseteq channels /\ agents' \subseteq agents
        /\ UNCHANGED <<row, launcher>>
    BY <1>11 DEF Unregister, UnregisterChannel, UnregisterAgents
  <2>4. launcher[r] = "done"
    BY <2>1 DEF Leaving
  <2>5. QED
    BY <2>1, <2>2, <2>3, <2>4 DEF Leaving, Working
<1>12. ASSUME NEW p \in Readers, Load(p) \/ CheckActive(p) PROVE Phases'
  BY <1>12 DEF Load, CheckActive, registry
<1>13. ASSUME NEW p \in Readers, Reconcile(p) PROVE Phases'
  <2>1. \A q \in Reviews : row'[q] = row[q] \/ row[q].status # "Absent"
    BY <1>13 DEF Reconcile, Save, Loaded, TypeOK, Reader
  <2>2. QED
    BY <1>13, <2>1 DEF Reconcile, registry
<1>14. ASSUME Crash PROVE Phases'
  BY <1>14 DEF Crash, TypeOK, Job, Working, Leaving
<1>15. ASSUME UNCHANGED vars PROVE Phases'
  BY <1>15 DEF vars
<1>16. QED
  BY <1>1, <1>2, <1>3, <1>4, <1>5, <1>7, <1>8, <1>9, <1>10, <1>11, <1>12, <1>13, <1>14,
     <1>15 DEF Next, ServerNext, LauncherStep, JobStep, ReaderStep

\* A row is completed by its own job only, after the last result.
LEMMA BackedStep == ASSUME TypeOK, Phases, Backed, [Next]_vars PROVE Backed'
<1> USE DEF Backed
<1>1. ASSUME NEW r \in Reviews, SaveRunning(r) PROVE Backed'
  <2>1. \A q \in Reviews : row'[q].status = "Completed" => row[q].status = "Completed"
    BY <1>1 DEF SaveRunning, Save, RunningRow, TypeOK
  <2>2. UNCHANGED job
    BY <1>1 DEF SaveRunning
  <2>3. QED
    BY <2>1, <2>2
<1>2. ASSUME NEW r \in Reviews, RegisterAgentsAndSpawn(r) PROVE Backed'
  <2>1. row[r].status # "Completed"
    BY <1>2 DEF RegisterAgentsAndSpawn, Phases
  <2>2. \A q \in Reviews \ {r} : job'[q] = job[q]
    BY <1>2 DEF RegisterAgentsAndSpawn, TypeOK
  <2>3. QED
    BY <1>2, <2>1, <2>2 DEF RegisterAgentsAndSpawn
<1>3. ASSUME NEW r \in Reviews, PrEvaluated(r) \/ PrFails(r) \/ SaveResult(r) PROVE Backed'
  <2>1. row[r].status # "Completed"
    BY <1>3 DEF PrEvaluated, PrFails, SaveResult
  <2>2. \A q \in Reviews \ {r} : job'[q] = job[q]
    BY <1>3 DEF PrEvaluated, PrFails, SaveResult, JobGoes, TypeOK
  <2>3. QED
    BY <1>3, <2>1, <2>2 DEF PrEvaluated, PrFails, SaveResult
<1>4. ASSUME NEW r \in Reviews, SaveFinal(r) PROVE Backed'
  <2>1. PICK pc \in {"unregister", "announce", "ensure"} : JobGoes(r, pc)
    BY <1>4 DEF SaveFinal, AfterFinal
  <2>2. job[r].saved = job[r].oks /\ job[r].pc = "results"
    BY <1>4 DEF SaveFinal
  <2>3. \A q \in Reviews \ {r} : job'[q] = job[q] /\ row'[q] = row[q]
    BY <1>4 DEF SaveFinal, Save, JobGoes, TypeOK
  <2>4. row'[r].status = "Completed" => job[r].oks > 0
    BY <1>4, <2>2 DEF SaveFinal, Save, FinalRow, JobFailedRow, TypeOK
  <2>5. /\ job'[r].saved = job[r].saved
        /\ job'[r].oks = job[r].oks
        /\ job'[r].pc = pc
    BY <2>1 DEF JobGoes, TypeOK, Job
  <2>6. QED
    BY <2>2, <2>3, <2>4, <2>5
<1>5. ASSUME NEW r \in Reviews, NEW pc \in {"ensure", "unregister", "mark", "markAnnounce",
                                           "unregisterChannel", "unregisterAgents", "done"},
             JobGoes(r, pc), UNCHANGED row
      PROVE  Backed'
  BY <1>5 DEF JobGoes, TypeOK, Job
<1>6. ASSUME NEW r \in Reviews, MarkFailed(r) PROVE Backed'
  <2>1. \A q \in Reviews \ {r} : job'[q] = job[q] /\ row'[q] = row[q]
    BY <1>6 DEF MarkFailed, Save, JobGoes, TypeOK
  <2>2. job'[r] = [job[r] EXCEPT !.pc = "markAnnounce"] /\ job[r] \in Job
    BY <1>6 DEF MarkFailed, JobGoes, TypeOK
  <2>3. row'[r].status = "Completed" => row[r].status = "Completed"
    BY <1>6 DEF MarkFailed, Save, MarkedRow, TypeOK
  <2>4. QED
    BY <2>1, <2>2, <2>3 DEF Job
<1>7. ASSUME NEW r \in Reviews, AbortJob(r) \/ Announce(r) \/ EnsureTerminal(r)
                                \/ MarkAnnounce(r)
      PROVE  Backed'
  BY <1>5, <1>7 DEF AbortJob, Announce, EnsureTerminal, MarkAnnounce
<1>8. ASSUME NEW r \in Reviews, Unregister(r) \/ UnregisterChannel(r) \/ UnregisterAgents(r)
      PROVE  Backed'
  BY <1>5, <1>8 DEF Unregister, UnregisterChannel, UnregisterAgents
<1>9. ASSUME NEW p \in Readers, Reconcile(p) PROVE Backed'
  <2>1. \A q \in Reviews : row'[q].status = "Completed" => row[q].status = "Completed"
    <3>1. row' = row \/ row' = [row EXCEPT ![reader[p].stale] = MarkedRow]
      BY <1>9 DEF Reconcile, Save
    <3>2. row \in [Reviews -> Row] /\ MarkedRow.status # "Completed"
      BY DEF TypeOK, MarkedRow
    <3>3. QED
      BY <3>1, <3>2
  <2>2. UNCHANGED job
    BY <1>9 DEF Reconcile
  <2>3. QED
    BY <2>1, <2>2
<1>10. ASSUME Crash PROVE Backed'
  BY <1>10 DEF Crash, TypeOK, Job
<1>11. ASSUME UNCHANGED <<row, job>> PROVE Backed'
  BY <1>11
<1>12. ASSUME NEW r \in Reviews, RegisterActive(r) \/ RegisterChannel(r) \/ DropHandler(r)
       PROVE  Backed'
  BY <1>11, <1>12 DEF RegisterActive, RegisterChannel, DropHandler
<1>13. ASSUME NEW p \in Readers, Load(p) \/ CheckActive(p) PROVE Backed'
  BY <1>11, <1>13 DEF Load, CheckActive
<1>14. QED
  BY <1>1, <1>2, <1>3, <1>4, <1>6, <1>7, <1>8, <1>9, <1>10, <1>11, <1>12, <1>13
     DEF Next, ServerNext, LauncherStep, JobStep, ReaderStep, vars

\* What is left of a load after one of its reviews.
LEMMA WithoutParts ==
  ASSUME NEW rd \in Reader, NEW r
  PROVE  /\ Without(rd, r).todo \subseteq rd.todo
         /\ Without(rd, r).stale = None
         /\ Without(rd, r).seenActive \subseteq rd.seenActive
<1>1. CASE rd.todo = {r}
  BY <1>1 DEF Without, IdleReader
<1>2. CASE rd.todo # {r}
  <2>1. Without(rd, r) = [rd EXCEPT !.todo = rd.todo \ {r}, !.stale = None]
    BY <1>2 DEF Without
  <2>2. QED
    BY <2>1 DEF Reader
<1>3. QED
  BY <1>1, <1>2

\* All that can happen to a load in progress.
LEMMA ReaderMoves ==
  ASSUME TypeOK, [Next]_vars, NEW p \in Readers
  PROVE  \/ reader'[p] = reader[p]
         \/ reader'[p] = IdleReader
         \/ /\ reader'[p].todo \subseteq RunningRows
            /\ reader'[p].stale = None
            /\ reader'[p].seenActive \subseteq active
         \/ /\ reader'[p].todo \subseteq reader[p].todo
            /\ reader'[p].stale = None
            /\ reader'[p].seenActive \subseteq reader[p].seenActive
         \/ /\ reader'[p].todo = reader[p].todo
            /\ reader'[p].stale \in reader[p].todo \ active
            /\ reader'[p].seenActive = reader[p].seenActive
<1> DEFINE Goal == \/ reader'[p] = reader[p]
                   \/ reader'[p] = IdleReader
                   \/ /\ reader'[p].todo \subseteq RunningRows
                      /\ reader'[p].stale = None
                      /\ reader'[p].seenActive \subseteq active
                   \/ /\ reader'[p].todo \subseteq reader[p].todo
                      /\ reader'[p].stale = None
                      /\ reader'[p].seenActive \subseteq reader[p].seenActive
                   \/ /\ reader'[p].todo = reader[p].todo
                      /\ reader'[p].stale \in reader[p].todo \ active
                      /\ reader'[p].seenActive = reader[p].seenActive
<1>1. ASSUME UNCHANGED reader PROVE Goal
  BY <1>1
<1>2. ASSUME NEW q \in Readers, Load(q) PROVE Goal
  BY <1>2 DEF Load, Snapshots, RunningRows, TypeOK
<1>3. ASSUME NEW q \in Readers, CheckActive(q) PROVE Goal
  <2>1. CASE q # p
    BY <1>3, <2>1 DEF CheckActive, TypeOK
  <2>2. CASE q = p
    <3>1. reader[p] \in Reader
      BY DEF TypeOK
    <3>2. PICK r \in reader[p].todo :
            reader' = [reader EXCEPT ![p] = IF r \in active THEN Without(@, r)
                                                           ELSE [@ EXCEPT !.stale = r]]
      BY <1>3, <2>2 DEF CheckActive
    <3>3. CASE r \in active
      <4>1. reader'[p] = Without(reader[p], r)
        BY <3>2, <3>3 DEF TypeOK
      <4>2. QED
        BY <3>1, <4>1, WithoutParts
    <3>4. CASE r \notin active
      BY <3>1, <3>2, <3>4 DEF TypeOK, Reader
    <3>5. QED
      BY <3>3, <3>4
  <2>3. QED
    BY <2>1, <2>2
<1>4. ASSUME NEW q \in Readers, Reconcile(q) PROVE Goal
  <2>1. CASE q # p
    BY <1>4, <2>1 DEF Reconcile, TypeOK
  <2>2. CASE q = p
    <3>1. reader[p] \in Reader /\ reader'[p] = Without(reader[p], reader[p].stale)
      BY <1>4, <2>2 DEF Reconcile, TypeOK
    <3>2. QED
      BY <3>1, WithoutParts
  <2>3. QED
    BY <2>1, <2>2
<1>5. ASSUME Crash PROVE Goal
  BY <1>5 DEF Crash
<1>6. ASSUME NEW r \in Reviews, SaveRunning(r) \/ LauncherStep(r) \/ DropHandler(r)
      PROVE  Goal
  BY <1>1, <1>6 DEF SaveRunning, LauncherStep, RegisterActive, RegisterChannel,
     RegisterAgentsAndSpawn, DropHandler
<1>7. ASSUME NEW r \in Reviews, JobStep(r) PROVE Goal
  <2>1. UNCHANGED reader
    BY <1>7 DEF JobStep, PrEvaluated, PrFails, AbortJob, SaveResult, SaveFinal, Announce,
       EnsureTerminal, MarkFailed, MarkAnnounce, Unregister, UnregisterChannel,
       UnregisterAgents
  <2>2. QED
    BY <1>1, <2>1
<1>8. QED
  BY <1>1, <1>2, <1>3, <1>4, <1>5, <1>6, <1>7 DEF Next, ServerNext, ReaderStep, vars

\* Rows are never deleted, and loads hold rows they have read.
LEMMA LoadedStep == ASSUME TypeOK, Loaded, [Next]_vars PROVE Loaded'
<1>1. \A r \in Reviews : row[r].status # "Absent" => row'[r].status # "Absent"
  <2>1. \A w \in {RunningRow, CompletedRow, JobFailedRow, MarkedRow} : w.status # "Absent"
    BY DEF RunningRow, CompletedRow, JobFailedRow, MarkedRow
  <2>2. QED
    BY <2>1, RowWrites DEF TypeOK
<1>2. SUFFICES ASSUME NEW p \in Readers, NEW r \in Reviews,
                      r \in reader'[p].todo \/ r = reader'[p].stale
               PROVE  row[r].status # "Absent"
  BY <1>1 DEF Loaded
<1>3. CASE reader'[p] = IdleReader
  BY <1>2, <1>3, ConstantsAssumption DEF IdleReader
<1>4. CASE reader'[p] # IdleReader
  BY <1>2, <1>4, ReaderMoves, ConstantsAssumption DEF Loaded, RunningRows
<1>5. QED
  BY <1>3, <1>4

\* What a step must keep of a review for the loads that saw it active.
GoneKept(r) ==
  /\ Gone(r) => Gone(r)'
  /\ r \in active => r \in active' \/ Gone(r)'

\* A review that is over stays so, and one that is active is removed by its own
\* task or by a restart.
LEMMA GoneStep ==
  ASSUME TypeOK, Phases, [Next]_vars, ~Crash, NEW r \in Reviews PROVE GoneKept(r)
<1> USE DEF Gone
<1>1. ASSUME UNCHANGED <<active, job>> PROVE GoneKept(r)
  BY <1>1 DEF GoneKept
<1>2. ASSUME NEW q \in Reviews, RegisterActive(q) PROVE GoneKept(r)
  BY <1>2 DEF GoneKept, RegisterActive, Phases, Leaving
<1>3. ASSUME NEW q \in Reviews, RegisterAgentsAndSpawn(q) PROVE GoneKept(r)
  <2>1. job[q].pc = "none"
    BY <1>3 DEF RegisterAgentsAndSpawn, Phases
  <2>2. QED
    BY <1>3, <2>1 DEF RegisterAgentsAndSpawn, GoneKept, TypeOK, Leaving
<1>4. ASSUME NEW q \in Reviews, job[q].pc \in Working, UNCHANGED active,
             \A s \in Reviews \ {q} : job'[s] = job[s]
      PROVE  GoneKept(r)
  BY <1>4 DEF GoneKept, Working, Leaving
<1>5. ASSUME NEW q \in Reviews, PrEvaluated(q) \/ PrFails(q) \/ AbortJob(q) \/ SaveResult(q)
                                \/ SaveFinal(q)
      PROVE  GoneKept(r)
  <2>1. job[q].pc \in Working /\ UNCHANGED active
    BY <1>5 DEF PrEvaluated, PrFails, AbortJob, SaveResult, SaveFinal, Working, registry
  <2>2. \A s \in Reviews \ {q} : job'[s] = job[s]
    BY <1>5 DEF PrEvaluated, PrFails, AbortJob, SaveResult, SaveFinal, JobGoes, TypeOK
  <2>3. QED
    BY <1>4, <2>1, <2>2
<1>6. ASSUME NEW q \in Reviews, Announce(q) \/ EnsureTerminal(q) \/ MarkFailed(q)
                                \/ MarkAnnounce(q)
      PROVE  GoneKept(r)
  <2>1. job[q].pc \in Working /\ UNCHANGED active
    BY <1>6 DEF Announce, EnsureTerminal, MarkFailed, MarkAnnounce, Working, registry
  <2>2. \A s \in Reviews \ {q} : job'[s] = job[s]
    BY <1>6 DEF Announce, EnsureTerminal, MarkFailed, MarkAnnounce, JobGoes, TypeOK
  <2>3. QED
    BY <1>4, <2>1, <2>2
<1>7. ASSUME NEW q \in Reviews, Unregister(q) \/ UnregisterChannel(q) \/ UnregisterAgents(q)
      PROVE  GoneKept(r)
  <2>1. /\ job'[q].pc \in (Leaving \ {"unregister"}) \cup {"done"}
        /\ \A s \in Reviews \ {q} : job'[s] = job[s]
    BY <1>7 DEF Unregister, UnregisterChannel, UnregisterAgents, JobGoes, TypeOK, Job, Leaving
  <2>2. active' \subseteq active /\ active \ {q} \subseteq active'
    BY <1>7 DEF Unregister, UnregisterChannel, UnregisterAgents
  <2>3. QED
    BY <2>1, <2>2 DEF GoneKept
<1>8. ASSUME NEW q \in Reviews, SaveRunning(q) \/ RegisterChannel(q) \/ DropHandler(q)
      PROVE  GoneKept(r)
  BY <1>1, <1>8 DEF SaveRunning, RegisterChannel, DropHandler, registry
<1>9. ASSUME NEW p \in Readers, Load(p) \/ ReaderStep(p) PROVE GoneKept(r)
  BY <1>1, <1>9 DEF Load, ReaderStep, CheckActive, Reconcile, registry
<1>10. ASSUME UNCHANGED vars PROVE GoneKept(r)
  BY <1>1, <1>10 DEF vars, registry
<1>11. QED
  BY <1>2, <1>3, <1>5, <1>6, <1>7, <1>8, <1>9, <1>10 DEF Next, ServerNext, LauncherStep, JobStep

\* What a load saw active is active, or its job is past the removal.
LEMMA SeenStep == ASSUME TypeOK, Phases, Seen, [Next]_vars PROVE Seen'
<1>1. CASE Crash
  <2>1. \A p \in Readers : reader'[p] = IdleReader
    BY <1>1 DEF Crash
  <2>2. QED
    BY <2>1 DEF Seen, IdleReader
<1>2. CASE ~Crash
  <2>1. \A r \in Reviews : GoneKept(r)
    BY <1>2, GoneStep
  <2>2. ASSUME NEW p \in Readers
        PROVE  /\ \A r \in reader'[p].seenActive : r \in active' \/ Gone(r)'
               /\ reader'[p].stale \in reader'[p].seenActive => Gone(reader[p].stale)'
    <3>1. /\ reader[p].seenActive \subseteq Reviews /\ active \subseteq Reviews
          /\ None \notin Reviews
      BY ConstantsAssumption DEF TypeOK, Reader
    <3>2. \A r \in Reviews : r \in active \/ Gone(r) => r \in active' \/ Gone(r)'
      BY <2>1 DEF GoneKept
    <3>3. CASE reader'[p] = reader[p]
      <4>1. reader[p].stale \in reader[p].seenActive => Gone(reader'[p].stale)
        BY <3>3 DEF Seen
      <4>2. QED
        BY <2>1, <3>1, <3>2, <3>3, <4>1 DEF Seen, GoneKept, Gone
    <3>4. CASE /\ reader'[p].seenActive \subseteq reader[p].seenActive \cup active
               /\ reader'[p].stale = None
      BY <3>1, <3>2, <3>4 DEF Seen
    <3>5. CASE /\ reader'[p].stale \in reader[p].todo \ active
               /\ reader'[p].seenActive = reader[p].seenActive
      <4>1. reader'[p].stale \in reader[p].seenActive => Gone(reader'[p].stale)
        BY <3>5 DEF Seen
      <4>2. QED
        BY <2>1, <3>1, <3>2, <3>5, <4>1 DEF Seen, GoneKept, Gone
    <3>6. CASE reader'[p] = IdleReader
      BY <3>6, <3>1 DEF IdleReader
    <3>7. QED
      BY <3>3, <3>4, <3>5, <3>6, ReaderMoves
  <2>3. QED
    BY <2>2 DEF Seen
<1>3. QED
  BY <1>1, <1>2

-----------------------------------------------------------------------------
(* The invariant, and what follows from it.                                *)

\* The server starts with empty maps and nothing under way.
LEMMA InitIInv == Init => IInv
<1> SUFFICES ASSUME Init PROVE IInv
  OBVIOUS
<1>1. TypeOK
  <2>1. NoJob \in Job
    BY ConstantsAssumption DEF NoJob, Job, JobPc
  <2>2. IdleReader \in Reader
    BY DEF IdleReader, Reader
  <2>3. budget \in Budget
    BY ConstantsAssumption DEF Init, Budget
  <2>4. 0 \in 0 .. MaxPrs
    BY ConstantsAssumption
  <2>5. QED
    BY <2>1, <2>2, <2>3, <2>4, RowTypes DEF Init, TypeOK, LauncherPc
<1>2. JobCounts
  BY ConstantsAssumption DEF Init, NoJob, JobCounts
<1>3. Phases
  BY DEF Init, NoJob, AbsentRow, Phases, Working
<1>4. RowIsConsistent /\ Backed
  BY DEF Init, AbsentRow, RowIsConsistent, Backed, Terminal
<1>5. Loaded /\ Seen
  BY ConstantsAssumption DEF Init, IdleReader, Loaded, Seen
<1>6. QED
  BY <1>1, <1>2, <1>3, <1>4, <1>5 DEF IInv

\* Every step of the server preserves it.
LEMMA IInvStep == IInv /\ [Next]_vars => IInv'
BY TypeStep, CountsStep, PhasesStep, ConsistentStep, BackedStep, LoadedStep, SeenStep DEF IInv

\* The invariant holds in every reachable state.
LEMMA Invariance == Spec => []IInv
BY InitIInv, IInvStep, PTL DEF Spec

\* The state of the server is always of its type: in particular no job counts
\* past the pull requests it was given, and every stored row is a legal one.
THEOREM TypeCorrect == Spec => []TypeOK
<1>1. IInv => TypeOK
  BY DEF IInv
<1>2. QED
  BY <1>1, Invariance, PTL

\* A job is in all three maps for as long as it works, however many reviews
\* run side by side, are dropped or restarted: register_live_review before
\* the spawn and unregister_live_review after the recovery are enough.
THEOREM Registered == Spec => []WorkingJobIsRegistered
<1>1. IInv => WorkingJobIsRegistered
  BY DEF IInv, Phases, WorkingJobIsRegistered
<1>2. QED
  BY <1>1, Invariance, PTL

\* A completed row has all its results behind it, although each is saved by a
\* statement of its own and any of them may fail.
THEOREM BackedCompletion == Spec => []CompletedIsBacked
<1>1. IInv => CompletedIsBacked
  BY DEF IInv, JobCounts, Backed, CompletedIsBacked
<1>2. QED
  BY <1>1, Invariance, PTL

\* Status, reason and runtime blob of a row agree, whoever wrote it last.
THEOREM ConsistentRows == Spec => []RowIsConsistent
<1>1. IInv => RowIsConsistent
  BY DEF IInv
<1>2. QED
  BY <1>1, Invariance, PTL

\* A load that saw a review active never takes it for abandoned while its job
\* is still at work (the row it overwrites may be a completed one all the same).
THEOREM SparesSeenJobs == Spec => []ReconcileSparesSeenJobs
<1>1. IInv => ReconcileSparesSeenJobs
  BY DEF IInv, Seen, Gone, ReconcileSparesSeenJobs, Working, Leaving
<1>2. QED
  BY <1>1, Invariance, PTL

\* A review that ended never looks running again: the only write of a running
\* row is the first of its start handler.
THEOREM TerminalStays == Spec => TerminalIsFinal
<1>1. IInv /\ [Next]_vars => [\A r \in Reviews : Terminal(row[r]) => Terminal(row[r]')]_vars
  BY TerminalStep DEF IInv
<1>2. QED
  BY <1>1, Invariance, PTL DEF Spec, TerminalIsFinal
=============================================================================
