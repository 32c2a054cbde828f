------------------------ MODULE ReviewOutcome_proofs ------------------------
(***************************************************************************)
(* More about ReviewLifecycle: who owns what is left in the registry, what *)
(* a job that is over has told its readers, and that the stored review     *)
(* implements ReviewRecord.  The invariant Outcome below is inductive      *)
(* relative to IInv; all of it is about one review at a time, so a step    *)
(* matters to the review it is taken for (Owner) and to no other.          *)
(***************************************************************************)
EXTENDS ReviewLifecycle_proofs

InRegistry(r) == r \in active \cup channels \cup agents
FailedSent(r) == \E i \in DOMAIN sent[r] : sent[r][i] = "failed"
Completed(r) == row[r].status = "Completed"

\* A handler past its first save leaves a row.
HasRow(r) == launcher[r] \notin {"idle", "failed"} => row[r].status # "Absent"

\* RegistryIsOwned, with the order in which unregister_live_review leaves the maps.
Owned(r) ==
  /\ InRegistry(r) => \/ launcher[r] \in Registering
                      \/ job[r].pc \in Working \cup Leaving
                      \/ launcher[r] = "dropped"
  /\ job[r].pc \in {"unregisterChannel", "unregisterAgents"} => r \notin active
  /\ job[r].pc = "unregisterAgents" => r \notin channels

\* ExitIsKnown, with the two places that lead to it.
Told(r) ==
  /\ job[r].pc = "announce" => Terminal(row[r])
  /\ job[r].pc = "markAnnounce" /\ ~Terminal(row[r]) => budget.faults < MaxFaults
  /\ job[r].pc \in Leaving \cup {"done"} /\ ~Terminal(row[r]) =>
       sent[r] # <<>> /\ LastSent(r) = "failed" /\ budget.faults < MaxFaults

\* AnnouncedFailureStands, with what each stage of the recovery has cost.
Costs(r) ==
  /\ job[r].pc \in {"none", "evaluate", "results", "announce"} => ~FailedSent(r)
  /\ job[r].pc = "announce" /\ r \notin Benchmarks => job[r].oks = 0
  /\ Completed(r) =>
       /\ job[r].pc = "ensure" => FaultsUsed >= 1
       /\ job[r].pc = "mark" => FaultsUsed >= 2
       /\ job[r].pc = "markAnnounce" => FaultsUsed >= 3
       /\ FailedSent(r) => FaultsUsed >= 3

OutcomeOf(r) == HasRow(r) /\ Owned(r) /\ Told(r) /\ Costs(r)

Outcome == \A r \in Reviews : OutcomeOf(r)

-----------------------------------------------------------------------------
(* The frame: a step leaves the other reviews as they are.                 *)

\* Nothing of r moves but the fault budget, and that only downwards.
Same(r) ==
  /\ row'[r] = row[r]
  /\ job'[r] = job[r]
  /\ sent'[r] = sent[r]
  /\ launcher'[r] = launcher[r]
  /\ r \in active' <=> r \in active
  /\ r \in channels' <=> r \in channels
  /\ r \in agents' <=> r \in agents
  /\ budget'.faults <= budget.faults

\* Faults are numbers, and only ever used up.
LEMMA FaultsFall ==
  ASSUME TypeOK, UNCHANGED budget \/ StoreFails
  PROVE  /\ budget.faults \in Nat /\ budget'.faults \in Nat
         /\ budget'.faults <= budget.faults
         /\ StoreFails => budget'.faults < budget.faults /\ budget'.faults = budget.faults - 1
BY ConstantsAssumption DEF TypeOK, Budget, StoreFails

\* A review of which nothing moves keeps its outcome.
LEMMA SameOutcome ==
  ASSUME IInv, IInv', NEW r \in Reviews, OutcomeOf(r), Same(r)
  PROVE  OutcomeOf(r)'
<1>1. budget.faults \in Nat /\ budget'.faults \in Nat /\ MaxFaults \in Nat
  BY ConstantsAssumption DEF IInv, TypeOK, Budget
<1>2. HasRow(r)' /\ Owned(r)'
  BY DEF OutcomeOf, HasRow, Owned, InRegistry, Same
<1>3. Told(r)'
  BY <1>1 DEF OutcomeOf, Told, Same, LastSent, Terminal
<1>4. Costs(r)'
  BY <1>1 DEF OutcomeOf, Costs, Same, FailedSent, Completed, FaultsUsed
<1>5. QED
  BY <1>2, <1>3, <1>4 DEF OutcomeOf

\* A step of the handler of q is a step of q alone.
LEMMA LauncherFrame ==
  ASSUME TypeOK, NEW q \in Reviews, NEW r \in Reviews \ {q},
         SaveRunning(q) \/ LauncherStep(q) \/ DropHandler(q)
  PROVE  Same(r)
<1>1. CASE SaveRunning(q)
  <2>1. budget'.faults <= budget.faults
    BY <1>1, FaultsFall DEF SaveRunning, Save
  <2>2. QED
    BY <1>1, <2>1 DEF SaveRunning, Save, Same, TypeOK, registry
<1>2. CASE LauncherStep(q)
  <2>1. UNCHANGED <<budget, row, sent>>
    BY <1>2 DEF LauncherStep, RegisterActive, RegisterChannel, RegisterAgentsAndSpawn
  <2>2. budget'.faults <= budget.faults
    BY <2>1, FaultsFall
  <2>3. QED
    BY <1>2, <2>1, <2>2 DEF LauncherStep, RegisterActive, RegisterChannel,
       RegisterAgentsAndSpawn, Same, TypeOK
<1>3. CASE DropHandler(q)
  <2>1. budget'.faults = budget.faults /\ budget.faults \in Nat
    BY <1>3, ConstantsAssumption DEF DropHandler, TypeOK, Budget
  <2>2. QED
    BY <1>3, <2>1 DEF DropHandler, Same, TypeOK, registry
<1>4. QED
  BY <1>1, <1>2, <1>3

\* A step of the task of q is a step of q alone.
LEMMA JobFrame ==
  ASSUME TypeOK, NEW q \in Reviews, NEW r \in Reviews \ {q}, JobStep(q)
  PROVE  Same(r)
<1>1. UNCHANGED budget \/ StoreFails
  BY DEF JobStep, PrEvaluated, PrFails, AbortJob, SaveResult, SaveFinal, Save, Announce,
     EnsureTerminal, MarkFailed, MarkAnnounce, Unregister, UnregisterChannel, UnregisterAgents
<1>2. budget'.faults <= budget.faults
  BY <1>1, FaultsFall
<1>3. row'[r] = row[r]
  BY DEF JobStep, PrEvaluated, PrFails, AbortJob, SaveResult, SaveFinal, Save, Announce,
     EnsureTerminal, MarkFailed, MarkAnnounce, Unregister, UnregisterChannel,
     UnregisterAgents, TypeOK
<1>4. job'[r] = job[r]
  BY DEF JobStep, PrEvaluated, PrFails, AbortJob, SaveResult, SaveFinal, Announce, JobGoes,
     EnsureTerminal, MarkFailed, MarkAnnounce, Unregister, UnregisterChannel,
     UnregisterAgents, TypeOK
<1>5. sent'[r] = sent[r] /\ launcher'[r] = launcher[r]
  BY DEF JobStep, PrEvaluated, PrFails, AbortJob, SaveResult, SaveFinal, Send, Announce,
     EnsureTerminal, MarkFailed, MarkAnnounce, Unregister, UnregisterChannel,
     UnregisterAgents, TypeOK
<1>6. /\ r \in active' <=> r \in active
      /\ r \in channels' <=> r \in channels
      /\ r \in agents' <=> r \in agents
  BY DEF JobStep, PrEvaluated, PrFails, AbortJob, SaveResult, SaveFinal, Announce,
     EnsureTerminal, MarkFailed, MarkAnnounce, Unregister, UnregisterChannel,
     UnregisterAgents, registry
<1>7. QED
  BY <1>2, <1>3, <1>4, <1>5, <1>6 DEF Same

-----------------------------------------------------------------------------
(* What a step does to the review it is taken for.                         *)

\* A row is never deleted.
LEMMA RowStays ==
  ASSUME IInv, [Next]_vars, NEW r \in Reviews, row[r].status # "Absent"
  PROVE  row'[r].status # "Absent"
<1>1. \A w \in {RunningRow, CompletedRow, JobFailedRow, MarkedRow} : w.status # "Absent"
  BY DEF RunningRow, CompletedRow, JobFailedRow, MarkedRow
<1>2. QED
  BY <1>1, RowWrites DEF IInv, TypeOK

\* The start handler: nothing is told before the task runs.
LEMMA LauncherOutcome ==
  ASSUME IInv, IInv', NEW r \in Reviews, OutcomeOf(r),
         SaveRunning(r) \/ LauncherStep(r) \/ DropHandler(r)
  PROVE  OutcomeOf(r)'
<1>1. CASE SaveRunning(r)
  <2>1. /\ job[r].pc = "none" /\ UNCHANGED <<job, sent, registry>>
        /\ ~InRegistry(r) /\ launcher[r] = "idle"
    BY <1>1 DEF SaveRunning, IInv, Phases, InRegistry
  <2>2. \/ launcher'[r] = "saved" /\ row'[r] = RunningRow
        \/ launcher'[r] = "failed" /\ row'[r] = row[r]
    BY <1>1 DEF SaveRunning, Save, IInv, TypeOK
  <2>3. HasRow(r)'
    BY <2>2 DEF HasRow, RunningRow
  <2>4. Owned(r)'
    BY <2>1 DEF Owned, InRegistry, registry
  <2>5. Told(r)'
    BY <2>1 DEF Told, Leaving
  <2>6. ~FailedSent(r)'
    BY <2>1 DEF OutcomeOf, Costs, FailedSent
  <2>7. Costs(r)'
    BY <2>1, <2>6 DEF Costs
  <2>8. QED
    BY <2>3, <2>4, <2>5, <2>7 DEF OutcomeOf
<1>2. CASE RegisterActive(r) \/ RegisterChannel(r) \/ DropHandler(r)
  <2>1. /\ launcher[r] \in {"saved", "activated", "channelled"}
        /\ launcher'[r] \in {"activated", "channelled", "dropped"}
        /\ UNCHANGED <<row, job, sent>>
    BY <1>2 DEF RegisterActive, RegisterChannel, DropHandler, IInv, TypeOK
  <2>2. job[r].pc = "none"
    BY <2>1 DEF IInv, Phases
  <2>3. HasRow(r)'
    BY <2>1 DEF OutcomeOf, HasRow
  <2>4. Owned(r)'
    BY <2>1, <2>2 DEF Owned, Registering
  <2>5. Told(r)'
    BY <2>1, <2>2 DEF Told, Leaving
  <2>6. ~FailedSent(r)'
    BY <2>1, <2>2 DEF OutcomeOf, Costs, FailedSent
  <2>7. Costs(r)'
    BY <2>1, <2>2, <2>6 DEF Costs
  <2>8. QED
    BY <2>3, <2>4, <2>5, <2>7 DEF OutcomeOf
<1>3. CASE RegisterAgentsAndSpawn(r)
  <2>1. launcher[r] = "channelled" /\ UNCHANGED <<row, sent>>
    BY <1>3 DEF RegisterAgentsAndSpawn
  <2>2. job[r].pc = "none"
    BY <2>1 DEF IInv, Phases
  <2>3. job'[r].pc = "evaluate"
    BY <1>3 DEF RegisterAgentsAndSpawn, NoJob, IInv, TypeOK
  <2>4. HasRow(r)'
    BY <2>1 DEF OutcomeOf, HasRow
  <2>5. Owned(r)'
    BY <2>3 DEF Owned, Working
  <2>6. Told(r)'
    BY <2>3 DEF Told, Leaving
  <2>7. ~FailedSent(r)'
    BY <2>1, <2>2 DEF OutcomeOf, Costs, FailedSent
  <2>8. Costs(r)'
    BY <2>3, <2>7 DEF Costs
  <2>9. QED
    BY <2>4, <2>5, <2>6, <2>8 DEF OutcomeOf
<1>4. QED
  BY <1>1, <1>2, <1>3 DEF LauncherStep

\* An event is the last of its channel, and the only new one.
LEMMA Sending ==
  ASSUME TypeOK, NEW r \in Reviews, NEW e \in Event, Send(r, e)
  PROVE  /\ sent'[r] # <<>> /\ LastSent(r)' = e
         /\ e # "failed" /\ ~FailedSent(r) => ~FailedSent(r)'
<1>1. sent[r] \in Seq(Event) /\ sent'[r] = Append(sent[r], e)
  BY DEF TypeOK, Send
<1>2. QED
  BY <1>1 DEF LastSent, FailedSent

\* The task keeps its row, and stays in the registry while it is there.
LEMMA JobRowAndOwner ==
  ASSUME IInv, IInv', [Next]_vars, NEW r \in Reviews, OutcomeOf(r), JobStep(r)
  PROVE  HasRow(r)' /\ Owned(r)'
<1>1. UNCHANGED launcher
  BY DEF JobStep, PrEvaluated, PrFails, AbortJob, SaveResult, SaveFinal, Announce,
     EnsureTerminal, MarkFailed, MarkAnnounce, Unregister, UnregisterChannel, UnregisterAgents
<1>2. HasRow(r)'
  BY <1>1, RowStays DEF OutcomeOf, HasRow
<1>3. CASE job[r].pc \in Working
  <2>1. job'[r].pc \in Working \cup {"unregister"}
    BY <1>3 DEF JobStep, PrEvaluated, PrFails, AbortJob, SaveResult, SaveFinal, Announce,
       AfterPr, AfterFinal, EnsureTerminal, MarkFailed, MarkAnnounce, Unregister,
       UnregisterChannel, UnregisterAgents, JobGoes, Working, IInv, TypeOK, Job
  <2>2. QED
    BY <1>2, <2>1 DEF Owned, Working, Leaving
<1>4. CASE Unregister(r)
  BY <1>2, <1>4 DEF Unregister, JobGoes, Owned, Leaving, IInv, TypeOK
<1>5. CASE UnregisterChannel(r)
  BY <1>2, <1>5 DEF UnregisterChannel, JobGoes, OutcomeOf, Owned, Leaving, IInv, TypeOK
<1>6. CASE UnregisterAgents(r)
  BY <1>2, <1>6 DEF UnregisterAgents, JobGoes, OutcomeOf, Owned, InRegistry, IInv, TypeOK
<1>7. QED
  BY <1>3, <1>4, <1>5, <1>6 DEF JobStep, PrEvaluated, PrFails, AbortJob, SaveResult, SaveFinal,
     Announce, EnsureTerminal, MarkFailed, MarkAnnounce, Working

\* JobGoes takes the task where it says.
LEMMA GoesTo ==
  ASSUME TypeOK, NEW r \in Reviews, NEW pc, JobGoes(r, pc)
  PROVE  job'[r].pc = pc
BY DEF TypeOK, JobGoes, Job

\* unregister_live_review touches the registry only.
LEMMA LeavingSteps ==
  ASSUME TypeOK, NEW r \in Reviews,
         Unregister(r) \/ UnregisterChannel(r) \/ UnregisterAgents(r)
  PROVE  /\ UNCHANGED <<row, sent, budget>>
         /\ job[r].pc \in Leaving /\ job'[r].pc \in Leaving \cup {"done"}
<1>1. job'[r].pc \in {"unregisterChannel", "unregisterAgents", "done"}
  BY GoesTo DEF Unregister, UnregisterChannel, UnregisterAgents
<1>2. QED
  BY <1>1 DEF Unregister, UnregisterChannel, UnregisterAgents, Leaving

\* The task tells its readers the truth: whichever way it leaves, the row is
\* terminal, or a failure was sent and a store call was lost.
LEMMA JobTold ==
  ASSUME IInv, IInv', [Next]_vars, NEW r \in Reviews, OutcomeOf(r), JobStep(r)
  PROVE  Told(r)'
<1> USE DEF OutcomeOf, Told
<1>0. /\ row[r] \in Row /\ job \in [Reviews -> Job] /\ row \in [Reviews -> Row]
      /\ budget.faults \in Nat /\ MaxFaults \in Nat /\ budget.faults <= MaxFaults
  BY ConstantsAssumption DEF IInv, TypeOK, Budget
<1>1. Terminal(row[r]) => Terminal(row[r])'
  BY TerminalStep DEF IInv, Terminal
<1>2. CASE PrEvaluated(r) \/ PrFails(r) \/ AbortJob(r) \/ SaveResult(r)
  <2>1. job'[r].pc \in {"evaluate", "results", "ensure"}
    BY <1>0, <1>2 DEF PrEvaluated, PrFails, AbortJob, SaveResult, AfterPr, JobGoes, Job
  <2>2. QED
    BY <2>1 DEF Leaving
<1>3. CASE SaveFinal(r)
  <2>1. \/ JobGoes(r, AfterFinal(r)) /\ row'[r] = FinalRow(r)
        \/ JobGoes(r, "ensure")
    BY <1>0, <1>3 DEF SaveFinal, Save
  <2>2. Terminal(FinalRow(r))
    BY DEF FinalRow, Terminal, CompletedRow, JobFailedRow
  <2>3. CASE JobGoes(r, "ensure")
    BY <1>0, <2>3 DEF JobGoes, Leaving
  <2>4. QED
    BY <2>1, <2>2, <2>3 DEF Terminal
<1>4. CASE Announce(r)
  <2>1. Terminal(row[r])
    BY <1>4 DEF Announce
  <2>2. QED
    BY <1>1, <2>1
<1>5. CASE EnsureTerminal(r)
  <2>1. \/ Terminal(row[r])
        \/ job'[r].pc = "mark"
    BY <1>5, GoesTo DEF EnsureTerminal, IInv
  <2>2. QED
    BY <1>1, <2>1 DEF Leaving
<1>6. CASE MarkFailed(r)
  <2>1. job'[r].pc = "markAnnounce"
    BY <1>0, <1>6 DEF MarkFailed, JobGoes
  <2>2. CASE Save(r, MarkedRow)
    BY <1>0, <2>2 DEF Save, MarkedRow, Terminal
  <2>3. CASE StoreFails
    <3>1. budget'.faults < MaxFaults
      BY <1>0, <2>3, FaultsFall DEF IInv
    <3>2. QED
      BY <2>1, <3>1 DEF Leaving
  <2>4. QED
    BY <1>6, <2>2, <2>3 DEF MarkFailed
<1>7. CASE MarkAnnounce(r)
  <2>1. sent'[r] # <<>> /\ LastSent(r)' = "failed"
    BY <1>7, Sending DEF MarkAnnounce, IInv, Event
  <2>2. UNCHANGED <<row, budget>> /\ job[r].pc = "markAnnounce" /\ job'[r].pc = "unregister"
    BY <1>0, <1>7 DEF MarkAnnounce, JobGoes
  <2>3. QED
    BY <2>1, <2>2 DEF Terminal
<1>8. CASE Unregister(r) \/ UnregisterChannel(r) \/ UnregisterAgents(r)
  <2>1. /\ UNCHANGED <<row, sent, budget>>
        /\ job[r].pc \in Leaving /\ job'[r].pc \in Leaving \cup {"done"}
    BY <1>8, LeavingSteps DEF IInv
  <2>2. QED
    BY <2>1 DEF LastSent, Terminal, Leaving
<1>9. QED
  BY <1>2, <1>3, <1>4, <1>5, <1>6, <1>7, <1>8 DEF JobStep

\* A failure is announced for a completed row only after three lost calls.
LEMMA JobCosts ==
  ASSUME IInv, IInv', [Next]_vars, NEW r \in Reviews, OutcomeOf(r), JobStep(r)
  PROVE  Costs(r)'
<1> USE DEF OutcomeOf, Costs, Completed
<1>0. /\ row \in [Reviews -> Row] /\ job \in [Reviews -> Job] /\ TypeOK
      /\ budget.faults \in Nat /\ MaxFaults \in Nat /\ budget.faults <= MaxFaults
  BY SMTT(30), ConstantsAssumption DEF IInv, TypeOK, Budget
<1>1. CASE PrEvaluated(r) \/ PrFails(r) \/ AbortJob(r) \/ SaveResult(r)
  <2>1. job'[r].pc \in {"evaluate", "results", "ensure"} /\ UNCHANGED row
    BY <1>0, <1>1 DEF PrEvaluated, PrFails, AbortJob, SaveResult, AfterPr, JobGoes, Job
  <2>2. job[r].pc \in {"evaluate", "results"}
    BY <1>1 DEF PrEvaluated, PrFails, AbortJob, SaveResult
  <2>3. ~Completed(r)
    BY <2>2 DEF IInv, Backed
  <2>4. ~FailedSent(r)'
    <3>1. CASE Send(r, "completed")
      BY <1>0, <2>2, <3>1, Sending DEF Event
    <3>2. CASE UNCHANGED sent
      BY <2>2, <3>2 DEF FailedSent
    <3>3. QED
      BY <1>1, <3>1, <3>2 DEF PrEvaluated, PrFails, AbortJob, SaveResult
  <2>5. QED
    BY <2>1, <2>3, <2>4
<1>2. CASE SaveFinal(r)
  <2>1. ~Completed(r) /\ ~FailedSent(r)' /\ job[r].oks \in Nat
    BY <1>0, <1>2 DEF SaveFinal, IInv, Backed, FailedSent, Job
  <2>2. CASE JobGoes(r, AfterFinal(r))
    BY <1>0, <2>1, <2>2 DEF AfterFinal, JobGoes, Job
  <2>3. CASE JobGoes(r, "ensure") /\ StoreFails
    <3>1. job'[r].pc = "ensure"
      BY <1>0, <2>3 DEF JobGoes
    <3>2. MaxFaults - budget'.faults >= 1
      BY <1>0, <2>3, FaultsFall
    <3>3. QED
      BY <2>1, <3>1, <3>2 DEF FaultsUsed
  <2>4. QED
    BY <1>2, <2>2, <2>3 DEF SaveFinal
<1>3. CASE Announce(r)
  <2>1. UNCHANGED <<row, budget>> /\ job[r].pc = "announce" /\ ~FailedSent(r)
    BY <1>3 DEF Announce
  <2>2. CASE job[r].oks > 0
    <3>1. ~FailedSent(r)'
      BY <1>0, <1>3, <2>1, <2>2, Sending DEF Announce, Event
    <3>2. r \in Benchmarks
      BY <2>1, <2>2
    <3>3. job'[r].pc = "unregister"
      BY <1>0, <1>3, <3>2 DEF Announce, JobGoes
    <3>4. QED
      BY <3>1, <3>3
  <2>3. CASE ~(job[r].oks > 0)
    <3>1. ~Completed(r)
      BY <2>3 DEF IInv, Backed
    <3>2. job'[r].pc \in {"unregister", "ensure"}
      BY <1>0, <1>3 DEF Announce, JobGoes
    <3>3. QED
      BY <2>1, <3>1, <3>2
  <2>4. QED
    BY <2>2, <2>3
<1>4. CASE EnsureTerminal(r)
  <2>1. UNCHANGED <<row, sent>> /\ job[r].pc = "ensure"
    BY <1>4 DEF EnsureTerminal
  <2>2. CASE job'[r].pc = "unregister" /\ UNCHANGED budget
    BY <2>1, <2>2 DEF FailedSent, FaultsUsed
  <2>3. CASE job'[r].pc = "mark" /\ ~Terminal(row[r])
    BY <2>1, <2>3 DEF Terminal
  <2>4. CASE job'[r].pc = "mark" /\ StoreFails
    <3>1. MaxFaults - budget'.faults = MaxFaults - budget.faults + 1
      BY <1>0, <2>4, FaultsFall
    <3>2. QED
      BY <1>0, <2>1, <2>4, <3>1 DEF FailedSent, FaultsUsed
  <2>5. \/ job'[r].pc = "unregister" /\ UNCHANGED budget
        \/ job'[r].pc = "mark" /\ ~Terminal(row[r])
        \/ job'[r].pc = "mark" /\ StoreFails
    BY <1>0, <1>4, GoesTo DEF EnsureTerminal
  <2>6. QED
    BY <2>2, <2>3, <2>4, <2>5
<1>5. CASE MarkFailed(r)
  <2>1. UNCHANGED sent /\ job[r].pc = "mark" /\ job'[r].pc = "markAnnounce"
    BY <1>0, <1>5 DEF MarkFailed, JobGoes
  <2>2. CASE Save(r, MarkedRow)
    BY <1>0, <2>1, <2>2 DEF Save, MarkedRow
  <2>3. CASE StoreFails /\ UNCHANGED row
    <3>1. MaxFaults - budget'.faults = MaxFaults - budget.faults + 1
      BY <1>0, <2>3, FaultsFall
    <3>2. QED
      BY <1>0, <2>1, <2>3, <3>1 DEF FailedSent, FaultsUsed
  <2>4. QED
    BY <1>5, <2>2, <2>3 DEF MarkFailed
<1>6. CASE MarkAnnounce(r)
  <2>1. UNCHANGED <<row, budget>> /\ job[r].pc = "markAnnounce" /\ job'[r].pc = "unregister"
    BY <1>0, <1>6 DEF MarkAnnounce, JobGoes
  <2>2. QED
    BY <2>1 DEF FaultsUsed
<1>7. CASE Unregister(r) \/ UnregisterChannel(r) \/ UnregisterAgents(r)
  <2>1. /\ UNCHANGED <<row, sent, budget>>
        /\ job'[r].pc \in Leaving \cup {"done"}
    BY <1>7, LeavingSteps DEF IInv
  <2>2. QED
    BY <2>1 DEF FailedSent, FaultsUsed, Leaving
<1>8. QED
  BY <1>1, <1>2, <1>3, <1>4, <1>5, <1>6, <1>7 DEF JobStep

\* A page load only turns rows into failed ones, for nothing or at the price
\* of a fault.
LEMMA ReaderOutcome ==
  ASSUME IInv, IInv', [Next]_vars, NEW p \in Readers, Load(p) \/ ReaderStep(p),
         NEW r \in Reviews, OutcomeOf(r)
  PROVE  OutcomeOf(r)'
<1> USE DEF OutcomeOf
<1>1. UNCHANGED <<active, channels, agents, launcher, job, sent>>
  BY DEF Load, ReaderStep, CheckActive, Reconcile, registry
<1>2. /\ budget.faults \in Nat /\ budget'.faults \in Nat /\ MaxFaults \in Nat
      /\ budget'.faults <= budget.faults
  <2>1. UNCHANGED budget \/ StoreFails
    BY DEF Load, ReaderStep, CheckActive, Reconcile, Save
  <2>2. QED
    BY <2>1, FaultsFall, ConstantsAssumption DEF IInv
<1>3. row'[r] = row[r] \/ row'[r] = MarkedRow
  BY DEF Load, ReaderStep, CheckActive, Reconcile, Save, IInv, TypeOK
<1>4. /\ Terminal(row[r]) => Terminal(row[r])'
      /\ Completed(r)' => Completed(r)
      /\ row[r].status # "Absent" => row'[r].status # "Absent"
  BY <1>3 DEF Terminal, Completed, MarkedRow
<1>5. HasRow(r)' /\ Owned(r)'
  BY <1>1, <1>4 DEF HasRow, Owned, InRegistry
<1>6. Told(r)'
  BY <1>1, <1>2, <1>4 DEF Told, LastSent
<1>7. Costs(r)'
  BY <1>1, <1>2, <1>4 DEF Costs, FailedSent, FaultsUsed
<1>8. QED
  BY <1>5, <1>6, <1>7

\* A restart forgets the registry and the tasks with it.
LEMMA CrashOutcome ==
  ASSUME IInv, IInv', Crash, NEW r \in Reviews, OutcomeOf(r)
  PROVE  OutcomeOf(r)'
<1> USE DEF OutcomeOf
<1>1. /\ UNCHANGED <<row, sent>> /\ budget'.faults = budget.faults
      /\ active' = {} /\ channels' = {} /\ agents' = {}
  BY DEF Crash, IInv, TypeOK, Budget
<1>2. \/ job'[r] = job[r] /\ job[r].pc \in {"none", "done", "killed"}
      \/ job'[r].pc = "killed"
  BY DEF Crash, IInv, TypeOK, Job, JobPc
<1>3. HasRow(r)'
  BY <1>1 DEF Crash, HasRow
<1>4. Owned(r)'
  BY <1>1 DEF Owned, InRegistry
<1>5. Told(r)'
  BY <1>1, <1>2 DEF Told, LastSent, Terminal, Leaving
<1>6. Costs(r)'
  BY <1>1, <1>2 DEF Costs, FailedSent, FaultsUsed, Completed
<1>7. QED
  BY <1>3, <1>4, <1>5, <1>6

-----------------------------------------------------------------------------
(* The invariant, and what follows from it.                                *)

\* Nothing is registered, told or paid for at the start.
LEMMA InitOutcome == Init => Outcome
<1> SUFFICES ASSUME Init, NEW r \in Reviews PROVE OutcomeOf(r)
  BY DEF Outcome
<1>1. /\ launcher[r] = "idle" /\ job[r].pc = "none" /\ sent[r] = <<>>
      /\ row[r].status = "Absent" /\ ~InRegistry(r)
  BY DEF Init, NoJob, AbsentRow, InRegistry
<1>2. HasRow(r) /\ Owned(r) /\ Told(r)
  BY <1>1 DEF HasRow, Owned, Told, Leaving
<1>3. Costs(r)
  BY <1>1 DEF Costs, FailedSent, Completed
<1>4. QED
  BY <1>2, <1>3 DEF OutcomeOf

\* Every step of the server keeps the outcome of every review.
LEMMA OutcomeStep == IInv /\ IInv' /\ Outcome /\ [Next]_vars => Outcome'
<1> SUFFICES ASSUME IInv, IInv', Outcome, [Next]_vars, NEW r \in Reviews
             PROVE  OutcomeOf(r)'
  BY DEF Outcome
<1>1. OutcomeOf(r) /\ TypeOK
  BY DEF Outcome, IInv
<1>2. ASSUME NEW q \in Reviews, SaveRunning(q) \/ LauncherStep(q) \/ DropHandler(q)
      PROVE  OutcomeOf(r)'
  <2>1. CASE q = r
    BY <1>1, <1>2, <2>1, LauncherOutcome
  <2>2. CASE q # r
    <3>1. Same(r)
      BY <1>1, <1>2, <2>2, LauncherFrame
    <3>2. QED
      BY <1>1, <3>1, SameOutcome
  <2>3. QED
    BY <2>1, <2>2
<1>3. ASSUME NEW q \in Reviews, JobStep(q) PROVE OutcomeOf(r)'
  <2>1. CASE q = r
    <3>1. JobStep(r)
      BY <1>3, <2>1
    <3>2. HasRow(r)' /\ Owned(r)' /\ Told(r)' /\ Costs(r)'
      BY <1>1, <3>1, JobRowAndOwner, JobTold, JobCosts
    <3>3. QED
      BY <3>2 DEF OutcomeOf
  <2>2. CASE q # r
    <3>1. Same(r)
      BY <1>1, <1>3, <2>2, JobFrame
    <3>2. QED
      BY <1>1, <3>1, SameOutcome
  <2>3. QED
    BY <2>1, <2>2
<1>4. ASSUME NEW p \in Readers, Load(p) \/ ReaderStep(p) PROVE OutcomeOf(r)'
  BY <1>1, <1>4, ReaderOutcome
<1>5. ASSUME Crash PROVE OutcomeOf(r)'
  BY <1>1, <1>5, CrashOutcome
<1>6. ASSUME UNCHANGED vars PROVE OutcomeOf(r)'
  <2>1. budget.faults \in Nat
    BY <1>1, ConstantsAssumption DEF TypeOK, Budget
  <2>2. Same(r)
    BY <1>6, <2>1 DEF vars, registry, Same
  <2>3. QED
    BY <1>1, <2>2, SameOutcome
<1>7. QED
  BY <1>2, <1>3, <1>4, <1>5, <1>6 DEF Next, ServerNext

\* Outcome holds in every reachable state.
LEMMA OutcomeInvariance == Spec => []Outcome
BY InitOutcome, OutcomeStep, Invariance, PTL DEF Spec

\* The three maps of AppState do not leak: whatever is in one of them belongs
\* to a handler or a task that will still take care of it, or was left by a
\* handler dropped between its three insertions.
THEOREM OwnedRegistry == Spec => []RegistryIsOwned
<1>1. IInv /\ Outcome => RegistryIsOwned
  BY DEF IInv, TypeOK, Outcome, OutcomeOf, Owned, InRegistry, RegistryIsOwned
<1>2. QED
  BY <1>1, Invariance, OutcomeInvariance, PTL

\* Nobody waits for a job that is over: its row is terminal, or its failure was
\* the last thing sent and a store call was lost.
THEOREM KnownExit == Spec => []ExitIsKnown
<1>1. Outcome => ExitIsKnown
  BY DEF Outcome, OutcomeOf, Told, ExitIsKnown
<1>2. QED
  BY <1>1, OutcomeInvariance, PTL

\* It takes three lost store calls to announce the failure of a completed
\* review.
THEOREM FailureStands == Spec => []AnnouncedFailureStands
<1>1. Outcome => AnnouncedFailureStands
  BY DEF Outcome, OutcomeOf, Costs, Completed, FailedSent, AnnouncedFailureStands
<1>2. QED
  BY <1>1, OutcomeInvariance, PTL

-----------------------------------------------------------------------------
(* The refinement.                                                         *)

\* Results are stored by the task, one at a time, before its final row.
LEMMA ResultWrites ==
  ASSUME TypeOK, [Next]_vars
  PROVE  \/ UNCHANGED results
         \/ \E r \in Reviews : /\ job[r].pc = "results"
                              /\ results' = [results EXCEPT ![r] = @ + 1]
                              /\ UNCHANGED row
<1>1. ASSUME NEW r \in Reviews, SaveRunning(r) \/ LauncherStep(r) \/ DropHandler(r)
      PROVE  UNCHANGED results
  BY <1>1 DEF SaveRunning, LauncherStep, RegisterActive, RegisterChannel,
     RegisterAgentsAndSpawn, DropHandler
<1>2. ASSUME NEW r \in Reviews, JobStep(r), ~SaveResult(r) PROVE UNCHANGED results
  BY <1>2 DEF JobStep, PrEvaluated, PrFails, AbortJob, SaveFinal, Announce, EnsureTerminal,
     MarkFailed, MarkAnnounce, Unregister, UnregisterChannel, UnregisterAgents
<1>3. ASSUME NEW p \in Readers, Load(p) \/ ReaderStep(p) PROVE UNCHANGED results
  BY <1>3 DEF Load, ReaderStep, CheckActive, Reconcile
<1>4. ASSUME Crash \/ UNCHANGED vars PROVE UNCHANGED results
  BY <1>4 DEF Crash, vars
<1>5. ASSUME NEW r \in Reviews, SaveResult(r)
      PROVE  \/ UNCHANGED results
             \/ /\ job[r].pc = "results"
                /\ results' = [results EXCEPT ![r] = @ + 1]
                /\ UNCHANGED row
  BY <1>5 DEF SaveResult
<1>6. QED
  BY <1>1, <1>2, <1>3, <1>4, <1>5 DEF Next, ServerNext

\* The status column, as ReviewRecord sees it.
Shown == [r \in Reviews |-> row[r].status]

\* A row written for r is a new status of r.
LEMMA ShownWrite ==
  ASSUME TypeOK, NEW r \in Reviews, NEW w \in Row, row' = [row EXCEPT ![r] = w]
  PROVE  Shown' = [Shown EXCEPT ![r] = w.status]
BY DEF TypeOK, Shown

\* The initial state is one of ReviewRecord.
LEMMA RecordInit == Init => Record!Init
BY DEF Init, AbsentRow, Record!Init

\* Every step of the server is a step of ReviewRecord or invisible in it.
LEMMA RecordStep == IInv /\ Outcome /\ [Next]_vars => [Record!Next]_Record!vars
<1> SUFFICES ASSUME IInv, Outcome, [Next]_vars PROVE [Record!Next]_Record!vars
  OBVIOUS
<1> USE DEF Record!Next, Record!vars, Record!Becomes
<1>0. TypeOK /\ results \in [Reviews -> 0 .. MaxPrs] /\ MaxPrs \in Nat
  BY ConstantsAssumption DEF IInv, TypeOK
<1>1. CASE UNCHANGED <<row, results>>
  BY <1>1
<1>2. ASSUME NEW r \in Reviews, job[r].pc = "results", UNCHANGED row,
             results' = [results EXCEPT ![r] = @ + 1]
      PROVE  Record!Store(r)
  <2>1. row[r] \in Row /\ row[r].status \notin {"Absent", "Completed"}
    BY <1>0, <1>2 DEF IInv, Phases, Backed, Outcome, OutcomeOf, HasRow, TypeOK
  <2>2. row[r].status \in {"Running", "Failed"}
    BY <2>1 DEF Row, Status
  <2>3. QED
    BY <1>2, <2>2 DEF Record!Store
<1>3. CASE UNCHANGED results
  <2>1. ASSUME NEW r \in Reviews, launcher[r] = "idle", row' = [row EXCEPT ![r] = RunningRow]
        PROVE  Record!Start(r)
    <3>1. row[r].status = "Absent"
      BY <2>1 DEF IInv, Phases
    <3>2. Shown' = [Shown EXCEPT ![r] = "Running"]
      BY <1>0, <2>1, RowTypes, ShownWrite DEF RunningRow
    <3>3. QED
      BY <1>3, <3>1, <3>2 DEF Record!Start, Shown
  <2>2. ASSUME NEW r \in Reviews, job[r].pc = "results", job[r].saved = job[r].oks,
               job[r].oks > 0, row' = [row EXCEPT ![r] = CompletedRow]
        PROVE  Record!Complete(r)
    <3>1. row[r] \in Row /\ row[r].status \notin {"Absent", "Completed"}
      BY <1>0, <2>2 DEF IInv, Phases, Backed, Outcome, OutcomeOf, HasRow, TypeOK
    <3>2. row[r].status \in {"Running", "Failed"}
      BY <3>1 DEF Row, Status
    <3>3. results[r] > 0
      BY <2>2 DEF IInv, JobCounts
    <3>4. Shown' = [Shown EXCEPT ![r] = "Completed"]
      BY <1>0, <2>2, RowTypes, ShownWrite DEF CompletedRow
    <3>5. QED
      BY <1>3, <3>2, <3>3, <3>4 DEF Record!Complete, Shown
  <2>3. ASSUME NEW r \in Reviews, NEW w \in {JobFailedRow, MarkedRow},
               row[r].status # "Absent", row' = [row EXCEPT ![r] = w]
        PROVE  Record!Fail(r)
    <3>1. Shown' = [Shown EXCEPT ![r] = "Failed"]
      BY <1>0, <2>3, RowTypes, ShownWrite DEF JobFailedRow, MarkedRow
    <3>2. QED
      BY <1>3, <2>3, <3>1 DEF Record!Fail, Shown
  <2>4. \A r \in Reviews : job[r].pc \in Working => row[r].status # "Absent"
    BY DEF IInv, Phases, Outcome, OutcomeOf, HasRow, Working
  <2>5. \A p \in Readers : reader[p].stale \in Reviews => row[reader[p].stale].status # "Absent"
    BY DEF IInv, Loaded
  <2>6. CASE UNCHANGED row
    BY <1>1, <1>3, <2>6
  <2>7. QED
    BY <1>0, <2>1, <2>2, <2>3, <2>4, <2>5, <2>6, RowWrites
<1>4. QED
  BY <1>0, <1>2, <1>3, ResultWrites

\* Handlers, tasks, recoveries, page loads and restarts together keep the
\* promise of ReviewRecord.
THEOREM RecordImplemented == Spec => ImplementsReviewRecord
<1>1. Init => Record!Init
  BY RecordInit
<1>2. IInv /\ Outcome /\ [Next]_vars => [Record!Next]_Record!vars
  BY RecordStep
<1>3. QED
  BY <1>1, <1>2, Invariance, OutcomeInvariance, PTL
     DEF Spec, ImplementsReviewRecord, Record!Spec
=============================================================================
