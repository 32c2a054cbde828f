------------------------- MODULE ReviewStream_proofs -------------------------
(***************************************************************************)
(* Proofs about ReviewStream, for any number of live pages and any capacity *)
(* of the channel.  The pages add two writers to the store, the             *)
(* reconciliations of the stream and of the poll: the invariant IInv of the *)
(* server is shown to survive them first.                                  *)
(***************************************************************************)
EXTENDS ReviewStream, ReviewLifecycle_proofs

\* A page asks for a review that was started: rows are never deleted.
Opened ==
  \A c \in Pages :
    poll[c] # "off" \/ conn[c].pc # "closed" =>
      conn[c].review \in Reviews /\ row[conn[c].review].status # "Absent"

\* A subscriber that has consumed all there is has the last event, if there was
\* one: a lag leaves it at least one event short.
Abreast ==
  \A c \in Pages :
    LET r == conn[c].review
        k == conn[c].cursor IN
    conn[c].pc = "subscribed" =>
      /\ conn[c].since <= k /\ k <= Len(sent[r])
      /\ conn[c].since < k /\ k = Len(sent[r]) => news[c] = sent[r][k]

StreamIInv == IInv /\ StreamTypeOK /\ Opened /\ Abreast /\ LeftMeansStored

-----------------------------------------------------------------------------
(* The server's invariant.                                                 *)

\* What a step of the pages does to the server, if it does anything: an agent's
\* event, a load that fails, or the reconciliation SaveMarked.
AgentEvent(r) ==
  /\ job[r].pc = "evaluate" /\ Send(r, "progress")
  /\ UNCHANGED <<row, results, registry, launcher, job, reader, budget>>
LoadError ==
  StoreFails /\ UNCHANGED <<row, results, registry, launcher, job, sent, reader>>

\* An event of an agent is no concern of the stored review.
LEMMA AgentEventKeeps == ASSUME IInv, NEW r \in Reviews, AgentEvent(r) PROVE IInv'
<1> USE DEF AgentEvent, registry
<1>1. TypeOK'
  <2>1. sent' \in [Reviews -> Seq(Event)]
    BY SendType DEF IInv, TypeOK, Event
  <2> QED BY <2>1 DEF IInv, TypeOK
<1>2. (JobCounts /\ Phases)'
  BY DEF IInv, JobCounts, Phases
<1>3. (RowIsConsistent /\ Backed /\ Loaded /\ Seen)'
  BY DEF IInv, RowIsConsistent, Terminal, Backed, Loaded, Seen, Gone
<1> QED BY <1>1, <1>2, <1>3 DEF IInv

\* An error of the store only costs the bound.
LEMMA LoadErrorKeeps == ASSUME IInv, LoadError PROVE IInv'
<1> USE DEF LoadError, registry
<1>1. TypeOK'
  BY StoreFailsType DEF IInv, TypeOK
<1>2. (JobCounts /\ Phases)'
  BY DEF IInv, JobCounts, Phases
<1>3. (RowIsConsistent /\ Backed /\ Loaded /\ Seen)'
  BY DEF IInv, RowIsConsistent, Terminal, Backed, Loaded, Seen, Gone
<1> QED BY <1>1, <1>2, <1>3 DEF IInv

\* A reconciliation of a review that was started keeps what the server relies
\* on, at whatever moment of the review's life its stale answer is saved.
LEMMA ReconcilesKeeps ==
  ASSUME IInv, NEW r \in Reviews, row[r].status # "Absent", SaveMarked(r)
  PROVE  IInv'
<1>1. CASE StoreFails /\ UNCHANGED row
  BY <1>1, LoadErrorKeeps DEF SaveMarked, LoadError
<1>2. CASE Save(r, MarkedRow)
  <2> USE <1>2 DEF SaveMarked, registry
  <2>1. row' = [row EXCEPT ![r] = MarkedRow]
    BY DEF Save
  <2>2. TypeOK'
    BY SaveType, RowTypes DEF IInv, TypeOK
  <2>3. JobCounts'
    BY DEF IInv, JobCounts
  <2>4. Phases'
    BY <2>1 DEF IInv, TypeOK, Phases
  <2>5. RowIsConsistent'
    BY <2>1 DEF IInv, TypeOK, RowIsConsistent, Terminal, MarkedRow
  <2>6. (Backed /\ Loaded /\ Seen)'
    BY <2>1 DEF IInv, TypeOK, Backed, Loaded, Seen, Gone, MarkedRow
  <2> QED BY <2>2, <2>3, <2>4, <2>5, <2>6 DEF IInv
<1> QED BY <1>1, <1>2 DEF SaveMarked

-----------------------------------------------------------------------------
(* What any step of the whole does to the server.                          *)

\* A step is one of the server, an agent's event, a failed load, a
\* reconciliation of a page's review, or none of the server's concern.
LEMMA StepKinds ==
  ASSUME StreamIInv, [StreamNext]_allVars
  PROVE  \/ [Next]_vars
         \/ \E r \in Reviews : AgentEvent(r)
         \/ LoadError
         \/ \E r \in Reviews : row[r].status # "Absent" /\ SaveMarked(r)
<1>1. CASE ServerNext \/ Crash \/ UNCHANGED allVars
  BY <1>1 DEF Next, allVars, vars
<1>2. ASSUME NEW r \in Reviews, Progress(r) PROVE AgentEvent(r)
  BY <1>2 DEF Progress, AgentEvent
<1>3. ASSUME NEW c \in Pages, OpenPage(c) \/ ConnStep(c) \/ PollStep(c)
      PROVE  UNCHANGED vars \/ LoadError
             \/ \E r \in Reviews : row[r].status # "Absent" /\ SaveMarked(r)
  <2>1. CASE StreamReconcile(c)
    <3>1. conn[c].pc # "closed" /\ SaveMarked(conn[c].review)
      BY <2>1 DEF StreamReconcile
    <3> QED BY <3>1 DEF StreamIInv, Opened
  <2>2. CASE PollReconcile(c)
    <3>1. poll[c] # "off" /\ SaveMarked(conn[c].review)
      BY <2>2 DEF PollReconcile, SaveMarked
    <3> QED BY <3>1 DEF StreamIInv, Opened
  <2>3. CASE StreamLoadFails(c)
    BY <2>3 DEF StreamLoadFails, LoadError
  <2>4. CASE OpenPage(c) \/ StreamCheckActive(c) \/ Subscribe(c) \/ StreamLoad(c)
             \/ StreamRecheck(c) \/ Receive(c) \/ StreamEnds(c) \/ PollLoad(c) \/ PollRecheck(c)
    BY <2>4 DEF OpenPage, StreamCheckActive, Subscribe, StreamLoad, StreamRecheck, Receive,
       StreamEnds, PollLoad, PollRecheck
  <2> QED BY <1>3, <2>1, <2>2, <2>3, <2>4 DEF ConnStep, PollStep
<1> QED BY <1>1, <1>2, <1>3 DEF StreamNext

\* The server's invariant survives the pages.
LEMMA ServerStep == ASSUME StreamIInv, [StreamNext]_allVars PROVE IInv'
BY StepKinds, IInvStep, AgentEventKeeps, LoadErrorKeeps, ReconcilesKeeps DEF StreamIInv

\* No row is deleted, and a review that ended stays ended.
LEMMA StoreMoves ==
  ASSUME StreamIInv, [StreamNext]_allVars
  PROVE  /\ \A r \in Reviews : row[r].status # "Absent" => row'[r].status # "Absent"
         /\ \A r \in Reviews : Terminal(row[r]) => Terminal(row'[r])
<1> DEFINE Moves == /\ \A r \in Reviews : row[r].status # "Absent" => row'[r].status # "Absent"
                    /\ \A r \in Reviews : Terminal(row[r]) => Terminal(row'[r])
<1> USE DEF StreamIInv, IInv
<1>1. CASE [Next]_vars
  <2>1. \A w \in {RunningRow, CompletedRow, JobFailedRow, MarkedRow} : w.status # "Absent"
    BY DEF RunningRow, CompletedRow, JobFailedRow, MarkedRow
  <2>2. \A r \in Reviews : row[r].status # "Absent" => row'[r].status # "Absent"
    BY <1>1, <2>1, RowWrites DEF TypeOK
  <2>3. \A r \in Reviews : Terminal(row[r]) => Terminal(row'[r])
    BY <1>1, TerminalStep
  <2> QED BY <2>2, <2>3
<1>2. CASE \E r \in Reviews : AgentEvent(r)
  BY <1>2 DEF AgentEvent
<1>4. CASE LoadError
  BY <1>4 DEF LoadError
<1>5. ASSUME NEW r \in Reviews, SaveMarked(r) PROVE Moves
  <2>1. CASE Save(r, MarkedRow)
    BY <2>1 DEF Save, TypeOK, MarkedRow, Terminal
  <2>2. CASE StoreFails /\ UNCHANGED row
    BY <2>2
  <2> QED BY <1>5, <2>1, <2>2 DEF SaveMarked
<1> QED BY <1>1, <1>2, <1>4, <1>5, StepKinds

\* What was sent stays sent: a step appends at most one event to each channel's
\* history.
LEMMA SentMoves ==
  ASSUME StreamIInv, [StreamNext]_allVars, NEW r \in Reviews
  PROVE  \/ sent'[r] = sent[r]
         \/ \E e \in Event : sent'[r] = Append(sent[r], e)
<1> USE DEF StreamIInv, IInv, TypeOK
<1>1. ASSUME NEW q \in Reviews, NEW e \in Event, Send(q, e)
      PROVE  sent'[r] = sent[r] \/ sent'[r] = Append(sent[r], e)
  BY <1>1 DEF Send
<1>2. {"progress", "completed", "failed"} \subseteq Event
  BY DEF Event
<1>3. CASE [Next]_vars
  <2>1. UNCHANGED sent \/ \E q \in Reviews, e \in Event : Send(q, e)
    <3>1. CASE UNCHANGED vars \/ Crash
      BY <3>1 DEF vars, Crash
    <3>2. ASSUME NEW p \in Readers, Load(p) \/ ReaderStep(p) PROVE UNCHANGED sent
      BY <3>2 DEF Load, ReaderStep, CheckActive, Reconcile
    <3>3. ASSUME NEW q \in Reviews, SaveRunning(q) \/ LauncherStep(q) \/ DropHandler(q)
          PROVE  UNCHANGED sent
      BY <3>3 DEF SaveRunning, LauncherStep, RegisterActive, RegisterChannel,
         RegisterAgentsAndSpawn, DropHandler
    <3>4. ASSUME NEW q \in Reviews, PrEvaluated(q) \/ Announce(q) \/ MarkAnnounce(q)
          PROVE  \E e \in Event : Send(q, e)
      BY <1>2, <3>4 DEF PrEvaluated, Announce, MarkAnnounce
    <3>5. ASSUME NEW q \in Reviews,
                 PrFails(q) \/ AbortJob(q) \/ SaveResult(q) \/ SaveFinal(q) \/ EnsureTerminal(q)
                 \/ MarkFailed(q) \/ Unregister(q) \/ UnregisterChannel(q) \/ UnregisterAgents(q)
          PROVE  UNCHANGED sent
      BY <3>5 DEF PrFails, AbortJob, SaveResult, SaveFinal, EnsureTerminal, MarkFailed,
         Unregister, UnregisterChannel, UnregisterAgents
    <3> QED BY <1>3, <3>1, <3>2, <3>3, <3>4, <3>5 DEF Next, ServerNext, JobStep
  <2> QED BY <1>1, <2>1
<1>4. CASE \E q \in Reviews : AgentEvent(q)
  BY <1>1, <1>2, <1>4 DEF AgentEvent
<1>5. CASE LoadError \/ \E q \in Reviews : SaveMarked(q)
  BY <1>5 DEF LoadError, SaveMarked
<1> QED BY <1>3, <1>4, <1>5, StepKinds

-----------------------------------------------------------------------------
(* The pages.                                                              *)

\* A step of the pages is one of a single page; the others stay as they are.
LEMMA OnePage ==
  ASSUME StreamTypeOK, [StreamNext]_allVars
  PROVE  \/ UNCHANGED pageVars
         \/ Disconnect
         \/ \E c \in Pages :
              /\ OpenPage(c) \/ ConnStep(c) \/ PollStep(c)
              /\ \A d \in Pages \ {c} :
                   conn'[d] = conn[d] /\ poll'[d] = poll[d] /\ news'[d] = news[d]
<1>1. CASE (ServerNext /\ UNCHANGED pageVars) \/ (Crash /\ Disconnect) \/ UNCHANGED allVars
  BY <1>1 DEF allVars
<1>2. ASSUME NEW r \in Reviews, Progress(r) PROVE UNCHANGED pageVars
  BY <1>2 DEF Progress
<1>3. ASSUME NEW c \in Pages, OpenPage(c) \/ ConnStep(c) \/ PollStep(c), NEW d \in Pages \ {c}
      PROVE  conn'[d] = conn[d] /\ poll'[d] = poll[d] /\ news'[d] = news[d]
  <2> USE DEF StreamTypeOK, ConnGoes, PollGoes, Leave, OneShot
  <2>1. CASE OpenPage(c)
    BY <2>1 DEF OpenPage
  <2>2. CASE StreamCheckActive(c) \/ Subscribe(c) \/ StreamEnds(c) \/ Receive(c)
    BY <2>2 DEF StreamCheckActive, Subscribe, StreamEnds, Receive
  <2>3. CASE StreamLoad(c) \/ StreamLoadFails(c) \/ StreamRecheck(c) \/ StreamReconcile(c)
    BY <2>3 DEF StreamLoad, StreamLoadFails, StreamRecheck, StreamReconcile
  <2>4. CASE PollLoad(c) \/ PollRecheck(c) \/ PollReconcile(c)
    BY <2>4 DEF PollLoad, PollRecheck, PollReconcile
  <2> QED BY <1>3, <2>1, <2>2, <2>3, <2>4 DEF ConnStep, PollStep
<1> QED BY <1>1, <1>2, <1>3 DEF StreamNext

\* Only opening a page gives it a review.
LEMMA ReviewStays ==
  ASSUME StreamTypeOK, [StreamNext]_allVars, NEW c \in Pages,
         poll[c] # "off" \/ ~OpenPage(c)
  PROVE  conn'[c].review = conn[c].review
<1> USE DEF StreamTypeOK, Conn
<1>1. CASE UNCHANGED pageVars \/ Disconnect
  BY <1>1 DEF pageVars, Disconnect
<1>2. CASE ConnStep(c)
  <2> USE DEF ConnGoes, OneShot
  <2>1. CASE StreamCheckActive(c) \/ Subscribe(c) \/ StreamEnds(c) \/ Receive(c)
    <3>1. CASE StreamCheckActive(c) \/ StreamEnds(c)
      BY <3>1 DEF StreamCheckActive, StreamEnds
    <3>2. CASE Subscribe(c)
      BY <3>2 DEF Subscribe
    <3>3. CASE Receive(c)
      BY <3>3 DEF Receive
    <3> QED
      BY <2>1, <3>1, <3>2, <3>3
  <2>2. CASE StreamLoad(c) \/ StreamLoadFails(c) \/ StreamRecheck(c) \/ StreamReconcile(c)
    BY <2>2 DEF StreamLoad, StreamLoadFails, StreamRecheck, StreamReconcile
  <2> QED BY <1>2, <2>1, <2>2 DEF ConnStep
<1>3. CASE PollStep(c)
  BY <1>3 DEF PollStep, PollLoad, PollRecheck, PollReconcile, PollGoes, Leave, ConnGoes
<1>4. poll[c] # "off" => ~OpenPage(c)
  BY DEF OpenPage
<1> QED BY <1>1, <1>2, <1>3, <1>4, OnePage

\* A page is opened before it does anything.
LEMMA OpensFirst ==
  ASSUME StreamTypeOK, [StreamNext]_allVars, NEW c \in Pages, ~OpenPage(c),
         poll[c] = "off", conn[c].pc = "closed"
  PROVE  poll'[c] = "off" /\ conn'[c].pc = "closed"
<1> USE DEF StreamTypeOK, Conn
<1>1. CASE UNCHANGED pageVars \/ Disconnect
  BY <1>1 DEF pageVars, Disconnect
<1>2. ~ConnStep(c)
  BY DEF ConnStep, StreamCheckActive, Subscribe, StreamEnds, Receive, StreamLoad, StreamLoadFails,
     StreamRecheck, StreamReconcile
<1>3. ~PollStep(c)
  BY DEF PollStep, PollLoad, PollRecheck, PollReconcile
<1> QED BY <1>1, <1>2, <1>3, OnePage

\* The two steps with which a page leaves.
LEMMA WhoLeaves ==
  ASSUME StreamTypeOK, [StreamNext]_allVars, NEW c \in Pages, poll[c] # "left", poll'[c] = "left"
  PROVE  \/ PollLoad(c) /\ Terminal(row[conn[c].review])
         \/ PollReconcile(c) /\ Save(conn[c].review, MarkedRow)
<1> USE DEF StreamTypeOK
<1>1. ~(UNCHANGED pageVars \/ Disconnect)
  BY DEF pageVars, Disconnect
<1>2. ~OpenPage(c)
  BY DEF OpenPage, PollGoes
<1>3. ~ConnStep(c)
  BY DEF ConnStep, StreamCheckActive, Subscribe, StreamEnds, Receive, StreamLoad, StreamLoadFails,
     StreamRecheck, StreamReconcile
<1>4. ~PollRecheck(c)
  BY DEF PollRecheck, PollGoes
<1>5. PollLoad(c) => Terminal(row[conn[c].review])
  BY DEF PollLoad, PollGoes
<1>6. PollReconcile(c) => Save(conn[c].review, MarkedRow)
  BY DEF PollReconcile, Leave, PollGoes
<1> QED BY <1>1, <1>2, <1>3, <1>4, <1>5, <1>6, OnePage DEF PollStep

\* A page that leaves and is not misled does so by a terminal row it loaded or
\* saved; who left before stays where it is, and so does its row.
LEMMA LeftStep ==
  ASSUME StreamIInv, [StreamNext]_allVars PROVE LeftMeansStored'
<1> SUFFICES ASSUME NEW c \in Pages, poll'[c] = "left"
             PROVE  Terminal(row'[conn'[c].review])
  BY DEF LeftMeansStored
<1> USE DEF StreamIInv, StreamTypeOK
<1>1. CASE poll[c] = "left"
  <2>1. conn'[c].review = conn[c].review
    BY <1>1, ReviewStays
  <2>2. conn[c].review \in Reviews
    BY <1>1 DEF Opened
  <2> QED BY <1>1, <2>1, <2>2, StoreMoves DEF LeftMeansStored
<1>2. CASE poll[c] # "left"
  <2>1. \/ PollLoad(c) /\ Terminal(row[conn[c].review])
        \/ PollReconcile(c) /\ Save(conn[c].review, MarkedRow)
    BY <1>2, WhoLeaves
  <2>2. conn'[c].review = conn[c].review /\ conn[c].review \in Reviews
    <3>1. poll[c] # "off"
      BY <2>1 DEF PollLoad, PollReconcile
    <3> QED BY <3>1, ReviewStays DEF Opened
  <2>3. CASE Terminal(row[conn[c].review])
    BY <2>2, <2>3, StoreMoves
  <2>4. CASE Save(conn[c].review, MarkedRow)
    BY <2>2, <2>4 DEF Save, IInv, TypeOK, MarkedRow, Terminal
  <2> QED BY <2>1, <2>3, <2>4
<1> QED BY <1>1, <1>2

\* Pages only open reviews that were started, and stay with theirs.
LEMMA OpenedStep == ASSUME StreamIInv, [StreamNext]_allVars PROVE Opened'
<1> SUFFICES ASSUME NEW c \in Pages, poll'[c] # "off" \/ conn'[c].pc # "closed"
             PROVE  conn'[c].review \in Reviews /\ row'[conn'[c].review].status # "Absent"
  BY DEF Opened
<1> USE DEF StreamIInv, StreamTypeOK
<1>1. CASE OpenPage(c)
  <2>1. PICK r \in RunningRows :
          conn' = [conn EXCEPT ![c] = [@ EXCEPT !.pc = "connect", !.review = r]]
    BY <1>1 DEF OpenPage
  <2>2. r \in Reviews /\ row[r].status # "Absent"
    BY DEF RunningRows
  <2>3. conn'[c].review = r
    BY <2>1 DEF Conn
  <2> QED BY <2>2, <2>3, StoreMoves
<1>2. CASE ~OpenPage(c)
  <2>1. conn'[c].review = conn[c].review
    BY <1>2, ReviewStays
  <2>2. poll[c] # "off" \/ conn[c].pc # "closed"
    BY <1>2, OpensFirst
  <2> QED BY <2>1, <2>2, StoreMoves DEF Opened
<1> QED BY <1>1, <1>2

\* The connection, the poll and the last event of a page keep their types.
LEMMA PagesStep == ASSUME StreamIInv, [StreamNext]_allVars PROVE StreamTypeOK'
<1> USE DEF StreamIInv, StreamTypeOK, Conn, ConnPc, PollPc
<1>1. CASE UNCHANGED pageVars
  BY <1>1 DEF pageVars
<1>2. CASE Disconnect
  BY <1>2 DEF Disconnect
<1>3. ASSUME NEW c \in Pages, OpenPage(c) PROVE StreamTypeOK'
  <2>1. PICK r \in RunningRows :
          conn' = [conn EXCEPT ![c] = [@ EXCEPT !.pc = "connect", !.review = r]]
    BY <1>3 DEF OpenPage
  <2>2. r \in Reviews
    BY DEF RunningRows
  <2>3. [conn[c] EXCEPT !.pc = "connect", !.review = r] \in Conn
    BY <2>2
  <2>4. conn' \in [Pages -> Conn]
    BY <2>1, <2>3
  <2> QED BY <1>3, <2>4 DEF OpenPage, PollGoes
<1>4. ASSUME NEW c \in Pages, ConnStep(c) PROVE StreamTypeOK'
  <2>1. ASSUME NEW pc \in ConnPc, ConnGoes(c, pc) PROVE conn' \in [Pages -> Conn]
    BY <2>1 DEF ConnGoes
  <2>2. CASE StreamCheckActive(c) \/ StreamEnds(c) \/ StreamLoadFails(c)
    BY <2>1, <2>2 DEF StreamCheckActive, StreamEnds, StreamLoadFails
  <2>3. CASE StreamLoad(c) \/ StreamRecheck(c) \/ StreamReconcile(c)
    <3>1. UNCHANGED news \/ \E e \in Event : news' = [news EXCEPT ![c] = e]
      BY <2>3 DEF StreamLoad, StreamRecheck, StreamReconcile, OneShot, Event
    <3>2. UNCHANGED poll /\ \E pc \in ConnPc : ConnGoes(c, pc)
      BY <2>3 DEF StreamLoad, StreamRecheck, StreamReconcile, OneShot
    <3> QED BY <2>1, <3>1, <3>2
  <2>4. CASE Subscribe(c)
    <3>1. conn[c].review \in Reviews /\ Len(sent[conn[c].review]) \in Nat
      BY <2>4 DEF Subscribe, Opened, IInv, TypeOK
    <3>2. \A n \in Nat : [conn[c] EXCEPT !.pc = "subscribed", !.since = n, !.cursor = n] \in Conn
      OBVIOUS
    <3>3. [conn[c] EXCEPT !.pc = "refused"] \in Conn
      OBVIOUS
    <3>4. \E w \in Conn : conn' = [conn EXCEPT ![c] = w]
      BY <2>4, <3>1, <3>2, <3>3 DEF Subscribe
    <3>5. UNCHANGED <<poll, news>>
      BY <2>4 DEF Subscribe
    <3> QED BY <3>4, <3>5
  <2>5. CASE Receive(c)
    <3> DEFINE r == conn[c].review
               k == conn[c].cursor
    <3>1. r \in Reviews /\ sent[r] \in Seq(Event) /\ k \in Nat
      BY <2>5 DEF Receive, Opened, IInv, TypeOK
    <3>2. Oldest(r) \in Nat
      BY <3>1, StreamAssumption DEF Oldest
    <3>3. k < Len(sent[r]) => sent[r][k + 1] \in Event
      BY <3>1
    <3>4. \A n \in Nat : [conn EXCEPT ![c].cursor = n] \in [Pages -> Conn]
      OBVIOUS
    <3>5. UNCHANGED poll /\ \E n \in Nat : conn' = [conn EXCEPT ![c].cursor = n]
      <4>1. UNCHANGED poll /\ (conn' = [conn EXCEPT ![c].cursor = Oldest(r)]
                               \/ conn' = [conn EXCEPT ![c].cursor = k + 1])
        BY <2>5 DEF Receive
      <4>2. k + 1 \in Nat
        BY <3>1
      <4> QED BY <3>2, <4>1, <4>2, Zenon
    <3>6. UNCHANGED news \/ \E e \in Event : news' = [news EXCEPT ![c] = e]
      BY <2>5, <3>3 DEF Receive
    <3> QED BY <3>4, <3>5, <3>6
  <2> QED BY <1>4, <2>2, <2>3, <2>4, <2>5 DEF ConnStep
<1>5. ASSUME NEW c \in Pages, PollStep(c) PROVE StreamTypeOK'
  <2>1. UNCHANGED news /\ \E pc \in PollPc : PollGoes(c, pc)
    BY <1>5 DEF PollStep, PollLoad, PollRecheck, PollReconcile, Leave
  <2>2. UNCHANGED conn \/ ConnGoes(c, "closed")
    BY <1>5 DEF PollStep, PollLoad, PollRecheck, PollReconcile, Leave
  <2> QED BY SMTT(30), <2>1, <2>2 DEF PollGoes, ConnGoes
<1> QED BY <1>1, <1>2, <1>3, <1>4, <1>5, OnePage

\* A subscriber moves forward, and what it skips is never the last event.
LEMMA AbreastStep == ASSUME StreamIInv, [StreamNext]_allVars PROVE Abreast'
<1> SUFFICES ASSUME NEW c \in Pages, conn'[c].pc = "subscribed"
             PROVE  LET r == conn'[c].review
                        k == conn'[c].cursor IN
                    /\ conn'[c].since <= k /\ k <= Len(sent'[r])
                    /\ conn'[c].since < k /\ k = Len(sent'[r]) => news'[c] = sent'[r][k]
  BY DEF Abreast
<1> USE DEF StreamIInv, StreamTypeOK, Conn, Abreast
<1> DEFINE r == conn[c].review
           k == conn[c].cursor
<1>1. ASSUME conn'[c] = conn[c], news'[c] = news[c]
      PROVE  /\ conn[c].since <= k /\ k <= Len(sent'[r])
             /\ conn[c].since < k /\ k = Len(sent'[r]) => news[c] = sent'[r][k]
  <2>1. r \in Reviews /\ sent[r] \in Seq(Event)
    BY <1>1 DEF Opened, IInv, TypeOK
  <2>2. CASE sent'[r] = sent[r]
    BY <1>1, <2>2
  <2>3. ASSUME NEW e \in Event, sent'[r] = Append(sent[r], e)
        PROVE  k <= Len(sent'[r]) /\ k # Len(sent'[r])
    BY <1>1, <2>1, <2>3
  <2> QED BY <1>1, <2>1, <2>2, <2>3, SentMoves
<1>2. CASE Disconnect
  BY <1>2 DEF Disconnect
<1>3. CASE OpenPage(c)
  <2>1. PICK q \in RunningRows :
          conn' = [conn EXCEPT ![c] = [@ EXCEPT !.pc = "connect", !.review = q]]
    BY <1>3 DEF OpenPage
  <2> QED BY <2>1
<1>4. CASE PollStep(c)
  <2>1. news'[c] = news[c] /\ (UNCHANGED conn \/ ConnGoes(c, "closed"))
    BY <1>4 DEF PollStep, PollLoad, PollRecheck, PollReconcile, Leave
  <2> QED BY <1>1, <2>1 DEF ConnGoes
<1>5. CASE StreamCheckActive(c) \/ StreamEnds(c) \/ StreamLoadFails(c) \/ StreamLoad(c)
           \/ StreamRecheck(c) \/ StreamReconcile(c)
  BY <1>5 DEF StreamCheckActive, StreamEnds, StreamLoadFails, StreamLoad, StreamRecheck,
     StreamReconcile, OneShot, ConnGoes
<1>6. CASE Subscribe(c)
  <2>1. r \in Reviews /\ Len(sent[r]) \in Nat
    BY <1>6 DEF Subscribe, Opened, IInv, TypeOK
  <2>2. conn'[c].review = r /\ conn'[c].since = Len(sent[r]) /\ conn'[c].cursor = Len(sent[r])
    BY <1>6 DEF Subscribe
  <2>3. UNCHANGED sent
    BY <1>6 DEF Subscribe, vars
  <2> QED BY <2>1, <2>2, <2>3
<1>7. CASE Receive(c)
  <2>1. r \in Reviews /\ sent[r] \in Seq(Event) /\ k \in Nat /\ conn[c].since \in Nat
    BY <1>7 DEF Receive, Opened, IInv, TypeOK
  <2>2. UNCHANGED sent /\ conn[c].since <= k /\ k < Len(sent[r])
    BY <1>7 DEF Receive, vars
  <2>3. CASE k < Oldest(r)
    <3>1. conn' = [conn EXCEPT ![c].cursor = Oldest(r)]
      BY <1>7, <2>3 DEF Receive
    <3>2. Oldest(r) \in Nat /\ Oldest(r) < Len(sent[r])
      BY <2>1, <2>2, StreamAssumption DEF Oldest
    <3> QED BY <2>1, <2>2, <2>3, <3>1, <3>2
  <2>4. CASE ~(k < Oldest(r))
    <3>1. conn' = [conn EXCEPT ![c].cursor = k + 1] /\ news' = [news EXCEPT ![c] = sent[r][k + 1]]
      BY <1>7, <2>4 DEF Receive
    <3> QED BY <2>1, <2>2, <3>1
  <2> QED BY <2>3, <2>4
<1> QED BY <1>1, <1>2, <1>3, <1>4, <1>5, <1>6, <1>7, OnePage DEF pageVars, ConnStep

-----------------------------------------------------------------------------
(* The results.                                                            *)

\* Before a page is opened there is nothing to be told.
LEMMA InitStreamIInv == StreamInit => StreamIInv
BY InitIInv DEF StreamInit, StreamIInv, StreamTypeOK, Conn, ConnPc, PollPc, Opened, Abreast,
   LeftMeansStored

\* Every step of server and pages keeps the invariant.
LEMMA StreamIInvStep == StreamIInv /\ [StreamNext]_allVars => StreamIInv'
BY ServerStep, PagesStep, OpenedStep, AbreastStep, LeftStep DEF StreamIInv

\* The invariant holds in every reachable state.
LEMMA StreamInvariance == StreamSpec => []StreamIInv
BY InitStreamIInv, StreamIInvStep, PTL DEF StreamSpec

\* However many pages watch, and whatever calls of the store fail for the job, the
\* server's readers and the streams, a page that left the live page for the
\* details has a review that is stored as ended, unless it left on its own poll's
\* reconciliation and that save failed (navigate_if_review_terminal,
\* reconcile_review_state).
THEOREM PagesLeaveForEndedReviews == StreamSpec => []LeftMeansStored
<1>1. StreamIInv => LeftMeansStored
  BY DEF StreamIInv
<1> QED BY <1>1, StreamInvariance, PTL

\* Whatever the capacity of the channel and however far a subscriber lagged, when
\* its stream ends it has the last event that was sent since it subscribed.
THEOREM LagKeepsTheEnd == StreamSpec => LastEventReachesSubscribers
<1>1. StreamIInv /\ [StreamNext]_allVars =>
        [\A c \in Pages :
           LET r == conn[c].review IN
           StreamEnds(c) /\ conn[c].since < Len(sent[r]) => news[c] = LastSent(r)]_allVars
  BY DEF StreamIInv, Abreast, StreamEnds, LastSent
<1> QED BY <1>1, StreamInvariance, PTL DEF StreamSpec, LastEventReachesSubscribers

\* What holds of the server alone holds beside the pages too, which save what
\* they loaded at whatever moment: a working job is in all three maps, a
\* completed row has its results and the columns of a row agree.
THEOREM PagesSpareTheServer ==
  StreamSpec => [](WorkingJobIsRegistered /\ CompletedIsBacked /\ RowIsConsistent)
<1>1. StreamIInv => WorkingJobIsRegistered /\ CompletedIsBacked /\ RowIsConsistent
  BY DEF StreamIInv, IInv, Phases, JobCounts, Backed, WorkingJobIsRegistered, CompletedIsBacked
<1> QED BY <1>1, StreamInvariance, PTL

\* Beside the pages too a review that ended never looks running again.
THEOREM PagesKeepTheEnd == StreamSpec => TerminalIsFinal
<1>1. StreamIInv /\ [StreamNext]_allVars =>
        [\A r \in Reviews : Terminal(row[r]) => Terminal(row[r]')]_vars
  BY StoreMoves
<1> QED BY <1>1, StreamInvariance, PTL DEF StreamSpec, TerminalIsFinal
=============================================================================
