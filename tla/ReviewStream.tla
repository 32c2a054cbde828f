---------------------------- MODULE ReviewStream ----------------------------
(***************************************************************************)
(* The live page of a review, beside the review's life.  A page holds an   *)
(* EventSource on stream_review and polls the review every two seconds; it *)
(* leaves for the details page once a poll shows a terminal status.        *)
(*                                                                         *)
(* stream_review looks at the active list, then either at the channels (a  *)
(* broadcast subscription) or at the store (one event made up from the     *)
(* row, through get_review and its reconciliation).  A browser reconnects  *)
(* an EventSource whose stream ended and gives up on one that was refused. *)
(***************************************************************************)
EXTENDS ReviewLifecycle

CONSTANTS
  Pages,       \* live pages
  Capacity,    \* of a review's broadcast channel: 1024 in the code
  MaxProgress  \* bound: agent events of one review

ASSUME StreamAssumption == Capacity \in Nat \ {0} /\ MaxProgress \in Nat

VARIABLES
  conn,  \* conn[c]: the EventSource of page c and the handler serving it
  poll,  \* poll[c]: the page's status poll
  news   \* news[c]: the last event page c was given

pageVars == <<conn, poll, news>>
allVars == <<vars, pageVars>>

ConnPc == {"closed", "connect", "live", "lookup", "loaded", "stale",
           "subscribed", "refused"}
\* since: length of `sent' at the subscription; cursor: events consumed.
Conn == [pc : ConnPc, review : Reviews \cup {None}, since : Nat, cursor : Nat]
\* misled: it has left too, for a failure that could not be stored (history).
PollPc == {"off", "waiting", "loaded", "stale", "left", "misled"}

StreamTypeOK ==
  /\ conn \in [Pages -> Conn]
  /\ poll \in [Pages -> PollPc]
  /\ news \in [Pages -> Event \cup {"none"}]

StreamInit ==
  /\ Init
  /\ conn = [c \in Pages |->
               [pc |-> "closed", review |-> None, since |-> 0, cursor |-> 0]]
  /\ poll = [c \in Pages |-> "off"]
  /\ news = [c \in Pages |-> "none"]

ConnGoes(c, pc) == conn' = [conn EXCEPT ![c].pc = pc]
PollGoes(c, pc) == poll' = [poll EXCEPT ![c] = pc]

\* A page gives its review's id, taken from the list or from the start call.
OpenPage(c) ==
  /\ poll[c] = "off"
  /\ \E r \in RunningRows :
       conn' = [conn EXCEPT ![c] = [@ EXCEPT !.pc = "connect", !.review = r]]
  /\ PollGoes(c, "waiting")
  /\ UNCHANGED <<vars, news>>

\* Agents publish on the review's channel while they run.
Progress(r) ==
  /\ job[r].pc = "evaluate"
  /\ Cardinality({i \in DOMAIN sent[r] : sent[r][i] = "progress"}) < MaxProgress
  /\ Send(r, "progress")
  /\ UNCHANGED <<row, results, registry, launcher, job, reader, budget, pageVars>>

-----------------------------------------------------------------------------
(* stream_review.                                                          *)

StreamCheckActive(c) ==
  /\ conn[c].pc = "connect"
  /\ ConnGoes(c, IF conn[c].review \in active THEN "live" ELSE "lookup")
  /\ UNCHANGED <<vars, poll, news>>

\* Subscribing starts after the last event sent; without a channel the
\* answer is 404.
Subscribe(c) ==
  LET r == conn[c].review
      n == Len(sent[r]) IN
  /\ conn[c].pc = "live"
  /\ conn' = [conn EXCEPT ![c] =
                IF r \in channels
                  THEN [@ EXCEPT !.pc = "subscribed", !.since = n, !.cursor = n]
                  ELSE [@ EXCEPT !.pc = "refused"]]
  /\ UNCHANGED <<vars, poll, news>>

\* terminal_review_stream: one event, then the stream ends.
OneShot(c, w) ==
  /\ news' = [news EXCEPT ![c] =
                IF w.status = "Completed" THEN "completed" ELSE "failed"]
  /\ ConnGoes(c, "connect")

\* Mutant: the stream of an ended review ends without an event.
StreamLoadSilent(c) ==
  /\ conn[c].pc = "lookup"
  /\ ConnGoes(c, IF Terminal(row[conn[c].review]) THEN "connect" ELSE "loaded")
  /\ UNCHANGED <<vars, poll, news>>

StreamLoad(c) ==
  LET w == row[conn[c].review] IN
  /\ conn[c].pc = "lookup"
  /\ \/ Terminal(w) /\ OneShot(c, w)
     \/ ~Terminal(w) /\ ConnGoes(c, "loaded") /\ UNCHANGED news
  /\ UNCHANGED <<vars, poll>>

\* An error of the load is answered with status 500, which is a refusal too.
StreamLoadFails(c) ==
  /\ conn[c].pc = "lookup"
  /\ StoreFails
  /\ ConnGoes(c, "refused")
  /\ UNCHANGED <<row, results, registry, launcher, job, sent, reader, poll, news>>

\* get_review reconciles what it loaded; found active, a running row is
\* handed back as it is, and still answered with one event.
StreamRecheck(c) ==
  /\ conn[c].pc = "loaded"
  /\ \/ conn[c].review \in active /\ OneShot(c, RunningRow)
     \/ conn[c].review \notin active /\ ConnGoes(c, "stale") /\ UNCHANGED news
  /\ UNCHANGED <<vars, poll>>

SaveMarked(r) ==
  /\ \/ Save(r, MarkedRow)
     \/ StoreFails /\ UNCHANGED row
  /\ UNCHANGED <<results, registry, launcher, job, sent, reader>>

StreamReconcile(c) ==
  /\ conn[c].pc = "stale"
  /\ SaveMarked(conn[c].review)
  /\ OneShot(c, MarkedRow)
  /\ UNCHANGED poll

-----------------------------------------------------------------------------
(* The subscription.                                                       *)

\* External: the ring of a tokio broadcast channel keeps the last Capacity
\* events; a receiver further behind skips to the oldest one kept.
Oldest(r) == IF Len(sent[r]) > Capacity THEN Len(sent[r]) - Capacity ELSE 0

\* Mutant: a receiver that lagged subscribes afresh.
ReceiveAfresh(c) ==
  LET r == conn[c].review
      k == conn[c].cursor IN
  /\ conn[c].pc = "subscribed"
  /\ k < Len(sent[r])
  /\ IF k < Oldest(r)
       THEN /\ conn' = [conn EXCEPT ![c].cursor = Len(sent[r])]
            /\ UNCHANGED news
       ELSE /\ conn' = [conn EXCEPT ![c].cursor = k + 1]
            /\ news' = [news EXCEPT ![c] = sent[r][k + 1]]
  /\ UNCHANGED <<vars, poll>>

Receive(c) ==
  LET r == conn[c].review
      k == conn[c].cursor IN
  /\ conn[c].pc = "subscribed"
  /\ k < Len(sent[r])
  /\ IF k < Oldest(r)
       THEN /\ conn' = [conn EXCEPT ![c].cursor = Oldest(r)]
            /\ UNCHANGED news
       ELSE /\ conn' = [conn EXCEPT ![c].cursor = k + 1]
            /\ news' = [news EXCEPT ![c] = sent[r][k + 1]]
  /\ UNCHANGED <<vars, poll>>

\* The stream ends once the task dropped the last sender and everything kept
\* was received.
StreamEnds(c) ==
  LET r == conn[c].review IN
  /\ conn[c].pc = "subscribed"
  /\ conn[c].cursor = Len(sent[r])
  /\ job[r].pc = "done"
  /\ ConnGoes(c, "connect")
  /\ UNCHANGED <<vars, poll, news>>

-----------------------------------------------------------------------------
(* The poll: navigate_if_review_terminal, on a timer that nothing stops    *)
(* and after every terminal event.                                         *)

Told(c) == news[c] \in {"completed", "failed"}

\* The event loop that leaves after a terminal event drops its EventSource;
\* when the timer leaves, the loop and its connection stay behind.
Leave(c, pc) ==
  /\ PollGoes(c, pc)
  /\ \/ UNCHANGED conn
     \/ Told(c) /\ ConnGoes(c, "closed")

\* Mutant: the page trusts the event and does not wait for the store.
PollLoadTrusting(c) ==
  LET gone == Terminal(row[conn[c].review]) \/ news[c] = "completed" IN
  /\ poll[c] = "waiting"
  /\ \/ gone /\ Leave(c, "left")
     \/ ~gone /\ PollGoes(c, "loaded") /\ UNCHANGED conn
  /\ UNCHANGED <<vars, news>>

PollLoad(c) ==
  /\ poll[c] = "waiting"
  /\ \/ Terminal(row[conn[c].review]) /\ Leave(c, "left")
     \/ ~Terminal(row[conn[c].review]) /\ PollGoes(c, "loaded") /\ UNCHANGED conn
  /\ UNCHANGED <<vars, news>>

\* Mutant: a poll that does not reconcile.
PollRecheckNever(c) ==
  /\ poll[c] = "loaded"
  /\ PollGoes(c, "waiting")
  /\ UNCHANGED <<vars, conn, news>>

PollRecheck(c) ==
  /\ poll[c] = "loaded"
  /\ PollGoes(c, IF conn[c].review \in active THEN "waiting" ELSE "stale")
  /\ UNCHANGED <<vars, conn, news>>

\* The page is handed a failed review whether or not the save succeeded.
PollReconcile(c) ==
  /\ poll[c] = "stale"
  /\ \/ Save(conn[c].review, MarkedRow) /\ Leave(c, "left")
     \/ StoreFails /\ UNCHANGED row /\ Leave(c, "misled")
  /\ UNCHANGED <<results, registry, launcher, job, sent, reader, news>>

\* A restart breaks every connection and every request in flight.
Disconnect ==
  /\ conn' = [c \in Pages |-> IF conn[c].pc \in {"closed", "refused"}
                                THEN conn[c] ELSE [conn[c] EXCEPT !.pc = "connect"]]
  /\ poll' = [c \in Pages |-> IF poll[c] \in {"loaded", "stale"}
                                THEN "waiting" ELSE poll[c]]
  /\ UNCHANGED news

ConnStep(c) ==
  \/ StreamCheckActive(c) \/ Subscribe(c)
  \/ StreamLoad(c) \/ StreamLoadFails(c) \/ StreamRecheck(c)
  \/ StreamReconcile(c)
  \/ Receive(c) \/ StreamEnds(c)
PollStep(c) == PollLoad(c) \/ PollRecheck(c) \/ PollReconcile(c)

StreamNext ==
  \/ ServerNext /\ UNCHANGED pageVars
  \/ Crash /\ Disconnect
  \/ \E r \in Reviews : Progress(r)
  \/ \E c \in Pages : OpenPage(c) \/ ConnStep(c) \/ PollStep(c)

StreamSpec == StreamInit /\ [][StreamNext]_allVars

StreamTaskFairness ==
  /\ \A r \in Reviews :
       /\ WF_allVars(LauncherStep(r) /\ UNCHANGED pageVars)
       /\ WF_allVars(JobStep(r) /\ UNCHANGED pageVars)
  /\ \A c \in Pages : WF_allVars(ConnStep(c))

\* The browser keeps its connection alive; nothing is assumed of the poll.
ConnSpec == StreamSpec /\ StreamTaskFairness
\* The two-second timer of the page.
TimerFires == \A c \in Pages : WF_allVars(PollStep(c))

-----------------------------------------------------------------------------
(* Properties.                                                             *)

\* Lag never costs a subscriber the end of the story: if anything was sent
\* after it subscribed, the last event it has when the stream ends is the
\* last one sent, however small the channel.
LastEventReachesSubscribers ==
  [][\A c \in Pages :
       LET r == conn[c].review IN
       StreamEnds(c) /\ conn[c].since < Len(sent[r]) => news[c] = LastSent(r)
    ]_allVars

\* A page leaves only for a review that is stored as ended, and stays so,
\* whatever it was told on its stream and whichever saves of the job or of other
\* readers fail; unless the save that fails is the one its own poll asked for.
LeftMeansStored ==
  \A c \in Pages : poll[c] = "left" => Terminal(row[conn[c].review])

\* The EventSource alone tells every page of the end, poll or no poll,
\* through late subscriptions, silent ends and restarts: a reconnection
\* finds the review inactive and is answered from the store.  Only a refused
\* page (404) stays in the dark.
EventuallyTold ==
  \A c \in Pages :
    conn[c].pc = "connect" ~> Told(c) \/ conn[c].pc = "refused"

\* With the poll every page leaves, a refused one too.
EventuallyLeft ==
  TimerFires => \A c \in Pages : poll[c] = "waiting" ~> poll[c] \in {"left", "misled"}

\* stream_review: "This closes the race where the review fails/completes before a late
\* subscriber registers on the broadcast channel."
SubscriberHearsTheEnd ==
  [][\A c \in Pages : StreamEnds(c) => Told(c)]_allVars

=============================================================================
