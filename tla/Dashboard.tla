------------------------------- MODULE Dashboard -------------------------------
(***************************************************************************)
(* What the overview and the detail page show of reviews that are written   *)
(* meanwhile, as ReviewRecord says they may be.  The overview asks again    *)
(* every ten seconds while it shows an active review, without waiting for   *)
(* the answer it asked for before; the detail page reads the review and     *)
(* then its results.  Who reads a review that runs and is not active         *)
(* declares it failed, whether or not that can be stored.  ReviewLifecycle   *)
(* says which are active: a row may be running and not active before its     *)
(* review is registered and after a restart.                                 *)
(***************************************************************************)
EXTENDS ReviewRecord, FiniteSets

CONSTANTS
  Nothing,       \* Option::None
  MaxRefresh,  \* bound: refreshes of the overview
  MaxResults   \* bound: results of a review

ASSUME DashboardAssumption ==
  /\ Nothing \notin Reviews
  /\ MaxRefresh \in Nat /\ MaxResults \in Nat \ {0}

VARIABLES
  key,      \* refresh_key of the overview
  answers,  \* list_reviews calls: the key they were asked with, what they read, the
            \* rows still to be reconciled and those declared failed and not stored
  home,     \* what the overview shows: its resource and cached_reviews
  detail    \* read_review_detail of the detail page

dashVars == <<status, results, key, answers, home, detail>>
pages == <<key, answers, home, detail>>

Active(seen) == {r \in Reviews : seen[r] \in {"Pending", "Running"}}
History(seen) == {r \in Reviews : seen[r] \in {"Completed", "Failed", "Cancelled"}}

Asked(k) == [key |-> k, seen |-> Nothing, unchecked |-> {}, unstored |-> {}]
NoDetail == [of |-> Nothing, status |-> Nothing, results |-> Nothing, unchecked |-> FALSE]

DashInit ==
  /\ Init
  /\ key = 0
  /\ answers = {Asked(0)}
  /\ home = [ok |-> FALSE, failed |-> FALSE, shown |-> Nothing, unstored |-> {}]
  /\ detail = NoDetail

DashTypeOK ==
  /\ status \in [Reviews -> {"Absent", "Running", "Completed", "Failed"}]
  /\ results \in [Reviews -> 0 .. MaxResults]
  /\ key \in 0 .. MaxRefresh
  /\ home.shown # Nothing =>
       Active(home.shown) \cup History(home.shown) = {r \in Reviews : home.shown[r] # "Absent"}
  /\ ~(home.ok /\ home.failed) /\ home.unstored \subseteq Reviews

\* The jobs, handlers and loads that write the store.
Written ==
  /\ Next
  /\ \A r \in Reviews : results'[r] <= MaxResults
  /\ UNCHANGED pages

-----------------------------------------------------------------------------
(* The overview.                                                           *)

\* A call reads the rows at any time before it answers.
ListReads ==
  \E a \in answers :
    /\ a.seen = Nothing
    /\ answers' = (answers \ {a}) \cup {[a EXCEPT !.seen = status, !.unchecked = Active(status)]}
  /\ UNCHANGED <<status, results, key, home, detail>>

\* It reconciles the rows that were running, one by one: it finds the review
\* active, or answers that it failed; a save that fails is a warning.
ListReconciles ==
  \E a \in answers : \E r \in a.unchecked :
    LET rest == [a EXCEPT !.unchecked = @ \ {r}]
        dead == [rest EXCEPT !.seen[r] = "Failed"]
        Becoming(b) == answers' = (answers \ {a}) \cup {b}
    IN /\ \/ Becoming(rest) /\ UNCHANGED <<status, results>>
          \/ Becoming(dead) /\ Fail(r)
          \/ Becoming([dead EXCEPT !.unstored = @ \cup {r}]) /\ UNCHANGED <<status, results>>
       /\ UNCHANGED <<key, home, detail>>

Refreshes ==
  /\ key < MaxRefresh
  /\ key' = key + 1
  /\ answers' = answers \cup {Asked(key + 1)}
  /\ UNCHANGED <<status, results, home, detail>>

\* The interval: only if the last answer was a list with an active review.
Interval == home.ok /\ Active(home.shown) # {} /\ Refreshes

\* The button that is offered when there is nothing cached to show.
Retry == home.failed /\ home.shown = Nothing /\ Refreshes

\* Mutant of Current: whatever is answered is shown.
CurrentAny(a) == TRUE

\* A resource that is asked again drops the future of its last question.
Current(a) == a.key = key

ListAnswers ==
  \E a \in answers :
    /\ answers' = answers \ {a}
    /\ \/ /\ ~Current(a)
          /\ UNCHANGED home
       \/ /\ Current(a) /\ a.seen # Nothing /\ a.unchecked = {}
          /\ home' = [ok |-> TRUE, failed |-> FALSE, shown |-> a.seen, unstored |-> a.unstored]
       \/ /\ Current(a)
          /\ home' = [home EXCEPT !.ok = FALSE, !.failed = TRUE]
  /\ UNCHANGED <<status, results, key, detail>>

-----------------------------------------------------------------------------
(* The detail page.                                                        *)

\* Mutant of ReadReview: the results are read first.
ReadReviewLast(r) ==
  IF detail.of = Nothing
    THEN detail' = [of |-> r, status |-> Nothing, results |-> results[r], unchecked |-> FALSE]
    ELSE detail.of = r /\ detail.status = Nothing /\ detail' = [detail EXCEPT !.status = status[r]]

\* get_review answers an error without a row.
ReadReview(r) ==
  /\ detail.of = Nothing /\ status[r] # "Absent"
  /\ detail' = [of |-> r, status |-> status[r], results |-> Nothing,
                unchecked |-> r \in Active(status)]

OpenDetail ==
  /\ \E r \in Reviews : ReadReview(r)
  /\ UNCHANGED <<status, results, key, answers, home>>

\* get_review reconciles what it read.
DetailReconciles ==
  /\ detail.unchecked
  /\ \/ /\ detail' = [detail EXCEPT !.unchecked = FALSE]
        /\ UNCHANGED <<status, results>>
     \/ /\ detail' = [detail EXCEPT !.unchecked = FALSE, !.status = "Failed"]
        /\ Fail(detail.of) \/ UNCHANGED <<status, results>>
  /\ UNCHANGED <<key, answers, home>>

ReadResults ==
  /\ detail.of # Nothing /\ ~detail.unchecked /\ detail.results = Nothing
  /\ detail' = [detail EXCEPT !.results = results[detail.of]]
  /\ UNCHANGED <<status, results, key, answers, home>>

LeaveDetail ==
  /\ detail.of # Nothing
  /\ detail' = NoDetail
  /\ UNCHANGED <<status, results, key, answers, home>>

\* The two pages meet in the store, which moves as freely beside one of them.
OverviewNext == Written \/ ListReads \/ ListReconciles \/ Interval \/ Retry \/ ListAnswers
DetailNext == Written \/ OpenDetail \/ DetailReconciles \/ ReadResults \/ LeaveDetail

DashNext == OverviewNext \/ DetailNext

DashSpec == DashInit /\ [][DashNext]_dashVars

-----------------------------------------------------------------------------
(* Properties.                                                             *)

\* The overview never shows a review running again that it showed as ended,
\* however slow the answers to its earlier questions are (ReloadableResource),
\* unless the end it showed was declared by list_reviews and could not be stored.
ShownNeverGoesBack ==
  [][\A r \in Reviews \ home.unstored :
       home.shown # Nothing /\ r \in History(home.shown) => r \in History(home'.shown)]_dashVars

\* A page that shows a completed review shows a result of it, although the two
\* are read one after the other while the review goes on (read_review_detail).
DetailIsBacked ==
  detail.status = "Completed" /\ detail.results # Nothing => detail.results > 0

=============================================================================
