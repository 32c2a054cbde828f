---------------------------- MODULE ReviewRecord ----------------------------
(***************************************************************************)
(* What the store promises of a review to whoever reads it, however many   *)
(* handlers, tasks and page loads write it (ReviewLifecycle implements     *)
(* this): a review starts once, its results arrive one by one before it    *)
(* completes, it completes only with a result behind it, and once it ended *)
(* it does not look running again.  It may be declared failed at any time, *)
(* even when it completed: reconcile_review_state saves what it loaded.    *)
(***************************************************************************)
EXTENDS Naturals

CONSTANT Reviews

VARIABLES
  status,   \* status[r]: the status column of r, "Absent" without a row
  results   \* results[r]: stored pull request results of r

vars == <<status, results>>

Init ==
  /\ status = [r \in Reviews |-> "Absent"]
  /\ results = [r \in Reviews |-> 0]

Becomes(r, s) == status' = [status EXCEPT ![r] = s] /\ UNCHANGED results

Start(r) == status[r] = "Absent" /\ Becomes(r, "Running")

\* A result is stored while the review is not complete; a load that took the
\* review for abandoned may have declared it failed in the meantime.
Store(r) ==
  /\ status[r] \in {"Running", "Failed"}
  /\ results' = [results EXCEPT ![r] = @ + 1]
  /\ UNCHANGED status

Complete(r) ==
  /\ status[r] \in {"Running", "Failed"}
  /\ results[r] > 0
  /\ Becomes(r, "Completed")

Fail(r) == status[r] # "Absent" /\ Becomes(r, "Failed")

Next == \E r \in Reviews : Start(r) \/ Store(r) \/ Complete(r) \/ Fail(r)

Spec == Init /\ [][Next]_vars

=============================================================================
