------------------------------- MODULE Console -------------------------------
(***************************************************************************)
(* The web console: the model pages, a launch form, the log page, the       *)
(* overview, the detail page and the panes of a live page.  They share no   *)
(* state but the stored reviews, which others may change as a page would;   *)
(* so a behaviour is one of any of them.                                    *)
(***************************************************************************)
EXTENDS ModelCatalog, LaunchForm, LogTail, Dashboard, LivePanes

VARIABLE part  \* which of them

consoleVars == <<part, catalogVars, formVars, logVars, dashVars, paneVars>>

Parts == {"models", "form", "log", "overview", "detail", "panes"}

\* What does not run stays in one initial state.
ConsoleInit ==
  /\ part \in Parts
  /\ CatalogInit /\ (part # "models" => cache.error /\ table = {})
  /\ FormInit /\ (part # "form" => kind = "review" /\ form.models = <<>> /\ frame = NoValue)
  /\ LogInit
  /\ DashInit
  /\ PaneInit

ConsoleNext ==
  \/ part = "models" /\ CatalogNext /\ UNCHANGED <<part, formVars, logVars, dashVars, paneVars>>
  \/ part = "form" /\ FormNext /\ UNCHANGED <<part, catalogVars, logVars, dashVars, paneVars>>
  \/ part = "log" /\ LogNext /\ UNCHANGED <<part, catalogVars, formVars, dashVars, paneVars>>
  \/ part = "overview" /\ OverviewNext /\ UNCHANGED <<part, catalogVars, formVars, logVars, paneVars>>
  \/ part = "detail" /\ DetailNext /\ UNCHANGED <<part, catalogVars, formVars, logVars, paneVars>>
  \/ part = "panes" /\ PaneNext /\ UNCHANGED <<part, catalogVars, formVars, logVars, dashVars>>

ConsoleSpec == ConsoleInit /\ [][ConsoleNext]_consoleVars

\* The types of the parts.
ConsoleTypeOK == CatTypeOK /\ FormTypeOK /\ LogTypeOK /\ DashTypeOK /\ PaneTypeOK

-----------------------------------------------------------------------------
(* Values for model checking.                                              *)

MCCatalogs == {<<[id |-> "m1", reasoning |-> TRUE], [id |-> Blank, reasoning |-> FALSE],
                 [id |-> "m2", reasoning |-> FALSE], [id |-> "m1", reasoning |-> FALSE]>>}
MCOpenPrs == [t \in {"t1", "t2"} |-> IF t = "t1" THEN <<"p1", "p2">> ELSE <<"p2">>]
MCDatasetNames == <<"d1", "d2">>
MCEntry(id, number, title, url) == [id |-> id, number |-> number, title |-> title, url |-> url]
MCContent ==
  [d \in {"d1", "d2"} |->
     IF d = "d1"
     THEN {[kind |-> "array", entries |-> {MCEntry(1, 7, 1, "p1")}],
           [kind |-> "unreadable", entries |-> {}]}
     ELSE {[kind |-> "entries", entries |-> {MCEntry(2, 9, 1, "p2")}],
           [kind |-> "array", entries |-> {MCEntry(3, 9, 1, "p2"), MCEntry(4, 2, 2, "p3")}],
           [kind |-> "malformed", entries |-> {}],
           [kind |-> "other", entries |-> {MCEntry(5, 1, 1, "p1")}]}]
MCLibrary == <<"a", "b", "c">>
MCIncompatible == {<<"b", "a">>, <<"a", "gone">>}
MCAllowlists == {<<"m1", "m3">>, <<>>}
MCEfforts == <<"Medium">>

\* No page tells two reviews apart.
MCSymmetry == Permutations(Reviews)

=============================================================================
