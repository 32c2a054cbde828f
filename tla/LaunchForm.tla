------------------------------ MODULE LaunchForm ------------------------------
(***************************************************************************)
(* The forms that launch a review and a benchmark.  A form is filled from   *)
(* what the browser stored, lists the pull requests of the repository or    *)
(* the dataset that is entered, keeps to roles that get along, and sends    *)
(* its fields to start_review or start_benchmark.  Nothing is disabled      *)
(* while a list is on its way but the button that asks for it.              *)
(***************************************************************************)
EXTENDS Datasets, Subsequences

CONSTANTS
  OpenPrs,      \* OpenPrs[t]: URLs of the open pull requests of repository t
  Library,      \* abbreviations of the prompt library, sorted
  Gone,         \* a role that was stored and has left the library
  Incompatible, \* pairs <<r, s>>: s is in r's incompatible_with_roles
  Allowlists,   \* what the allowlist may hold when a form is opened
  Catalog,      \* identifiers of cached models
  Reasons,      \* models supports_reasoning accepts
  Efforts,      \* ReasoningEffort, in order
  Default,      \* ReasoningEffort::Medium
  NoValue       \* an empty field, an unset signal or no effort ("none")

ASSUME FormAssumption ==
  /\ NoValue \notin DOMAIN OpenPrs \cup ToSet(DatasetNames) /\ Gone \notin ToSet(Library)
  /\ Incompatible \subseteq ToSet(Library) \X (ToSet(Library) \cup {Gone})
  /\ Library \in Seq(ToSet(Library)) /\ Efforts \in Seq(ToSet(Efforts))
  /\ \A t \in DOMAIN OpenPrs : OpenPrs[t] \in Seq(ToSet(OpenPrs[t]))

VARIABLES
  kind,     \* which of the forms it is: "review" or "benchmark"
  form,     \* its signals
  stored,   \* the form's keys in localStorage, each NoValue if absent
  frame,    \* roles restore_signal will set on the next animation frame
  asked,    \* the target whose list is on its way
  call,     \* what was submitted and is not answered
  inherited \* history: exclusions restored from the browser and not undone yet

formVars == <<kind, form, stored, frame, asked, call, inherited>>

Roles == ToSet(Library)
Urls(d) == {e.url : e \in LoadGoldenDatasets(d)}

\* What a form may be about: a repository that is typed in, or a dataset.
Targets == IF kind = "review" THEN DOMAIN OpenPrs ELSE ToSet(DatasetNames)

\* What may be listed for it; nothing if it cannot be read.
Lists(t) ==
  IF kind = "review" THEN {OpenPrs[t]}
  ELSE IF LoadFails(t) THEN {}
  ELSE {[i \in DOMAIN q |-> q[i].url] : q \in ListDatasetPrs(t)}

-----------------------------------------------------------------------------
(* Roles.                                                                  *)

\* Roles exclude each other when either declares it.
IsRoleDisabled(r, selected) ==
  r \notin selected /\ \E s \in selected : {<<s, r>>, <<r, s>>} \cap Incompatible # {}

\* Every role in turn that gets along with those already taken.
MaximalRoles ==
  LET taken[i \in 0 .. Len(Library)] ==
        IF i = 0 THEN {}
        ELSE taken[i - 1] \cup (IF IsRoleDisabled(Library[i], taken[i - 1]) THEN {} ELSE {Library[i]})
  IN  taken[Len(Library)]

-----------------------------------------------------------------------------
(* Opening a form.                                                         *)

\* list_allowlisted_models: rows the catalog does not know are left out.
Allowlisted(rows) == Picked(rows, {i \in DOMAIN rows : rows[i] \in Catalog})

\* list_reasoning_efforts
Offered(m) == IF m \in Reasons THEN ToSet(Efforts) ELSE {}

DefaultEffort(offered) ==
  CASE Default \in offered -> Default
    [] offered # {} /\ Default \notin offered ->
         Head(Picked(Efforts, {i \in DOMAIN Efforts : Efforts[i] \in offered}))
    [] OTHER -> NoValue

OrElse(v, default) == IF v = NoValue THEN default ELSE v

FirstDataset == IF ListDatasets = <<>> THEN NoValue ELSE Head(ListDatasets)

NothingStored == [target |-> NoValue, model |-> NoValue, effort |-> NoValue, roles |-> NoValue]

\* A form with what is stored for it, or what the server suggests.
Opened(k, models, s) ==
  LET first == IF models = <<>> THEN NoValue ELSE Head(models)
      offered == Offered(first) IN
  [target |-> OrElse(s.target, IF k = "benchmark" THEN FirstDataset ELSE NoValue),
   models |-> models,
   model |-> OrElse(s.model, first),
   offered |-> offered,
   effort |-> OrElse(s.effort, DefaultEffort(offered)),
   roles |-> OrElse(s.roles, {}),
   prs |-> <<>>, ticked |-> {}, loading |-> FALSE, submitting |-> FALSE]

\* persist_signal of each field.
Persisted(f) == [target |-> f.target, model |-> f.model, effort |-> f.effort,
                 roles |-> f.roles]

\* Of the roles that are selected or will be on the next frame, those that
\* exclude each other.
Exclusions(roles) == {x \in Incompatible : x[1] # x[2] /\ {x[1], x[2]} \subseteq roles}
Outstanding == Exclusions(form.roles) \cup Exclusions(OrElse(frame, {}))

\* Whatever roles the browser stored are restored: a form selected them, with
\* the library of its day, and nothing checks them against today's.
FormInit ==
  /\ kind \in {"review", "benchmark"}
  /\ \E rows \in Allowlists, roles \in {NoValue} \cup SUBSET (Roles \cup {Gone}) :
       LET s == [NothingStored EXCEPT !.roles = roles] IN
       /\ form = Opened(kind, Allowlisted(rows), s)
       /\ stored = Persisted(form)
       /\ frame = roles
  /\ asked = NoValue /\ call = NoValue
  /\ inherited = Outstanding

FormTypeOK ==
  /\ form.target \in Targets \cup {NoValue}
  /\ form.roles \subseteq Roles \cup {Gone}
  /\ form.prs \in Seq(UNION {ToSet(q) : q \in UNION {Lists(t) : t \in Targets}})
  /\ form.effort \in ToSet(Efforts) \cup {NoValue}
  /\ asked \in Targets \cup {NoValue}
  /\ inherited \subseteq Incompatible

\* A change of a signal, with the effect that stores it.
Sets(f) ==
  /\ form' = f
  /\ stored' = Persisted(f)

\* The page is loaded again: what was on its way is lost.
Reopen ==
  /\ \E rows \in Allowlists : Sets(Opened(kind, Allowlisted(rows), stored))
  /\ frame' = stored.roles
  /\ asked' = NoValue /\ call' = NoValue
  /\ UNCHANGED kind

\* restore_signal: the frame overwrites what was clicked before it.
RestoreRoles ==
  /\ frame # NoValue
  /\ frame' = NoValue
  /\ Sets([form EXCEPT !.roles = frame])
  /\ UNCHANGED <<kind, asked, call>>

-----------------------------------------------------------------------------
(* Filling it in.                                                          *)

Edits(f) == Sets(f) /\ UNCHANGED <<kind, frame, asked, call>>

\* A text field of a review or a radio of a benchmark; also while loading.
EditTarget == \E t \in Targets : Edits([form EXCEPT !.target = t])

\* The efforts of the new model are fetched; the chosen one is kept.
PickModel ==
  \E m \in ToSet(form.models) : Edits([form EXCEPT !.model = m, !.offered = Offered(m)])

PickEffort == \E e \in form.offered \cup {NoValue} : Edits([form EXCEPT !.effort = e])

Flip(S, x) == IF x \in S THEN S \ {x} ELSE S \cup {x}

ToggleRole ==
  \E r \in Roles :
    /\ ~IsRoleDisabled(r, form.roles)
    /\ Edits([form EXCEPT !.roles = Flip(@, r)])

SelectAllRoles == Edits([form EXCEPT !.roles = MaximalRoles])

DeselectAllRoles == Edits([form EXCEPT !.roles = {}])

\* Mutant of LoadPrs: what was ticked in the list before is kept.
LoadPrsKeeping ==
  /\ ~form.loading
  /\ IF form.target = NoValue
       THEN UNCHANGED <<form, stored, asked>>
       ELSE /\ Sets([form EXCEPT !.loading = TRUE, !.prs = <<>>])
            /\ asked' = form.target
  /\ UNCHANGED <<kind, frame, call>>

\* load_prs and load_dataset_prs
LoadPrs ==
  /\ ~form.loading
  /\ IF form.target = NoValue
       THEN UNCHANGED <<form, stored, asked>>
       ELSE /\ Sets([form EXCEPT !.loading = TRUE, !.prs = <<>>, !.ticked = {}])
            /\ asked' = form.target
  /\ UNCHANGED <<kind, frame, call>>

\* A benchmark starts from all of the list, a review from the first.
InitiallyTicked(prs) ==
  IF kind = "benchmark" THEN ToSet(prs) ELSE ToSet(SubSeq(prs, 1, Min({1, Len(prs)})))

ListAnswer ==
  /\ asked # NoValue
  /\ asked' = NoValue
  /\ \/ \E prs \in Lists(asked) :
          Sets([form EXCEPT !.loading = FALSE, !.prs = prs,
                            !.ticked = IF prs = <<>> THEN @ ELSE InitiallyTicked(prs)])
     \/ Sets([form EXCEPT !.loading = FALSE])
  /\ UNCHANGED <<kind, frame, call>>

TickPr ==
  /\ ~form.loading
  /\ \E p \in ToSet(form.prs) :
       Edits([form EXCEPT !.ticked = IF kind = "review" THEN {p} ELSE Flip(@, p)])

\* The bar above a benchmark's list.
TickAllPrs ==
  /\ kind = "benchmark" /\ ~form.loading /\ form.prs # <<>>
  /\ \E ticked \in {{}, ToSet(form.prs)} : Edits([form EXCEPT !.ticked = ticked])

-----------------------------------------------------------------------------
(* Submitting it.                                                          *)

SubmitDisabled ==
  form.target = NoValue \/ form.model = NoValue \/ form.roles = {} \/ form.ticked = {}

Submit ==
  /\ ~form.submitting /\ ~SubmitDisabled
  /\ IF kind = "review" /\ form.ticked \cap ToSet(form.prs) = {}
       THEN UNCHANGED <<form, stored, call>>
       ELSE /\ Sets([form EXCEPT !.submitting = TRUE])
            /\ call' = [target |-> form.target, prs |-> form.ticked,
                        known |-> form.roles \subseteq Roles]
  /\ UNCHANGED <<kind, frame, asked>>

\* A review is of the one URL; a benchmark of the dataset's entries among the URLs.
Selected(c) == IF kind = "review" THEN c.prs ELSE EntriesOf(c.target, c.prs)

\* resolve_agent_entries knows every role.
Accepted(c) == Selected(c) # {} /\ c.known

\* start_review and start_benchmark, which may fail for other reasons too, and
\* the answer: what was stored is cleared and the page leaves for the review.
SubmitAnswer ==
  /\ call # NoValue
  /\ call' = NoValue
  /\ \/ /\ Accepted(call)
        /\ \E rows \in Allowlists : Sets(Opened(kind, Allowlisted(rows), NothingStored))
        /\ frame' = NoValue /\ asked' = NoValue
     \/ /\ Sets([form EXCEPT !.submitting = FALSE])
        /\ UNCHANGED <<frame, asked>>
  /\ UNCHANGED kind

FormStep ==
  \/ Reopen \/ RestoreRoles
  \/ EditTarget \/ PickModel \/ PickEffort
  \/ ToggleRole \/ SelectAllRoles \/ DeselectAllRoles
  \/ LoadPrs \/ ListAnswer \/ TickPr \/ TickAllPrs
  \/ Submit \/ SubmitAnswer

\* An exclusion that was undone is not inherited any more.
FormNext == FormStep /\ inherited' = inherited \cap Outstanding'

FormSpec == FormInit /\ [][FormNext]_formVars

-----------------------------------------------------------------------------
(* Properties.                                                             *)

GetAlong(roles) == \A r, s \in roles : <<r, s>> \notin Incompatible \/ r = s

\* Roles that exclude each other, whichever of the two declares it, are selected
\* together only if the browser had stored them so and neither was deselected
\* since, whenever the restored roles arrive among the clicks; Select All selects
\* none that exclude each other and leaves out none that could be added
\* (RoleSelector, restore_signal).
RolesGetAlong ==
  /\ Exclusions(form.roles) \subseteq inherited
  /\ GetAlong(MaximalRoles)
  /\ \A r \in Roles \ MaximalRoles : ~GetAlong(MaximalRoles \cup {r})

\* What is ticked is in the list that is shown, so a selection never outlives
\* the list it was made from, and what is submitted is of one list, whatever
\* became of the fields since it was asked for (load_prs, on_submit).
TickedIsShown ==
  /\ form.ticked \subseteq ToSet(form.prs)
  /\ call # NoValue =>
       call.prs # {} /\ \E t \in Targets : \E q \in Lists(t) : call.prs \subseteq ToSet(q)

\* The list of a dataset is as long as the console said when it was picked, and
\* a benchmark of all of it runs every entry, two of one URL included, however
\* the directory was read each time (list_datasets, start_benchmark).
DatasetIsWhole ==
  kind = "benchmark" /\ form.prs # <<>> =>
    \E d \in Targets :
      /\ ToSet(form.prs) = Urls(d) /\ Len(form.prs) = PrCount(d)
      /\ form.ticked = ToSet(form.prs) => Cardinality(EntriesOf(d, form.ticked)) = PrCount(d)

\* A launch is of roles that get along, those aside that did not when they were
\* restored, and of pull requests of one list, whatever was clicked, restored or
\* reloaded before it.
FormAgrees == RolesGetAlong /\ TickedIsShown /\ DatasetIsWhole

=============================================================================
