----------------------------- MODULE ModelCatalog -----------------------------
(***************************************************************************)
(* The models reviewers may use.  A cache of OpenRouter's catalog is warmed *)
(* once and refreshed by a background task; the allowlist is a table that   *)
(* set_allowed_models clears and refills row by row; and the picker of the  *)
(* admin page curates the one from the other.  Any number of administrators *)
(* have the page open, and clients of the API replace the list as well.     *)
(***************************************************************************)
EXTENDS Naturals, SequencesExt, Subsequences

CONSTANTS
  Models,     \* identifiers of models
  Blank,      \* an identifier that is empty once it is trimmed
  Unset,      \* Option::None
  Catalogs,   \* what the OpenRouter API may answer
  Queries,    \* searches, each as the set of models whose haystack contains it
  Aliases,    \* pairs of which one identifier ends with the other
  LooksReasoning, \* models heuristic_is_reasoning_model takes for reasoning ones
  PerPage,    \* CATALOG_PER_PAGE
  Admins,     \* open admin pages
  Clients,    \* clients of PUT /api/admin/models
  MaxErrors   \* bound: store calls that fail

ASSUME CatalogAssumption ==
  /\ Blank \notin Models /\ Unset \notin Models /\ IsFiniteSet(Models)
  /\ \A ids \in SUBSET (Models \cup {Blank}) : ids # Unset
  /\ Catalogs \subseteq Seq([id : Models \cup {Blank}, reasoning : BOOLEAN])
  /\ Queries \subseteq SUBSET Models
  /\ Aliases \subseteq Models \X Models
  /\ PerPage \in Nat \ {0}
  /\ MaxErrors \in Nat

VARIABLES
  cache,    \* model_capabilities::CACHE
  table,    \* ids in allowed_models
  save,     \* save[w]: the set_allowed_models of a page or a client
  page,     \* page[a]: the signals of ModelsSection
  last,     \* history: whose save cleared the table last, and what it or those
            \* that were inserting then may put there
  catErrors \* store calls that failed

catalogVars == <<cache, table, save, page, last, catErrors>>

-----------------------------------------------------------------------------
(* The cache.                                                              *)

\* Mutant of BuildDetails: entries without an identifier are kept.
BuildDetailsBlank(raw) ==
  Picked(raw, {i \in DOMAIN raw : \A j \in 1 .. i - 1 : raw[j].id # raw[i].id})

\* The first entry of every identifier that is not empty.
BuildDetails(raw) ==
  Picked(raw, {i \in DOMAIN raw :
                 raw[i].id # Blank /\ \A j \in 1 .. i - 1 : raw[j].id # raw[i].id})

Ids(ds) == [i \in DOMAIN ds |-> ds[i].id]
Reasoning(ds) == {d.id : d \in {e \in ToSet(ds) : e.reasoning}}

EmptyCache == [available |-> <<>>, reasoning |-> Unset, details |-> <<>>, error |-> FALSE]

ApplySuccess(ds) ==
  [available |-> Ids(ds), reasoning |-> Reasoning(ds), details |-> ds, error |-> FALSE]

\* The details are left alone.
RecordError(c) == [c EXCEPT !.available = <<>>, !.reasoning = Unset, !.error = TRUE]

\* catalog_details, or the error of the last attempt.
CatalogKnown == cache.details # <<>>

SupportsReasoning(m) ==
  IF cache.reasoning = Unset
    THEN m \in LooksReasoning
    ELSE \E id \in cache.reasoning : id = m \/ <<m, id>> \in Aliases \/ <<id, m>> \in Aliases

-----------------------------------------------------------------------------
(* list_model_catalog.                                                     *)

AtLeastOne(n) == IF n < 1 THEN 1 ELSE n

Filtered(q) == Picked(Ids(cache.details), {i \in DOMAIN cache.details : cache.details[i].id \in q})

\* skip(start).take(PerPage)
Slice(ms, start) == SubSeq(ms, start + 1, Min({start + PerPage, Len(ms)}))

\* Page n, counted from one, of what the query finds.
CatalogSlice(n, q) == Slice(Filtered(q), (AtLeastOne(n) - 1) * PerPage)

\* total_pages of the page: total.div_ceil(CATALOG_PER_PAGE).max(1).
TotalPages(total) == AtLeastOne((total + PerPage - 1) \div PerPage)

-----------------------------------------------------------------------------
Savers == Admins \cup Clients
NoSave == [pc |-> "idle", sent |-> {}, left |-> {}]
FailedSave == [NoSave EXCEPT !.pc = "failed"]

\* asked: the catalog resource is being fetched; pending: so is the allowlist.
NewPage == [selected |-> {}, shown |-> {}, at |-> 1, query |-> Models, total |-> 0,
            asked |-> TRUE, pending |-> TRUE, loading |-> TRUE, saving |-> FALSE,
            error |-> FALSE]

\* main.rs warms the cache before it starts the server.
CatalogInit ==
  /\ \/ cache = RecordError(EmptyCache)
     \/ \E raw \in Catalogs : cache = ApplySuccess(BuildDetails(raw))
  /\ table \in SUBSET Models
  /\ save = [w \in Savers |-> NoSave]
  /\ page = [a \in Admins |-> NewPage]
  /\ last = Unset
  /\ catErrors = 0

CatTypeOK ==
  /\ Ids(cache.details) \in Seq(Models)
  /\ table \subseteq Models
  /\ \A w \in Savers :
       /\ save[w].pc \in {"idle", "clear", "insert", "failed", "done"}
       /\ save[w].left \subseteq save[w].sent /\ save[w].sent \subseteq Models
  /\ \A a \in Admins :
       /\ page[a].selected \subseteq Models
       /\ page[a].shown \subseteq Models
       /\ page[a].at \in 1 .. Cardinality(Models) + 1
  /\ catErrors \in 0 .. MaxErrors

StoreErrs == catErrors < MaxErrors /\ catErrors' = catErrors + 1

-----------------------------------------------------------------------------
(* The background task.                                                    *)

\* Every ten minutes; a failure keeps what is cached.
Refresh ==
  /\ \E raw \in Catalogs : cache' = ApplySuccess(BuildDetails(raw))
  /\ UNCHANGED <<table, save, page, last, catErrors>>

-----------------------------------------------------------------------------
(* set_allowed_models: one statement clears the table, one inserts each id. *)

\* What w has just cleared the table for.
Cleared(w) ==
  [by |-> w,
   may |-> save[w].sent \cup UNION {save[b].left : b \in {b \in Savers : save[b].pc = "insert"}}]

\* Mutant of Clear: the rows that are there stay.
ClearNothing(w) ==
  /\ save[w].pc = "clear"
  /\ save' = [save EXCEPT ![w].pc = "insert"]
  /\ last' = Cleared(w)
  /\ UNCHANGED <<cache, table, page, catErrors>>

Clear(w) ==
  /\ save[w].pc = "clear"
  /\ \/ /\ table' = {}
        /\ save' = [save EXCEPT ![w].pc = "insert"]
        /\ last' = Cleared(w)
        /\ UNCHANGED catErrors
     \/ /\ StoreErrs
        /\ save' = [save EXCEPT ![w] = FailedSave]
        /\ UNCHANGED <<table, last>>
  /\ UNCHANGED <<cache, page>>

\* The ids come in the order they were ticked in, which may be any; what is
\* inserted before an error stays.
Insert(w) ==
  /\ save[w].pc = "insert"
  /\ \/ \E m \in save[w].left :
          /\ table' = table \cup {m}
          /\ save' = [save EXCEPT ![w].left = @ \ {m}]
          /\ UNCHANGED catErrors
     \/ /\ save[w].left # {} /\ StoreErrs
        /\ save' = [save EXCEPT ![w] = FailedSave]
        /\ UNCHANGED table
     \/ /\ save[w].left = {}
        /\ save' = [save EXCEPT ![w].pc = "done"]
        /\ UNCHANGED <<table, catErrors>>
  /\ UNCHANGED <<cache, page, last>>

\* put_models: a client sends what it wants, however it came by it.
Put(c) ==
  /\ save[c].pc \in {"idle", "failed", "done"}
  /\ \E ids \in SUBSET Models :
       save' = [save EXCEPT ![c] = [pc |-> "clear", sent |-> ids, left |-> ids]]
  /\ UNCHANGED <<cache, table, page, last, catErrors>>

-----------------------------------------------------------------------------
(* ModelsSection.                                                          *)

PageSteps(a, p) ==
  /\ page' = [page EXCEPT ![a] = p]
  /\ UNCHANGED <<cache, table, save, last>>

Reload(a) ==
  /\ ~page[a].saving /\ ~page[a].pending
  /\ PageSteps(a, NewPage) /\ UNCHANGED catErrors

\* list_allowed_models: every row.
ListAllowedModels == table

\* list_allowed_models; the answer replaces what was ticked before it came.
AllowlistAnswer(a) ==
  /\ page[a].pending
  /\ \/ /\ PageSteps(a, [page[a] EXCEPT !.pending = FALSE,
                                     !.selected = ListAllowedModels])
        /\ UNCHANGED catErrors
     \/ /\ PageSteps(a, [page[a] EXCEPT !.pending = FALSE, !.error = TRUE])
        /\ StoreErrs

\* The catalog's answer clears the error of the allowlist too.
CatalogAnswer(a) ==
  /\ page[a].asked
  /\ PageSteps(a,
       IF CatalogKnown
         THEN [page[a] EXCEPT !.asked = FALSE, !.loading = FALSE, !.error = FALSE,
                 !.shown = ToSet(CatalogSlice(page[a].at, page[a].query)),
                 !.total = Len(Filtered(page[a].query))]
         ELSE [page[a] EXCEPT !.asked = FALSE, !.loading = FALSE, !.error = TRUE,
                 !.shown = {}])
  /\ UNCHANGED catErrors

\* With an error the section shows nothing else.
Usable(a) == ~page[a].error

Search(a) ==
  /\ Usable(a)
  /\ \E q \in Queries \ {page[a].query} :
       PageSteps(a, [page[a] EXCEPT !.at = 1, !.query = q, !.asked = TRUE, !.shown = {}])
  /\ UNCHANGED catErrors

Turn(a) ==
  /\ Usable(a) /\ ~page[a].loading
  /\ \E n \in {page[a].at - 1, page[a].at + 1} :
       /\ n >= 1 /\ n <= IF n > page[a].at THEN TotalPages(page[a].total) ELSE n
       /\ PageSteps(a, [page[a] EXCEPT !.at = n, !.asked = TRUE, !.shown = {}])
  /\ UNCHANGED catErrors

Toggle(a) ==
  /\ Usable(a)
  /\ \E m \in page[a].shown :
       PageSteps(a, [page[a] EXCEPT !.selected = IF m \in @ THEN @ \ {m} ELSE @ \cup {m}])
  /\ UNCHANGED catErrors

\* Save is disabled while saving, and not while the allowlist is loading.
SaveAllowlist(a) ==
  /\ Usable(a) /\ ~page[a].saving
  /\ page' = [page EXCEPT ![a].saving = TRUE]
  /\ save' = [save EXCEPT ![a] = [pc |-> "clear", sent |-> page[a].selected,
                                  left |-> page[a].selected]]
  /\ UNCHANGED <<cache, table, last, catErrors>>

SaveAnswer(a) ==
  /\ page[a].saving /\ save[a].pc \in {"done", "failed"}
  /\ page' = [page EXCEPT ![a].saving = FALSE,
                          ![a].selected = IF save[a].pc = "done" THEN save[a].sent ELSE @]
  /\ save' = [save EXCEPT ![a] = NoSave]
  /\ UNCHANGED <<cache, table, last, catErrors>>

CatalogNext ==
  \/ Refresh
  \/ \E w \in Savers : Clear(w) \/ Insert(w)
  \/ \E c \in Clients : Put(c)
  \/ \E a \in Admins :
       \/ Reload(a) \/ AllowlistAnswer(a) \/ CatalogAnswer(a) \/ Search(a)
       \/ Turn(a) \/ Toggle(a) \/ SaveAllowlist(a) \/ SaveAnswer(a)

CatalogSpec == CatalogInit /\ [][CatalogNext]_catalogVars

-----------------------------------------------------------------------------
(* Properties.                                                             *)

\* Saves of two administrators do not mix beyond what was under way: the table
\* holds what the last to clear it has inserted so far, until it is answered,
\* and nothing else but what others still had to insert at that moment
\* (set_allowed_models).
LastClearStands ==
  last # Unset =>
    /\ table \subseteq last.may
    /\ save[last.by].pc # "clear" => save[last.by].sent \ save[last.by].left \subseteq table

\* The three views of the cache are of one answer, whatever failed since: a
\* model that is listed is in the catalog, and one the catalog says reasons is
\* run as one (apply_success, record_error, refresh_model_cache).
CacheAgrees ==
  /\ cache.available = Ids(cache.details)
  /\ \A d \in ToSet(cache.details) : d.reasoning => SupportsReasoning(d.id)

\* Every model a search finds is on exactly one of the pages the pager can
\* reach, so that it can be ticked (list_model_catalog, total_pages).
EveryModelHasItsPage ==
  \A q \in Queries : \A m \in ToSet(Filtered(q)) :
    Cardinality({n \in 1 .. TotalPages(Len(Filtered(q))) :
                   m \in ToSet(CatalogSlice(n, q))}) = 1

\* What the administrator sees, picks from and has saved: the three together.
CatalogIsWhole == LastClearStands /\ CacheAgrees /\ EveryModelHasItsPage

\* "Existing rows are cleared and the sent identifiers inserted in a single
\* transaction": the table goes from one set that was sent to the next.
SaveIsOneTransaction ==
  [][table' # table => \E w \in Savers : table' = save[w].sent]_catalogVars

=============================================================================
