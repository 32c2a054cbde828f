------------------------------ MODULE RowMapping ------------------------------
(***************************************************************************)
(* What the derives make of a struct: EntityModel turns it into a row and   *)
(* back, FlattenedEnum and FlattenedStruct give the metadata of a review     *)
(* nullable columns, JsonBlobEnvelope folds what only a run knows into one   *)
(* blob.  A process saves values of one entity and loads them again.        *)
(*                                                                         *)
(* A value is named by the text it is displayed as; a column's name is the   *)
(* sequence of its parts.  Ids and enumerations print and parse to themselves.*)
(***************************************************************************)
EXTENDS Naturals, Sequences

CONSTANTS
  NULL,    \* an absent value, in a row and in an Option
  Texts    \* the texts of a title, a URL, a message

VARIABLES
  entity,  \* the derived struct that is saved and loaded
  given,   \* the value saved last
  row,     \* its row, without columns while there is none
  started, \* the review its job holds, as it was started
  page     \* the review get_review loaded and has not let go of

rowVars == <<entity, given, row, started, page>>

-----------------------------------------------------------------------------
(* FlattenedStruct: leaves by their name, nested structs under a prefix.    *)

Leaf(name, type) ==
  [name |-> name, type |-> type, option |-> FALSE, prefix |-> <<name>>]

\* A struct is the set of its fields: their order decides nothing.
FlattenedStruct ==
  [PrMeta |-> {Leaf("title", "String"), Leaf("url", "String"), Leaf("number", "u32")},
   RemoteRepositoryMeta |->
     {Leaf("owner", "String"), Leaf("name", "String"), Leaf("platform", "VCSPlatform")},
   GitRepositoryMeta |-> {[Leaf("repo_root", "PathBuf") EXCEPT !.option = TRUE]},
   PullRequestReviewMetadata |->
     {Leaf("repository", "RemoteRepositoryMeta"),
      [Leaf("meta", "PrMeta") EXCEPT !.prefix = <<"pr">>]},
   CommitReviewMetadata |->
     {Leaf("repository", "GitRepositoryMeta"), Leaf("commit_hash", "String")}]

IsKnownLeaf(f) == f.type \notin DOMAIN FlattenedStruct
Names(fields) == {f.name : f \in fields}
FieldOf(fields, n) == CHOOSE f \in fields : f.name = n

Digits == {"0", "7"}
LeafDefault(type) ==
  CASE type = "u32" -> "0" [] type = "VCSPlatform" -> "GitHub" [] OTHER -> ""

\* FromStr of a leaf's type.
ParseLeaf(type, text) ==
  CASE type = "u32" -> IF text \in Digits THEN text ELSE NULL
    [] type = "VCSPlatform" ->
         CASE text \in {"GitHub", "github", "Github"} -> "GitHub"
           [] text \in {"Codeberg", "codeberg"} -> "Codeberg"
           [] OTHER -> NULL
    [] OTHER -> text

\* The columns of a struct's own leaves, and of those nested in it: no struct
\* is nested more than once.
Leaves(fields, prefix, v) ==
  {[column |-> Append(prefix, f.name), value |-> v[f.name]] : f \in {g \in fields : IsKnownLeaf(g)}}

Flatten(fields, v) ==
  Leaves(fields, <<>>, v)
    \cup UNION {Leaves(FlattenedStruct[f.type], f.prefix, v[f.name]) :
                  f \in {g \in fields : ~IsKnownLeaf(g)}}

\* A column the map does not hold reads as NULL.
UnflattenLeaf(f, prefix, columns) ==
  LET c == Append(prefix, f.name)
      text == IF c \in DOMAIN columns THEN columns[c] ELSE NULL
      parsed == IF text = NULL THEN NULL ELSE ParseLeaf(f.type, text) IN
    IF parsed = NULL /\ ~f.option THEN LeafDefault(f.type) ELSE parsed

UnflattenNested(fields, prefix, columns) ==
  [n \in Names(fields) |-> UnflattenLeaf(FieldOf(fields, n), prefix, columns)]

Unflatten(fields, columns) ==
  [n \in Names(fields) |->
    LET f == FieldOf(fields, n) IN
      IF IsKnownLeaf(f) THEN UnflattenLeaf(f, <<>>, columns)
      ELSE UnflattenNested(FlattenedStruct[f.type], f.prefix, columns)]

-----------------------------------------------------------------------------
(* FlattenedEnum: a tag and every column some variant declares.             *)

Variants ==
  {[tag |-> "pull_request", of |-> "PullRequestReviewMetadata",
    columns |-> {<<"repository", n>> : n \in {"owner", "name", "platform"}}
                  \cup {<<"pr", n>> : n \in {"title", "url", "number"}}],
   [tag |-> "commit", of |-> "CommitReviewMetadata", columns |-> {<<"commit_hash">>}],
   [tag |-> "plain", of |-> "", columns |-> {}]}

VariantOf(tag) == CHOOSE v \in Variants : v.tag = tag
TagColumn == <<"review_type">>
FlatColumns == {TagColumn} \cup UNION {v.columns : v \in Variants}

Plain == [tag |-> "plain", inner |-> <<>>]

\* The first pair of a column's name; a struct has no two.
ColumnOf(v, m, c) ==
  LET hits == {p \in Flatten(FlattenedStruct[v.of], m.inner) : p.column = c} IN
    IF hits = {} THEN NULL ELSE (CHOOSE p \in hits : TRUE).value

\* Mutant of ToColumns: the prefix of meta is its field's name.
ToColumnsUnprefixed(m) ==
  LET v == VariantOf(m.tag) IN
  [c \in FlatColumns |->
     IF c = TagColumn THEN m.tag
     ELSE IF v.columns = {} \/ c[1] = "pr" THEN NULL
     ELSE ColumnOf(v, m, c)]

\* A pair whose column no variant declares is dropped.
ToColumns(m) ==
  LET v == VariantOf(m.tag) IN
  [c \in FlatColumns |->
     IF c = TagColumn THEN m.tag ELSE IF v.columns = {} THEN NULL ELSE ColumnOf(v, m, c)]

\* The macro also writes the way back; a row's tag is always one of the variants'.
FromColumns(columns) ==
  LET v == VariantOf(columns[TagColumn]) IN
    [tag |-> v.tag,
     inner |-> IF v.columns = {} THEN <<>>
               ELSE Unflatten(FlattenedStruct[v.of], columns)]

-----------------------------------------------------------------------------
(* JsonBlobEnvelope: encode and decode_into.                                *)

JsonFields(e) ==
  CASE e = "Review" -> {"analytics", "duration", "error_message"}
    [] e = "AgentSession" -> {"usage"}
    [] OTHER -> {}

Default(type) ==
  CASE type = "MagicTypeId" -> "" [] type = "String" -> "" [] type = "i32" -> 0
    [] type = "SessionUsage" -> "no usage" [] type = "ReviewStatus" -> "Pending"
    [] type = "ReviewMetadata" -> Plain [] type = "Vec" -> <<>> [] OTHER -> NULL

\* A review has no blob as long as there is nothing to put into it.
Encode(e, d) ==
  IF e = "AgentSession" THEN [usage |-> d.usage]
  ELSE LET w == [analytics |-> IF d.analytics = NULL THEN "empty" ELSE d.analytics,
                 duration |-> IF d.duration = NULL THEN 0 ELSE d.duration,
                 error_message |-> d.error_message] IN
    IF w.analytics = "empty" /\ w.duration = 0 /\ w.error_message = NULL THEN NULL ELSE w

DecodeInto(e, blob, d) ==
  IF blob = NULL THEN d
  ELSE IF e = "AgentSession" THEN [d EXCEPT !.usage = blob.usage]
  ELSE [d EXCEPT !.analytics = IF blob.analytics = "empty" THEN NULL ELSE blob.analytics,
                 !.duration = IF blob.duration > 0 THEN blob.duration ELSE @,
                 !.error_message = blob.error_message]

-----------------------------------------------------------------------------
(* EntityModel: the fields and their attributes.                            *)

Field(name, type, attrs) == [name |-> name, type |-> type, attrs |-> attrs]
SurrogateKey == Field("id", "Option", {"primary_key", "auto_increment"})

Entities ==
  [Review |->
     {Field("id", "MagicTypeId", {}), Field("agent_sessions", "Vec", {"has_many"}),
       Field("analytics", "Option", {"json"}), Field("duration", "Option", {"json"}),
       Field("error_message", "Option", {"json"}), Field("status", "ReviewStatus", {}),
       Field("metadata", "ReviewMetadata", {"flatten"})},
   AgentSession |->
     {Field("id", "MagicTypeId", {}), Field("review_id", "Option", {"belongs_to"}),
       Field("model_name", "String", {}), Field("usage", "SessionUsage", {"json"}),
       Field("turns", "Vec", {"has_many"})},
   AgentTurn |->
     {SurrogateKey, Field("session_id", "MagicTypeId", {"belongs_to"}),
       Field("turn_index", "i32", {}), Field("messages", "Vec", {"has_many"})},
   PrResult |->
     {Field("id", "MagicTypeId", {}), Field("benchmark_id", "Option", {}),
       Field("golden_comments", "Vec", {"has_many"}), Field("findings", "Vec", {"has_many"})},
   Finding |->
     {SurrogateKey, Field("pr_result_id", "String", {"belongs_to", "nullable"}),
       Field("file", "Option", {}), Field("message", "String", {})}]

\* process_field: a field becomes a column, part of the blob or of the
\* flattened columns, or nothing.
IsScalar(f) == f.attrs \cap {"ignore", "json", "has_many", "has_one", "flatten"} = {}
Scalars(e) == {f.name : f \in {g \in Entities[e] : IsScalar(g)}}
IsFlattened(e) == \E f \in Entities[e] : "flatten" \in f.attrs
Keyed(f) == "auto_increment" \in f.attrs

\* From<Domain> for ActiveModel; the database numbers a surrogate key.
ToRow(e, d) ==
  [scalars |-> [n \in Scalars(e) |-> IF Keyed(FieldOf(Entities[e], n)) THEN 1 ELSE d[n]],
   flat |-> IF IsFlattened(e) THEN ToColumns(d.metadata) ELSE <<>>,
   blob |-> IF JsonFields(e) = {} THEN NULL ELSE Encode(e, d)]

\* From<Model> for Domain: the scalar columns, the default for every other
\* field, and the blob's fields over them.
FromRow(e, r) ==
  DecodeInto(e, r.blob,
    [n \in Names(Entities[e]) |->
       IF n \in Scalars(e) THEN r.scalars[n] ELSE Default(FieldOf(Entities[e], n).type)])

-----------------------------------------------------------------------------
(* The values the program saves.                                            *)

NoRow == [scalars |-> <<>>, flat |-> <<>>, blob |-> NULL]
None == [status |-> "none"]

PullRequest(title, number, platform) ==
  [tag |-> "pull_request",
   inner |-> [repository |-> [owner |-> "owner", name |-> "name", platform |-> platform],
              meta |-> [title |-> title, url |-> "url", number |-> number]]]

\* A commit of a repository that is cloned at its root, or nowhere.
Commit(hash, root) ==
  [tag |-> "commit", inner |-> [repository |-> [repo_root |-> root], commit_hash |-> hash]]

\* A pull request's review, a commit's or a benchmark's.  Nothing makes a
\* commit's review so far; the derives take it like the others.
Metadata ==
  {Plain} \cup {PullRequest(t, n, p) : t \in Texts, n \in Digits, p \in {"GitHub", "Codeberg"}}
    \cup {Commit(t, r) : t \in Texts, r \in {NULL, "root"}}

Running(m) ==
  [id |-> "id", agent_sessions |-> <<>>, analytics |-> NULL, duration |-> NULL,
   error_message |-> NULL, status |-> "Running", metadata |-> m]

Values(e) ==
  CASE e = "Review" -> {Running(m) : m \in Metadata}
    [] e = "AgentSession" ->
         [id : {"id"}, review_id : {NULL, "review"}, model_name : Texts,
          usage : {"no usage", "usage"}, turns : {<<>>, <<"turn">>}]
    [] e = "AgentTurn" ->
         [id : {NULL}, session_id : {"session"}, turn_index : 0 .. 1, messages : {<<>>, <<"message">>}]
    [] e = "PrResult" ->
         [id : {"id"}, benchmark_id : {NULL, "benchmark"},
          golden_comments : {<<>>}, findings : {<<>>, <<"finding">>}]
    [] e = "Finding" ->
         [id : {NULL}, pr_result_id : {"result"}, file : {NULL} \cup Texts, message : Texts]

\* None is no text, no number and no blob.
ASSUME RowAssumption ==
  /\ NULL \notin Texts \cup Digits \cup
       {"owner", "name", "url", "GitHub", "Codeberg", "empty", "sessions", "reason", "launch", "stale"}
  /\ NULL \notin Nat
  /\ \A u \in {"no usage", "usage"} : NULL # [usage |-> u]
  /\ \A a \in {"empty", "sessions"}, t \in 0 .. 1, m \in {NULL, "reason", "launch", "stale"} :
       NULL # [analytics |-> a, duration |-> t, error_message |-> m]

Put(d) == given' = d /\ row' = ToRow(entity, d)

-----------------------------------------------------------------------------
RowInit ==
  /\ entity \in DOMAIN Entities
  /\ given \in Values(entity)
  /\ row = NoRow
  /\ started = None
  /\ page = None

\* start_review and start_benchmark save the running review and spawn its job;
\* a session, a turn, a result and its findings are only ever inserted.
SaveNew ==
  /\ row = NoRow
  /\ Put(given)
  /\ started' = IF entity = "Review" THEN given ELSE None
  /\ UNCHANGED <<entity, page>>

\* The outcome of the job: completed, or failed with a reason.
SaveOutcome ==
  /\ started # None
  /\ \E a \in {"empty", "sessions"}, t \in 0 .. 1, s \in {"Completed", "Failed"} :
       Put([started EXCEPT !.analytics = a, !.duration = t, !.status = s,
                        !.error_message = IF s = "Failed" THEN "reason" ELSE NULL])
  /\ started' = None
  /\ UNCHANGED <<entity, page>>

\* mark_review_failed, on the review as it was started, unless the row that
\* ensure_terminal_review_state loads is terminal.
MarkFailed ==
  /\ started # None
  /\ \/ FromRow(entity, row).status = "Running"
        /\ Put([started EXCEPT !.status = "Failed", !.error_message = "launch"])
     \/ FromRow(entity, row).status # "Running" /\ UNCHANGED <<given, row>>
  /\ started' = None
  /\ UNCHANGED <<entity, page>>

LoadValue ==
  /\ entity = "Review" /\ row # NoRow /\ page = None
  /\ page' = FromRow(entity, row)
  /\ UNCHANGED <<entity, given, row, started>>

\* reconcile_review_state saves the review it loaded: after a restart, or read
\* before the job's last save.
ReconcileRow ==
  /\ page # None /\ page.status = "Running"
  /\ Put([page EXCEPT !.status = "Failed", !.error_message = "stale"])
  /\ page' = None
  /\ UNCHANGED <<entity, started>>

LetGo ==
  /\ page # None
  /\ page' = None
  /\ UNCHANGED <<entity, given, row, started>>

RowNext ==
  SaveNew \/ SaveOutcome \/ MarkFailed \/ LoadValue \/ ReconcileRow \/ LetGo

RowSpec == RowInit /\ [][RowNext]_rowVars

-----------------------------------------------------------------------------
(* Properties.                                                             *)

RowTypeOK ==
  /\ entity \in DOMAIN Entities
  /\ DOMAIN given = Names(Entities[entity])
  /\ row = NoRow \/ DOMAIN row.scalars = Scalars(entity)
  /\ \A r \in {started, page} :
       r = None \/ (entity = "Review" /\ DOMAIN r = Names(Entities.Review))

\* What a value is after a round trip: children are loaded apart, the store
\* gives the key, an empty snapshot or a zero duration is none.
Normal(e, d) ==
  [n \in Names(Entities[e]) |->
    LET f == FieldOf(Entities[e], n) IN
      IF f.attrs \cap {"has_many", "has_one"} # {} THEN <<>>
      ELSE IF Keyed(f) THEN 1
      ELSE IF n = "analytics" /\ d[n] = "empty" THEN NULL
      ELSE IF n = "duration" /\ d[n] = 0 THEN NULL
      ELSE d[n]]

\* The value saved last is the value loaded, children and metadata apart: the
\* failure's reason and the usage survive the blob, whatever else is in it.
RowReadsBack ==
  row # NoRow =>
    \A n \in Names(Entities[entity]) \ {"metadata"} :
      FromRow(entity, row)[n] = Normal(entity, given)[n]

\* What the columns keep: no variant declares a column for the root of a
\* commit's repository.
Kept(m) == IF m.tag = "commit" THEN Commit(m.inner.commit_hash, NULL) ELSE m

\* The columns of a review's row hold its metadata, whichever of the three
\* variants they were written from, but for the root of a commit's repository:
\* no two leaves share a column, and every other one has a column.
ColumnsHoldMetadata ==
  entity = "Review" /\ row # NoRow => FromColumns(row.flat) = Kept(given.metadata)

\* A row is a faithful copy of the value saved last: its fields as they are
\* read back and its metadata as the columns hold it.
RowIsWhole == RowReadsBack /\ ColumnsHoldMetadata

\* "there are flatten fields that we populate via the bridge struct": a loaded
\* review has the metadata it was saved with.
MetadataReadsBack ==
  entity = "Review" /\ row # NoRow => FromRow(entity, row).metadata = given.metadata

=============================================================================
