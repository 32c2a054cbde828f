--------------------------- MODULE Console_proofs ----------------------------
(****************************************************************************)
(* What the web console promises, for catalogs, repositories, logs and      *)
(* reviews of any size, any number of administrators, clients and           *)
(* connections, and lists and answers that arrive in any order.             *)
(****************************************************************************)
EXTENDS Console, InductionLemmas

(* The allowlist: saves that run into each other.                           *)

\* The shape of the saves; a save that has not cleared the table has all its
\* identifiers left.
SavesAreWhole ==
  /\ DOMAIN save = Savers
  /\ \A w \in Savers :
       /\ DOMAIN save[w] = {"pc", "sent", "left"}
       /\ save[w].pc = "clear" => save[w].left = save[w].sent

\* What is in the table, or is still to be inserted into it, belongs to the save
\* that cleared it last or to one that was inserting then.
SinceTheLastClear ==
  last # Unset =>
    /\ last.by \in Savers
    /\ table \subseteq last.may
    /\ \A w \in Savers : save[w].pc = "insert" => save[w].left \subseteq last.may
    /\ save[last.by].pc # "clear" => save[last.by].sent \ save[last.by].left \subseteq table

SaveInv == SavesAreWhole /\ SinceTheLastClear

\* Nobody saves, and nothing was cleared yet.
LEMMA SavesStart == CatalogInit => SaveInv
  BY DEF CatalogInit, SaveInv, SavesAreWhole, SinceTheLastClear, NoSave

-----------------------------------------------------------------------------
\* Nothing but set_allowed_models touches the table.
LEMMA TableAlone ==
  ASSUME SaveInv, UNCHANGED <<table, save, last>>
  PROVE  SaveInv'
  BY DEF SaveInv, SavesAreWhole, SinceTheLastClear

\* A save clears the table, or fails to.
LEMMA ClearStep ==
  ASSUME SaveInv, NEW w \in Savers, Clear(w)
  PROVE  SaveInv'
<1> USE DEF SaveInv
<1>1. CASE /\ table' = {}
           /\ save' = [save EXCEPT ![w].pc = "insert"]
           /\ last' = Cleared(w)
  <2>1. SavesAreWhole'
    BY <1>1 DEF SavesAreWhole
  <2>2. /\ save'[w].left = save[w].sent /\ save'[w].sent = save[w].sent
        /\ \A v \in Savers \ {w} : save'[v] = save[v]
    BY <1>1 DEF SavesAreWhole, Clear
  <2>3. last'.by = w /\ save[w].sent \subseteq last'.may
    BY <1>1 DEF Cleared
  <2>4. \A v \in Savers : save[v].pc = "insert" => save[v].left \subseteq last'.may
    BY <1>1 DEF Cleared
  <2>5. \A v \in Savers : save'[v].pc = "insert" => save'[v].left \subseteq last'.may
    BY <2>2, <2>3, <2>4
  <2>6. SinceTheLastClear'
    BY <1>1, <2>2, <2>3, <2>5 DEF SinceTheLastClear
  <2> QED
    BY <2>1, <2>6
<1>2. CASE save' = [save EXCEPT ![w] = FailedSave] /\ UNCHANGED <<table, last>>
  <2>1. SavesAreWhole'
    BY <1>2 DEF SavesAreWhole, FailedSave, NoSave
  <2>2. SinceTheLastClear'
    BY <1>2 DEF SinceTheLastClear, SavesAreWhole, FailedSave, NoSave
  <2> QED
    BY <2>1, <2>2
<1> QED
  BY <1>1, <1>2 DEF Clear

\* A save inserts a row, fails to, or is done.
LEMMA InsertStep ==
  ASSUME SaveInv, NEW w \in Savers, Insert(w)
  PROVE  SaveInv'
<1> USE DEF SaveInv
<1>1. save[w].pc = "insert" /\ UNCHANGED last
  BY DEF Insert
<1>2. ASSUME NEW m \in save[w].left,
             table' = table \cup {m}, save' = [save EXCEPT ![w].left = @ \ {m}]
      PROVE  SaveInv'
  <2>1. SavesAreWhole'
    BY <1>1, <1>2 DEF SavesAreWhole
  <2>2. /\ save'[w].pc = "insert" /\ save'[w].sent = save[w].sent
        /\ save'[w].left = save[w].left \ {m}
        /\ \A v \in Savers \ {w} : save'[v] = save[v]
    BY <1>1, <1>2 DEF SavesAreWhole
  <2>3. SinceTheLastClear'
    BY <1>1, <1>2, <2>2 DEF SinceTheLastClear
  <2> QED
    BY <2>1, <2>3
<1>3. CASE save' = [save EXCEPT ![w] = FailedSave] /\ UNCHANGED table
  BY <1>1, <1>3 DEF SavesAreWhole, SinceTheLastClear, FailedSave, NoSave
<1>4. CASE save' = [save EXCEPT ![w].pc = "done"] /\ UNCHANGED table
  BY <1>1, <1>4 DEF SavesAreWhole, SinceTheLastClear
<1> QED
  BY <1>2, <1>3, <1>4 DEF Insert

\* A save begins, or its answer arrives.
LEMMA BeginOrAnswer ==
  ASSUME SaveInv, NEW w \in Savers, UNCHANGED <<table, last>>,
         \/ \E ids : save' = [save EXCEPT ![w] = [pc |-> "clear", sent |-> ids, left |-> ids]]
         \/ save' = [save EXCEPT ![w] = NoSave]
  PROVE  SaveInv'
  BY DEF SaveInv, SavesAreWhole, SinceTheLastClear, NoSave

\* Every step of the catalog, the saves and the pages.
LEMMA SaveSteps == SaveInv /\ [CatalogNext]_catalogVars => SaveInv'
<1> SUFFICES ASSUME SaveInv, [CatalogNext]_catalogVars PROVE SaveInv'
  OBVIOUS
<1>1. CASE Refresh
  BY <1>1, TableAlone DEF Refresh
<1>2. ASSUME NEW w \in Savers, Clear(w) \/ Insert(w) PROVE SaveInv'
  BY <1>2, ClearStep, InsertStep
<1>3. ASSUME NEW c \in Clients, Put(c) PROVE SaveInv'
  BY <1>3, BeginOrAnswer DEF Put, Savers
<1>4. ASSUME NEW a \in Admins,
             \/ Reload(a) \/ AllowlistAnswer(a) \/ CatalogAnswer(a) \/ Search(a)
             \/ Turn(a) \/ Toggle(a)
      PROVE  SaveInv'
  <2>1. UNCHANGED <<table, save, last>>
    BY <1>4 DEF Reload, AllowlistAnswer, CatalogAnswer, Search, Turn, Toggle, PageSteps
  <2> QED
    BY <2>1, TableAlone
<1>5. ASSUME NEW a \in Admins, SaveAllowlist(a) \/ SaveAnswer(a) PROVE SaveInv'
  BY <1>5, BeginOrAnswer DEF SaveAllowlist, SaveAnswer, Savers
<1>6. CASE UNCHANGED catalogVars
  BY <1>6, TableAlone DEF catalogVars
<1> QED
  BY <1>1, <1>2, <1>3, <1>4, <1>5, <1>6 DEF CatalogNext

-----------------------------------------------------------------------------
\* Whoever saves the allowlist at the same time, and whatever fails, the table
\* holds what the last to clear it inserted and nothing but what others were
\* still inserting when it did (set_allowed_models).
THEOREM SavesDoNotMix == CatalogSpec => []LastClearStands
<1>1. SaveInv /\ [CatalogNext]_catalogVars => SaveInv'
  BY SaveSteps
<1>2. SaveInv => LastClearStands
  BY DEF SaveInv, SinceTheLastClear, LastClearStands
<1> QED
  BY SavesStart, <1>1, <1>2, PTL DEF CatalogSpec

-----------------------------------------------------------------------------
(* The catalog: its cache and its pager.                                    *)

Entry == [id : Models \cup {Blank}, reasoning : BOOLEAN]

\* What the cache holds was built of one answer, or nothing was fetched yet.
CacheIsBuilt ==
  \/ cache = RecordError(EmptyCache)
  \/ \E raw \in Catalogs : cache = ApplySuccess(BuildDetails(raw))

\* Every identifier of the catalog is in the details once.
LEMMA DetailsAreDistinct ==
  ASSUME NEW raw \in Catalogs
  PROVE  /\ BuildDetails(raw) \in Seq(Entry)
         /\ \A k, l \in DOMAIN BuildDetails(raw) :
              k < l => BuildDetails(raw)[k].id # BuildDetails(raw)[l].id
<1>1. raw \in Seq(Entry)
  BY CatalogAssumption DEF Entry
<1>2. PICK I : I = {i \in DOMAIN raw : raw[i].id # Blank /\ \A j \in 1 .. i - 1 : raw[j].id # raw[i].id}
  OBVIOUS
<1>3. PICK ds : ds = BuildDetails(raw)
  OBVIOUS
<1>4. ds = Picked(raw, I)
  BY <1>2, <1>3 DEF BuildDetails
<1>5. I \cap DOMAIN raw = I /\ DOMAIN raw = 1 .. Len(raw)
  BY <1>1, <1>2
<1>6. ds \in Seq(Entry) /\ Enumerates(ds, raw, I)
  BY <1>1, <1>4, <1>5, PickedPlaces
<1>7. PICK f \in [1 .. Len(ds) -> I] :
        /\ \A k, l \in 1 .. Len(ds) : k < l => f[k] < f[l]
        /\ \A k \in 1 .. Len(ds) : ds[k] = raw[f[k]]
  BY <1>6 DEF Enumerates
<1>8. ASSUME NEW k \in DOMAIN ds, NEW l \in DOMAIN ds, k < l
      PROVE  ds[k].id # ds[l].id
  <2>1. DOMAIN ds = 1 .. Len(ds)
    BY <1>6
  <2>2. f[k] \in I /\ f[l] \in I /\ f[k] < f[l]
    BY <1>7, <1>8, <2>1
  <2>3. f[k] \in 1 .. f[l] - 1
    BY <1>2, <1>5, <2>2
  <2>4. raw[f[k]].id # raw[f[l]].id
    BY <1>2, <2>2, <2>3
  <2> QED
    BY <1>7, <2>1, <2>4
<1> QED
  BY <1>3, <1>6, <1>8

\* What the views of a cache that was built have in common.
LEMMA CacheShape ==
  ASSUME CacheIsBuilt
  PROVE  /\ cache.details \in Seq(Entry)
         /\ \A k, l \in DOMAIN cache.details : k < l => cache.details[k].id # cache.details[l].id
         /\ cache.available = Ids(cache.details)
         /\ cache.details # <<>> => cache.reasoning = Reasoning(cache.details)
<1>1. CASE cache = RecordError(EmptyCache)
  <2>1. cache.details = <<>> /\ cache.available = <<>>
    BY <1>1 DEF RecordError, EmptyCache
  <2>2. Ids(<<>>) = <<>> /\ <<>> \in Seq(Entry) /\ DOMAIN <<>> = {}
    BY DEF Ids
  <2> QED
    BY <2>1, <2>2
<1>2. ASSUME NEW raw \in Catalogs, cache = ApplySuccess(BuildDetails(raw))
      PROVE  /\ cache.details = BuildDetails(raw)
             /\ cache.available = Ids(cache.details) /\ cache.reasoning = Reasoning(cache.details)
  BY <1>2 DEF ApplySuccess
<1> QED
  BY <1>1, <1>2, DetailsAreDistinct DEF CacheIsBuilt

\* The views of a cache that was built are of one answer.
LEMMA BuiltAgrees == CacheIsBuilt => CacheAgrees
<1> SUFFICES ASSUME CacheIsBuilt PROVE CacheAgrees
  OBVIOUS
<1>1. cache.details \in Seq(Entry) /\ cache.available = Ids(cache.details)
      /\ (cache.details # <<>> => cache.reasoning = Reasoning(cache.details))
  BY CacheShape
<1>2. ASSUME NEW d \in ToSet(cache.details), d.reasoning PROVE SupportsReasoning(d.id)
  <2>1. cache.details # <<>> /\ \A e \in ToSet(cache.details) : e \in Entry
    BY <1>1, <1>2 DEF ToSet
  <2>2. cache.reasoning = Reasoning(cache.details)
    BY <1>1, <2>1
  <2>3. Reasoning(cache.details) \in SUBSET (Models \cup {Blank})
    BY <2>1 DEF Reasoning, Entry
  <2>4. cache.reasoning # Unset
    BY <2>2, <2>3, CatalogAssumption
  <2>5. d.id \in cache.reasoning
    BY <1>2, <2>2 DEF Reasoning
  <2> QED
    BY <2>4, <2>5 DEF SupportsReasoning
<1> QED
  BY <1>1, <1>2 DEF CacheAgrees

-----------------------------------------------------------------------------
\* The page of n of a pager of p a page.
LEMMA PageOf ==
  ASSUME NEW p \in Nat \ {0}, NEW a \in Nat
  PROVE  a \div p \in Nat /\ (a \div p) * p <= a /\ a < ((a \div p) + 1) * p
  OBVIOUS

\* A page further is at least a whole page further.
LEMMA TimesMonotonic ==
  ASSUME NEW p \in Nat \ {0}, NEW a \in Nat, NEW b \in Nat, a < b
  PROVE  a * p + p <= b * p
  OBVIOUS

\* Place k of a list that is not longer than len is on one page of p.
LEMMA OnePage ==
  ASSUME NEW p \in Nat \ {0}, NEW len \in Nat, NEW k \in 1 .. len
  PROVE  \E n \in Nat \ {0} :
           /\ n <= (len + p - 1) \div p
           /\ \A x \in Nat \ {0} : (x - 1) * p < k /\ k <= (x - 1) * p + p <=> x = n
<1>1. PICK a \in Nat : a = k - 1
  OBVIOUS
<1>2. PICK q \in Nat : q = a \div p /\ q * p <= a /\ a < (q + 1) * p
  BY <1>1, PageOf
<1>3. PICK b \in Nat : b = len + p - 1
  OBVIOUS
<1>4. PICK t \in Nat : t = b \div p /\ b < (t + 1) * p
  BY <1>3, PageOf
<1>5. (t + 1) * p = t * p + p /\ (q + 1) * p = q * p + p /\ q * p \in Nat /\ t * p \in Nat
  OBVIOUS
<1>6. q < t
  <2> SUFFICES ASSUME ~(q < t) PROVE FALSE
    OBVIOUS
  <2>1. t = q \/ t < q
    OBVIOUS
  <2>2. t * p <= q * p
    BY <1>5, <2>1, TimesMonotonic
  <2> QED
    BY <1>1, <1>2, <1>3, <1>4, <1>5, <2>2
<1>7. ASSUME NEW x \in Nat \ {0}
      PROVE  (x - 1) * p < k /\ k <= (x - 1) * p + p <=> x = q + 1
  <2>1. PICK y \in Nat : y = x - 1
    OBVIOUS
  <2>2. y * p \in Nat
    BY <2>1
  <2>3. CASE y < q
    BY <1>1, <1>2, <1>5, <2>1, <2>2, <2>3, TimesMonotonic
  <2>4. CASE q < y
    BY <1>1, <1>2, <1>5, <2>1, <2>2, <2>4, TimesMonotonic
  <2>5. CASE y = q
    BY <1>1, <1>2, <1>5, <2>1, <2>5
  <2> QED
    BY <2>3, <2>4, <2>5
<1>8. q + 1 \in Nat \ {0} /\ q + 1 <= (len + p - 1) \div p
  BY <1>3, <1>4, <1>6
<1> QED
  BY <1>7, <1>8

\* A model that is found is on one page of the pager.
LEMMA BuiltPages == CacheIsBuilt => EveryModelHasItsPage
<1> SUFFICES ASSUME CacheIsBuilt, NEW q \in Queries, NEW m \in ToSet(Filtered(q))
             PROVE  Cardinality({n \in 1 .. TotalPages(Len(Filtered(q))) :
                                   m \in ToSet(CatalogSlice(n, q))}) = 1
  BY DEF EveryModelHasItsPage
<1>1. PICK ds : ds = cache.details
  OBVIOUS
<1>2. ds \in Seq(Entry) /\ \A k, l \in DOMAIN ds : k < l => ds[k].id # ds[l].id
  BY <1>1, CacheShape
<1>3. PICK ids : ids = Ids(ds)
  OBVIOUS
<1>4. /\ ids \in Seq(Models \cup {Blank}) /\ DOMAIN ids = DOMAIN ds
      /\ DOMAIN ds = 1 .. Len(ds) /\ \A k \in DOMAIN ds : ids[k] = ds[k].id
  <2>1. DOMAIN ds = 1 .. Len(ds) /\ Len(ds) \in Nat /\ \A k \in DOMAIN ds : ds[k] \in Entry
    BY <1>2
  <2>2. \A k \in DOMAIN ds : ds[k].id \in Models \cup {Blank}
    BY <2>1 DEF Entry
  <2>3. ids = [k \in 1 .. Len(ds) |-> ds[k].id]
    BY <1>3, <2>1 DEF Ids
  <2> QED
    BY <2>1, <2>2, <2>3
<1>5. PICK f : f = Filtered(q)
  OBVIOUS
<1>6. PICK I : I = {i \in DOMAIN ds : ds[i].id \in q}
  OBVIOUS
<1>7. f = Picked(ids, I) /\ I \cap DOMAIN ids = I
  BY <1>1, <1>3, <1>4, <1>5, <1>6 DEF Filtered
<1>8. f \in Seq(Models \cup {Blank}) /\ Enumerates(f, ids, I)
  BY <1>4, <1>7, PickedPlaces
<1>9. PICK len \in Nat : len = Len(f) /\ DOMAIN f = 1 .. len
  BY <1>8
<1>10. PICK g \in [1 .. len -> I] :
         /\ \A k, l \in 1 .. len : k < l => g[k] < g[l]
         /\ \A k \in 1 .. len : f[k] = ids[g[k]]
  BY <1>8, <1>9 DEF Enumerates
<1>11. \A k, l \in 1 .. len : k < l => f[k] # f[l]
  <2> SUFFICES ASSUME NEW k \in 1 .. len, NEW l \in 1 .. len, k < l PROVE f[k] # f[l]
    OBVIOUS
  <2>1. g[k] \in DOMAIN ds /\ g[l] \in DOMAIN ds /\ g[k] < g[l]
    BY <1>6, <1>10
  <2> QED
    BY <1>2, <1>4, <1>10, <2>1
<1>12. PICK k \in 1 .. len : m = f[k]
  BY <1>5, <1>9 DEF ToSet
<1>13. PICK p \in Nat \ {0} : p = PerPage
  BY CatalogAssumption
<1>14. PICK n \in Nat \ {0} :
         /\ n <= (len + p - 1) \div p
         /\ \A x \in Nat \ {0} : (x - 1) * p < k /\ k <= (x - 1) * p + p <=> x = n
  BY OnePage
<1>15. ASSUME NEW x \in Nat \ {0}
       PROVE  m \in ToSet(CatalogSlice(x, q)) <=> x = n
  <2>1. PICK a \in Nat : a = (x - 1) * p
    OBVIOUS
  <2>2. PICK b : b = Min({a + p, len})
    OBVIOUS
  <2>3. b = IF a + p <= len THEN a + p ELSE len
    BY <2>2 DEF Min
  <2>4. b \in Nat /\ b <= len /\ b <= a + p
    BY <2>3
  <2>5. CatalogSlice(x, q) = SubSeq(f, a + 1, b)
    <3>1. AtLeastOne(x) = x
      BY DEF AtLeastOne
    <3>2. (AtLeastOne(x) - 1) * PerPage = a
      BY <1>13, <2>1, <3>1
    <3> QED
      BY <1>5, <1>9, <1>13, <2>2, <3>2 DEF CatalogSlice, Slice
  <2>6. DOMAIN SubSeq(f, a + 1, b) = 1 .. b - a
        /\ \A i \in 1 .. b - a : SubSeq(f, a + 1, b)[i] = f[a + i]
    BY <1>8, <1>9, <2>4
  <2>7. ASSUME m \in ToSet(CatalogSlice(x, q)) PROVE a < k /\ k <= a + p
    <3>1. PICK i \in 1 .. b - a : m = f[a + i]
      BY <2>5, <2>6, <2>7 DEF ToSet
    <3>2. a + i \in 1 .. len
      BY <2>4, <3>1
    <3>3. a + i = k
      <4>1. PICK j \in 1 .. len : j = a + i
        BY <3>2
      <4>2. f[j] = f[k] /\ k \in 1 .. len
        BY <1>12, <3>1, <4>1
      <4>3. ~(j < k) /\ ~(k < j)
        BY <1>11, <4>2
      <4> QED
        BY <4>1, <4>3
    <3> QED
      BY <2>4, <3>1, <3>3
  <2>8. ASSUME a < k, k <= a + p PROVE m \in ToSet(CatalogSlice(x, q))
    <3>1. k - a \in 1 .. b - a /\ a + (k - a) = k
      BY <2>3, <2>8
    <3>2. SubSeq(f, a + 1, b)[k - a] = m
      BY <1>12, <2>6, <3>1
    <3> QED
      BY <2>5, <2>6, <3>1, <3>2 DEF ToSet
  <2> QED
    BY <1>14, <2>1, <2>7, <2>8
<1>16. PICK t \in Nat : t = TotalPages(len) /\ n <= t
  <2>1. PICK u \in Nat : u = (len + p - 1) \div p
    BY PageOf
  <2> QED
    BY <1>13, <1>14, <2>1 DEF TotalPages, AtLeastOne
<1>17. {x \in 1 .. t : m \in ToSet(CatalogSlice(x, q))} = {n}
  BY <1>15, <1>16
<1> QED
  BY <1>5, <1>9, <1>16, <1>17, FS_Singleton

\* Nothing but the background task touches the cache, and a failure of it keeps
\* what is there.
LEMMA CacheInvariance == CatalogSpec => []CacheIsBuilt
<1>1. CatalogInit => CacheIsBuilt
  BY DEF CatalogInit, CacheIsBuilt
<1>2. CacheIsBuilt /\ [CatalogNext]_catalogVars => CacheIsBuilt'
  <2> SUFFICES ASSUME CacheIsBuilt, [CatalogNext]_catalogVars PROVE CacheIsBuilt'
    OBVIOUS
  <2>1. ASSUME UNCHANGED cache PROVE CacheIsBuilt'
    BY <2>1 DEF CacheIsBuilt
  <2>2. CASE Refresh
    BY <2>2 DEF Refresh, CacheIsBuilt
  <2>3. ASSUME NEW w \in Savers, Clear(w) \/ Insert(w) PROVE CacheIsBuilt'
    BY <2>1, <2>3 DEF Clear, Insert
  <2>4. ASSUME NEW c \in Clients, Put(c) PROVE CacheIsBuilt'
    BY <2>1, <2>4 DEF Put
  <2>5. ASSUME NEW a \in Admins,
               \/ Reload(a) \/ AllowlistAnswer(a) \/ CatalogAnswer(a) \/ Search(a)
               \/ Turn(a) \/ Toggle(a) \/ SaveAllowlist(a) \/ SaveAnswer(a)
        PROVE  CacheIsBuilt'
    BY <2>1, <2>5 DEF Reload, AllowlistAnswer, CatalogAnswer, Search, Turn, Toggle, SaveAllowlist,
                      SaveAnswer, PageSteps
  <2>6. CASE UNCHANGED catalogVars
    BY <2>1, <2>6 DEF catalogVars
  <2> QED
    BY <2>2, <2>3, <2>4, <2>5, <2>6 DEF CatalogNext
<1> QED
  BY <1>1, <1>2, PTL DEF CatalogSpec

\* What the administrator sees, picks from and has saved: the cache, the pager
\* and the table, whatever the catalog answers and whoever saves meanwhile
\* (refresh_model_cache, list_model_catalog, set_allowed_models).
THEOREM CatalogStaysWhole == CatalogSpec => []CatalogIsWhole
<1>1. LastClearStands /\ CacheIsBuilt => CatalogIsWhole
  BY BuiltAgrees, BuiltPages DEF CatalogIsWhole
<1> QED
  BY SavesDoNotMix, CacheInvariance, <1>1, PTL

-----------------------------------------------------------------------------
(* The launch forms.                                                        *)

\* The roles Select All has taken after the first of the library.
IsTaken(taken) ==
  /\ DOMAIN taken = 0 .. Len(Library) /\ taken[0] = {}
  /\ \A i \in 1 .. Len(Library) :
       taken[i] = taken[i - 1]
         \cup (IF IsRoleDisabled(Library[i], taken[i - 1]) THEN {} ELSE {Library[i]})

\* The recursion of Select All has a solution, built up role by role.
LEMMA TakenInTurn == \E taken : IsTaken(taken) /\ MaximalRoles = taken[Len(Library)]
<1>1. PICK n \in Nat : n = Len(Library)
  BY FormAssumption
<1> DEFINE Next1(i, R) == R \cup (IF IsRoleDisabled(Library[i], R) THEN {} ELSE {Library[i]})
           Upto(e, k) == DOMAIN e = 0 .. k /\ \A i \in 0 .. k : e[i] = IF i = 0 THEN {} ELSE Next1(i, e[i - 1])
           S == {k \in Nat : \E e : Upto(e, k)}
<1> HIDE DEF Next1
<1>2. 0 \in S
  <2>1. Upto([i \in 0 .. 0 |-> {}], 0)
    OBVIOUS
  <2>2. \E e : Upto(e, 0)
    BY <2>1
  <2> QED
    BY <2>2
<1>3. ASSUME NEW k \in Nat, k \in S PROVE k + 1 \in S
  <2>1. PICK e : Upto(e, k)
    BY <1>3
  <2>2. PICK h : h = [i \in 0 .. k + 1 |-> IF i <= k THEN e[i] ELSE Next1(i, e[i - 1])]
    OBVIOUS
  <2>3. ASSUME NEW i \in 0 .. k + 1
        PROVE  h[i] = IF i = 0 THEN {} ELSE Next1(i, h[i - 1])
    <3>1. i # 0 => i - 1 \in 0 .. k + 1 /\ i - 1 <= k
      OBVIOUS
    <3>2. i # 0 => h[i - 1] = e[i - 1]
      BY <2>2, <3>1
    <3>3. CASE i <= k
      BY <2>1, <2>2, <3>2, <3>3
    <3>4. CASE ~(i <= k)
      BY <2>2, <3>2, <3>4
    <3> QED
      BY <3>3, <3>4
  <2>4. Upto(h, k + 1)
    BY <2>2, <2>3
  <2>5. \E x : Upto(x, k + 1)
    BY <2>4
  <2> HIDE DEF Upto
  <2> QED
    BY <2>5
<1>4. n \in S
  <2> HIDE DEF S
  <2> QED
    BY <1>2, <1>3, SetInduction
<1>5. PICK e : Upto(e, n)
  BY <1>4
<1>6. \E h : h = [i \in 0 .. n |-> IF i = 0 THEN {} ELSE Next1(i, h[i - 1])]
  <2>1. PICK h : h = [i \in 0 .. n |-> e[i]]
    OBVIOUS
  <2>2. ASSUME NEW i \in 0 .. n
        PROVE  h[i] = IF i = 0 THEN {} ELSE Next1(i, h[i - 1])
    <3>1. h[i] = e[i] /\ (i # 0 => h[i - 1] = e[i - 1])
      BY <2>1
    <3> QED
      BY <1>5, <3>1
  <2>3. h = [i \in 0 .. n |-> IF i = 0 THEN {} ELSE Next1(i, h[i - 1])]
    BY <2>1, <2>2
  <2> QED
    BY <2>3
<1>7. PICK g : g = CHOOSE h : h = [i \in 0 .. n |-> IF i = 0 THEN {} ELSE Next1(i, h[i - 1])]
  OBVIOUS
<1>8. g = [i \in 0 .. n |-> IF i = 0 THEN {} ELSE Next1(i, g[i - 1])]
  BY <1>6, <1>7
<1>9. MaximalRoles = g[n]
  BY <1>1, <1>7 DEF MaximalRoles, Next1
<1>10. DOMAIN g = 0 .. n /\ g[0] = {} /\ \A i \in 1 .. n : g[i] = Next1(i, g[i - 1])
  <2>1. DOMAIN g = 0 .. n /\ \A i \in 0 .. n : g[i] = IF i = 0 THEN {} ELSE Next1(i, g[i - 1])
    BY <1>8
  <2>2. 0 \in 0 .. n /\ \A i \in 1 .. n : i \in 0 .. n /\ i # 0
    OBVIOUS
  <2> QED
    BY <2>1, <2>2
<1>11. IsTaken(g)
  BY <1>1, <1>10 DEF IsTaken, Next1
<1> QED
  BY <1>1, <1>9, <1>11

\* A role that is not disabled gets along with those selected.
LEMMA EnabledGetsAlong ==
  ASSUME NEW R, GetAlong(R), NEW r, ~IsRoleDisabled(r, R)
  PROVE  GetAlong(R \cup {r})
  BY DEF GetAlong, IsRoleDisabled

\* What Select All takes gets along, and no role could be added to it.
LEMMA SelectAllIsMaximal ==
  /\ GetAlong(MaximalRoles)
  /\ \A r \in Roles \ MaximalRoles : ~GetAlong(MaximalRoles \cup {r})
<1>1. PICK n \in Nat : n = Len(Library) /\ DOMAIN Library = 1 .. n
  BY FormAssumption
<1>2. PICK taken : IsTaken(taken) /\ MaximalRoles = taken[n]
  BY <1>1, TakenInTurn
<1> DEFINE Good(k) ==
             /\ GetAlong(taken[k])
             /\ \A i \in 1 .. k : taken[i - 1] \subseteq taken[k]
                                  /\ (Library[i] \in taken[k] \/ IsRoleDisabled(Library[i], taken[i - 1]))
           S == {k \in Nat : k <= n => Good(k)}
<1>3. 0 \in S
  BY <1>2 DEF IsTaken, GetAlong
<1>4. ASSUME NEW k \in Nat, k \in S PROVE k + 1 \in S
  <2> SUFFICES ASSUME k + 1 <= n PROVE Good(k + 1)
    OBVIOUS
  <2>1. Good(k) /\ k + 1 \in 1 .. n /\ (k + 1) - 1 = k
    BY <1>4
  <2>2. taken[k + 1] = taken[k] \cup (IF IsRoleDisabled(Library[k + 1], taken[k]) THEN {} ELSE {Library[k + 1]})
    BY <1>1, <1>2, <2>1 DEF IsTaken
  <2>3. GetAlong(taken[k + 1])
    <3>1. CASE IsRoleDisabled(Library[k + 1], taken[k])
      BY <2>1, <2>2, <3>1
    <3>2. CASE ~IsRoleDisabled(Library[k + 1], taken[k])
      <4>1. GetAlong(taken[k] \cup {Library[k + 1]})
        BY <2>1, <3>2, EnabledGetsAlong
      <4> QED
        BY <2>2, <3>2, <4>1
    <3> QED
      BY <3>1, <3>2
  <2>4. taken[k] \subseteq taken[k + 1]
        /\ (Library[k + 1] \in taken[k + 1] \/ IsRoleDisabled(Library[k + 1], taken[k]))
    BY <2>2
  <2>5. ASSUME NEW i \in 1 .. k + 1
        PROVE  taken[i - 1] \subseteq taken[k + 1]
               /\ (Library[i] \in taken[k + 1] \/ IsRoleDisabled(Library[i], taken[i - 1]))
    <3>1. CASE i = k + 1
      BY <2>1, <2>4, <3>1
    <3>2. CASE i \in 1 .. k
      BY <2>1, <2>4, <3>2
    <3> QED
      BY <3>1, <3>2
  <2> QED
    BY <2>3, <2>5
<1>5. n \in S
  <2> HIDE DEF S
  <2> QED
    BY <1>3, <1>4, SetInduction
<1>6. GetAlong(MaximalRoles)
  BY <1>2, <1>5
<1>7. ASSUME NEW r \in Roles \ MaximalRoles PROVE ~GetAlong(MaximalRoles \cup {r})
  <2>1. PICK i \in 1 .. n : r = Library[i]
    BY <1>1 DEF Roles, ToSet
  <2>2. IsRoleDisabled(r, taken[i - 1]) /\ taken[i - 1] \subseteq MaximalRoles
    BY <1>2, <1>5, <1>7, <2>1
  <2>3. PICK s \in MaximalRoles : {<<s, r>>, <<r, s>>} \cap Incompatible # {}
    BY <2>2 DEF IsRoleDisabled
  <2>4. s # r
    BY <1>7
  <2> QED
    BY <2>3, <2>4 DEF GetAlong
<1> QED
  BY <1>6, <1>7

-----------------------------------------------------------------------------
\* The entries of a dataset are finitely many.
LEMMA EntriesAreFinite ==
  ASSUME NEW d \in ToSet(DatasetNames)
  PROVE  IsFiniteSet(LoadGoldenDatasets(d)) /\ PrCount(d) \in Nat
<1>1. LoadGoldenDatasets(d) \subseteq UNION {f.entries : f \in Content[d]}
  BY DEF LoadGoldenDatasets
<1>2. IsFiniteSet(LoadGoldenDatasets(d))
  BY <1>1, FS_Subset, DatasetAssumption
<1> QED
  BY <1>2, FS_CardinalityType DEF PrCount

\* The dataset a benchmark starts from is one of them.
LEMMA FirstDatasetIsOne == FirstDataset \in ToSet(DatasetNames) \cup {NoValue}
<1>1. PICK n \in Nat : n = Len(DatasetNames) /\ DOMAIN DatasetNames = 1 .. n
  BY DatasetAssumption
<1>2. PICK m : m = [i \in 1 .. n |-> PrCount(DatasetNames[i])]
  OBVIOUS
<1>3. \A i \in 1 .. n : m[i] \in Nat
  <2> TAKE i \in 1 .. n
  <2>1. DatasetNames[i] \in ToSet(DatasetNames)
    BY <1>1 DEF ToSet
  <2> QED
    BY <1>2, <2>1, EntriesAreFinite
<1>4. \A i, j \in 1 .. n : Fuller(i, j) <=> m[i] > m[j] \/ (m[i] = m[j] /\ i < j)
  BY <1>2 DEF Fuller
<1> DEFINE First(i, k) == \A j \in 1 .. k : ~Fuller(j, i)
           S == {k \in Nat : k \in 1 .. n => \E i \in 1 .. k : First(i, k)}
<1>5. 0 \in S
  OBVIOUS
<1>6. ASSUME NEW k \in Nat, k \in S PROVE k + 1 \in S
  <2> SUFFICES ASSUME k + 1 \in 1 .. n PROVE \E i \in 1 .. k + 1 : First(i, k + 1)
    OBVIOUS
  <2>1. CASE k = 0
    <3>1. ~Fuller(1, 1)
      BY <1>3, <1>4, <2>1
    <3> QED
      BY <2>1, <3>1
  <2>2. CASE k # 0
    <3>1. PICK i \in 1 .. k : First(i, k)
      BY <1>6, <2>2
    <3>2. i \in 1 .. n /\ m[i] \in Nat /\ m[k + 1] \in Nat /\ i < k + 1
          /\ \A j \in 1 .. k : j \in 1 .. n /\ m[j] \in Nat /\ j < k + 1
      BY <1>3
    <3>3. 1 .. k + 1 = (1 .. k) \cup {k + 1}
      OBVIOUS
    <3>4. CASE ~Fuller(k + 1, i)
      BY <3>1, <3>3, <3>4
    <3>5. CASE Fuller(k + 1, i)
      <4>1. m[k + 1] > m[i]
        BY <1>4, <3>2, <3>5
      <4>2. \A j \in 1 .. k : m[j] <= m[i]
        BY <1>4, <3>1, <3>2
      <4>3. \A j \in 1 .. k : ~Fuller(j, k + 1)
        BY <1>4, <3>2, <4>1, <4>2
      <4>4. ~Fuller(k + 1, k + 1)
        BY <1>4, <3>2
      <4>5. k + 1 \in 1 .. k + 1 /\ First(k + 1, k + 1)
        BY <3>3, <4>3, <4>4
      <4> QED
        BY <4>5
    <3> QED
      BY <3>4, <3>5
  <2> QED
    BY <2>1, <2>2
<1>7. n \in S
  <2> HIDE DEF S
  <2> QED
    BY <1>5, <1>6, SetInduction
<1>8. CASE n = 0
  <2>1. ListDatasets = <<>>
    BY <1>1, <1>8 DEF ListDatasets
  <2> QED
    BY <2>1 DEF FirstDataset
<1>9. CASE n # 0
  <2>1. PICK i \in 1 .. n : First(i, n)
    BY <1>7, <1>9
  <2>2. {j \in 1 .. n : Fuller(j, i)} = {}
    BY <2>1
  <2>3. Cardinality({j \in 1 .. n : Fuller(j, i)}) = 0
    BY <2>2, FS_EmptySet
  <2>4. PICK x : x = CHOOSE h \in 1 .. n : Cardinality({j \in 1 .. n : Fuller(j, h)}) = 0
    OBVIOUS
  <2>5. x \in 1 .. n
    BY <2>3, <2>4
  <2>6. ListDatasets[1] = DatasetNames[x]
    BY <1>1, <1>9, <2>4 DEF ListDatasets
  <2>7. Head(ListDatasets) = DatasetNames[x]
    BY <2>6
  <2> QED
    BY <1>1, <2>5, <2>7 DEF FirstDataset, ToSet
<1> QED
  BY <1>8, <1>9

\* A list of a dataset has its entries, each once.
LEMMA ListIsWhole ==
  ASSUME NEW d \in ToSet(DatasetNames), NEW q \in ListDatasetPrs(d)
  PROVE  /\ q \in Seq(LoadGoldenDatasets(d)) /\ Len(q) = PrCount(d)
         /\ ToSet(q) = LoadGoldenDatasets(d)
<1>1. PICK L : L = LoadGoldenDatasets(d)
  OBVIOUS
<1>2. PICK n \in Nat : n = PrCount(d) /\ n = Cardinality(L) /\ IsFiniteSet(L)
  BY <1>1, EntriesAreFinite DEF PrCount
<1>3. q \in [1 .. n -> L] /\ \A i, j \in 1 .. n : i # j => q[i] # q[j]
  BY <1>1, <1>2 DEF ListDatasetPrs, SetToSeqs
<1>4. q \in Injection(1 .. n, L)
  BY <1>3 DEF Injection, IsInjective
<1>5. Cardinality(1 .. n) = n
  <2>1. 1 \in Int /\ n \in Int /\ (1 > n => n = 0)
    OBVIOUS
  <2> QED
    BY <2>1, FS_Interval
<1>6. q \in Surjection(1 .. n, L)
  BY <1>2, <1>4, <1>5, FS_Injection
<1>7. q \in Seq(L) /\ Len(q) = n /\ DOMAIN q = 1 .. n
  BY <1>3
<1>8. ToSet(q) = L
  BY <1>3, <1>6, <1>7 DEF Surjection, ToSet
<1> QED
  BY <1>1, <1>2, <1>7, <1>8

-----------------------------------------------------------------------------
Fields == {"target", "models", "model", "offered", "effort", "roles", "prs", "ticked",
           "loading", "submitting"}

\* What a form is about, and the list that is shown for it.
FormIsOfOne(f) ==
  /\ DOMAIN f = Fields
  /\ f.target \in Targets \cup {NoValue}
  /\ f.ticked \subseteq ToSet(f.prs)
  /\ f.prs = <<>> \/ \E t \in Targets : f.prs \in Lists(t)

\* A list is asked for with nothing on the screen.
ListIsAwaited ==
  /\ asked \in Targets \cup {NoValue}
  /\ asked # NoValue => form.loading /\ form.prs = <<>>

CallIsOfOneList ==
  call # NoValue =>
    call.prs # {} /\ \E t \in Targets : \E q \in Lists(t) : call.prs \subseteq ToSet(q)

FormInv ==
  /\ kind \in {"review", "benchmark"}
  /\ FormIsOfOne(form)
  /\ stored = Persisted(form)
  /\ ListIsAwaited
  /\ CallIsOfOneList

\* Every exclusion that is selected, or will be, was restored.
RolesAreInherited == Outstanding \subseteq inherited /\ inherited \subseteq Incompatible

\* Of no list nothing is ticked.
LEMMA NothingChosen == ToSet(<<>>) = {}
  BY DEF ToSet

\* A form that is opened is about what is stored for it.
LEMMA OpenedIsOfOne ==
  ASSUME kind \in {"review", "benchmark"}, NEW models, NEW s,
         s.target \in Targets \cup {NoValue}
  PROVE  FormIsOfOne(Opened(kind, models, s))
<1>1. PICK f : f = Opened(kind, models, s)
  OBVIOUS
<1>2. /\ DOMAIN f = Fields
      /\ f.target = OrElse(s.target, IF kind = "benchmark" THEN FirstDataset ELSE NoValue)
      /\ f.prs = <<>> /\ f.ticked = {}
  BY <1>1 DEF Opened, Fields
<1>3. kind = "benchmark" => Targets = ToSet(DatasetNames)
  BY DEF Targets
<1>4. f.target \in Targets \cup {NoValue}
  BY <1>2, <1>3, FirstDatasetIsOne DEF OrElse
<1> QED
  BY <1>1, <1>2, <1>4 DEF FormIsOfOne

\* A form starts with what is stored for it.
LEMMA FormStarts == FormInit => FormInv /\ RolesAreInherited
<1> SUFFICES ASSUME FormInit PROVE FormInv /\ RolesAreInherited
  OBVIOUS
<1>1. kind \in {"review", "benchmark"} /\ asked = NoValue /\ call = NoValue
  BY DEF FormInit
<1>2. PICK rows \in Allowlists, roles \in {NoValue} \cup SUBSET (Roles \cup {Gone}) :
        /\ form = Opened(kind, Allowlisted(rows), [NothingStored EXCEPT !.roles = roles])
        /\ stored = Persisted(form)
        /\ frame = roles
  BY DEF FormInit
<1>3. PICK s : s = [NothingStored EXCEPT !.roles = roles]
  OBVIOUS
<1>4. s.target = NoValue
  BY <1>3 DEF NothingStored
<1>5. FormIsOfOne(form)
  BY <1>1, <1>2, <1>3, <1>4, OpenedIsOfOne
<1>6. RolesAreInherited
  BY DEF FormInit, RolesAreInherited, Outstanding, Exclusions
<1> QED
  BY <1>1, <1>2, <1>5, <1>6 DEF FormInv, ListIsAwaited, CallIsOfOneList

\* The list of a target is a sequence.
LEMMA ListsAreSequences ==
  ASSUME kind \in {"review", "benchmark"}, NEW t \in Targets, NEW prs \in Lists(t)
  PROVE  prs \in Seq(ToSet(prs))
<1>1. CASE kind = "review"
  BY <1>1, FormAssumption DEF Targets, Lists
<1>2. CASE kind = "benchmark"
  <2>1. t \in ToSet(DatasetNames)
    BY <1>2 DEF Targets
  <2>2. PICK q \in ListDatasetPrs(t) : prs = [i \in DOMAIN q |-> q[i].url]
    BY <1>2 DEF Lists
  <2>3. PICK n \in Nat : n = Len(q) /\ DOMAIN q = 1 .. n
    BY <2>1, ListIsWhole
  <2>4. prs = [i \in 1 .. n |-> prs[i]] /\ \A i \in 1 .. n : prs[i] \in ToSet(prs)
    BY <2>2, <2>3 DEF ToSet
  <2> QED
    BY <2>4
<1> QED
  BY <1>1, <1>2

\* What is ticked first is in the list.
LEMMA TickedFirst ==
  ASSUME NEW prs, prs \in Seq(ToSet(prs))
  PROVE  InitiallyTicked(prs) \subseteq ToSet(prs)
<1>1. PICK n \in Nat : n = Len(prs) /\ DOMAIN prs = 1 .. n
  OBVIOUS
<1>2. PICK m : m = Min({1, n})
  OBVIOUS
<1>3. m = IF 1 <= n THEN 1 ELSE n
  BY <1>2 DEF Min
<1>4. m \in Nat /\ m <= n
  BY <1>3
<1>5. DOMAIN SubSeq(prs, 1, m) = 1 .. m /\ \A i \in 1 .. m : SubSeq(prs, 1, m)[i] = prs[i]
  BY <1>1, <1>4
<1>6. ToSet(SubSeq(prs, 1, m)) \subseteq ToSet(prs)
  BY <1>1, <1>4, <1>5 DEF ToSet
<1> QED
  BY <1>1, <1>2, <1>6 DEF InitiallyTicked

-----------------------------------------------------------------------------
\* A form that is changed and stored, with nothing else.
LEMMA SetsForm ==
  ASSUME FormInv, NEW f, Sets(f), kind' = kind, FormIsOfOne(f),
         asked' = NoValue \/ (asked' = asked /\ f.loading = form.loading /\ f.prs = form.prs)
           \/ (asked' = f.target /\ f.loading /\ f.prs = <<>>),
         call' = call \/ call' = NoValue
  PROVE  FormInv'
<1>1. form' = f /\ stored' = Persisted(f)
  BY DEF Sets
<1>2. Targets' = Targets /\ \A t : Lists(t)' = Lists(t)
  BY DEF Targets, Lists
<1>3. FormIsOfOne(form)' /\ FormIsOfOne(form)
  BY <1>1, <1>2 DEF FormIsOfOne, FormInv
<1>4. stored' = Persisted(form')
  BY <1>1
<1>5. ListIsAwaited'
  BY <1>1, <1>2 DEF FormInv, ListIsAwaited, FormIsOfOne
<1>6. CallIsOfOneList'
  BY <1>2 DEF FormInv, CallIsOfOneList
<1> QED
  BY <1>3, <1>4, <1>5, <1>6 DEF FormInv, FormIsOfOne, Targets, Lists

\* What leaves the form alone keeps it.
LEMMA StaysForm ==
  ASSUME FormInv, UNCHANGED <<kind, form, stored, frame, asked, call>>
  PROVE  FormInv'
  BY DEF FormInv, FormIsOfOne, ListIsAwaited, CallIsOfOneList, Targets, Lists

\* The page is loaded again.
LEMMA ReopenStep ==
  ASSUME FormInv, Reopen
  PROVE  FormInv'
<1>1. PICK rows \in Allowlists : Sets(Opened(kind, Allowlisted(rows), stored))
  BY DEF Reopen
<1>2. asked' = NoValue /\ call' = NoValue /\ kind' = kind
  BY DEF Reopen
<1>3. stored.target \in Targets \cup {NoValue}
  BY DEF FormInv, Persisted, FormIsOfOne
<1>4. FormIsOfOne(Opened(kind, Allowlisted(rows), stored))
  BY <1>3, OpenedIsOfOne DEF FormInv
<1> QED
  BY <1>1, <1>2, <1>4, SetsForm

\* A field that says neither what the form is about nor what is ticked.
LEMMA FieldsOfOne ==
  ASSUME FormInv, NEW f, DOMAIN f = Fields,
         f.target \in Targets \cup {NoValue}, f.prs = form.prs,
         f.ticked \subseteq ToSet(form.prs)
  PROVE  FormIsOfOne(f)
  BY DEF FormInv, FormIsOfOne

\* The fields, the roles and the ticks.
LEMMA EditSteps ==
  ASSUME FormInv,
         \/ RestoreRoles \/ EditTarget \/ PickModel \/ PickEffort
         \/ ToggleRole \/ SelectAllRoles \/ DeselectAllRoles \/ TickPr \/ TickAllPrs
  PROVE  FormInv'
<1>1. DOMAIN form = Fields /\ form.target \in Targets \cup {NoValue}
      /\ form.ticked \subseteq ToSet(form.prs)
  BY DEF FormInv, FormIsOfOne
<1>2. ASSUME NEW t \in Targets, Edits([form EXCEPT !.target = t]) PROVE FormInv'
  <2>1. PICK f : f = [form EXCEPT !.target = t]
    OBVIOUS
  <2>2. DOMAIN f = Fields /\ f.target = t /\ f.roles = form.roles /\ f.prs = form.prs
        /\ f.ticked = form.ticked /\ f.loading = form.loading
    BY <1>1, <2>1 DEF Fields
  <2> QED
    BY <1>1, <1>2, <2>1, <2>2, FieldsOfOne, SetsForm DEF Edits
<1>3. ASSUME NEW m, NEW o, Edits([form EXCEPT !.model = m, !.offered = o]) PROVE FormInv'
  <2>1. PICK f : f = [form EXCEPT !.model = m, !.offered = o]
    OBVIOUS
  <2>2. DOMAIN f = Fields /\ f.target = form.target /\ f.roles = form.roles /\ f.prs = form.prs
        /\ f.ticked = form.ticked /\ f.loading = form.loading
    BY <1>1, <2>1 DEF Fields
  <2> QED
    BY <1>1, <1>3, <2>1, <2>2, FieldsOfOne, SetsForm DEF Edits
<1>4. ASSUME NEW e, Edits([form EXCEPT !.effort = e]) PROVE FormInv'
  <2>1. PICK f : f = [form EXCEPT !.effort = e]
    OBVIOUS
  <2>2. DOMAIN f = Fields /\ f.target = form.target /\ f.roles = form.roles /\ f.prs = form.prs
        /\ f.ticked = form.ticked /\ f.loading = form.loading
    BY <1>1, <2>1 DEF Fields
  <2> QED
    BY <1>1, <1>4, <2>1, <2>2, FieldsOfOne, SetsForm DEF Edits
<1>5. ASSUME NEW R, Sets([form EXCEPT !.roles = R]), kind' = kind, asked' = asked, call' = call
      PROVE  FormInv'
  <2>1. PICK f : f = [form EXCEPT !.roles = R]
    OBVIOUS
  <2>2. DOMAIN f = Fields /\ f.target = form.target /\ f.roles = R /\ f.prs = form.prs
        /\ f.ticked = form.ticked /\ f.loading = form.loading
    BY <1>1, <2>1 DEF Fields
  <2>3. FormIsOfOne(f)
    BY <1>1, <1>5, <2>2, FieldsOfOne
  <2> QED
    BY <1>5, <2>1, <2>2, <2>3, SetsForm
<1>6. ASSUME NEW T, T \subseteq ToSet(form.prs), Edits([form EXCEPT !.ticked = T])
      PROVE  FormInv'
  <2>1. PICK f : f = [form EXCEPT !.ticked = T]
    OBVIOUS
  <2>2. DOMAIN f = Fields /\ f.target = form.target /\ f.roles = form.roles /\ f.prs = form.prs
        /\ f.ticked = T /\ f.loading = form.loading
    BY <1>1, <2>1 DEF Fields
  <2> QED
    BY <1>1, <1>6, <2>1, <2>2, FieldsOfOne, SetsForm DEF Edits
<1>7. CASE RestoreRoles
  BY <1>5, <1>7 DEF RestoreRoles
<1>8. CASE EditTarget
  BY <1>2, <1>8 DEF EditTarget
<1>9. CASE PickModel
  BY <1>3, <1>9 DEF PickModel
<1>10. CASE PickEffort
  BY <1>4, <1>10 DEF PickEffort
<1>11. CASE ToggleRole
  <2>1. PICK r \in Roles : Edits([form EXCEPT !.roles = Flip(@, r)])
    BY <1>11 DEF ToggleRole
  <2>2. PICK R : R = Flip(form.roles, r)
    OBVIOUS
  <2>3. [form EXCEPT !.roles = Flip(@, r)] = [form EXCEPT !.roles = R]
    BY <2>2
  <2> QED
    BY <1>5, <2>1, <2>3 DEF Edits
<1>12. CASE SelectAllRoles
  BY <1>5, <1>12 DEF SelectAllRoles, Edits
<1>13. CASE DeselectAllRoles
  BY <1>5, <1>13 DEF DeselectAllRoles, Edits
<1>14. CASE TickPr
  <2>1. PICK p \in ToSet(form.prs) :
          Edits([form EXCEPT !.ticked = IF kind = "review" THEN {p} ELSE Flip(@, p)])
    BY <1>14 DEF TickPr
  <2>2. PICK T : T = IF kind = "review" THEN {p} ELSE Flip(form.ticked, p)
    OBVIOUS
  <2>3. T \subseteq ToSet(form.prs)
    BY <1>1, <2>1, <2>2 DEF Flip
  <2>4. [form EXCEPT !.ticked = IF kind = "review" THEN {p} ELSE Flip(@, p)] = [form EXCEPT !.ticked = T]
    BY <2>2
  <2> QED
    BY <1>6, <2>1, <2>3, <2>4
<1>15. CASE TickAllPrs
  <2>1. PICK T \in {{}, ToSet(form.prs)} : Edits([form EXCEPT !.ticked = T])
    BY <1>15 DEF TickAllPrs
  <2>2. T \subseteq ToSet(form.prs)
    BY <2>1
  <2> QED
    BY <1>6, <2>1, <2>2
<1> QED
  BY <1>7, <1>8, <1>9, <1>10, <1>11, <1>12, <1>13, <1>14, <1>15

\* A list is asked for, and the one that is shown goes.
LEMMA LoadStep ==
  ASSUME FormInv, LoadPrs
  PROVE  FormInv'
<1>1. FormIsOfOne(form)
  BY DEF FormInv
<1>2. kind' = kind /\ frame' = frame /\ call' = call
  BY DEF LoadPrs
<1>3. CASE form.target = NoValue
  <2>1. UNCHANGED <<kind, form, stored, frame, asked, call>>
    BY <1>2, <1>3 DEF LoadPrs
  <2> QED
    BY <2>1, StaysForm
<1>4. CASE form.target # NoValue
  <2>1. PICK f : f = [form EXCEPT !.loading = TRUE, !.prs = <<>>, !.ticked = {}]
    OBVIOUS
  <2>2. DOMAIN f = Fields /\ f.target = form.target /\ f.roles = form.roles /\ f.prs = <<>>
        /\ f.ticked = {} /\ f.loading
    BY <1>1, <2>1 DEF Fields, FormIsOfOne
  <2>3. FormIsOfOne(f)
    BY <1>1, <2>2 DEF FormIsOfOne
  <2>4. Sets(f) /\ asked' = f.target
    BY <1>4, <2>1, <2>2 DEF LoadPrs
  <2> QED
    BY <1>2, <2>2, <2>3, <2>4, SetsForm
<1> QED
  BY <1>3, <1>4

\* Whatever was asked for, its answer is ticked within it.
LEMMA AnswerStep ==
  ASSUME FormInv, ListAnswer
  PROVE  FormInv'
<1>1. FormIsOfOne(form) /\ form.prs = <<>> /\ asked \in Targets
  BY DEF FormInv, ListIsAwaited, ListAnswer
<1>2. form.ticked = {}
  BY <1>1, NothingChosen DEF FormIsOfOne
<1>3. kind' = kind /\ frame' = frame /\ call' = call /\ asked' = NoValue
  BY DEF ListAnswer
<1>4. ASSUME NEW prs \in Lists(asked),
             Sets([form EXCEPT !.loading = FALSE, !.prs = prs,
                               !.ticked = IF prs = <<>> THEN @ ELSE InitiallyTicked(prs)])
      PROVE  FormInv'
  <2>1. PICK f : f = [form EXCEPT !.loading = FALSE, !.prs = prs,
                                  !.ticked = IF prs = <<>> THEN @ ELSE InitiallyTicked(prs)]
    OBVIOUS
  <2>2. DOMAIN f = Fields /\ f.target = form.target /\ f.roles = form.roles /\ f.prs = prs
        /\ f.ticked = IF prs = <<>> THEN {} ELSE InitiallyTicked(prs)
    BY <1>1, <1>2, <2>1 DEF Fields, FormIsOfOne
  <2>3. f.ticked \subseteq ToSet(prs)
    BY <1>1, <2>2, ListsAreSequences, TickedFirst DEF FormInv
  <2>4. FormIsOfOne(f)
    BY <1>1, <2>2, <2>3 DEF FormIsOfOne
  <2> QED
    BY <1>3, <1>4, <2>1, <2>4, SetsForm
<1>5. ASSUME Sets([form EXCEPT !.loading = FALSE]) PROVE FormInv'
  <2>1. PICK f : f = [form EXCEPT !.loading = FALSE]
    OBVIOUS
  <2>2. DOMAIN f = Fields /\ f.target = form.target /\ f.roles = form.roles /\ f.prs = form.prs
        /\ f.ticked = form.ticked
    BY <1>1, <2>1 DEF Fields, FormIsOfOne
  <2>3. FormIsOfOne(f)
    BY <1>1, <2>2 DEF FormIsOfOne
  <2> QED
    BY <1>3, <1>5, <2>1, <2>3, SetsForm
<1> QED
  BY <1>4, <1>5 DEF ListAnswer

\* What is submitted is what is ticked in the list that is shown.
LEMMA SubmitStep ==
  ASSUME FormInv, Submit
  PROVE  FormInv'
<1>1. FormIsOfOne(form) /\ form.ticked # {}
  BY DEF FormInv, Submit, SubmitDisabled
<1>2. kind' = kind /\ frame' = frame /\ asked' = asked
  BY DEF Submit
<1>3. CASE UNCHANGED <<form, stored, call>>
  <2>1. UNCHANGED <<kind, form, stored, frame, asked, call>>
    BY <1>2, <1>3
  <2> QED
    BY <2>1, StaysForm
<1>4. CASE ~UNCHANGED <<form, stored, call>>
  <2>1. /\ Sets([form EXCEPT !.submitting = TRUE])
        /\ call' = [target |-> form.target, prs |-> form.ticked, known |-> form.roles \subseteq Roles]
    BY <1>4 DEF Submit
  <2>2. PICK f : f = [form EXCEPT !.submitting = TRUE]
    OBVIOUS
  <2>3. DOMAIN f = Fields /\ f.target = form.target /\ f.roles = form.roles /\ f.prs = form.prs
        /\ f.ticked = form.ticked /\ f.loading = form.loading
    BY <1>1, <2>2 DEF Fields, FormIsOfOne
  <2>4. FormIsOfOne(f)
    BY <1>1, <2>3 DEF FormIsOfOne
  <2>5. form.prs # <<>>
    BY <1>1, NothingChosen DEF FormIsOfOne
  <2>6. Targets' = Targets /\ \A t : Lists(t)' = Lists(t)
    BY <1>2 DEF Targets, Lists
  <2>7. call'.prs = form.ticked /\ \E t \in Targets : form.prs \in Lists(t)
    BY <1>1, <2>1, <2>5 DEF FormIsOfOne
  <2>8. CallIsOfOneList'
    BY <1>1, <2>6, <2>7 DEF CallIsOfOneList, FormIsOfOne
  <2>9. form' = f /\ stored' = Persisted(f)
    BY <2>1, <2>2 DEF Sets
  <2>10. FormIsOfOne(form)'
    BY <2>4, <2>6, <2>9 DEF FormIsOfOne
  <2>11. ListIsAwaited'
    BY <1>2, <2>3, <2>6, <2>9 DEF FormInv, ListIsAwaited
  <2> QED
    BY <1>2, <2>8, <2>9, <2>10, <2>11 DEF FormInv
<1> QED
  BY <1>3, <1>4

\* The form is opened anew, or may be submitted again.
LEMMA SubmitAnswerStep ==
  ASSUME FormInv, SubmitAnswer
  PROVE  FormInv'
<1>1. kind' = kind /\ call' = NoValue /\ FormIsOfOne(form) /\ kind \in {"review", "benchmark"}
  BY DEF SubmitAnswer, FormInv
<1>2. ASSUME NEW rows \in Allowlists, Sets(Opened(kind, Allowlisted(rows), NothingStored)),
             frame' = NoValue, asked' = NoValue
      PROVE  FormInv'
  <2>1. FormIsOfOne(Opened(kind, Allowlisted(rows), NothingStored))
    BY <1>1, OpenedIsOfOne DEF NothingStored
  <2> QED
    BY <1>1, <1>2, <2>1, SetsForm
<1>3. ASSUME Sets([form EXCEPT !.submitting = FALSE]), UNCHANGED <<frame, asked>>
      PROVE  FormInv'
  <2>1. PICK f : f = [form EXCEPT !.submitting = FALSE]
    OBVIOUS
  <2>2. DOMAIN f = Fields /\ f.target = form.target /\ f.roles = form.roles /\ f.prs = form.prs
        /\ f.ticked = form.ticked /\ f.loading = form.loading
    BY <1>1, <2>1 DEF Fields, FormIsOfOne
  <2>3. FormIsOfOne(f)
    BY <1>1, <2>2 DEF FormIsOfOne
  <2> QED
    BY <1>1, <1>3, <2>1, <2>2, <2>3, SetsForm
<1> QED
  BY <1>2, <1>3 DEF SubmitAnswer

-----------------------------------------------------------------------------
\* Roles that get along exclude none of each other.
LEMMA NoneExcluded ==
  ASSUME NEW R, GetAlong(R)
  PROVE  Exclusions(R) = {}
<1> SUFFICES ASSUME NEW x \in Incompatible, x[1] # x[2], {x[1], x[2]} \subseteq R PROVE FALSE
  BY DEF Exclusions
<1>1. x = <<x[1], x[2]>>
  BY FormAssumption
<1> QED
  BY <1>1 DEF GetAlong

\* A role that is not disabled excludes none, and a deselected one less than before.
LEMMA FlipExcludes ==
  ASSUME NEW R, NEW r, ~IsRoleDisabled(r, R)
  PROVE  Exclusions(Flip(R, r)) \subseteq Exclusions(R)
<1> SUFFICES ASSUME NEW x \in Incompatible, x[1] # x[2], {x[1], x[2]} \subseteq Flip(R, r)
             PROVE  {x[1], x[2]} \subseteq R
  BY DEF Exclusions
<1>1. x = <<x[1], x[2]>>
  BY FormAssumption
<1>2. CASE r \in R
  BY <1>2 DEF Flip
<1>3. CASE r \notin R
  BY <1>1, <1>3 DEF Flip, IsRoleDisabled
<1> QED
  BY <1>2, <1>3

\* What is outstanding after a change of the roles and of the frame.
LEMMA OutstandingOf ==
  ASSUME NEW R, NEW w, form'.roles = R, frame' = w,
         Exclusions(R) \subseteq Outstanding,
         w # NoValue => Exclusions(w) \subseteq Outstanding
  PROVE  Outstanding' \subseteq Outstanding
<1>1. \A S : Exclusions(S)' = Exclusions(S)
  BY DEF Exclusions
<1>2. Exclusions({}) = {}
  BY DEF Exclusions
<1>3. Exclusions(OrElse(w, {})) \subseteq Outstanding
  BY <1>2 DEF OrElse
<1>4. Outstanding' = Exclusions(R) \cup Exclusions(OrElse(w, {}))
  BY DEF Outstanding, Exclusions, OrElse
<1> QED
  BY <1>3, <1>4

\* No step of a form makes an exclusion that was neither selected nor awaited.
LEMMA NothingNewExcludes ==
  ASSUME FormInv, FormStep
  PROVE  Outstanding' \subseteq Outstanding
<1>1. DOMAIN form = Fields /\ stored.roles = form.roles
  BY DEF FormInv, FormIsOfOne, Persisted
<1>2. /\ Exclusions(form.roles) \subseteq Outstanding
      /\ frame # NoValue => Exclusions(frame) \subseteq Outstanding
  BY DEF Outstanding, OrElse
<1>3. Exclusions({}) = {} /\ \A s, m : Opened(kind, m, s).roles = OrElse(s.roles, {})
  BY DEF Exclusions, Opened
<1>4. ASSUME form'.roles = form.roles, frame' = frame PROVE Outstanding' \subseteq Outstanding
  BY <1>2, <1>4, OutstandingOf
<1>5. CASE Reopen
  <2>1. frame' = form.roles /\ form'.roles = OrElse(form.roles, {})
    BY <1>1, <1>3, <1>5 DEF Reopen, Sets
  <2>2. Exclusions(form'.roles) \subseteq Outstanding
    BY <1>2, <1>3, <2>1 DEF OrElse
  <2> QED
    BY <1>2, <2>1, <2>2, OutstandingOf
<1>6. CASE RestoreRoles
  <2>1. frame # NoValue /\ frame' = NoValue /\ form'.roles = frame
    BY <1>1, <1>6 DEF RestoreRoles, Sets, Fields
  <2> QED
    BY <1>2, <2>1, OutstandingOf
<1>7. CASE ToggleRole
  <2>1. PICK r \in Roles : ~IsRoleDisabled(r, form.roles) /\ Edits([form EXCEPT !.roles = Flip(@, r)])
    BY <1>7 DEF ToggleRole
  <2>2. form'.roles = Flip(form.roles, r) /\ frame' = frame
    BY <1>1, <2>1 DEF Edits, Sets, Fields
  <2>3. Exclusions(form'.roles) \subseteq Outstanding
    BY <1>2, <2>1, <2>2, FlipExcludes
  <2> QED
    BY <1>2, <2>2, <2>3, OutstandingOf
<1>8. CASE SelectAllRoles
  <2>1. form'.roles = MaximalRoles /\ frame' = frame
    BY <1>1, <1>8 DEF SelectAllRoles, Edits, Sets, Fields
  <2>2. Exclusions(form'.roles) = {}
    BY <2>1, SelectAllIsMaximal, NoneExcluded
  <2> QED
    BY <1>2, <2>1, <2>2, OutstandingOf
<1>9. CASE DeselectAllRoles
  <2>1. form'.roles = {} /\ frame' = frame
    BY <1>1, <1>9 DEF DeselectAllRoles, Edits, Sets, Fields
  <2> QED
    BY <1>2, <1>3, <2>1, OutstandingOf
<1>10. CASE EditTarget \/ PickModel \/ PickEffort
  BY <1>1, <1>4, <1>10 DEF EditTarget, PickModel, PickEffort, Edits, Sets, Fields
<1>11. CASE LoadPrs \/ ListAnswer
  BY <1>1, <1>4, <1>11 DEF LoadPrs, ListAnswer, Sets, Fields
<1>12. CASE TickPr \/ TickAllPrs
  BY <1>1, <1>4, <1>12 DEF TickPr, TickAllPrs, Edits, Sets, Fields
<1>13. CASE Submit
  BY <1>1, <1>4, <1>13 DEF Submit, Sets, Fields
<1>14. CASE SubmitAnswer
  <2>1. CASE UNCHANGED <<frame, asked>> /\ Sets([form EXCEPT !.submitting = FALSE])
    BY <1>1, <1>4, <2>1 DEF Sets, Fields
  <2>2. CASE /\ \E rows \in Allowlists : Sets(Opened(kind, Allowlisted(rows), NothingStored))
             /\ frame' = NoValue
    <3>1. form'.roles = {}
      BY <1>3, <2>2 DEF Sets, NothingStored, OrElse
    <3> QED
      BY <1>3, <2>2, <3>1, OutstandingOf
  <2> QED
    BY <1>14, <2>1, <2>2 DEF SubmitAnswer
<1> QED
  BY <1>5, <1>6, <1>7, <1>8, <1>9, <1>10, <1>11, <1>12, <1>13, <1>14 DEF FormStep

\* What excludes was inherited, after every step.
LEMMA InheritedStays == FormInv /\ RolesAreInherited /\ [FormNext]_formVars => RolesAreInherited'
<1> SUFFICES ASSUME FormInv, RolesAreInherited, [FormNext]_formVars PROVE RolesAreInherited'
  OBVIOUS
<1>1. CASE UNCHANGED formVars
  BY <1>1 DEF RolesAreInherited, Outstanding, Exclusions, OrElse, formVars
<1>2. CASE FormNext
  <2>1. Outstanding' \subseteq Outstanding
    BY <1>2, NothingNewExcludes DEF FormNext
  <2> QED
    BY <1>2, <2>1 DEF FormNext, RolesAreInherited
<1> QED
  BY <1>1, <1>2

\* A form that is of one target satisfies what is promised of it.
LEMMA FormInvSuffices == FormInv /\ RolesAreInherited => FormAgrees
<1> SUFFICES ASSUME FormInv, RolesAreInherited PROVE FormAgrees
  OBVIOUS
<1>1. FormIsOfOne(form) /\ CallIsOfOneList
  BY DEF FormInv
<1>2. RolesGetAlong
  BY SelectAllIsMaximal DEF RolesAreInherited, Outstanding, RolesGetAlong
<1>3. TickedIsShown
  BY <1>1 DEF FormIsOfOne, CallIsOfOneList, TickedIsShown
<1>4. ASSUME kind = "benchmark", form.prs # <<>>
      PROVE  \E d \in Targets :
               /\ ToSet(form.prs) = Urls(d) /\ Len(form.prs) = PrCount(d)
               /\ form.ticked = ToSet(form.prs) => Cardinality(EntriesOf(d, form.ticked)) = PrCount(d)
  <2>1. PICK d \in Targets : form.prs \in Lists(d)
    BY <1>1, <1>4 DEF FormIsOfOne
  <2>2. d \in ToSet(DatasetNames)
    BY <1>4, <2>1 DEF Targets
  <2>3. PICK q \in ListDatasetPrs(d) : form.prs = [i \in DOMAIN q |-> q[i].url]
    BY <1>4, <2>1 DEF Lists
  <2>4. PICK L : L = LoadGoldenDatasets(d)
    OBVIOUS
  <2>5. PICK n \in Nat : n = PrCount(d) /\ n = Cardinality(L)
    BY <2>2, <2>4, EntriesAreFinite DEF PrCount
  <2>6. Len(q) = n /\ DOMAIN q = 1 .. n /\ {q[i] : i \in 1 .. n} = L
    <3>1. q \in Seq(L) /\ Len(q) = n /\ ToSet(q) = L
      BY <2>2, <2>4, <2>5, ListIsWhole
    <3>2. DOMAIN q = 1 .. n
      BY <3>1
    <3> QED
      BY <3>1, <3>2 DEF ToSet
  <2>7. form.prs = [i \in 1 .. n |-> q[i].url]
    BY <2>3, <2>6
  <2>8. Len(form.prs) = n /\ DOMAIN form.prs = 1 .. n
    BY <2>7
  <2>9. ToSet(form.prs) = {q[i].url : i \in 1 .. n}
    BY <2>7, <2>8 DEF ToSet
  <2>10. {q[i].url : i \in 1 .. n} = {e.url : e \in L}
    BY <2>6
  <2>11. EntriesOf(d, {e.url : e \in L}) = L
    BY <2>4 DEF EntriesOf
  <2>12. Urls(d) = {e.url : e \in L}
    BY <2>4 DEF Urls
  <2> QED
    BY <2>5, <2>8, <2>9, <2>10, <2>11, <2>12
<1>5. DatasetIsWhole
  BY <1>4 DEF DatasetIsWhole
<1> QED
  BY <1>2, <1>3, <1>5 DEF FormAgrees

\* Every step of a form keeps it of one target.
LEMMA FormKeeps == FormInv /\ [FormNext]_formVars => FormInv'
<1> SUFFICES ASSUME FormInv, [FormNext]_formVars PROVE FormInv'
  OBVIOUS
<1>1. CASE UNCHANGED formVars
  BY <1>1, StaysForm DEF formVars
<1>2. CASE FormNext
  BY <1>2, ReopenStep, EditSteps, LoadStep, AnswerStep, SubmitStep, SubmitAnswerStep
     DEF FormNext, FormStep
<1> QED
  BY <1>1, <1>2

\* A launch is of roles that get along, those aside that were restored together
\* and not deselected since, and of pull requests of one list, and a benchmark of
\* all of a dataset runs every entry of it, whatever was stored, clicked,
\* restored, reloaded or answered before (RoleSelector, load_prs,
\* load_dataset_prs, restore_signal, on_submit).
THEOREM LaunchesAgree == FormSpec => []FormAgrees
  BY FormStarts, FormKeeps, InheritedStays, FormInvSuffices, PTL DEF FormSpec

-----------------------------------------------------------------------------
(* The log page.                                                            *)

\* e gives the end of every line of f: the end of the one before it, and its length.
IsEnds(e, f) ==
  /\ DOMAIN e = 0 .. Len(f) /\ e[0] = 0
  /\ \A i \in 1 .. Len(f) : e[i] = e[i - 1] + f[i]

\* The ends of the lines are what they are defined to be: the recursion has a
\* solution, built up line by line.
LEMMA EndsAre ==
  ASSUME NEW f \in Seq(Lengths)
  PROVE  IsEnds(Ends(f), f)
<1>1. PICK n \in Nat : n = Len(f)
  OBVIOUS
<1> DEFINE Upto(e, k) == DOMAIN e = 0 .. k /\ \A i \in 0 .. k : e[i] = IF i = 0 THEN 0 ELSE e[i - 1] + f[i]
           S == {k \in Nat : \E e : Upto(e, k)}
<1>2. 0 \in S
  <2>1. Upto([i \in 0 .. 0 |-> 0], 0)
    OBVIOUS
  <2>2. \E e : Upto(e, 0)
    BY <2>1
  <2> QED
    BY <2>2
<1>3. ASSUME NEW k \in Nat, k \in S PROVE k + 1 \in S
  <2>1. PICK e : Upto(e, k)
    BY <1>3
  <2>2. PICK h : h = [i \in 0 .. k + 1 |-> IF i <= k THEN e[i] ELSE e[i - 1] + f[i]]
    OBVIOUS
  <2>3. ASSUME NEW i \in 0 .. k + 1
        PROVE  h[i] = IF i = 0 THEN 0 ELSE h[i - 1] + f[i]
    <3>1. i # 0 => i - 1 \in 0 .. k + 1 /\ i - 1 <= k
      OBVIOUS
    <3>2. i # 0 => h[i - 1] = e[i - 1]
      BY <2>2, <3>1
    <3>3. CASE i <= k
      BY <2>1, <2>2, <3>2, <3>3
    <3>4. CASE ~(i <= k)
      BY <2>2, <3>2, <3>4
    <3> QED
      BY <3>3, <3>4
  <2>4. Upto(h, k + 1)
    BY <2>2, <2>3
  <2>5. \E x : Upto(x, k + 1)
    BY <2>4
  <2> HIDE DEF Upto
  <2> QED
    BY <2>5
<1>4. n \in S
  <2> HIDE DEF S
  <2> QED
    BY <1>2, <1>3, SetInduction
<1>5. PICK e : Upto(e, n)
  BY <1>4
<1>6. \E h : h = [i \in 0 .. n |-> IF i = 0 THEN 0 ELSE h[i - 1] + f[i]]
  <2>1. PICK h : h = [i \in 0 .. n |-> e[i]]
    OBVIOUS
  <2>2. ASSUME NEW i \in 0 .. n
        PROVE  h[i] = IF i = 0 THEN 0 ELSE h[i - 1] + f[i]
    <3>1. h[i] = e[i] /\ (i # 0 => h[i - 1] = e[i - 1])
      BY <2>1
    <3> QED
      BY <1>5, <3>1
  <2>3. h = [i \in 0 .. n |-> IF i = 0 THEN 0 ELSE h[i - 1] + f[i]]
    BY <2>1, <2>2
  <2> QED
    BY <2>3
<1>7. PICK g : g = CHOOSE h : h = [i \in 0 .. n |-> IF i = 0 THEN 0 ELSE h[i - 1] + f[i]]
  OBVIOUS
<1>8. g = [i \in 0 .. n |-> IF i = 0 THEN 0 ELSE g[i - 1] + f[i]]
  BY <1>6, <1>7
<1>9. Ends(f) = g
  BY <1>1, <1>7 DEF Ends
<1>10. DOMAIN g = 0 .. n /\ g[0] = 0 /\ \A i \in 1 .. n : g[i] = g[i - 1] + f[i]
  BY <1>8
<1> QED
  BY <1>1, <1>9, <1>10 DEF IsEnds

\* Ends of lines are numbers, and later lines end later.
LEMMA EndsGrow ==
  ASSUME NEW f \in Seq(Lengths)
  PROVE  /\ Len(f) \in Nat
         /\ \A i \in 0 .. Len(f) : Ends(f)[i] \in Nat
         /\ \A i, j \in 0 .. Len(f) : i < j => Ends(f)[i] < Ends(f)[j]
<1>1. PICK n \in Nat : n = Len(f)
  OBVIOUS
<1>2. PICK e : e = Ends(f)
  OBVIOUS
<1>3. e[0] = 0 /\ \A i \in 1 .. n : e[i] = e[i - 1] + f[i] /\ f[i] \in Nat \ {0}
  <2>1. IsEnds(e, f)
    BY <1>2, EndsAre
  <2>2. \A i \in 1 .. n : f[i] \in Lengths
    BY <1>1
  <2>3. Lengths \subseteq Nat \ {0}
    BY LogAssumption
  <2> QED
    BY <1>1, <2>1, <2>2, <2>3 DEF IsEnds
<1> DEFINE Good(k) == /\ \A i \in 0 .. k : e[i] \in Nat
                      /\ \A i \in 0 .. k : i < k => e[i] < e[k]
           S == {k \in Nat : k <= n => \A m \in 0 .. k : Good(m)}
<1>4. 0 \in S
  BY <1>3
<1>5. ASSUME NEW k \in Nat, k \in S PROVE k + 1 \in S
  <2> SUFFICES ASSUME k + 1 <= n PROVE \A m \in 0 .. k + 1 : Good(m)
    OBVIOUS
  <2>1. \A m \in 0 .. k : Good(m)
    BY <1>5
  <2>2. k + 1 \in 1 .. n /\ (k + 1) - 1 = k
    OBVIOUS
  <2>3. e[k + 1] = e[k] + f[k + 1] /\ f[k + 1] \in Nat \ {0}
    BY <1>3, <2>2
  <2>4. Good(k)
    BY <2>1
  <2>5. Good(k + 1)
    <3>1. e[k] \in Nat /\ \A i \in 0 .. k : e[i] \in Nat /\ e[i] <= e[k]
      BY <2>4
    <3>2. e[k + 1] \in Nat /\ e[k] < e[k + 1]
      BY <2>3, <3>1
    <3>3. 0 .. k + 1 = (0 .. k) \cup {k + 1}
      OBVIOUS
    <3>4. \A i \in 0 .. k + 1 : e[i] \in Nat
      BY <3>1, <3>2, <3>3
    <3>5. \A i \in 0 .. k + 1 : i < k + 1 => e[i] < e[k + 1]
      <4> TAKE i \in 0 .. k + 1
      <4> HAVE i < k + 1
      <4>1. i \in 0 .. k
        OBVIOUS
      <4> QED
        BY <3>1, <3>2, <4>1
    <3> QED
      BY <3>4, <3>5
  <2>6. 0 .. k + 1 = (0 .. k) \cup {k + 1}
    OBVIOUS
  <2> HIDE DEF Good
  <2> QED
    BY <2>1, <2>5, <2>6
<1>6. n \in S
  <2> HIDE DEF S
  <2> QED
    BY <1>4, <1>5, SetInduction
<1>7. \A k \in 0 .. n : Good(k)
  BY <1>6
<1>8. \A i, j \in 0 .. n : i < j => e[i] < e[j]
  <2> SUFFICES ASSUME NEW i \in 0 .. n, NEW j \in 0 .. n, i < j PROVE e[i] < e[j]
    OBVIOUS
  <2>1. Good(j) /\ i \in 0 .. j
    BY <1>7
  <2> QED
    BY <2>1
<1>9. \A i \in 0 .. n : e[i] \in Nat
  <2>1. Good(n)
    BY <1>7
  <2> QED
    BY <2>1
<1> QED
  BY <1>1, <1>2, <1>8, <1>9

\* A line that is written leaves the others where they are.
LEMMA EndsStay ==
  ASSUME NEW f \in Seq(Lengths), NEW len \in Lengths
  PROVE  \A i \in 0 .. Len(f) : Ends(Append(f, len))[i] = Ends(f)[i]
<1>1. PICK n \in Nat : n = Len(f)
  OBVIOUS
<1>2. PICK g : g = Append(f, len)
  OBVIOUS
<1>3. g \in Seq(Lengths) /\ Len(g) = n + 1 /\ \A i \in 1 .. n : g[i] = f[i]
  BY <1>1, <1>2
<1>4. PICK e : e = Ends(f)
  OBVIOUS
<1>5. PICK d : d = Ends(g)
  OBVIOUS
<1>6. e[0] = 0 /\ d[0] = 0
      /\ \A i \in 1 .. n : e[i] = e[i - 1] + f[i] /\ d[i] = d[i - 1] + f[i]
  <2>1. IsEnds(e, f) /\ IsEnds(d, g)
    BY <1>3, <1>4, <1>5, EndsAre
  <2> QED
    BY <1>1, <1>3, <2>1 DEF IsEnds
<1> DEFINE S == {k \in Nat : k <= n => d[k] = e[k]}
<1>7. 0 \in S
  BY <1>6
<1>8. ASSUME NEW k \in Nat, k \in S PROVE k + 1 \in S
  <2> SUFFICES ASSUME k + 1 <= n PROVE d[k + 1] = e[k + 1]
    OBVIOUS
  <2>1. k + 1 \in 1 .. n /\ (k + 1) - 1 = k /\ d[k] = e[k]
    BY <1>8
  <2> QED
    BY <1>6, <2>1
<1>9. \A k \in Nat : k \in S
  <2> HIDE DEF S
  <2> QED
    BY <1>7, <1>8, SetInduction
<1>10. \A k \in 0 .. n : d[k] = e[k]
  BY <1>9
<1> QED
  BY <1>1, <1>2, <1>4, <1>5, <1>10

-----------------------------------------------------------------------------
\* The chunks that are read end where enough whole lines follow, or at the start
\* of the file.
LEMMA ReadsEnough ==
  ASSUME NEW f \in Seq(Lengths), f # <<>>
  PROVE  ReadFrom(f) = 0 \/ (ReadFrom(f) \in Nat /\ Cardinality(WholeFrom(f, ReadFrom(f))) >= Readback)
<1>1. PICK s \in Nat : s = Size(f)
  <2>1. Len(f) \in 0 .. Len(f)
    OBVIOUS
  <2> QED
    BY <2>1, EndsGrow DEF Size
<1>2. s # 0
  <2>1. Len(f) \in Nat \ {0} /\ 0 \in 0 .. Len(f) /\ Len(f) \in 0 .. Len(f)
    OBVIOUS
  <2>2. Ends(f)[0] < Ends(f)[Len(f)] /\ Ends(f)[0] \in Nat
    BY <2>1, EndsGrow
  <2> QED
    BY <1>1, <2>2, EndsGrow DEF Size
<1>3. PICK c \in Nat \ {0} : c = Chunk
  BY LogAssumption
<1> DEFINE Enough(k) == ChunkStart(f, k) = 0 \/ Cardinality(WholeFrom(f, ChunkStart(f, k))) >= Readback
           Ks == {k \in 1 .. s : Enough(k)}
<1>4. \A k \in 1 .. s : ChunkStart(f, k) \in Nat
  <2> TAKE k \in 1 .. s
  <2>1. PICK m \in Nat : m = k * c
    OBVIOUS
  <2>2. ChunkStart(f, k) = IF m < s THEN s - m ELSE 0
    BY <1>1, <1>3, <2>1 DEF ChunkStart
  <2> QED
    BY <2>2
<1>5. s \in Ks
  <2>1. s * c >= s
    BY <1>3
  <2>2. ~(s * c < s)
    BY <1>3, <2>1
  <2>3. ChunkStart(f, s) = 0
    BY <1>1, <1>3, <2>2 DEF ChunkStart
  <2> QED
    BY <1>2, <2>3
<1>6. PICK k \in Ks : \A j \in Ks : k <= j
  <2>1. Ks \in SUBSET Nat /\ Ks # {}
    BY <1>5
  <2> HIDE DEF Ks
  <2> QED
    BY <2>1, SmallestExists
<1>7. k \in 1 .. s /\ Enough(k) /\ \A j \in 1 .. k - 1 : ~Enough(j)
  <2>1. k \in 1 .. s /\ Enough(k)
    BY <1>6
  <2>2. ASSUME NEW j \in 1 .. k - 1 PROVE ~Enough(j)
    <3>1. j \in 1 .. s /\ ~(k <= j)
      BY <2>1
    <3>2. j \notin Ks
      BY <1>6, <3>1
    <3> QED
      BY <3>1, <3>2
  <2> QED
    BY <2>1, <2>2
<1>8. PICK x : x = CHOOSE h \in 1 .. s : Enough(h) /\ \A j \in 1 .. h - 1 : ~Enough(j)
  OBVIOUS
<1>9. x \in 1 .. s /\ Enough(x)
  BY <1>7, <1>8
<1>10. ReadFrom(f) = ChunkStart(f, x)
  BY <1>1, <1>8 DEF ReadFrom
<1> QED
  BY <1>4, <1>9, <1>10

\* Lines that are whole after a position are the last ones.
LEMMA WholeAreLast ==
  ASSUME NEW f \in Seq(Lengths), NEW p
  PROVE  /\ WholeFrom(f, p) \subseteq 1 .. Len(f)
         /\ p \in Nat => \A i \in WholeFrom(f, p) : \A j \in i .. Len(f) : j \in WholeFrom(f, p)
         /\ p = 0 => WholeFrom(f, p) = 1 .. Len(f)
<1>1. Len(f) \in Nat /\ DOMAIN f = 1 .. Len(f)
  OBVIOUS
<1>2. ASSUME p \in Nat, NEW i \in WholeFrom(f, p), NEW j \in i .. Len(f)
      PROVE  j \in WholeFrom(f, p)
  <2>1. i \in 1 .. Len(f) /\ (p = 0 \/ StartOf(f, i) > p)
    BY <1>1, <1>2 DEF WholeFrom
  <2>2. /\ i - 1 \in 0 .. Len(f) /\ j - 1 \in 0 .. Len(f) /\ j \in 1 .. Len(f)
        /\ (i = j \/ i - 1 < j - 1)
    BY <1>1, <1>2, <2>1
  <2>3. StartOf(f, i) \in Nat /\ StartOf(f, j) \in Nat /\ StartOf(f, i) <= StartOf(f, j)
    <3>1. Ends(f)[i - 1] \in Nat /\ Ends(f)[j - 1] \in Nat
          /\ (i = j \/ Ends(f)[i - 1] < Ends(f)[j - 1])
      BY <2>2, EndsGrow
    <3> QED
      BY <3>1 DEF StartOf
  <2> QED
    BY <1>1, <1>2, <2>1, <2>2, <2>3 DEF WholeFrom
<1> QED
  BY <1>1, <1>2 DEF WholeFrom

\* How many numbers there are from one to another.
LEMMA HowMany ==
  ASSUME NEW a \in Nat, NEW b \in Nat, a <= b + 1
  PROVE  IsFiniteSet(a .. b) /\ Cardinality(a .. b) = b - a + 1
<1>1. \A x, y \in Int : IsFiniteSet(x .. y) /\ Cardinality(x .. y) = IF x > y THEN 0 ELSE y - x + 1
  BY FS_Interval
<1> QED
  BY <1>1

\* read_last_n_lines, for every file.
LEMMA ReadsTheTail ==
  ASSUME NEW f \in Seq(Lengths)
  PROVE  ReadLastLines(f) = {i \in DOMAIN f : i + Readback > Len(f)}
<1>1. PICK n \in Nat : n = Len(f) /\ DOMAIN f = 1 .. n
  OBVIOUS
<1>2. PICK r \in Nat \ {0} : r = Readback
  BY LogAssumption
<1>3. CASE f = <<>>
  BY <1>1, <1>3 DEF ReadLastLines
<1>4. CASE f # <<>>
  <2>1. PICK p : p = ReadFrom(f)
    OBVIOUS
  <2>2. PICK W : W = WholeFrom(f, p)
    OBVIOUS
  <2>3. p \in Nat /\ (p = 0 \/ Cardinality(W) >= r)
    BY <1>2, <1>4, <2>1, <2>2, ReadsEnough
  <2>4. /\ W \subseteq 1 .. n
        /\ \A i \in W : \A j \in i .. n : j \in W
        /\ p = 0 => W = 1 .. n
    BY <1>1, <2>2, <2>3, WholeAreLast
  <2>5. ReadLastLines(f) = {i \in W : Cardinality({j \in W : j >= i}) <= r}
    BY <1>2, <1>4, <2>1, <2>2 DEF ReadLastLines, LastOf
  <2>6. ASSUME NEW i \in W
        PROVE  Cardinality({j \in W : j >= i}) = n - i + 1
    <3>1. i \in Nat /\ i <= n
      BY <2>4
    <3>2. {j \in W : j >= i} = i .. n
      <4>1. \A j \in W : j \in Nat /\ j <= n
        BY <2>4
      <4>2. \A j \in i .. n : j \in W /\ j >= i
        BY <2>4, <3>1
      <4>3. \A j \in W : j >= i => j \in i .. n
        BY <3>1, <4>1
      <4> QED
        BY <4>2, <4>3
    <3>3. Cardinality(i .. n) = n - i + 1
      <4>1. i <= n + 1
        BY <3>1
      <4> QED
        BY <3>1, <4>1, HowMany
    <3> QED
      BY <3>2, <3>3
  <2>7. ASSUME NEW i \in 1 .. n, i + r > n
        PROVE  i \in W
    <3> SUFFICES ASSUME i \notin W PROVE FALSE
      OBVIOUS
    <3>1. Cardinality(W) >= r
      BY <2>3, <2>4
    <3>2. W \subseteq i + 1 .. n
      <4> SUFFICES ASSUME NEW j \in W, ~(j >= i + 1) PROVE FALSE
        BY <2>4
      <4>1. j \in Nat /\ i \in j .. n
        BY <2>4
      <4> QED
        BY <2>4, <4>1
    <3>3. IsFiniteSet(i + 1 .. n) /\ Cardinality(i + 1 .. n) = n - (i + 1) + 1
      BY HowMany
    <3>4. Cardinality(W) <= Cardinality(i + 1 .. n) /\ Cardinality(W) \in Nat
      BY <3>2, <3>3, FS_Subset, FS_CardinalityType
    <3> QED
      BY <2>7, <3>1, <3>3, <3>4
  <2>8. \A i \in W : n - i + 1 <= r <=> i + r > n
    <3> TAKE i \in W
    <3>1. i \in Nat
      BY <2>4
    <3> QED
      BY <3>1
  <2>9. ReadLastLines(f) = {i \in W : n - i + 1 <= r}
    BY <2>5, <2>6
  <2>10. {i \in W : n - i + 1 <= r} = {i \in 1 .. n : i + r > n}
    BY <2>4, <2>7, <2>8
  <2> QED
    BY <1>1, <1>2, <2>9, <2>10
<1> QED
  BY <1>3, <1>4

-----------------------------------------------------------------------------
\* A position in f is the end of a line, or the start of the file.
IsPlace(f, p) == \E k \in 0 .. Len(f) : p = Ends(f)[k]

\* S is a part of f without another gap than M up to the position upto.
NoGap(S, M, f, upto) ==
  \A i \in DOMAIN f : (S = {} \/ \E j \in S : j < i) /\ Ends(f)[i] <= upto => i \in S \cup M

\* A connection and its page while their file is f.
Follows(t, p, f) ==
  /\ IsPlace(f, t.pos) /\ IsPlace(f, t.upto) /\ t.pos <= t.upto
  /\ t.pc = "read" => IsPlace(f, t.cur)
  /\ p.late /\ ~p.early /\ p.lines = "read" => NoGap(p.answer, p.missed, f, t.upto)
  /\ p.late /\ ~p.early /\ p.lines = "shown" => NoGap(p.text, p.missed, f, t.upto)

TailRecord == [pc : {"off", "broken", "wait", "read"}, pos : Nat, cur : Nat, day : Nat, upto : Nat]
PageRecord == [lines : {"asked", "read", "shown"}, answer : SUBSET Nat, text : SUBSET Nat,
               late : BOOLEAN, early : BOOLEAN, missed : SUBSET Nat]

LogIsTyped ==
  /\ file \in Seq(Lengths) /\ day \in Nat \ {0}
  /\ tail \in [Tails -> TailRecord]
  /\ logPage \in [Tails -> PageRecord]

ConnectionFollows(c) ==
  /\ tail[c].day <= day
  /\ tail[c].pc = "off" => tail[c].day = 0
  /\ logPage[c].late => tail[c].pc # "off" /\ tail[c].day = day
  /\ tail[c].pc # "off" /\ tail[c].day = day => Follows(tail[c], logPage[c], file)

LogInv == LogIsTyped /\ \A c \in Tails : ConnectionFollows(c)

\* The size of a file is where its last line ends.
LEMMA SizeIsPlace ==
  ASSUME NEW f \in Seq(Lengths)
  PROVE  Size(f) \in Nat /\ IsPlace(f, Size(f)) /\ \A p : IsPlace(f, p) => p \in Nat /\ p <= Size(f)
<1>1. PICK n \in Nat : n = Len(f)
  OBVIOUS
<1>2. n \in 0 .. n
  OBVIOUS
<1>3. Size(f) = Ends(f)[n]
  BY <1>1 DEF Size
<1>4. \A k \in 0 .. n : Ends(f)[k] \in Nat /\ (k = n \/ Ends(f)[k] < Ends(f)[n])
  BY <1>1, <1>2, EndsGrow
<1> QED
  BY <1>1, <1>2, <1>3, <1>4 DEF IsPlace

\* Of a line and a place: the line ends before it or starts at it or behind.
LEMMA LinesAtPlaces ==
  ASSUME NEW f \in Seq(Lengths), NEW p, IsPlace(f, p), NEW i \in DOMAIN f
  PROVE  i \in 1 .. Len(f) /\ (Ends(f)[i] <= p \/ StartOf(f, i) >= p)
<1>1. PICK k \in 0 .. Len(f) : p = Ends(f)[k]
  BY DEF IsPlace
<1>2. i \in 1 .. Len(f) /\ i \in 0 .. Len(f) /\ i - 1 \in 0 .. Len(f) /\ Len(f) \in Nat
  OBVIOUS
<1>3. i <= k \/ k <= i - 1
  BY <1>2
<1>4. Ends(f)[i] \in Nat /\ Ends(f)[i - 1] \in Nat /\ p \in Nat
  BY <1>1, <1>2, EndsGrow
<1>5. CASE i <= k
  <2>1. i = k \/ Ends(f)[i] < Ends(f)[k]
    BY <1>2, <1>5, EndsGrow
  <2> QED
    BY <1>1, <1>2, <1>4, <2>1
<1>6. CASE k <= i - 1
  <2>1. k = i - 1 \/ Ends(f)[k] < Ends(f)[i - 1]
    BY <1>2, <1>6, EndsGrow
  <2> QED
    BY <1>1, <1>2, <1>4, <2>1 DEF StartOf
<1> QED
  BY <1>3, <1>5, <1>6

\* What is sent from a place on goes on where the text stopped, and the file has
\* something to send as long as the place is before its end.
LEMMA SentGoesOn ==
  ASSUME NEW f \in Seq(Lengths), NEW S \in SUBSET Nat, NEW p, NEW u, NEW v,
         IsPlace(f, p), IsPlace(f, u), p <= u, v = IF Size(f) > u THEN Size(f) ELSE u
  PROVE  /\ \A M : NoGap(S, M, f, u) => NoGap(S \cup LinesFrom(f, p), M, f, v)
         /\ LinesFrom(f, p) = {} => v = u
<1>1. PICK n \in Nat : n = Len(f) /\ DOMAIN f = 1 .. n
  OBVIOUS
<1>2. p \in Nat /\ u \in Nat /\ Size(f) \in Nat /\ u <= Size(f) /\ v = Size(f)
  BY SizeIsPlace
<1>3. ASSUME LinesFrom(f, p) = {} PROVE p = Size(f)
  <2> SUFFICES ASSUME p # Size(f) PROVE FALSE
    OBVIOUS
  <2>1. n # 0
    <3>1. n = 0 => \A k \in 0 .. n : k = n
      OBVIOUS
    <3> QED
      BY <1>1, <3>1 DEF IsPlace, Size
  <2>2. n \in DOMAIN f
    BY <1>1, <2>1
  <2>3. ~(StartOf(f, n) >= p)
    BY <1>3, <2>2 DEF LinesFrom
  <2>4. Ends(f)[n] <= p
    BY <2>2, <2>3, LinesAtPlaces
  <2>5. Ends(f)[n] = Size(f)
    BY <1>1 DEF Size
  <2> QED
    BY <1>2, <2>4, <2>5
<1>4. LinesFrom(f, p) = {} => v = u
  BY <1>2, <1>3
<1>5. ASSUME NEW M, NoGap(S, M, f, u) PROVE NoGap(S \cup LinesFrom(f, p), M, f, v)
  <2>1. ASSUME NEW i \in DOMAIN f, S = {}, LinesFrom(f, p) = {}, Ends(f)[i] <= v
        PROVE  i \in S \cup M
    BY <1>4, <1>5, <2>1 DEF NoGap
  <2>2. ASSUME NEW i \in DOMAIN f, NEW j \in S \cup LinesFrom(f, p), j < i
        PROVE  i \in S \cup LinesFrom(f, p) \cup M
    <3>1. CASE StartOf(f, i) >= p
      BY <2>2, <3>1 DEF LinesFrom
    <3>2. CASE ~(StartOf(f, i) >= p)
      <4>1. Ends(f)[i] <= p /\ Ends(f)[i] \in Nat
        <5>1. i \in 0 .. Len(f)
          BY <1>1
        <5> QED
          BY <3>2, <5>1, LinesAtPlaces, EndsGrow
      <4>2. j \notin LinesFrom(f, p)
        <5> SUFFICES ASSUME j \in LinesFrom(f, p) PROVE FALSE
          OBVIOUS
        <5>1. StartOf(f, j) >= p /\ j - 1 \in 0 .. Len(f) /\ i - 1 \in 0 .. Len(f) /\ j - 1 < i - 1
          BY <1>1, <2>2 DEF LinesFrom
        <5>2. StartOf(f, j) < StartOf(f, i) /\ StartOf(f, j) \in Nat /\ StartOf(f, i) \in Nat
          BY <5>1, EndsGrow DEF StartOf
        <5> QED
          BY <1>2, <3>2, <5>1, <5>2
      <4>3. j \in S /\ Ends(f)[i] <= u
        BY <1>2, <2>2, <4>1, <4>2
      <4> QED
        BY <1>5, <2>2, <4>3 DEF NoGap
    <3> QED
      BY <3>1, <3>2
  <2> QED
    BY <2>1, <2>2 DEF NoGap
<1> QED
  BY <1>4, <1>5

\* A line more leaves no gap, and all places where they are.
LEMMA WrittenBehind ==
  ASSUME NEW f \in Seq(Lengths), NEW len \in Lengths
  PROVE  /\ \A p : IsPlace(f, p) => IsPlace(Append(f, len), p)
         /\ \A S, M, u : IsPlace(f, u) /\ NoGap(S, M, f, u) => NoGap(S, M, Append(f, len), u)
<1>1. PICK n \in Nat : n = Len(f) /\ DOMAIN f = 1 .. n
  OBVIOUS
<1>2. PICK g : g = Append(f, len)
  OBVIOUS
<1>3. g \in Seq(Lengths) /\ Len(g) = n + 1 /\ DOMAIN g = 1 .. n + 1
  BY <1>1, <1>2
<1>4. \A i \in 0 .. n : Ends(g)[i] = Ends(f)[i]
  BY <1>1, <1>2, EndsStay
<1>5. \A p : IsPlace(f, p) => IsPlace(g, p)
  <2>1. \A k \in 0 .. n : k \in 0 .. n + 1
    OBVIOUS
  <2> QED
    BY <1>1, <1>3, <1>4, <2>1 DEF IsPlace
<1>6. ASSUME NEW S, NEW M, NEW u, IsPlace(f, u), NoGap(S, M, f, u) PROVE NoGap(S, M, g, u)
  <2>1. ASSUME NEW i \in DOMAIN g, S = {} \/ \E j \in S : j < i, Ends(g)[i] <= u
        PROVE  i \in S \cup M
    <3>1. CASE i \in 1 .. n
      BY <1>1, <1>4, <1>6, <2>1, <3>1 DEF NoGap
    <3>2. CASE i = n + 1
      <4>1. n \in 0 .. n + 1 /\ n + 1 \in 0 .. n + 1 /\ n \in 0 .. n
        OBVIOUS
      <4>2. Ends(g)[n] < Ends(g)[n + 1] /\ Ends(g)[n] \in Nat /\ Ends(g)[n + 1] \in Nat
        BY <1>3, <4>1, EndsGrow
      <4>3. u \in Nat /\ u <= Ends(f)[n]
        BY <1>1, <1>6, SizeIsPlace DEF Size
      <4> QED
        BY <1>4, <2>1, <3>2, <4>1, <4>2, <4>3
    <3> QED
      BY <1>3, <3>1, <3>2
  <2> QED
    BY <1>6, <2>1 DEF NoGap
<1> QED
  BY <1>2, <1>5, <1>6

-----------------------------------------------------------------------------
\* Nobody is connected and nothing is shown.
LEMMA LogStarts == LogInit => LogInv
<1> SUFFICES ASSUME LogInit PROVE LogInv
  OBVIOUS
<1>1. /\ file = <<>> /\ day = 1 /\ \A c \in Tails : tail[c] = Idle /\ logPage[c] = NewLogPage
  BY DEF LogInit
<1>2. Idle \in TailRecord /\ Idle.pc = "off" /\ Idle.day = 0
  BY DEF Idle, TailRecord
<1>3. NewLogPage \in PageRecord /\ ~NewLogPage.late
  BY DEF NewLogPage, PageRecord
<1>4. <<>> \in Seq(Lengths)
  OBVIOUS
<1>5. LogIsTyped
  BY <1>1, <1>2, <1>3, <1>4 DEF LogIsTyped, LogInit
<1>6. \A c \in Tails : ConnectionFollows(c)
  BY <1>1, <1>2, <1>3 DEF ConnectionFollows
<1> QED
  BY <1>5, <1>6 DEF LogInv

\* A line is written to the log.
LEMMA WriteStep ==
  ASSUME LogInv, Write
  PROVE  LogInv'
<1>1. PICK len \in Lengths : file' = Append(file, len)
  BY DEF Write
<1>2. UNCHANGED <<day, tail, logPage>>
  BY DEF Write
<1>3. LogIsTyped'
  BY <1>1, <1>2 DEF LogInv, LogIsTyped
<1>4. ASSUME NEW c \in Tails PROVE ConnectionFollows(c)'
  <2>1. ConnectionFollows(c) /\ file \in Seq(Lengths)
    BY DEF LogInv, LogIsTyped
  <2>2. Follows(tail[c], logPage[c], file) => Follows(tail[c], logPage[c], file')
    BY <1>1, <2>1, WrittenBehind DEF Follows
  <2> QED
    BY <1>2, <2>1, <2>2 DEF ConnectionFollows
<1> QED
  BY <1>3, <1>4 DEF LogInv

\* The log is rotated.
LEMMA RotateStep ==
  ASSUME LogInv, Rotate
  PROVE  LogInv'
<1>1. /\ day' = day + 1 /\ file' = <<>> /\ UNCHANGED tail
      /\ \A c \in Tails : ~logPage'[c].late
      /\ logPage' \in [Tails -> PageRecord]
  BY DEF Rotate, LogInv, LogIsTyped, PageRecord
<1>2. <<>> \in Seq(Lengths)
  OBVIOUS
<1>3. LogIsTyped'
  BY <1>1, <1>2 DEF LogInv, LogIsTyped
<1>4. ASSUME NEW c \in Tails PROVE ConnectionFollows(c)'
  <2>1. ConnectionFollows(c) /\ day \in Nat /\ tail[c].day \in Nat
    BY DEF LogInv, LogIsTyped, TailRecord
  <2>2. tail[c].day <= day' /\ tail[c].day # day'
    BY <1>1, <2>1 DEF ConnectionFollows
  <2> QED
    BY <1>1, <2>1, <2>2 DEF ConnectionFollows
<1> QED
  BY <1>3, <1>4 DEF LogInv

\* A step of one connection leaves the others alone.
LEMMA OneConnection ==
  ASSUME LogInv, NEW c \in Tails, UNCHANGED <<file, day>>,
         tail' \in [Tails -> TailRecord], logPage' \in [Tails -> PageRecord],
         \A d \in Tails \ {c} : tail'[d] = tail[d] /\ logPage'[d] = logPage[d],
         ConnectionFollows(c)'
  PROVE  LogInv'
<1>1. LogIsTyped'
  BY DEF LogInv, LogIsTyped
<1>2. ASSUME NEW d \in Tails PROVE ConnectionFollows(d)'
  <2>1. CASE d = c
    BY <2>1
  <2>2. CASE d # c
    <3>1. ConnectionFollows(d) /\ tail'[d] = tail[d] /\ logPage'[d] = logPage[d]
      BY <2>2 DEF LogInv
    <3> QED
      BY <3>1 DEF ConnectionFollows
  <2> QED
    BY <2>1, <2>2
<1> QED
  BY <1>1, <1>2 DEF LogInv

\* A connection that is opened again misses what was written in between.
LEMMA MissedBetween ==
  ASSUME NEW f \in Seq(Lengths), NEW S, NEW M, NEW u, IsPlace(f, u), NoGap(S, M, f, u)
  PROVE  NoGap(S, M \cup Between(f, u, Size(f)), f, Size(f))
<1> SUFFICES ASSUME NEW i \in DOMAIN f, S = {} \/ \E j \in S : j < i, Ends(f)[i] <= Size(f)
             PROVE  i \in S \cup M \cup Between(f, u, Size(f))
  BY DEF NoGap
<1>1. Ends(f)[i] <= u \/ StartOf(f, i) >= u
  BY LinesAtPlaces
<1> QED
  BY <1>1 DEF NoGap, Between

\* A page is connected to the log, for the first time or again.
LEMMA ConnectStep ==
  ASSUME LogInv, NEW c \in Tails, Connect(c)
  PROVE  LogInv'
<1>1. PICK t : t = [Idle EXCEPT !.pc = "wait", !.pos = Size(file), !.day = day, !.upto = Size(file)]
  OBVIOUS
<1>2. /\ tail[c].pc \in {"off", "broken"} /\ tail' = [tail EXCEPT ![c] = t]
      /\ UNCHANGED <<file, day>>
  BY <1>1 DEF Connect
<1>3. /\ file \in Seq(Lengths) /\ day \in Nat \ {0} /\ tail \in [Tails -> TailRecord]
      /\ logPage \in [Tails -> PageRecord] /\ ConnectionFollows(c) /\ logPage[c] \in PageRecord
  BY DEF LogInv, LogIsTyped
<1>4. Size(file) \in Nat /\ IsPlace(file, Size(file))
  BY <1>3, SizeIsPlace
<1>5. /\ t.pc = "wait" /\ t.pos = Size(file) /\ t.day = day /\ t.upto = Size(file)
      /\ t \in TailRecord
  BY <1>1, <1>3, <1>4 DEF Idle, TailRecord
<1>6. PICK M : M = IF tail[c].pc = "broken" /\ tail[c].day = day
                     THEN logPage[c].missed \cup Between(file, tail[c].upto, Size(file))
                     ELSE logPage[c].missed
  OBVIOUS
<1>7. M \in SUBSET Nat
  <2>1. Between(file, tail[c].upto, Size(file)) \subseteq Nat
    BY <1>3 DEF Between
  <2> QED
    BY <1>3, <1>6, <2>1 DEF PageRecord
<1>8. PICK p : p = [logPage[c] EXCEPT !.missed = M]
  OBVIOUS
<1>9. /\ p \in PageRecord /\ p.missed = M /\ p.late = logPage[c].late /\ p.early = logPage[c].early
      /\ p.lines = logPage[c].lines /\ p.answer = logPage[c].answer /\ p.text = logPage[c].text
  BY <1>3, <1>7, <1>8 DEF PageRecord
<1>10. logPage' = [logPage EXCEPT ![c] = p]
  BY <1>3, <1>6, <1>8 DEF Connect
<1>11. ASSUME tail[c].pc = "broken" /\ tail[c].day = day PROVE Follows(t, p, file)
  <2>1. Follows(tail[c], logPage[c], file)
    BY <1>3, <1>11 DEF ConnectionFollows
  <2>2. \A S : NoGap(S, logPage[c].missed, file, tail[c].upto) => NoGap(S, M, file, Size(file))
    BY <1>3, <1>6, <1>11, <2>1, MissedBetween DEF Follows
  <2> QED
    BY <1>4, <1>5, <1>9, <2>1, <2>2 DEF Follows
<1>12. ASSUME ~(tail[c].pc = "broken" /\ tail[c].day = day) PROVE Follows(t, p, file)
  <2>1. ~logPage[c].late
    BY <1>2, <1>3, <1>12 DEF ConnectionFollows
  <2> QED
    BY <1>4, <1>5, <1>9, <2>1 DEF Follows
<1>13. /\ tail'[c] = t /\ tail' \in [Tails -> TailRecord]
       /\ logPage'[c] = p /\ logPage' \in [Tails -> PageRecord]
       /\ \A d \in Tails \ {c} : tail'[d] = tail[d] /\ logPage'[d] = logPage[d]
  BY <1>2, <1>3, <1>5, <1>9, <1>10
<1>14. Follows(t, p, file)
  BY <1>11, <1>12
<1>15. ConnectionFollows(c)'
  BY <1>2, <1>3, <1>5, <1>13, <1>14 DEF ConnectionFollows
<1> QED
  BY <1>2, <1>13, <1>15, OneConnection

\* A connection breaks.
LEMMA BreakLogStep ==
  ASSUME LogInv, NEW c \in Tails, BreakLog(c)
  PROVE  LogInv'
<1>1. /\ tail \in [Tails -> TailRecord] /\ logPage \in [Tails -> PageRecord]
      /\ ConnectionFollows(c) /\ tail[c] \in TailRecord
  BY DEF LogInv, LogIsTyped
<1>2. tail[c].pc \in {"wait", "read"} /\ UNCHANGED <<file, day, logPage>>
  BY DEF BreakLog
<1>3. PICK t : t = [tail[c] EXCEPT !.pc = "broken"]
  OBVIOUS
<1>4. /\ t \in TailRecord /\ t.pc = "broken" /\ t.day = tail[c].day
      /\ t.pos = tail[c].pos /\ t.upto = tail[c].upto
  BY <1>1, <1>3 DEF TailRecord
<1>5. tail'[c] = t /\ tail' \in [Tails -> TailRecord] /\ \A d \in Tails \ {c} : tail'[d] = tail[d]
  BY <1>1, <1>3, <1>4 DEF BreakLog
<1>6. Follows(tail[c], logPage[c], file) => Follows(t, logPage[c], file)
  BY <1>4 DEF Follows
<1>7. ConnectionFollows(c)'
  BY <1>1, <1>2, <1>4, <1>5, <1>6 DEF ConnectionFollows
<1> QED
  BY <1>1, <1>2, <1>5, <1>7, OneConnection

\* A connection looks at the size of the log.
LEMMA TickStep ==
  ASSUME LogInv, NEW c \in Tails, Tick(c)
  PROVE  LogInv'
<1>1. /\ file \in Seq(Lengths) /\ day \in Nat \ {0} /\ tail \in [Tails -> TailRecord]
      /\ logPage \in [Tails -> PageRecord] /\ ConnectionFollows(c) /\ tail[c] \in TailRecord
  BY DEF LogInv, LogIsTyped
<1>2. Size(file) \in Nat /\ IsPlace(file, Size(file))
      /\ \A p : IsPlace(file, p) => p \in Nat /\ p <= Size(file)
  BY <1>1, SizeIsPlace
<1>3. tail[c].pc = "wait" /\ UNCHANGED <<file, day, logPage>>
  BY DEF Tick
<1>4. CASE Size(file) < tail[c].pos /\ tail' = [tail EXCEPT ![c].pos = Size(file)]
  <2>1. PICK t : t = [tail[c] EXCEPT !.pos = Size(file)]
    OBVIOUS
  <2>2. t \in TailRecord /\ t.pc = "wait" /\ t.day = tail[c].day
    BY <1>1, <1>2, <1>3, <2>1 DEF TailRecord
  <2>3. tail'[c] = t /\ tail' \in [Tails -> TailRecord] /\ \A d \in Tails \ {c} : tail'[d] = tail[d]
    BY <1>1, <1>4, <2>1, <2>2
  <2>4. tail[c].day # day
    BY <1>1, <1>2, <1>3, <1>4 DEF ConnectionFollows, Follows, TailRecord
  <2>5. ConnectionFollows(c)'
    BY <1>1, <1>3, <2>2, <2>3, <2>4 DEF ConnectionFollows
  <2> QED
    BY <1>1, <1>3, <2>3, <2>5, OneConnection
<1>5. CASE tail' = [tail EXCEPT ![c].pc = "read", ![c].cur = Size(file)]
  <2>1. PICK t : t = [tail[c] EXCEPT !.pc = "read", !.cur = Size(file)]
    OBVIOUS
  <2>2. /\ t \in TailRecord /\ t.pc = "read" /\ t.day = tail[c].day
        /\ t.pos = tail[c].pos /\ t.upto = tail[c].upto /\ t.cur = Size(file)
    BY <1>1, <1>2, <2>1 DEF TailRecord
  <2>3. tail'[c] = t /\ tail' \in [Tails -> TailRecord] /\ \A d \in Tails \ {c} : tail'[d] = tail[d]
    BY <1>1, <1>5, <2>1, <2>2
  <2>4. ASSUME Follows(tail[c], logPage[c], file) PROVE Follows(t, logPage[c], file)
    BY <1>2, <2>2, <2>4 DEF Follows
  <2>5. ConnectionFollows(c)'
    BY <1>1, <1>3, <2>2, <2>3, <2>4 DEF ConnectionFollows
  <2> QED
    BY <1>1, <1>3, <2>3, <2>5, OneConnection
<1> QED
  BY <1>4, <1>5 DEF Tick

\* A connection reads what was appended.
LEMMA ReadStep ==
  ASSUME LogInv, NEW c \in Tails, NEW opened \in BOOLEAN, Read(c, opened)
  PROVE  LogInv'
<1>1. /\ file \in Seq(Lengths) /\ day \in Nat \ {0} /\ tail \in [Tails -> TailRecord]
      /\ logPage \in [Tails -> PageRecord] /\ ConnectionFollows(c)
      /\ tail[c] \in TailRecord /\ logPage[c] \in PageRecord
  BY DEF LogInv, LogIsTyped
<1>2. PICK s \in Nat : s = Size(file) /\ IsPlace(file, s)
  BY <1>1, SizeIsPlace
<1>3. PICK sent : sent = IF tail[c].day = day /\ opened THEN LinesFrom(file, tail[c].pos) ELSE {}
  OBVIOUS
<1>4. sent \in SUBSET Nat
  BY <1>1, <1>3 DEF LinesFrom
<1>5. PICK u \in Nat : u = IF opened /\ tail[c].pos <= tail[c].upto /\ s > tail[c].upto THEN s ELSE tail[c].upto
  BY <1>1, <1>2 DEF TailRecord
<1>6. PICK x \in Nat : x = Position(c, opened)
  BY <1>1 DEF Position, TailRecord
<1>7. PICK t : t = [tail[c] EXCEPT !.pc = "wait", !.pos = x, !.upto = u]
  OBVIOUS
<1>8. PICK p : p = WithChunk(logPage[c], sent)
  OBVIOUS
<1>9. /\ t \in TailRecord /\ t.pc = "wait" /\ t.pos = x /\ t.upto = u /\ t.day = tail[c].day
  BY <1>1, <1>7 DEF TailRecord
<1>10. PICK early \in BOOLEAN : early <=> logPage[c].early \/ (sent # {} /\ logPage[c].lines # "shown")
  OBVIOUS
<1>11. /\ p \in PageRecord /\ p.lines = logPage[c].lines /\ p.answer = logPage[c].answer
       /\ p.text = logPage[c].text \cup sent /\ p.late = logPage[c].late
       /\ (p.early <=> early) /\ p.missed = logPage[c].missed
  <2>1. (logPage[c].early \/ (sent # {} /\ logPage[c].lines # "shown")) \in BOOLEAN
    OBVIOUS
  <2>2. p = [logPage[c] EXCEPT !.text = logPage[c].text \cup sent,
                 !.early = logPage[c].early \/ (sent # {} /\ logPage[c].lines # "shown")]
    BY <1>8 DEF WithChunk
  <2> QED
    BY <1>1, <1>4, <1>10, <2>1, <2>2 DEF PageRecord
<1>12. /\ tail[c].pc = "read" /\ UNCHANGED <<file, day>>
       /\ tail' = [tail EXCEPT ![c] = t] /\ logPage' = [logPage EXCEPT ![c] = p]
  BY <1>1, <1>2, <1>3, <1>5, <1>6, <1>7, <1>8 DEF Read
<1>13. ASSUME tail[c].day = day PROVE Follows(t, p, file)
  <2>1. Follows(tail[c], logPage[c], file)
    BY <1>1, <1>12, <1>13 DEF ConnectionFollows
  <2>2. /\ IsPlace(file, tail[c].pos) /\ IsPlace(file, tail[c].upto) /\ IsPlace(file, tail[c].cur)
        /\ tail[c].pos <= tail[c].upto
        /\ tail[c].pos \in Nat /\ tail[c].upto \in Nat /\ tail[c].cur \in Nat
        /\ tail[c].cur <= s /\ tail[c].upto <= s
    BY <1>1, <1>2, <1>12, <2>1, SizeIsPlace DEF Follows
  <2>3. CASE opened
    <3>1. x = tail[c].cur /\ u = s /\ sent = LinesFrom(file, tail[c].pos)
      BY <1>3, <1>5, <1>6, <1>13, <2>2, <2>3 DEF Position
    <3>2. \A S \in SUBSET Nat :
            /\ \A M : NoGap(S, M, file, tail[c].upto) => NoGap(S \cup sent, M, file, u)
            /\ sent = {} => u = tail[c].upto
      <4>1. u = IF Size(file) > tail[c].upto THEN Size(file) ELSE tail[c].upto
        BY <1>2, <2>2, <3>1
      <4> QED
        BY <1>1, <2>2, <3>1, <4>1, SentGoesOn
    <3>3. IsPlace(file, t.pos) /\ IsPlace(file, t.upto) /\ t.pos <= t.upto
      BY <1>2, <1>9, <2>2, <3>1
    <3>4. p.late /\ ~p.early /\ p.lines = "read" => NoGap(p.answer, p.missed, file, t.upto)
      <4> SUFFICES ASSUME p.late, ~p.early, p.lines = "read"
                   PROVE  NoGap(p.answer, p.missed, file, t.upto)
        OBVIOUS
      <4>1. sent = {} /\ logPage[c].late /\ ~logPage[c].early /\ logPage[c].lines = "read"
        BY <1>10, <1>11
      <4>2. u = tail[c].upto /\ NoGap(logPage[c].answer, logPage[c].missed, file, tail[c].upto)
        BY <2>1, <3>2, <4>1 DEF Follows
      <4> QED
        BY <1>9, <1>11, <4>2
    <3>5. p.late /\ ~p.early /\ p.lines = "shown" => NoGap(p.text, p.missed, file, t.upto)
      <4> SUFFICES ASSUME p.late, ~p.early, p.lines = "shown"
                   PROVE  NoGap(p.text, p.missed, file, t.upto)
        OBVIOUS
      <4>1. logPage[c].late /\ ~logPage[c].early /\ logPage[c].lines = "shown"
        BY <1>10, <1>11
      <4>2. NoGap(logPage[c].text, logPage[c].missed, file, tail[c].upto)
        BY <2>1, <4>1 DEF Follows
      <4>3. logPage[c].text \in SUBSET Nat
        BY <1>1 DEF PageRecord
      <4> QED
        BY <1>9, <1>11, <3>2, <4>2, <4>3
    <3> QED
      BY <1>9, <3>3, <3>4, <3>5 DEF Follows
  <2>4. CASE ~opened
    <3>1. x = tail[c].pos /\ u = tail[c].upto /\ sent = {}
      BY <1>3, <1>5, <1>6, <2>4 DEF Position
    <3>2. p.text = logPage[c].text /\ (p.early <=> logPage[c].early)
      BY <1>10, <1>11, <3>1
    <3> QED
      BY <1>9, <1>11, <2>1, <3>1, <3>2 DEF Follows
  <2> QED
    BY <2>3, <2>4
<1>14. /\ tail'[c] = t /\ tail' \in [Tails -> TailRecord]
       /\ logPage'[c] = p /\ logPage' \in [Tails -> PageRecord]
       /\ \A d \in Tails \ {c} : tail'[d] = tail[d] /\ logPage'[d] = logPage[d]
  BY <1>1, <1>9, <1>11, <1>12
<1>15. ConnectionFollows(c)'
  BY <1>1, <1>9, <1>11, <1>12, <1>13, <1>14 DEF ConnectionFollows
<1> QED
  BY <1>12, <1>14, <1>15, OneConnection

\* The last lines of the log are read for a page.
LEMMA ReadLinesStep ==
  ASSUME LogInv, NEW c \in Tails, ReadLines(c)
  PROVE  LogInv'
<1>1. /\ file \in Seq(Lengths) /\ day \in Nat \ {0} /\ tail \in [Tails -> TailRecord]
      /\ logPage \in [Tails -> PageRecord] /\ ConnectionFollows(c)
      /\ tail[c] \in TailRecord /\ logPage[c] \in PageRecord
  BY DEF LogInv, LogIsTyped
<1>2. PICK S : S = ReadLastLines(file)
  OBVIOUS
<1>3. PICK n \in Nat : n = Len(file) /\ DOMAIN file = 1 .. n
  BY <1>1
<1>4. PICK r \in Nat \ {0} : r = Readback
  BY LogAssumption
<1>5. S = {i \in 1 .. n : i + r > n}
  BY <1>1, <1>2, <1>3, <1>4, ReadsTheTail
<1>6. S \in SUBSET Nat
  BY <1>5
<1>7. PICK late \in BOOLEAN : late <=> tail[c].pc # "off" /\ tail[c].day = day
  OBVIOUS
<1>8. (tail[c].pc # "off" /\ tail[c].day = day) \in BOOLEAN
  OBVIOUS
<1>9. PICK p : p = [logPage[c] EXCEPT !.lines = "read", !.answer = S,
                                     !.late = tail[c].pc # "off" /\ tail[c].day = day]
  OBVIOUS
<1>10. /\ p \in PageRecord /\ p.lines = "read" /\ p.answer = S
       /\ (p.late <=> late)
  BY <1>1, <1>6, <1>7, <1>8, <1>9 DEF PageRecord
<1>11. UNCHANGED <<file, day, tail>> /\ logPage' = [logPage EXCEPT ![c] = p]
  BY <1>1, <1>2, <1>9 DEF ReadLines
<1>12. ASSUME Follows(tail[c], logPage[c], file) PROVE Follows(tail[c], p, file)
  <2>1. S = {} => DOMAIN file = {}
    <3> SUFFICES ASSUME S = {} PROVE n = 0
      BY <1>3
    <3>1. n # 0 => n \in S
      BY <1>5
    <3> QED
      BY <3>1
  <2>2. \A i \in DOMAIN file, j \in S : j < i => i \in S
    <3> SUFFICES ASSUME NEW i \in 1 .. n, NEW j \in S, j < i PROVE i \in S
      BY <1>3
    <3>1. j \in Nat /\ j + r > n
      BY <1>5
    <3> QED
      BY <1>5, <3>1
  <2> QED
    BY <1>10, <1>12, <2>1, <2>2 DEF Follows, NoGap
<1>13. /\ logPage'[c] = p /\ logPage' \in [Tails -> PageRecord]
       /\ \A d \in Tails \ {c} : logPage'[d] = logPage[d]
  BY <1>1, <1>10, <1>11
<1>14. ConnectionFollows(c)'
  BY <1>1, <1>7, <1>10, <1>11, <1>12, <1>13 DEF ConnectionFollows
<1> QED
  BY <1>1, <1>11, <1>13, <1>14, OneConnection

\* The lines that were read replace the text of the page.
LEMMA ShowLinesStep ==
  ASSUME LogInv, NEW c \in Tails, ShowLines(c)
  PROVE  LogInv'
<1>1. /\ file \in Seq(Lengths) /\ day \in Nat \ {0} /\ tail \in [Tails -> TailRecord]
      /\ logPage \in [Tails -> PageRecord] /\ ConnectionFollows(c)
      /\ tail[c] \in TailRecord /\ logPage[c] \in PageRecord
  BY DEF LogInv, LogIsTyped
<1>2. PICK p : p = [logPage[c] EXCEPT !.lines = "shown", !.text = logPage[c].answer, !.answer = {}]
  OBVIOUS
<1>3. /\ p \in PageRecord /\ p.lines = "shown" /\ p.text = logPage[c].answer
      /\ p.late = logPage[c].late /\ p.early = logPage[c].early /\ p.missed = logPage[c].missed
  BY <1>1, <1>2 DEF PageRecord
<1>4. /\ logPage[c].lines = "read" /\ UNCHANGED <<file, day, tail>>
      /\ logPage' = [logPage EXCEPT ![c] = p]
  BY <1>1, <1>2 DEF ShowLines
<1>5. Follows(tail[c], logPage[c], file) => Follows(tail[c], p, file)
  BY <1>3, <1>4 DEF Follows
<1>6. /\ logPage'[c] = p /\ logPage' \in [Tails -> PageRecord]
      /\ \A d \in Tails \ {c} : logPage'[d] = logPage[d]
  BY <1>1, <1>3, <1>4
<1>7. ConnectionFollows(c)'
  BY <1>1, <1>3, <1>4, <1>5, <1>6 DEF ConnectionFollows
<1> QED
  BY <1>1, <1>4, <1>6, <1>7, OneConnection

\* A page is closed.
LEMMA DisconnectStep ==
  ASSUME LogInv, NEW c \in Tails, Disconnect(c)
  PROVE  LogInv'
<1>1. /\ day \in Nat \ {0} /\ tail \in [Tails -> TailRecord] /\ logPage \in [Tails -> PageRecord]
  BY DEF LogInv, LogIsTyped
<1>2. Idle \in TailRecord /\ Idle.pc = "off" /\ Idle.day = 0
  BY DEF Idle, TailRecord
<1>3. NewLogPage \in PageRecord /\ ~NewLogPage.late
  BY DEF NewLogPage, PageRecord
<1>4. /\ tail' = [tail EXCEPT ![c] = Idle] /\ logPage' = [logPage EXCEPT ![c] = NewLogPage]
      /\ UNCHANGED <<file, day>>
  BY DEF Disconnect
<1>5. /\ tail'[c] = Idle /\ tail' \in [Tails -> TailRecord]
      /\ logPage'[c] = NewLogPage /\ logPage' \in [Tails -> PageRecord]
      /\ \A d \in Tails \ {c} : tail'[d] = tail[d] /\ logPage'[d] = logPage[d]
  BY <1>1, <1>2, <1>3, <1>4
<1>6. ConnectionFollows(c)'
  BY <1>1, <1>2, <1>3, <1>4, <1>5 DEF ConnectionFollows
<1> QED
  BY <1>4, <1>5, <1>6, OneConnection

\* Every step of the writer, the tasks and the pages.
LEMMA LogSteps == LogInv /\ [LogNext]_logVars => LogInv'
<1> SUFFICES ASSUME LogInv, [LogNext]_logVars PROVE LogInv'
  OBVIOUS
<1>1. CASE Write \/ Rotate
  BY <1>1, WriteStep, RotateStep
<1>2. ASSUME NEW c \in Tails,
             \/ Connect(c) \/ Tick(c) \/ BreakLog(c) \/ Disconnect(c)
             \/ \E opened \in BOOLEAN : Read(c, opened)
             \/ ReadLines(c) \/ ShowLines(c)
      PROVE  LogInv'
  BY <1>2, ConnectStep, TickStep, BreakLogStep, DisconnectStep, ReadStep, ReadLinesStep, ShowLinesStep
<1>3. CASE UNCHANGED logVars
  <2>1. UNCHANGED <<file, day, tail, logPage>>
    BY <1>3 DEF logVars
  <2>2. LogIsTyped'
    BY <2>1 DEF LogInv, LogIsTyped
  <2>3. \A c \in Tails : ConnectionFollows(c)'
    BY <2>1 DEF LogInv, ConnectionFollows
  <2> QED
    BY <2>2, <2>3 DEF LogInv
<1> QED
  BY <1>1, <1>2, <1>3 DEF LogNext

\* A connection that follows its file has shown every line it should.
LEMMA FollowedIsWhole == LogInv => LogIsWhole
<1> SUFFICES ASSUME LogInv PROVE LogIsWhole
  OBVIOUS
<1>1. ReadbackIsTheTail
  BY ReadsTheTail DEF LogInv, LogIsTyped, ReadbackIsTheTail
<1>2. NothingSkipped
  BY DEF LogInv, ConnectionFollows, Follows, NothingSkipped
<1>3. ASSUME NEW c \in Tails, logPage[c].lines = "shown", logPage[c].late, ~logPage[c].early,
             tail[c].day = day, NEW i \in DOMAIN file,
             logPage[c].text = {} \/ \E j \in logPage[c].text : j < i,
             StartOf(file, i) + file[i] <= tail[c].upto
      PROVE  i \in logPage[c].text \cup logPage[c].missed
  <2>1. ConnectionFollows(c) /\ file \in Seq(Lengths)
    BY DEF LogInv, LogIsTyped
  <2>2. NoGap(logPage[c].text, logPage[c].missed, file, tail[c].upto)
    BY <1>3, <2>1 DEF ConnectionFollows, Follows
  <2>3. StartOf(file, i) + file[i] = Ends(file)[i]
    BY <2>1, EndsAre DEF StartOf, IsEnds
  <2> QED
    BY <1>3, <2>2, <2>3 DEF NoGap
<1>4. PageHasNoGap
  BY <1>3 DEF PageHasNoGap
<1> QED
  BY <1>1, <1>2, <1>4 DEF LogIsWhole

\* An administrator misses no line but those of a connection that was broken:
\* the page starts with exactly the last lines of the file wherever its chunks
\* are cut, a tail has sent all that is before its position, and a page whose
\* stream was there first has no other gap than what was written between two
\* connections, for files and lines of any length and any number of
\* connections, reconnections and rotations (read_last_n_lines,
\* get_logs_stream, LogsSection).
THEOREM NoLineIsMissed == LogSpec => []LogIsWhole
  BY LogStarts, LogSteps, FollowedIsWhole, PTL DEF LogSpec

-----------------------------------------------------------------------------
(* The overview and the detail page.                                        *)

Statuses == {"Absent", "Running", "Completed", "Failed"}
Snapshots == [Reviews -> Statuses]

CallRecord == [key : Nat, seen : Snapshots \cup {Nothing},
               unchecked : SUBSET Reviews, unstored : SUBSET Reviews]
HomeShows == [ok : BOOLEAN, failed : BOOLEAN, shown : Snapshots \cup {Nothing},
              unstored : SUBSET Reviews]
DetailShows == [of : Reviews \cup {Nothing}, status : Statuses \cup {Nothing},
                results : Nat \cup {Nothing}, unchecked : BOOLEAN]

PageTypes ==
  /\ status \in Snapshots
  /\ results \in [Reviews -> Nat]
  /\ key \in Nat
  /\ answers \subseteq CallRecord
  /\ \A a \in answers : a.unchecked # {} => a.seen \in Snapshots
  /\ home \in HomeShows
  /\ detail \in DetailShows
  /\ detail.unchecked => detail.of \in Reviews

\* One question has the current key; the others are older.
OneCurrent ==
  /\ \A a \in answers : a.key <= key
  /\ \A a, b \in answers : a.key = key /\ b.key = key => a = b

\* An answer has read the rows.
HasRead(a) == a.seen # Nothing \/ a.unchecked # {}

\* What was shown is no newer than the store, nor than an answer to the
\* current question, but for the ends that could not be stored.
ShownIsOld ==
  home.shown # Nothing =>
    /\ History(home.shown) \ home.unstored \subseteq History(status)
    /\ \A a \in answers :
         a.key = key /\ HasRead(a) =>
           History(home.shown) \ home.unstored \subseteq History(a.seen)

\* So is what was read.
AnswersAreOld ==
  \A a \in answers : HasRead(a) => History(a.seen) \ a.unstored \subseteq History(status)

RecordIsBacked == \A r \in Reviews : status[r] = "Completed" => results[r] > 0

\* The detail page has read its review before its results, and results are
\* only added.
DetailIsOld ==
  detail.status = "Completed" =>
    /\ detail.of \in Reviews => results[detail.of] > 0
    /\ detail.results # Nothing => detail.results > 0

DashInv ==
  PageTypes /\ OneCurrent /\ ShownIsOld /\ AnswersAreOld /\ RecordIsBacked /\ DetailIsOld

\* Nothing is shown yet.
LEMMA DashStarts == DashInit => DashInv
<1> SUFFICES ASSUME DashInit PROVE DashInv
  OBVIOUS
<1> USE DashboardAssumption DEF DashInit, Init, Asked, NoDetail
<1>1. PageTypes
  BY DEF PageTypes, Snapshots, Statuses, CallRecord, HomeShows, DetailShows
<1>2. OneCurrent
  BY DEF OneCurrent
<1>3. ShownIsOld
  BY DEF ShownIsOld
<1>4. AnswersAreOld
  BY DEF AnswersAreOld, HasRead
<1>5. RecordIsBacked
  BY DEF RecordIsBacked
<1>6. DetailIsOld
  BY DEF DetailIsOld
<1> QED
  BY <1>1, <1>2, <1>3, <1>4, <1>5, <1>6 DEF DashInv

-----------------------------------------------------------------------------
(* The writers of the store.                                               *)

\* Whatever is written, results are only added, no end is taken back, and a
\* completed review has a result (ReviewRecord).
LEMMA WritersOnlyAdd ==
  ASSUME status \in Snapshots, results \in [Reviews -> Nat], RecordIsBacked, [Next]_vars
  PROVE  /\ status' \in Snapshots /\ results' \in [Reviews -> Nat]
         /\ \A r \in Reviews : results'[r] >= results[r]
         /\ History(status) \subseteq History(status')
         /\ RecordIsBacked'
<1>1. CASE UNCHANGED vars
  BY <1>1 DEF vars, RecordIsBacked, History
<1>2. CASE Next
  <2>1. PICK r \in Reviews : Start(r) \/ Store(r) \/ Complete(r) \/ Fail(r)
    BY <1>2 DEF Next
  <2>2. CASE Store(r)
    BY <2>2 DEF Store, Snapshots, Statuses, RecordIsBacked, History
  <2>3. CASE Start(r)
    BY <2>3 DEF Start, Becomes, Snapshots, Statuses, RecordIsBacked, History
  <2>4. CASE Complete(r)
    BY <2>4 DEF Complete, Becomes, Snapshots, Statuses, RecordIsBacked, History
  <2>5. CASE Fail(r)
    BY <2>5 DEF Fail, Becomes, Snapshots, Statuses, RecordIsBacked, History
  <2> QED
    BY <2>1, <2>2, <2>3, <2>4, <2>5
<1> QED
  BY <1>1, <1>2

\* The store is written to.
LEMMA WrittenStep == DashInv /\ Written => DashInv'
<1> SUFFICES ASSUME DashInv, Written PROVE DashInv'
  OBVIOUS
<1> USE DEF DashInv
<1>1. /\ status' \in Snapshots /\ results' \in [Reviews -> Nat]
      /\ \A r \in Reviews : results'[r] >= results[r]
      /\ History(status) \subseteq History(status')
      /\ RecordIsBacked'
  BY WritersOnlyAdd DEF Written, PageTypes
<1>2. UNCHANGED <<key, answers, home, detail>>
  BY DEF Written, pages
<1>3. PageTypes'
  BY <1>1, <1>2 DEF PageTypes
<1>4. OneCurrent'
  BY <1>2 DEF OneCurrent
<1>5. ShownIsOld'
  BY <1>1, <1>2 DEF ShownIsOld, History, HasRead
<1>6. AnswersAreOld'
  BY <1>1, <1>2 DEF AnswersAreOld, History, HasRead
<1>7. DetailIsOld'
  BY <1>1, <1>2 DEF DetailIsOld, PageTypes
<1> QED
  BY <1>1, <1>3, <1>4, <1>5, <1>6, <1>7

-----------------------------------------------------------------------------
(* The pages.                                                              *)

\* A call reads the store before it answers.
LEMMA ListReadsStep == DashInv /\ ListReads => DashInv'
<1> SUFFICES ASSUME DashInv, ListReads PROVE DashInv'
  OBVIOUS
<1> USE DEF DashInv
<1>1. PICK a \in answers :
        /\ a.seen = Nothing
        /\ answers' = (answers \ {a}) \cup {[a EXCEPT !.seen = status, !.unchecked = Active(status)]}
  BY DEF ListReads
<1>2. UNCHANGED <<status, results, key, home, detail>>
  BY DEF ListReads
<1> DEFINE b == [a EXCEPT !.seen = status, !.unchecked = Active(status)]
<1>3. b \in CallRecord /\ b.key = a.key /\ b.seen = status
  BY <1>1 DEF PageTypes, CallRecord, Active
<1> HIDE DEF b
<1>9. answers' = (answers \ {a}) \cup {b}
  BY <1>1 DEF b
<1>4. PageTypes'
  BY <1>2, <1>3, <1>9 DEF PageTypes
<1>5. OneCurrent'
  BY <1>1, <1>2, <1>3, <1>9 DEF OneCurrent
<1>6. ShownIsOld'
  BY <1>1, <1>2, <1>3, <1>9 DEF ShownIsOld, History, HasRead
<1>7. AnswersAreOld'
  BY <1>1, <1>2, <1>3, <1>9 DEF AnswersAreOld, History, HasRead
<1>8. RecordIsBacked' /\ DetailIsOld'
  BY <1>2 DEF RecordIsBacked, DetailIsOld
<1> QED
  BY <1>4, <1>5, <1>6, <1>7, <1>8

\* A call reconciles a row: what it answers becomes failed, and so does the row
\* unless it is one of those that could not be stored.
LEMMA ListReconcilesStep == DashInv /\ ListReconciles => DashInv'
<1> SUFFICES ASSUME DashInv, ListReconciles PROVE DashInv'
  OBVIOUS
<1> USE DEF DashInv
<1>1. PICK a \in answers, r \in Reviews :
        LET rest == [a EXCEPT !.unchecked = @ \ {r}]
            dead == [rest EXCEPT !.seen[r] = "Failed"]
            Becoming(b) == answers' = (answers \ {a}) \cup {b}
        IN /\ r \in a.unchecked
           /\ \/ Becoming(rest) /\ UNCHANGED <<status, results>>
              \/ Becoming(dead) /\ Fail(r)
              \/ Becoming([dead EXCEPT !.unstored = @ \cup {r}]) /\ UNCHANGED <<status, results>>
  BY DEF ListReconciles, PageTypes, CallRecord
<1>2. UNCHANGED <<key, home, detail>>
  BY DEF ListReconciles
<1>3. [Next]_vars
  BY <1>1 DEF Next, vars
<1>4. /\ status' \in Snapshots /\ results' \in [Reviews -> Nat]
      /\ \A q \in Reviews : results'[q] >= results[q]
      /\ History(status) \subseteq History(status')
      /\ RecordIsBacked'
  BY <1>3, WritersOnlyAdd DEF PageTypes
<1>5. a \in CallRecord /\ a.seen \in Snapshots /\ HasRead(a)
  BY <1>1 DEF PageTypes, HasRead
<1>6. \E b \in CallRecord :
        /\ answers' = (answers \ {a}) \cup {b}
        /\ b.key = a.key /\ b.seen \in Snapshots
        /\ History(a.seen) \subseteq History(b.seen)
        /\ History(b.seen) \ b.unstored \subseteq (History(a.seen) \ a.unstored) \cup History(status')
  <2> DEFINE rest == [a EXCEPT !.unchecked = @ \ {r}]
             dead == [rest EXCEPT !.seen[r] = "Failed"]
             dire == [dead EXCEPT !.unstored = @ \cup {r}]
  <2>1. /\ rest \in CallRecord /\ rest.key = a.key /\ rest.seen = a.seen
        /\ rest.unstored = a.unstored
    BY <1>5 DEF CallRecord
  <2>2. /\ dead \in CallRecord /\ dead.key = a.key /\ dead.unstored = a.unstored
        /\ dead.seen = [a.seen EXCEPT ![r] = "Failed"] /\ dead.seen \in Snapshots
    BY <1>5 DEF CallRecord, Snapshots, Statuses
  <2>3. /\ dire \in CallRecord /\ dire.key = a.key /\ dire.seen = dead.seen
        /\ dire.unstored = a.unstored \cup {r}
    BY <2>2 DEF CallRecord
  <2>4. History(dead.seen) = History(a.seen) \cup {r}
    BY <1>5, <2>2 DEF History, Snapshots
  <2> HIDE DEF rest, dead, dire
  <2>5. \/ answers' = (answers \ {a}) \cup {rest}
        \/ answers' = (answers \ {a}) \cup {dead} /\ Fail(r)
        \/ answers' = (answers \ {a}) \cup {dire}
    BY <1>1 DEF rest, dead, dire
  <2>6. Fail(r) => r \in History(status')
    BY DEF Fail, Becomes, History, PageTypes, Snapshots
  <2>7. CASE answers' = (answers \ {a}) \cup {rest}
    BY <1>5, <2>1, <2>7
  <2>8. CASE answers' = (answers \ {a}) \cup {dead} /\ Fail(r)
    BY <2>2, <2>4, <2>6, <2>8
  <2>9. CASE answers' = (answers \ {a}) \cup {dire}
    <3>1. History(dire.seen) \ dire.unstored \subseteq History(a.seen) \ a.unstored
      BY <2>3, <2>4
    <3>2. History(a.seen) \subseteq History(dire.seen) /\ dire.seen \in Snapshots
      BY <2>2, <2>3, <2>4
    <3> QED
      BY <2>3, <2>9, <3>1, <3>2
  <2> QED
    BY <2>5, <2>7, <2>8, <2>9
<1>7. PICK b \in CallRecord :
        /\ answers' = (answers \ {a}) \cup {b}
        /\ b.key = a.key /\ b.seen \in Snapshots
        /\ History(a.seen) \subseteq History(b.seen)
        /\ History(b.seen) \ b.unstored \subseteq (History(a.seen) \ a.unstored) \cup History(status')
  BY <1>6
<1>8. PageTypes'
  BY <1>2, <1>4, <1>7 DEF PageTypes
<1>9. OneCurrent'
  BY <1>2, <1>7 DEF OneCurrent
<1>10. ShownIsOld'
  <2> SUFFICES ASSUME home.shown # Nothing
               PROVE  /\ History(home.shown) \ home.unstored \subseteq History(status')
                      /\ \A c \in answers' :
                           c.key = key /\ HasRead(c)
                             => History(home.shown) \ home.unstored \subseteq History(c.seen)
    BY <1>2 DEF ShownIsOld, History, HasRead
  <2>1. History(home.shown) \ home.unstored \subseteq History(status)
    BY DEF ShownIsOld
  <2>2. \A c \in answers :
          c.key = key /\ HasRead(c) => History(home.shown) \ home.unstored \subseteq History(c.seen)
    BY DEF ShownIsOld
  <2>3. b.key = key => History(home.shown) \ home.unstored \subseteq History(b.seen)
    BY <1>5, <1>7, <2>2
  <2> QED
    BY <1>4, <1>7, <2>1, <2>2, <2>3
<1>11. AnswersAreOld'
  <2> SUFFICES ASSUME NEW c \in answers', HasRead(c)
               PROVE  History(c.seen) \ c.unstored \subseteq History(status')
    BY DEF AnswersAreOld, History, HasRead
  <2>1. CASE c = b
    BY <1>4, <1>5, <1>7, <2>1 DEF AnswersAreOld
  <2>2. CASE c \in answers
    BY <1>4, <2>2 DEF AnswersAreOld
  <2> QED
    BY <1>7, <2>1, <2>2
<1>12. DetailIsOld'
  BY <1>2, <1>4 DEF DetailIsOld, PageTypes
<1> QED
  BY <1>4, <1>8, <1>9, <1>10, <1>11, <1>12

\* A page asks for its list again.
LEMMA RefreshesStep == DashInv /\ Refreshes => DashInv'
<1> SUFFICES ASSUME DashInv, Refreshes PROVE DashInv'
  OBVIOUS
<1> USE DEF DashInv
<1>1. /\ key' = key + 1
      /\ answers' = answers \cup {[key |-> key + 1, seen |-> Nothing, unchecked |-> {},
                                   unstored |-> {}]}
      /\ UNCHANGED <<status, results, home, detail>>
  BY DEF Refreshes, Asked
<1> DEFINE b == [key |-> key + 1, seen |-> Nothing, unchecked |-> {}, unstored |-> {}]
<1>8. b \in CallRecord /\ b.unchecked = {} /\ b.key = key' /\ key' = key + 1 /\ key' \in Nat
  BY <1>1 DEF PageTypes, CallRecord
<1>9. answers' = answers \cup {b} /\ UNCHANGED <<status, results, home, detail>>
  BY <1>1
<1> HIDE DEF b
<1>2. PageTypes'
  BY <1>8, <1>9 DEF PageTypes
<1>3. \A a \in answers : a.key # key'
  BY <1>1 DEF OneCurrent, PageTypes
<1>4. OneCurrent'
  <2>1. \A a \in answers : a.key \in Nat /\ a.key <= key
    BY DEF OneCurrent, PageTypes, CallRecord
  <2>2. key \in Nat
    BY DEF PageTypes
  <2>3. \A a \in answers' : a.key <= key'
    BY <1>8, <1>9, <2>1, <2>2
  <2> QED
    BY <1>3, <1>8, <1>9, <2>3 DEF OneCurrent
<1> USE DEF b
<1>5. ShownIsOld'
  BY <1>1, <1>3 DEF ShownIsOld, History, HasRead
<1>6. AnswersAreOld'
  BY <1>1 DEF AnswersAreOld, History, HasRead
<1>7. RecordIsBacked' /\ DetailIsOld'
  BY <1>1 DEF RecordIsBacked, DetailIsOld
<1> QED
  BY <1>2, <1>4, <1>5, <1>6, <1>7

\* The answer of a list arrives.
LEMMA ListAnswersStep ==
  DashInv /\ ListAnswers =>
    /\ DashInv'
    /\ \A r \in Reviews \ home.unstored :
         home.shown # Nothing /\ r \in History(home.shown) => r \in History(home'.shown)
<1> SUFFICES ASSUME DashInv, ListAnswers
             PROVE  /\ DashInv'
                    /\ \A r \in Reviews \ home.unstored :
                         home.shown # Nothing /\ r \in History(home.shown)
                           => r \in History(home'.shown)
  OBVIOUS
<1> USE DEF DashInv
<1>1. PICK a \in answers :
        /\ answers' = answers \ {a}
        /\ \/ a.key # key /\ UNCHANGED home
           \/ /\ a.key = key /\ a.seen # Nothing
              /\ home' = [ok |-> TRUE, failed |-> FALSE, shown |-> a.seen, unstored |-> a.unstored]
           \/ a.key = key /\ home' = [home EXCEPT !.ok = FALSE, !.failed = TRUE]
  BY DEF ListAnswers, Current
<1>2. UNCHANGED <<status, results, key, detail>>
  BY DEF ListAnswers
<1>3. OneCurrent' /\ AnswersAreOld' /\ RecordIsBacked' /\ DetailIsOld'
  BY <1>1, <1>2 DEF OneCurrent, AnswersAreOld, RecordIsBacked, DetailIsOld, History, HasRead
<1>4. CASE home'.shown = home.shown /\ home'.unstored = home.unstored /\ home' \in HomeShows
  <2>1. PageTypes' /\ ShownIsOld'
    BY <1>1, <1>2, <1>4 DEF PageTypes, ShownIsOld, History, HasRead
  <2> QED
    BY <1>3, <1>4, <2>1
<1>5. CASE /\ a.key = key /\ a.seen # Nothing
           /\ home' = [ok |-> TRUE, failed |-> FALSE, shown |-> a.seen, unstored |-> a.unstored]
  <2>1. PageTypes'
    BY <1>1, <1>2, <1>5 DEF PageTypes, CallRecord, HomeShows
  <2>2. \A b \in answers' : b.key # key
    BY <1>1, <1>5 DEF OneCurrent
  <2>3. a.seen \in Snapshots /\ home'.shown = a.seen /\ home'.unstored = a.unstored /\ HasRead(a)
    BY <1>5 DEF PageTypes, CallRecord, HasRead
  <2>4. History(a.seen) \ a.unstored \subseteq History(status)
    BY <2>3 DEF AnswersAreOld
  <2>5. ShownIsOld'
    BY <1>2, <2>2, <2>3, <2>4 DEF ShownIsOld, History
  <2>6. home.shown # Nothing => History(home.shown) \ home.unstored \subseteq History(home'.shown)
    BY <1>1, <1>5, <2>3 DEF ShownIsOld
  <2> QED
    BY <1>3, <2>1, <2>5, <2>6
<1> QED
  BY <1>1, <1>4, <1>5 DEF PageTypes, HomeShows

\* The detail page's call reconciles the review it read.
LEMMA DetailReconcilesStep == DashInv /\ DetailReconciles => DashInv'
<1> SUFFICES ASSUME DashInv, DetailReconciles PROVE DashInv'
  OBVIOUS
<1> USE DEF DashInv
<1>1. detail.of \in Reviews /\ UNCHANGED <<key, answers, home>>
  BY DEF DetailReconciles, PageTypes
<1>2. [Next]_vars
  BY <1>1 DEF DetailReconciles, Next, vars
<1>3. /\ status' \in Snapshots /\ results' \in [Reviews -> Nat]
      /\ \A q \in Reviews : results'[q] >= results[q]
      /\ History(status) \subseteq History(status')
      /\ RecordIsBacked'
  BY <1>2, WritersOnlyAdd DEF PageTypes
<1>4. /\ detail' \in DetailShows /\ ~detail'.unchecked
      /\ detail'.of = detail.of /\ detail'.results = detail.results
      /\ detail'.status \in {detail.status, "Failed"}
  BY DEF DetailReconciles, PageTypes, DetailShows, Statuses
<1>5. PageTypes'
  BY <1>1, <1>3, <1>4 DEF PageTypes
<1>6. OneCurrent'
  BY <1>1 DEF OneCurrent
<1>7. ShownIsOld'
  BY <1>1, <1>3 DEF ShownIsOld, History, HasRead
<1>8. AnswersAreOld'
  BY <1>1, <1>3 DEF AnswersAreOld, History, HasRead
<1>9. DetailIsOld'
  BY <1>3, <1>4 DEF DetailIsOld, PageTypes
<1> QED
  BY <1>3, <1>5, <1>6, <1>7, <1>8, <1>9

\* What else the detail page does.
LEMMA DetailSteps ==
  DashInv /\ (OpenDetail \/ ReadResults \/ LeaveDetail) => DashInv'
<1> SUFFICES ASSUME DashInv, OpenDetail \/ ReadResults \/ LeaveDetail PROVE DashInv'
  OBVIOUS
<1> USE DEF DashInv
<1>1. UNCHANGED <<status, results, key, answers, home>>
  BY DEF OpenDetail, ReadResults, LeaveDetail
<1>2. OneCurrent' /\ ShownIsOld' /\ AnswersAreOld' /\ RecordIsBacked'
  BY <1>1 DEF OneCurrent, ShownIsOld, AnswersAreOld, RecordIsBacked, History, HasRead
<1>3. CASE OpenDetail
  <2>1. PICK r \in Reviews : ReadReview(r)
    BY <1>3 DEF OpenDetail
  <2>2. /\ detail' = [of |-> r, status |-> status[r], results |-> Nothing,
                      unchecked |-> r \in Active(status)]
        /\ status[r] \in Statuses
    BY <2>1 DEF ReadReview, PageTypes, Snapshots
  <2>3. PageTypes'
    BY <1>1, <2>2 DEF PageTypes, DetailShows
  <2>4. DetailIsOld'
    BY <1>1, <2>2 DEF DetailIsOld, RecordIsBacked
  <2> QED
    BY <1>2, <2>3, <2>4
<1>4. CASE ReadResults
  <2>1. /\ detail.of \in Reviews
        /\ detail' = [detail EXCEPT !.results = results[detail.of]]
    BY <1>4 DEF ReadResults, PageTypes, DetailShows
  <2>2. PageTypes'
    BY <1>1, <2>1 DEF PageTypes, DetailShows
  <2>3. DetailIsOld'
    BY <1>1, <2>1 DEF DetailIsOld, PageTypes, DetailShows
  <2> QED
    BY <1>2, <2>2, <2>3
<1>5. CASE LeaveDetail
  <2>1. detail' = [of |-> Nothing, status |-> Nothing, results |-> Nothing, unchecked |-> FALSE]
    BY <1>5 DEF LeaveDetail, NoDetail
  <2>2. PageTypes'
    BY <1>1, <2>1 DEF PageTypes, DetailShows
  <2>3. DetailIsOld'
    BY <1>1, <2>1, DashboardAssumption DEF DetailIsOld
  <2> QED
    BY <1>2, <2>2, <2>3
<1> QED
  BY <1>3, <1>4, <1>5

\* Every step of the store and of the pages.
LEMMA DashSteps ==
  DashInv /\ [DashNext]_dashVars =>
    /\ DashInv'
    /\ [\A r \in Reviews \ home.unstored :
          home.shown # Nothing /\ r \in History(home.shown) => r \in History(home'.shown)]_dashVars
<1> DEFINE Stays == \A r \in Reviews \ home.unstored :
             home.shown # Nothing /\ r \in History(home.shown) => r \in History(home'.shown)
<1> SUFFICES ASSUME DashInv, [DashNext]_dashVars PROVE DashInv' /\ [Stays]_dashVars
  OBVIOUS
<1>1. ASSUME UNCHANGED home PROVE Stays
  BY <1>1 DEF History
<1>2. CASE Written
  <2>1. UNCHANGED home
    BY <1>2 DEF Written, pages
  <2> QED
    BY <1>1, <1>2, <2>1, WrittenStep
<1>3. CASE ListReads
  <2>1. UNCHANGED home
    BY <1>3 DEF ListReads
  <2> QED
    BY <1>1, <1>3, <2>1, ListReadsStep
<1>8. CASE ListReconciles
  <2>1. UNCHANGED home
    BY <1>8 DEF ListReconciles
  <2> QED
    BY <1>1, <1>8, <2>1, ListReconcilesStep
<1>9. CASE DetailReconciles
  <2>1. UNCHANGED home
    BY <1>9 DEF DetailReconciles
  <2> QED
    BY <1>1, <1>9, <2>1, DetailReconcilesStep
<1>4. CASE Interval \/ Retry
  <2>1. Refreshes
    BY <1>4 DEF Interval, Retry
  <2>2. UNCHANGED home
    BY <2>1 DEF Refreshes
  <2> QED
    BY <1>1, <2>1, <2>2, RefreshesStep
<1>5. CASE ListAnswers
  BY <1>5, ListAnswersStep
<1>6. CASE OpenDetail \/ ReadResults \/ LeaveDetail
  <2>1. UNCHANGED home
    BY <1>6 DEF OpenDetail, ReadResults, LeaveDetail
  <2> QED
    BY <1>1, <1>6, <2>1, DetailSteps
<1>7. CASE UNCHANGED dashVars
  BY <1>7 DEF dashVars, DashInv, PageTypes, OneCurrent, ShownIsOld, AnswersAreOld,
              RecordIsBacked, DetailIsOld, History, HasRead
<1> QED
  BY <1>2, <1>3, <1>4, <1>5, <1>6, <1>7, <1>8, <1>9
     DEF DashNext, OverviewNext, DetailNext

\* The invariant of the pages.
LEMMA DashInvariance == DashSpec => []DashInv
<1>1. DashInv /\ [DashNext]_dashVars => DashInv'
  BY DashSteps
<1> QED
  BY DashStarts, <1>1, PTL DEF DashSpec

-----------------------------------------------------------------------------
\* A review that the overview showed as ended is not shown running again,
\* however many answers are on their way, whatever is written meanwhile and
\* whoever declares reviews failed that are not active; but for an end that
\* list_reviews answered and could not store.
THEOREM ShownStays == DashSpec => ShownNeverGoesBack
<1>1. DashInv /\ [DashNext]_dashVars =>
        [\A r \in Reviews \ home.unstored :
           home.shown # Nothing /\ r \in History(home.shown) => r \in History(home'.shown)]_dashVars
  BY DashSteps
<1> QED
  BY <1>1, DashInvariance, PTL DEF DashSpec, ShownNeverGoesBack

\* A completed review on the detail page is shown with a result of it.
THEOREM DetailHasResults == DashSpec => []DetailIsBacked
<1>1. DashInv => DetailIsBacked
  BY DEF DashInv, DetailIsOld, DetailIsBacked
<1> QED
  BY <1>1, DashInvariance, PTL

-----------------------------------------------------------------------------
(* The panes of a live page.                                                *)

Said == [kind : Kinds, agent : Speakers] \cup [kind : Marks]

TabRecord == [pc : {"closed", "broken", "open", "left"}, agents : SUBSET Listed,
              cursor : Nat, skipped : SUBSET Nat]

\* The events the page has got.
Reached == (1 .. tab.cursor) \ tab.skipped

PageIsTyped ==
  /\ said \in Seq(Said)
  /\ tab \in TabRecord
  /\ tab.cursor <= Len(said)
  /\ tab.skipped \subseteq 1 .. tab.cursor
  /\ panes \in [Speakers -> [response : Seq(Nat), thinking : Seq(Nat),
                             status : {"Pending", "Completed"}]]

PaneInv == PageIsTyped /\ PaneIsItsAgents

\* What a pane p shows of an agent whose output, thinking and end are the events
\* out, think and over.
Shows(p, out, think, over) ==
  /\ Increasing(p.response) /\ ToSet(p.response) = out
  /\ Increasing(p.thinking) /\ ToSet(p.thinking) = think
  /\ p.status = "Completed" <=> over # {}

\* What is promised of the panes, agent by agent.
LEMMA PanesShow ==
  PaneIsItsAgents <=> \A a \in Speakers :
    Shows(panes[a], Got(a, "Output"), Got(a, "Thinking"), Got(a, "AgentFinished"))
  BY DEF PaneIsItsAgents, Shows

\* Nothing was said and nothing is shown.
LEMMA PanesStart == PaneInit => PaneInv
<1> SUFFICES ASSUME PaneInit PROVE PaneInv
  OBVIOUS
<1>1. said = <<>> /\ \A a \in Speakers : panes[a] = NoPane
  BY DEF PaneInit
<1>2. NoPane \in [response : Seq(Nat), thinking : Seq(Nat), status : {"Pending", "Completed"}]
  BY DEF NoPane
<1>3. PageIsTyped
  BY <1>1, <1>2 DEF PageIsTyped, TabRecord, PaneInit
<1>4. \A k : \A a \in Speakers : Got(a, k) = {}
  BY DEF PaneInit, Got
<1>5. NoPane.response = <<>> /\ NoPane.thinking = <<>> /\ NoPane.status = "Pending"
  BY DEF NoPane
<1>6. ToSet(<<>>) = {} /\ Increasing(<<>>)
  BY DEF ToSet, Increasing
<1>7. PaneIsItsAgents
  BY <1>1, <1>4, <1>5, <1>6 DEF PaneIsItsAgents
<1> QED
  BY <1>3, <1>7 DEF PaneInv

\* The page keeps what it has shown when more is published or it jumps forward
\* over what it never gets.
LEMMA PanesStand ==
  ASSUME PaneInv, PageIsTyped', UNCHANGED panes, Reached' = Reached,
         \A i \in 1 .. tab.cursor : said'[i] = said[i]
  PROVE  PaneInv'
<1>1. ASSUME NEW a \in Speakers, NEW k
      PROVE  Got(a, k)' = Got(a, k)
  <2>1. Got(a, k) = {i \in Reached : said[i].kind = k /\ said[i].agent = a}
    BY DEF Got, Reached
  <2>2. Got(a, k)' = {i \in Reached : said'[i].kind = k /\ said'[i].agent = a}
    BY DEF Got, Reached
  <2>3. Reached \subseteq 1 .. tab.cursor
    BY DEF Reached
  <2> QED
    BY <2>1, <2>2, <2>3
<1>2. PaneIsItsAgents'
  BY <1>1 DEF PaneInv, PaneIsItsAgents
<1> QED
  BY <1>2 DEF PaneInv

\* What is skipped on the way to an event c is not got.
LEMMA SkippedAreNotGot ==
  ASSUME PaneInv, NEW c \in Nat, tab.cursor <= c, c <= Len(said), UNCHANGED <<said, panes>>,
         tab' \in TabRecord, tab'.cursor = c,
         tab'.skipped = tab.skipped \cup (tab.cursor + 1 .. c)
  PROVE  PaneInv'
<1>1. tab.cursor \in Nat /\ tab.skipped \subseteq 1 .. tab.cursor
  BY DEF PaneInv, PageIsTyped, TabRecord
<1>2. tab'.skipped \subseteq 1 .. c /\ (1 .. c) \ tab'.skipped = (1 .. tab.cursor) \ tab.skipped
  BY <1>1
<1>3. PageIsTyped'
  BY <1>2 DEF PaneInv, PageIsTyped
<1>4. Reached' = Reached
  BY <1>2 DEF Reached
<1> QED
  BY <1>3, <1>4, PanesStand

\* Text that is appended stands behind all that is shown.
LEMMA AppendStands ==
  ASSUME NEW s \in Seq(Nat), NEW c \in Nat, Increasing(s), ToSet(s) \subseteq 1 .. c
  PROVE  /\ Append(s, c + 1) \in Seq(Nat)
         /\ Increasing(Append(s, c + 1))
         /\ ToSet(Append(s, c + 1)) = ToSet(s) \cup {c + 1}
<1> DEFINE t == Append(s, c + 1)
<1>1. /\ t \in Seq(Nat) /\ Len(t) = Len(s) + 1 /\ Len(s) \in Nat
      /\ DOMAIN t = 1 .. Len(s) + 1 /\ DOMAIN s = 1 .. Len(s)
      /\ t[Len(s) + 1] = c + 1 /\ \A i \in 1 .. Len(s) : t[i] = s[i]
  OBVIOUS
<1> HIDE DEF t
<1>2. \A i \in 1 .. Len(s) : s[i] \in 1 .. c
  BY <1>1 DEF ToSet
<1>3. Increasing(t)
  <2> SUFFICES ASSUME NEW i \in 1 .. Len(s) + 1, NEW j \in 1 .. Len(s) + 1, i < j
               PROVE  t[i] < t[j]
    BY <1>1 DEF Increasing
  <2>1. i \in 1 .. Len(s)
    BY <1>1
  <2>2. CASE j \in 1 .. Len(s)
    BY <1>1, <2>1, <2>2 DEF Increasing
  <2>3. CASE j = Len(s) + 1
    <3>1. t[i] = s[i] /\ s[i] \in 1 .. c /\ t[j] = c + 1
      BY <1>1, <1>2, <2>1, <2>3
    <3> QED
      BY <3>1
  <2>4. j \in 1 .. Len(s) \/ j = Len(s) + 1
    BY SMTT(30), <1>1
  <2> QED
    BY <2>2, <2>3, <2>4
<1>4. ToSet(t) = ToSet(s) \cup {c + 1}
  <2>1. ToSet(t) = {t[i] : i \in 1 .. Len(s) + 1} /\ ToSet(s) = {s[i] : i \in 1 .. Len(s)}
    BY <1>1 DEF ToSet
  <2>2. 1 .. Len(s) + 1 = (1 .. Len(s)) \cup {Len(s) + 1}
    BY <1>1
  <2> QED
    BY <1>1, <2>1, <2>2
<1> QED
  BY <1>1, <1>3, <1>4 DEF t

\* The event the page is at is of one agent, and only its pane changes.
LEMMA ReceiveEventStep ==
  ASSUME PaneInv, ReceiveEvent
  PROVE  PaneInv'
<1>0. PICK i \in Nat : i = tab.cursor + 1
  BY DEF PaneInv, PageIsTyped, TabRecord
<1>01. /\ i <= Len(said) /\ said \in Seq(Said) /\ tab.cursor \in Nat
       /\ UNCHANGED <<registered, said>>
  BY <1>0 DEF ReceiveEvent, PaneInv, PageIsTyped, TabRecord
<1>02. i \in 1 .. Len(said)
  BY <1>0, <1>01
<1>00. PICK e \in Said : e = said[i]
  BY <1>01, <1>02
<1>1. /\ i \in Nat /\ i \in 1 .. Len(said) /\ e \in Said /\ tab.cursor \in Nat
      /\ UNCHANGED <<registered, said>> /\ i = tab.cursor + 1 /\ e = said[i]
  BY <1>0, <1>00, <1>01, <1>02
<1>9. tab \in TabRecord /\ said \in Seq(Said) /\ tab.skipped \subseteq 1 .. tab.cursor
  BY DEF PaneInv, PageIsTyped
<1>8. 1 .. i = (1 .. tab.cursor) \cup {i} /\ i \notin tab.skipped
  BY <1>1, <1>9
<1>2. CASE e.kind \in Marks
  <2>1. UNCHANGED panes
    BY <1>1, <1>2 DEF ReceiveEvent
  <2>0. PICK pc \in {"open", "left"} : tab' = [tab EXCEPT !.cursor = i, !.pc = pc]
    BY <1>1, <1>2 DEF ReceiveEvent
  <2>2. PageIsTyped' /\ tab'.cursor = i /\ tab'.skipped = tab.skipped
    <3>1. tab'.cursor = i /\ tab'.skipped = tab.skipped
      BY <1>9, <2>0 DEF TabRecord
    <3>2. tab' \in TabRecord
      BY <1>1, <1>9, <2>0 DEF TabRecord
    <3> QED
      BY <1>1, <1>8, <2>1, <3>1, <3>2 DEF PaneInv, PageIsTyped
  <2>3. \A a \in Speakers : \A k \in {"Output", "Thinking", "AgentFinished"} :
          Got(a, k)' = Got(a, k)
    <3>1. e.kind \notin {"Output", "Thinking", "AgentFinished"}
      BY <1>2 DEF Marks, Endings
    <3> QED
      BY <1>1, <1>8, <2>2, <3>1 DEF Got
  <2>4. PaneIsItsAgents'
    BY <2>1, <2>2, <2>3 DEF PaneInv, PaneIsItsAgents
  <2> QED
    BY <2>2, <2>4 DEF PaneInv
<1>3. CASE e.kind \notin Marks
  <2>1. e \in [kind : Kinds, agent : Speakers]
    BY <1>1, <1>3 DEF Said
  <2>0. PICK b \in Speakers : b = e.agent
    BY <2>1
  <2> DEFINE p == panes[b]
             q == Applied(p, i)
  <2>2. /\ panes' = [panes EXCEPT ![b] = q] /\ tab' = [tab EXCEPT !.cursor = i]
    BY <1>1, <1>3, <2>0 DEF ReceiveEvent
  <2>3. b \in Speakers /\ e.kind \in Kinds /\ e.agent = b
    BY <2>0, <2>1
  <2>4. tab'.cursor = i /\ tab'.skipped = tab.skipped
    BY <1>9, <2>2 DEF TabRecord
  <2>5. ASSUME NEW a \in Speakers, NEW k
        PROVE  Got(a, k)' = IF k = e.kind /\ a = b THEN Got(a, k) \cup {i} ELSE Got(a, k)
    <3>1. Got(a, k)' = {j \in (1 .. i) \ tab.skipped : said[j].kind = k /\ said[j].agent = a}
      BY <1>1, <2>4 DEF Got
    <3> QED
      BY <1>1, <1>8, <2>3, <3>1 DEF Got
  <2>6. p \in [response : Seq(Nat), thinking : Seq(Nat), status : {"Pending", "Completed"}]
        /\ Shows(p, Got(b, "Output"), Got(b, "Thinking"), Got(b, "AgentFinished"))
    BY <2>3, PanesShow DEF PaneInv, PageIsTyped
  <2>7. q \in [response : Seq(Nat), thinking : Seq(Nat), status : {"Pending", "Completed"}]
        /\ Shows(q, Got(b, "Output")', Got(b, "Thinking")', Got(b, "AgentFinished")')
    <3> HIDE DEF p
    <3>1. CASE e.kind = "Output"
      <4>1. q = [p EXCEPT !.response = Append(@, i)]
        BY <1>1, <3>1 DEF Applied
      <4>2. /\ Append(p.response, i) \in Seq(Nat) /\ Increasing(Append(p.response, i))
            /\ ToSet(Append(p.response, i)) = ToSet(p.response) \cup {i}
        <5>1. ToSet(p.response) \subseteq 1 .. tab.cursor
          BY <2>6 DEF Shows, Got
        <5> QED
          BY <1>1, <2>6, <5>1, AppendStands DEF Shows
      <4>3. /\ q.response = Append(p.response, i) /\ q.thinking = p.thinking
            /\ q.status = p.status
            /\ q \in [response : Seq(Nat), thinking : Seq(Nat), status : {"Pending", "Completed"}]
        BY <2>6, <4>1, <4>2
      <4>4. /\ Got(b, "Output")' = Got(b, "Output") \cup {i}
            /\ Got(b, "Thinking")' = Got(b, "Thinking")
            /\ Got(b, "AgentFinished")' = Got(b, "AgentFinished")
        BY <2>3, <2>5, <3>1
      <4> QED
        BY <2>4, <2>6, <4>2, <4>3, <4>4 DEF Shows
    <3>2. CASE e.kind = "Thinking"
      <4>1. q = [p EXCEPT !.thinking = Append(@, i)]
        BY <1>1, <3>2 DEF Applied
      <4>2. /\ Append(p.thinking, i) \in Seq(Nat) /\ Increasing(Append(p.thinking, i))
            /\ ToSet(Append(p.thinking, i)) = ToSet(p.thinking) \cup {i}
        <5>1. ToSet(p.thinking) \subseteq 1 .. tab.cursor
          BY <2>6 DEF Shows, Got
        <5> QED
          BY <1>1, <2>6, <5>1, AppendStands DEF Shows
      <4>3. /\ q.thinking = Append(p.thinking, i) /\ q.response = p.response
            /\ q.status = p.status
            /\ q \in [response : Seq(Nat), thinking : Seq(Nat), status : {"Pending", "Completed"}]
        BY <2>6, <4>1, <4>2
      <4>4. /\ Got(b, "Thinking")' = Got(b, "Thinking") \cup {i}
            /\ Got(b, "Output")' = Got(b, "Output")
            /\ Got(b, "AgentFinished")' = Got(b, "AgentFinished")
        BY <2>3, <2>5, <3>2
      <4> QED
        BY <2>4, <2>6, <4>2, <4>3, <4>4 DEF Shows
    <3>3. CASE e.kind = "AgentFinished"
      <4>1. q = [p EXCEPT !.status = "Completed"]
        BY <1>1, <3>3 DEF Applied
      <4>2. /\ q.response = p.response /\ q.thinking = p.thinking
            /\ q \in [response : Seq(Nat), thinking : Seq(Nat), status : {"Pending", "Completed"}]
        BY <2>6, <4>1
      <4>3. /\ Got(b, "AgentFinished")' # {} /\ Got(b, "Output")' = Got(b, "Output")
            /\ Got(b, "Thinking")' = Got(b, "Thinking")
        BY <2>3, <2>5, <3>3
      <4>4. q.status = "Completed"
        BY <2>6, <4>1
      <4> QED
        BY <2>4, <2>6, <4>2, <4>3, <4>4 DEF Shows
    <3>4. CASE e.kind = "Tool"
      <4>1. q = p
        BY <1>1, <3>4 DEF Applied
      <4>2. /\ Got(b, "AgentFinished")' = Got(b, "AgentFinished")
            /\ Got(b, "Output")' = Got(b, "Output") /\ Got(b, "Thinking")' = Got(b, "Thinking")
        BY <2>3, <2>5, <3>4
      <4> QED
        BY <2>4, <2>6, <4>1, <4>2
    <3> QED
      BY <2>3, <3>1, <3>2, <3>3, <3>4 DEF Kinds
  <2> HIDE DEF q
  <2>8. panes' \in [Speakers -> [response : Seq(Nat), thinking : Seq(Nat),
                                 status : {"Pending", "Completed"}]]
        /\ panes'[b] = q /\ \A a \in Speakers \ {b} : panes'[a] = panes[a]
    BY <2>2, <2>3, <2>7 DEF PaneInv, PageIsTyped
  <2>9. PageIsTyped'
    <3>1. tab' \in TabRecord
      BY <1>1, <1>9, <2>2 DEF TabRecord
    <3> QED
      BY <1>1, <1>8, <2>4, <2>8, <3>1 DEF PaneInv, PageIsTyped
  <2>10. ASSUME NEW a \in Speakers
         PROVE  Shows(panes'[a], Got(a, "Output")', Got(a, "Thinking")', Got(a, "AgentFinished")')
    <3>1. CASE a = b
      BY <2>7, <2>8, <3>1
    <3>2. CASE a # b
      <4>1. /\ Got(a, "Output")' = Got(a, "Output") /\ Got(a, "Thinking")' = Got(a, "Thinking")
            /\ Got(a, "AgentFinished")' = Got(a, "AgentFinished")
        BY <2>5, <3>2
      <4>2. Shows(panes[a], Got(a, "Output"), Got(a, "Thinking"), Got(a, "AgentFinished"))
        BY PanesShow DEF PaneInv
      <4>3. panes'[a] = panes[a]
        BY <2>8, <3>2
      <4> QED
        BY <2>4, <4>1, <4>2, <4>3
    <3> QED
      BY <3>1, <3>2
  <2>11. PaneIsItsAgents'
    BY <2>10 DEF PaneIsItsAgents, Shows
  <2> QED
    BY <2>9, <2>11 DEF PaneInv
<1> QED
  BY <1>2, <1>3

\* Every step of the publisher and the page.
LEMMA PaneInvariance == PaneSpec => []PaneInv
<1>1. PaneInv /\ [PaneNext]_paneVars => PaneInv'
  <2> SUFFICES ASSUME PaneInv, [PaneNext]_paneVars PROVE PaneInv'
    OBVIOUS
  <2>1. CASE Publish
    <3>1. \E e \in Said : said' = Append(said, e)
      BY <2>1 DEF Publish, Said
    <3>2. UNCHANGED <<registered, tab, panes, stream>>
      BY <2>1 DEF Publish
    <3>3. PageIsTyped' /\ \A i \in 1 .. tab.cursor : said'[i] = said[i]
      BY <3>1, <3>2 DEF PaneInv, PageIsTyped, TabRecord
    <3>4. Reached' = Reached
      BY <3>2 DEF Reached
    <3> QED
      BY <3>2, <3>3, <3>4, PanesStand
  <2>2. CASE RegisterPanes \/ OpenPanes \/ BreakConnection
    <3>0. tab \in TabRecord
      BY DEF PaneInv, PageIsTyped
    <3>1. UNCHANGED <<said, panes>>
      BY <2>2 DEF RegisterPanes, OpenPanes, BreakConnection
    <3>2. tab' \in TabRecord /\ tab'.cursor = tab.cursor /\ tab'.skipped = tab.skipped
      BY <2>2, <3>0 DEF RegisterPanes, OpenPanes, BreakConnection, ListLiveReviewAgents, TabRecord
    <3>3. PageIsTyped' /\ Reached' = Reached
      BY <3>1, <3>2 DEF PaneInv, PageIsTyped, Reached
    <3> QED
      BY <3>1, <3>3, PanesStand
  <2>3. CASE ConnectPage
    <3>1. tab \in TabRecord /\ tab.cursor <= Len(said) /\ Len(said) \in Nat
      BY DEF PaneInv, PageIsTyped
    <3>2. /\ UNCHANGED <<said, panes>>
          /\ tab' = [tab EXCEPT !.pc = "open", !.cursor = Len(said),
                               !.skipped = tab.skipped \cup (tab.cursor + 1 .. Len(said))]
      BY <2>3 DEF ConnectPage
    <3> DEFINE gap == tab.cursor + 1 .. Len(said)
    <3>4. gap \in SUBSET Nat
      BY <3>1 DEF TabRecord
    <3> HIDE DEF gap
    <3>5. tab' = [tab EXCEPT !.pc = "open", !.cursor = Len(said), !.skipped = tab.skipped \cup gap]
      BY <3>2 DEF gap
    <3>6. tab' \in TabRecord /\ tab'.cursor = Len(said) /\ tab'.skipped = tab.skipped \cup gap
      BY <3>1, <3>4, <3>5 DEF TabRecord
    <3>3. /\ tab' \in TabRecord /\ tab'.cursor = Len(said)
          /\ tab'.skipped = tab.skipped \cup (tab.cursor + 1 .. Len(said))
      BY <3>6 DEF gap
    <3> QED
      BY <3>1, <3>2, <3>3, SkippedAreNotGot
  <2>4. CASE Lag
    <3>1. tab \in TabRecord /\ Len(said) \in Nat
      BY DEF PaneInv, PageIsTyped
    <3>2. Lost \in Nat /\ Lost <= Len(said)
      BY <3>1, PanesAssumption DEF Lost
    <3>3. /\ UNCHANGED <<said, panes>> /\ tab.cursor < Lost
          /\ tab' = [tab EXCEPT !.cursor = Lost,
                               !.skipped = tab.skipped \cup (tab.cursor + 1 .. Lost)]
      BY <2>4 DEF Lag
    <3> HIDE DEF Lost
    <3> DEFINE gap == tab.cursor + 1 .. Lost
    <3>6. gap \in SUBSET Nat
      BY <3>1, <3>2 DEF TabRecord
    <3> HIDE DEF gap
    <3>7. tab' = [tab EXCEPT !.cursor = Lost, !.skipped = tab.skipped \cup gap]
      BY <3>3 DEF gap
    <3>8. tab' \in TabRecord /\ tab'.cursor = Lost /\ tab'.skipped = tab.skipped \cup gap
      BY <3>1, <3>2, <3>6, <3>7 DEF TabRecord
    <3>4. /\ tab' \in TabRecord /\ tab'.cursor = Lost
          /\ tab'.skipped = tab.skipped \cup (tab.cursor + 1 .. Lost)
      BY <3>8 DEF gap
    <3>5. tab.cursor <= Lost
      BY <3>1, <3>2, <3>3 DEF TabRecord
    <3> QED
      BY <3>2, <3>3, <3>4, <3>5, SkippedAreNotGot
  <2>5. CASE ReceiveEvent
    BY <2>5, ReceiveEventStep
  <2>6. CASE UNCHANGED paneVars
    BY <2>6 DEF paneVars, PaneInv, PageIsTyped, PaneIsItsAgents, Got
  <2> QED
    BY <2>1, <2>2, <2>3, <2>4, <2>5, <2>6 DEF PaneNext
<1> QED
  BY PanesStart, <1>1, PTL DEF PaneSpec

\* A pane holds exactly what its agent said of what the page got, in the order it
\* was said and no piece twice, and is completed by its agent's own word and
\* nothing else, for any number of agents, pull requests that start and end,
\* lags and reconnections (connect_sse, ReviewLivePage).
THEOREM PanesAreTheirAgents == PaneSpec => []PaneIsItsAgents
<1>1. PaneInv => PaneIsItsAgents
  BY DEF PaneInv
<1> QED
  BY <1>1, PaneInvariance, PTL

-----------------------------------------------------------------------------
(* The console.                                                              *)

\* A step of the console is a step of one of its parts, and none of the others.
THEOREM ConsoleIsItsParts ==
  ConsoleSpec => CatalogSpec /\ FormSpec /\ LogSpec /\ DashSpec /\ PaneSpec
<1>1. ConsoleInit => CatalogInit /\ FormInit /\ LogInit /\ DashInit /\ PaneInit
  BY DEF ConsoleInit
<1>2. [ConsoleNext]_consoleVars =>
        /\ [CatalogNext]_catalogVars /\ [FormNext]_formVars /\ [LogNext]_logVars
        /\ [DashNext]_dashVars /\ [PaneNext]_paneVars
  BY DEF ConsoleNext, consoleVars, DashNext
<1> QED
  BY <1>1, <1>2, PTL DEF ConsoleSpec, CatalogSpec, FormSpec, LogSpec, DashSpec, PaneSpec

\* Whichever of its pages is used, the console keeps what all of them promise.
THEOREM ConsoleIsWhole ==
  ConsoleSpec =>
    /\ [](CatalogIsWhole /\ FormAgrees /\ LogIsWhole /\ DetailIsBacked /\ PaneIsItsAgents)
    /\ ShownNeverGoesBack
  BY ConsoleIsItsParts, CatalogStaysWhole, LaunchesAgree, NoLineIsMissed, ShownStays,
     DetailHasResults, PanesAreTheirAgents, PTL

-----------------------------------------------------------------------------
(* The types of the pages, and the bounds they rest on.                     *)

\* A save, and what the page of an administrator may hold.
SaveRecord == [pc : {"idle", "clear", "insert", "failed", "done"}, sent : SUBSET Models, left : SUBSET Models]
AdminPage ==
  [selected : SUBSET Models, shown : SUBSET Models, query : SUBSET Models,
   at : 1 .. Cardinality(Models) + 1, total : 0 .. Cardinality(Models),
   asked : BOOLEAN, pending : BOOLEAN, loading : BOOLEAN, saving : BOOLEAN, error : BOOLEAN]

\* What is left of a save is of what was sent.
SavesAreTyped ==
  /\ save \in [Savers -> SaveRecord]
  /\ \A w \in Savers : save[w].left \subseteq save[w].sent

\* The table, the saves and the pages are of models.
CatalogIsTyped ==
  /\ table \subseteq Models
  /\ SavesAreTyped
  /\ page \in [Admins -> AdminPage]
  /\ catErrors \in 0 .. MaxErrors

\* The details of an answer are of models, none of them blank.
LEMMA DetailsAreModels ==
  ASSUME NEW raw \in Catalogs
  PROVE  \A k \in DOMAIN BuildDetails(raw) : BuildDetails(raw)[k].id \in Models
<1>1. raw \in Seq(Entry)
  BY CatalogAssumption DEF Entry
<1>2. PICK I : I = {i \in DOMAIN raw : raw[i].id # Blank /\ \A j \in 1 .. i - 1 : raw[j].id # raw[i].id}
  OBVIOUS
<1>3. PICK ds : ds = BuildDetails(raw)
  OBVIOUS
<1>4. ds = Picked(raw, I)
  BY <1>2, <1>3 DEF BuildDetails
<1>5. ds \in Seq(Entry) /\ ToSet(ds) = {raw[i] : i \in I \cap DOMAIN raw}
  BY <1>1, <1>4, PickedPlaces, PickedMembers
<1>6. ASSUME NEW k \in DOMAIN ds PROVE ds[k].id \in Models
  <2>1. ds[k] \in ToSet(ds)
    BY <1>6 DEF ToSet
  <2>2. PICK i \in I \cap DOMAIN raw : ds[k] = raw[i]
    BY <1>5, <2>1
  <2>3. raw[i] \in Entry /\ raw[i].id # Blank
    BY <1>1, <1>2, <2>2
  <2> QED BY <2>2, <2>3 DEF Entry
<1> QED BY <1>3, <1>6

\* The identifiers of the cache are a sequence of models without repetition.
LEMMA IdsAreModels ==
  ASSUME CacheIsBuilt
  PROVE  /\ Ids(cache.details) \in Seq(Models) /\ Distinct(Ids(cache.details))
         /\ DOMAIN Ids(cache.details) = DOMAIN cache.details
         /\ \A k \in DOMAIN cache.details : Ids(cache.details)[k] = cache.details[k].id
<1>1. PICK ds : ds = cache.details
  OBVIOUS
<1>2. ds \in Seq(Entry) /\ \A k, l \in DOMAIN ds : k < l => ds[k].id # ds[l].id
  BY <1>1, CacheShape
<1>3. \A k \in DOMAIN ds : ds[k].id \in Models
  <2>1. CASE cache = RecordError(EmptyCache)
    BY <1>1, <2>1 DEF RecordError, EmptyCache
  <2>2. ASSUME NEW raw \in Catalogs, cache = ApplySuccess(BuildDetails(raw))
        PROVE  \A k \in DOMAIN ds : ds[k].id \in Models
    <3>1. ds = BuildDetails(raw)
      BY <1>1, <2>2 DEF ApplySuccess
    <3> QED BY <3>1, DetailsAreModels
  <2> QED BY <2>1, <2>2 DEF CacheIsBuilt
<1>4. PICK n \in Nat : n = Len(ds) /\ DOMAIN ds = 1 .. n
  BY <1>2
<1>5. PICK ids : ids = Ids(ds)
  OBVIOUS
<1>6. ids = [k \in 1 .. n |-> ds[k].id]
  BY <1>4, <1>5 DEF Ids
<1>7. ids \in Seq(Models) /\ DOMAIN ids = 1 .. n /\ \A k \in 1 .. n : ids[k] = ds[k].id
  BY <1>3, <1>4, <1>6
<1>8. ASSUME NEW k \in 1 .. n, NEW l \in 1 .. n, k # l PROVE ids[k] # ids[l]
  <2>1. k < l \/ l < k
    BY <1>8
  <2> QED BY <1>2, <1>4, <1>7, <2>1
<1>9. Distinct(ids)
  BY <1>7, <1>8 DEF Distinct
<1> QED BY <1>1, <1>4, <1>5, <1>7, <1>9

\* What a search finds are models, no more than there are, and so is each slice.
LEMMA FoundAreModels ==
  ASSUME CacheIsBuilt, NEW q
  PROVE  /\ Filtered(q) \in Seq(Models) /\ Len(Filtered(q)) \in 0 .. Cardinality(Models)
         /\ Cardinality(Models) \in Nat
<1>1. PICK ids : ids = Ids(cache.details) /\ ids \in Seq(Models) /\ Distinct(ids)
  BY IdsAreModels
<1>2. PICK I : I = {i \in DOMAIN cache.details : cache.details[i].id \in q}
  OBVIOUS
<1>3. PICK f : f = Filtered(q) /\ f = Picked(ids, I)
  BY <1>1, <1>2 DEF Filtered
<1>4. f \in Seq(Models)
  BY <1>1, <1>3, PickedPlaces
<1>5. Distinct(f)
  BY <1>1, <1>3, PickedDistinct
<1>6. IsFiniteSet(ToSet(f)) /\ Cardinality(ToSet(f)) = Len(f)
  BY <1>4, <1>5, DistinctMembers
<1>7. ToSet(f) \subseteq Models
  BY <1>4 DEF ToSet
<1>8. Cardinality(ToSet(f)) <= Cardinality(Models)
  BY <1>7, CatalogAssumption, FS_Subset
<1>9. Cardinality(Models) \in Nat
  BY CatalogAssumption, FS_CardinalityType
<1>10. Len(f) \in Nat
  BY <1>4
<1> QED BY <1>3, <1>4, <1>6, <1>8, <1>9, <1>10

\* A page of it shows models.
LEMMA SliceOfModels ==
  ASSUME CacheIsBuilt, NEW q, NEW n \in Nat
  PROVE  ToSet(CatalogSlice(n, q)) \subseteq Models
<1>1. PICK f : f = Filtered(q) /\ f \in Seq(Models)
  BY FoundAreModels
<1>2. PICK len \in Nat : len = Len(f) /\ DOMAIN f = 1 .. len
  BY <1>1
<1>3. PICK p \in Nat \ {0} : p = PerPage
  BY CatalogAssumption
<1>4. PICK x \in Nat : x = AtLeastOne(n) - 1
  BY DEF AtLeastOne
<1>5. PICK a \in Nat : a = x * p
  OBVIOUS
<1>6. PICK b : b = Min({a + p, len})
  OBVIOUS
<1>7. b = IF a + p <= len THEN a + p ELSE len
  BY <1>6 DEF Min
<1>8. b \in Nat /\ b <= len
  BY <1>7
<1>9. CatalogSlice(n, q) = SubSeq(f, a + 1, b)
  BY <1>1, <1>2, <1>3, <1>4, <1>5, <1>6 DEF CatalogSlice, Slice
<1>10. ASSUME NEW i \in DOMAIN SubSeq(f, a + 1, b) PROVE SubSeq(f, a + 1, b)[i] \in Models
  <2>1. i \in 1 .. b - a /\ SubSeq(f, a + 1, b)[i] = f[a + i]
    BY <1>1, <1>2, <1>8, <1>10
  <2>2. a + i \in 1 .. len
    BY <1>8, <2>1
  <2>3. PICK j \in 1 .. len : j = a + i
    BY <2>2
  <2>4. f[j] \in Models
    BY <1>1, <1>2
  <2> QED BY <2>1, <2>3, <2>4
<1> QED BY <1>9, <1>10 DEF ToSet

\* The pager of so many models has no more pages than one for each.
LEMMA PagesAreFew ==
  ASSUME NEW N \in Nat, NEW t \in 0 .. N
  PROVE  TotalPages(t) \in Nat /\ TotalPages(t) <= N + 1
<1>1. PICK p \in Nat \ {0} : p = PerPage
  BY CatalogAssumption
<1>2. PICK a \in Nat : a = t + p - 1
  OBVIOUS
<1>3. PICK d \in Nat : d = a \div p /\ d * p <= a
  BY <1>2, PageOf
<1>4. d <= t
  <2> SUFFICES ASSUME t < d PROVE FALSE
    BY <1>3
  <2>1. t * p + p <= d * p
    BY TimesMonotonic
  <2>2. t <= t * p
    <3>1. CASE t = 0
      BY <3>1
    <3>2. CASE t > 0
      <4>1. PICK s \in Nat : s = p - 1
        OBVIOUS
      <4>2. t * p = t * s + t /\ t * s \in Nat
        BY <4>1
      <4> QED BY <4>2
    <3> QED BY <3>1, <3>2
  <2> QED BY <1>2, <1>3, <2>1, <2>2
<1>5. TotalPages(t) = AtLeastOne(d)
  BY <1>1, <1>2, <1>3 DEF TotalPages
<1> QED BY <1>4, <1>5 DEF AtLeastOne

-----------------------------------------------------------------------------
\* Nobody saves yet, and the pages are new.
LEMMA CatalogStartsTyped == CatalogInit => CatalogIsTyped
<1> SUFFICES ASSUME CatalogInit PROVE CatalogIsTyped
  OBVIOUS
<1>1. Cardinality(Models) \in Nat
  BY CatalogAssumption, FS_CardinalityType
<1>2. NewPage \in AdminPage
  BY <1>1 DEF NewPage, AdminPage
<1>3. NoSave \in SaveRecord /\ NoSave.left \subseteq NoSave.sent
  BY DEF NoSave, SaveRecord
<1> QED
  BY <1>2, <1>3, CatalogAssumption DEF CatalogInit, CatalogIsTyped, SavesAreTyped

\* What is set for one saver, or for one page, decides.
LEMMA OneSave ==
  ASSUME SavesAreTyped, NEW w \in Savers, NEW s \in SaveRecord, s.left \subseteq s.sent,
         save' = [save EXCEPT ![w] = s]
  PROVE  SavesAreTyped'
<1>1. save' \in [Savers -> SaveRecord]
  BY DEF SavesAreTyped
<1>2. \A v \in Savers : save'[v].left \subseteq save'[v].sent
  BY DEF SavesAreTyped
<1> QED BY <1>1, <1>2 DEF SavesAreTyped

\* A client or a page puts its save forward.
LEMMA SaveActs ==
  ASSUME SaveInv, CatalogIsTyped, NEW w \in Savers, Clear(w) \/ Insert(w)
  PROVE  CatalogIsTyped'
<1>1. PICK q : q = save[w] /\ q \in SaveRecord /\ q.left \subseteq q.sent
  BY DEF CatalogIsTyped, SavesAreTyped
<1>2. FailedSave \in SaveRecord /\ FailedSave.left \subseteq FailedSave.sent
  BY DEF FailedSave, NoSave, SaveRecord
<1>3. SavesAreTyped /\ table \subseteq Models /\ catErrors \in 0 .. MaxErrors /\ page \in [Admins -> AdminPage]
      /\ page' = page /\ MaxErrors \in Nat
  BY CatalogAssumption DEF CatalogIsTyped, Clear, Insert
<1>4. StoreErrs => catErrors' \in 0 .. MaxErrors
  BY <1>3 DEF StoreErrs
<1>5. ASSUME NEW pc \in {"insert", "done"}, save' = [save EXCEPT ![w].pc = pc] PROVE SavesAreTyped'
  <2>1. PICK s : s = [q EXCEPT !.pc = pc]
    OBVIOUS
  <2>2. s \in SaveRecord /\ s.left \subseteq s.sent
    BY <1>1, <2>1 DEF SaveRecord
  <2>3. save' = [save EXCEPT ![w] = s]
    BY <1>1, <1>5, <2>1
  <2> QED BY <1>3, <2>2, <2>3, OneSave
<1>6. CASE save' = [save EXCEPT ![w] = FailedSave] /\ UNCHANGED table /\ StoreErrs
  <2>1. SavesAreTyped'
    BY <1>2, <1>3, <1>6, OneSave
  <2> QED BY <1>3, <1>4, <1>6, <2>1 DEF CatalogIsTyped
<1>7. CASE table' = {} /\ save' = [save EXCEPT ![w].pc = "insert"] /\ UNCHANGED catErrors
  <2>1. SavesAreTyped'
    BY <1>5, <1>7
  <2> QED BY <1>3, <1>7, <2>1 DEF CatalogIsTyped
<1>8. CASE save' = [save EXCEPT ![w].pc = "done"] /\ UNCHANGED <<table, catErrors>>
  <2>1. SavesAreTyped'
    BY <1>5, <1>8
  <2> QED BY <1>3, <1>8, <2>1 DEF CatalogIsTyped
<1>9. ASSUME NEW m \in save[w].left, table' = table \cup {m},
             save' = [save EXCEPT ![w].left = @ \ {m}], UNCHANGED catErrors
      PROVE  CatalogIsTyped'
  <2>1. PICK s : s = [q EXCEPT !.left = q.left \ {m}]
    OBVIOUS
  <2>2. s \in SaveRecord /\ s.left \subseteq s.sent /\ m \in Models
    BY <1>1, <1>9, <2>1 DEF SaveRecord
  <2>3. save' = [save EXCEPT ![w] = s]
    BY <1>1, <1>9, <2>1
  <2>4. SavesAreTyped'
    BY <1>3, <2>2, <2>3, OneSave
  <2> QED BY <1>3, <1>9, <2>2, <2>4 DEF CatalogIsTyped
<1>10. CASE Clear(w)
  BY <1>6, <1>7, <1>10 DEF Clear
<1>11. CASE Insert(w)
  BY <1>6, <1>8, <1>9, <1>11 DEF Insert
<1> QED BY <1>10, <1>11

\* A page takes a step of its own.
LEMMA PageActs ==
  ASSUME CacheIsBuilt, CatalogIsTyped, NEW a \in Admins,
         \/ Reload(a) \/ AllowlistAnswer(a) \/ CatalogAnswer(a) \/ Search(a)
         \/ Turn(a) \/ Toggle(a)
  PROVE  CatalogIsTyped'
<1>1. PICK q : q = page[a] /\ q \in AdminPage
  BY DEF CatalogIsTyped
<1>2. PICK N \in Nat : N = Cardinality(Models)
  BY CatalogAssumption, FS_CardinalityType
<1>3. q.at \in 1 .. N + 1 /\ q.total \in 0 .. N
  BY <1>1, <1>2 DEF AdminPage
<1>4. ASSUME NEW p \in AdminPage, PageSteps(a, p), catErrors' \in 0 .. MaxErrors
      PROVE  CatalogIsTyped'
  BY <1>4 DEF PageSteps, CatalogIsTyped, SavesAreTyped
<1>5. catErrors \in 0 .. MaxErrors /\ table \subseteq Models /\ MaxErrors \in Nat
  BY CatalogAssumption DEF CatalogIsTyped
<1>6. StoreErrs => catErrors' \in 0 .. MaxErrors
  BY <1>5 DEF StoreErrs
<1>7. CASE Reload(a)
  <2>1. NewPage \in AdminPage
    BY <1>2 DEF NewPage, AdminPage
  <2> QED BY <1>4, <1>5, <1>7, <2>1 DEF Reload
<1>8. CASE AllowlistAnswer(a)
  <2>1. PICK p : /\ \/ p = [q EXCEPT !.pending = FALSE, !.selected = table]
                    \/ p = [q EXCEPT !.pending = FALSE, !.error = TRUE]
                 /\ PageSteps(a, p)
                 /\ catErrors' = catErrors \/ StoreErrs
    BY <1>1, <1>8 DEF AllowlistAnswer, ListAllowedModels
  <2>2. p \in AdminPage
    BY <1>1, <1>5, <2>1 DEF AdminPage
  <2> QED BY <1>4, <1>5, <1>6, <2>1, <2>2
<1>9. CASE CatalogAnswer(a)
  <2>1. PICK s, t : s = ToSet(CatalogSlice(q.at, q.query)) /\ t = Len(Filtered(q.query))
    OBVIOUS
  <2>2. s \subseteq Models /\ t \in 0 .. Cardinality(Models)
    BY <1>3, <2>1, SliceOfModels, FoundAreModels
  <2>3. PICK p : /\ \/ p = [q EXCEPT !.asked = FALSE, !.loading = FALSE, !.error = FALSE,
                                    !.shown = s, !.total = t]
                    \/ p = [q EXCEPT !.asked = FALSE, !.loading = FALSE, !.error = TRUE, !.shown = {}]
                 /\ PageSteps(a, p)
    BY <1>1, <1>9, <2>1 DEF CatalogAnswer
  <2>4. p \in AdminPage
    BY <1>1, <2>2, <2>3 DEF AdminPage
  <2> QED BY <1>4, <1>5, <1>9, <2>3, <2>4 DEF CatalogAnswer
<1>10. CASE Search(a)
  <2>1. PICK r \in Queries :
          PageSteps(a, [q EXCEPT !.at = 1, !.query = r, !.asked = TRUE, !.shown = {}])
    BY <1>1, <1>10 DEF Search
  <2>2. r \subseteq Models /\ 1 \in 1 .. Cardinality(Models) + 1
    BY <1>2, CatalogAssumption
  <2>3. [q EXCEPT !.at = 1, !.query = r, !.asked = TRUE, !.shown = {}] \in AdminPage
    BY <1>1, <2>2 DEF AdminPage
  <2> QED BY <1>4, <1>5, <1>10, <2>1, <2>3 DEF Search
<1>11. CASE Turn(a)
  <2>1. PICK n \in {q.at - 1, q.at + 1} :
          /\ n >= 1 /\ n <= IF n > q.at THEN TotalPages(q.total) ELSE n
          /\ PageSteps(a, [q EXCEPT !.at = n, !.asked = TRUE, !.shown = {}])
    BY <1>1, <1>11 DEF Turn
  <2>2. TotalPages(q.total) \in Nat /\ TotalPages(q.total) <= N + 1
    BY <1>3, PagesAreFew
  <2>3. n \in 1 .. N + 1
    BY <1>3, <2>1, <2>2
  <2>4. [q EXCEPT !.at = n, !.asked = TRUE, !.shown = {}] \in AdminPage
    BY <1>1, <1>2, <2>3 DEF AdminPage
  <2> QED BY <1>4, <1>5, <1>11, <2>1, <2>4 DEF Turn
<1>12. CASE Toggle(a)
  <2>1. PICK m \in q.shown :
          PageSteps(a, [q EXCEPT !.selected = IF m \in @ THEN @ \ {m} ELSE @ \cup {m}])
    BY <1>1, <1>12 DEF Toggle
  <2>2. PICK S : S = IF m \in q.selected THEN q.selected \ {m} ELSE q.selected \cup {m}
    OBVIOUS
  <2>3. [q EXCEPT !.selected = IF m \in @ THEN @ \ {m} ELSE @ \cup {m}] = [q EXCEPT !.selected = S]
    BY <2>2
  <2>4. S \subseteq Models
    BY <1>1, <2>2 DEF AdminPage
  <2>5. [q EXCEPT !.selected = S] \in AdminPage
    BY <1>1, <2>4 DEF AdminPage
  <2> QED BY <1>4, <1>5, <1>12, <2>1, <2>3, <2>5 DEF Toggle
<1> QED
  BY <1>7, <1>8, <1>9, <1>10, <1>11, <1>12

\* A save begins, or its answer reaches the page.
LEMMA PageSaves ==
  ASSUME CatalogIsTyped, NEW a \in Admins, SaveAllowlist(a) \/ SaveAnswer(a)
  PROVE  CatalogIsTyped'
<1>1. PICK q : q = page[a] /\ q \in AdminPage
  BY DEF CatalogIsTyped
<1>2. a \in Savers /\ save[a] \in SaveRecord
  BY DEF CatalogIsTyped, SavesAreTyped, Savers
<1>3. ASSUME NEW p \in AdminPage, NEW s \in SaveRecord, s.left \subseteq s.sent,
             page' = [page EXCEPT ![a] = p], save' = [save EXCEPT ![a] = s],
             UNCHANGED <<table, catErrors>>
      PROVE  CatalogIsTyped'
  <2>1. SavesAreTyped'
    BY <1>2, <1>3, OneSave DEF CatalogIsTyped
  <2> QED BY <1>3, <2>1 DEF CatalogIsTyped
<1>4. CASE SaveAllowlist(a)
  <2>1. PICK p : p = [q EXCEPT !.saving = TRUE]
    OBVIOUS
  <2>2. p \in AdminPage
    BY <1>1, <2>1 DEF AdminPage
  <2>3. page' = [page EXCEPT ![a] = p]
    BY <1>1, <1>4, <2>1 DEF SaveAllowlist
  <2>4. PICK s : s = [pc |-> "clear", sent |-> q.selected, left |-> q.selected]
    OBVIOUS
  <2>5. s \in SaveRecord /\ s.left \subseteq s.sent
    BY <1>1, <2>4 DEF SaveRecord, AdminPage
  <2>6. save' = [save EXCEPT ![a] = s] /\ UNCHANGED <<table, catErrors>>
    BY <1>1, <1>4, <2>4 DEF SaveAllowlist
  <2> QED BY <1>3, <2>2, <2>3, <2>5, <2>6
<1>5. CASE SaveAnswer(a)
  <2>1. PICK S : S = IF save[a].pc = "done" THEN save[a].sent ELSE q.selected
    OBVIOUS
  <2>2. S \subseteq Models
    BY <1>1, <1>2, <2>1 DEF SaveRecord, AdminPage
  <2>3. PICK p : p = [q EXCEPT !.saving = FALSE, !.selected = S]
    OBVIOUS
  <2>4. p \in AdminPage
    BY <1>1, <2>2, <2>3 DEF AdminPage
  <2>5. page' = [page EXCEPT ![a] = p]
    BY <1>1, <1>5, <2>1, <2>3 DEF SaveAnswer, CatalogIsTyped, AdminPage
  <2>6. NoSave \in SaveRecord /\ NoSave.left \subseteq NoSave.sent
    BY DEF NoSave, SaveRecord
  <2> QED BY <1>3, <1>5, <2>4, <2>5, <2>6 DEF SaveAnswer
<1> QED BY <1>4, <1>5

\* Every step of the catalog, the saves and the pages keeps their types.
LEMMA CatalogStaysTyped ==
  SaveInv /\ CacheIsBuilt /\ CatalogIsTyped /\ [CatalogNext]_catalogVars => CatalogIsTyped'
<1> SUFFICES ASSUME SaveInv, CacheIsBuilt, CatalogIsTyped, [CatalogNext]_catalogVars PROVE CatalogIsTyped'
  OBVIOUS
<1>1. CASE Refresh \/ UNCHANGED catalogVars
  BY <1>1 DEF Refresh, catalogVars, CatalogIsTyped, SavesAreTyped
<1>2. ASSUME NEW w \in Savers, Clear(w) \/ Insert(w) PROVE CatalogIsTyped'
  BY <1>2, SaveActs
<1>3. ASSUME NEW c \in Clients, Put(c) PROVE CatalogIsTyped'
  <2>1. PICK ids, s : /\ ids \in SUBSET Models /\ s = [pc |-> "clear", sent |-> ids, left |-> ids]
                     /\ save' = [save EXCEPT ![c] = s]
    BY <1>3 DEF Put
  <2>2. s \in SaveRecord /\ s.left \subseteq s.sent /\ c \in Savers
    BY <2>1 DEF SaveRecord, Savers
  <2>3. SavesAreTyped'
    BY <2>1, <2>2, OneSave DEF CatalogIsTyped
  <2> QED BY <1>3, <2>3 DEF Put, CatalogIsTyped
<1>4. ASSUME NEW a \in Admins,
             \/ Reload(a) \/ AllowlistAnswer(a) \/ CatalogAnswer(a) \/ Search(a)
             \/ Turn(a) \/ Toggle(a)
      PROVE  CatalogIsTyped'
  BY <1>4, PageActs
<1>5. ASSUME NEW a \in Admins, SaveAllowlist(a) \/ SaveAnswer(a) PROVE CatalogIsTyped'
  BY <1>5, PageSaves
<1> QED
  BY <1>1, <1>2, <1>3, <1>4, <1>5 DEF CatalogNext

\* A cache that was built has typed identifiers, and the rest its types.
LEMMA CatalogTypes == CacheIsBuilt /\ CatalogIsTyped => CatTypeOK
<1> SUFFICES ASSUME CacheIsBuilt, CatalogIsTyped PROVE CatTypeOK
  OBVIOUS
<1>1. Ids(cache.details) \in Seq(Models)
  BY IdsAreModels
<1>2. \A w \in Savers : save[w] \in SaveRecord /\ save[w].left \subseteq save[w].sent
  BY DEF CatalogIsTyped, SavesAreTyped
<1>3. \A a \in Admins : page[a] \in AdminPage
  BY DEF CatalogIsTyped
<1> QED
  BY <1>1, <1>2, <1>3 DEF CatalogIsTyped, CatTypeOK, SaveRecord, AdminPage

-----------------------------------------------------------------------------
\* Roles and efforts a form may hold.
FieldsAreTyped(f) ==
  /\ f.roles \subseteq Roles \cup {Gone}
  /\ f.effort \in ToSet(Efforts) \cup {NoValue}
  /\ f.offered \subseteq ToSet(Efforts)

\* So are those of the form, and the roles the next frame sets.
FormIsTyped ==
  /\ FieldsAreTyped(form)
  /\ frame # NoValue => frame \subseteq Roles \cup {Gone}

\* The effort that is suggested is one of those that are offered, or none.
LEMMA EffortIsOffered ==
  ASSUME NEW o \in SUBSET ToSet(Efforts)
  PROVE  DefaultEffort(o) \in ToSet(Efforts) \cup {NoValue}
<1>1. PICK I : I = {i \in DOMAIN Efforts : Efforts[i] \in o}
  OBVIOUS
<1>2. PICK t : t = Picked(Efforts, I)
  OBVIOUS
<1>3. Efforts \in Seq(ToSet(Efforts)) /\ DOMAIN Efforts = 1 .. Len(Efforts)
  BY FormAssumption
<1>4. t \in Seq(ToSet(Efforts)) /\ ToSet(t) = {Efforts[i] : i \in I \cap DOMAIN Efforts}
  BY <1>2, <1>3, PickedPlaces, PickedMembers
<1>5. ASSUME o # {} PROVE Head(t) \in ToSet(Efforts)
  <2>1. PICK i \in DOMAIN Efforts : Efforts[i] \in o
    BY <1>5 DEF ToSet
  <2>2. Efforts[i] \in ToSet(t)
    BY <1>1, <1>4, <2>1
  <2>3. t # <<>>
    BY <2>2 DEF ToSet
  <2> QED BY <1>4, <2>3
<1>6. CASE Default \in o
  BY <1>6 DEF DefaultEffort
<1>7. CASE Default \notin o /\ o # {}
  <2>1. DefaultEffort(o) = Head(t)
    BY <1>1, <1>2, <1>7 DEF DefaultEffort
  <2> QED BY <1>5, <1>7, <2>1
<1>8. CASE o = {}
  BY <1>8 DEF DefaultEffort
<1> QED
  BY <1>6, <1>7, <1>8

\* A form that is opened holds what was stored, or what is suggested.
LEMMA OpenedIsTyped ==
  ASSUME NEW k, NEW models, NEW s,
         s.effort \in ToSet(Efforts) \cup {NoValue},
         s.roles # NoValue => s.roles \subseteq Roles \cup {Gone}
  PROVE  FieldsAreTyped(Opened(k, models, s))
<1>1. PICK o : o = Offered(IF models = <<>> THEN NoValue ELSE Head(models))
  OBVIOUS
<1>2. o \subseteq ToSet(Efforts)
  BY <1>1 DEF Offered
<1>3. PICK f : f = Opened(k, models, s)
  OBVIOUS
<1>4. /\ f.roles = OrElse(s.roles, {}) /\ f.effort = OrElse(s.effort, DefaultEffort(o))
      /\ f.offered = o
  BY <1>1, <1>3 DEF Opened
<1> QED
  BY <1>2, <1>3, <1>4, EffortIsOffered DEF OrElse, FieldsAreTyped

\* A form starts with typed fields.
LEMMA FormStartsTyped == FormInit => FormIsTyped
<1> SUFFICES ASSUME FormInit PROVE FormIsTyped
  OBVIOUS
<1>1. PICK rows \in Allowlists, roles \in {NoValue} \cup SUBSET (Roles \cup {Gone}) :
        /\ form = Opened(kind, Allowlisted(rows), [NothingStored EXCEPT !.roles = roles])
        /\ frame = roles
  BY DEF FormInit
<1>2. PICK s : s = [NothingStored EXCEPT !.roles = roles]
  OBVIOUS
<1>3. s.effort = NoValue /\ s.roles = roles
  BY <1>2 DEF NothingStored
<1>4. FieldsAreTyped(form)
  BY <1>1, <1>2, <1>3, OpenedIsTyped
<1> QED
  BY <1>1, <1>4 DEF FormIsTyped

\* Select All takes roles of the library.
LEMMA MaximalAreRoles == MaximalRoles \subseteq Roles
<1>1. PICK n \in Nat : n = Len(Library) /\ DOMAIN Library = 1 .. n
  BY FormAssumption
<1>2. PICK taken : IsTaken(taken) /\ MaximalRoles = taken[n]
  BY <1>1, TakenInTurn
<1> DEFINE S == {k \in Nat : k <= n => taken[k] \subseteq Roles}
<1>3. 0 \in S
  BY <1>2 DEF IsTaken
<1>4. ASSUME NEW k \in Nat, k \in S PROVE k + 1 \in S
  <2> SUFFICES ASSUME k + 1 <= n PROVE taken[k + 1] \subseteq Roles
    OBVIOUS
  <2>1. taken[k] \subseteq Roles /\ k + 1 \in 1 .. n /\ (k + 1) - 1 = k
    BY <1>4
  <2>2. Library[k + 1] \in Roles
    BY <1>1, <2>1 DEF Roles, ToSet
  <2>3. taken[k + 1] = taken[k] \cup (IF IsRoleDisabled(Library[k + 1], taken[k]) THEN {} ELSE {Library[k + 1]})
    BY <1>1, <1>2, <2>1 DEF IsTaken
  <2> QED BY <2>1, <2>2, <2>3
<1>5. n \in S
  <2> HIDE DEF S
  <2> QED BY <1>3, <1>4, SetInduction
<1> QED
  BY <1>1, <1>2, <1>5

\* What a step sets the form to decides.
LEMMA TypedSets ==
  ASSUME FormIsTyped, NEW f, FieldsAreTyped(f), Sets(f),
         frame' = frame \/ frame' = NoValue \/ frame' \subseteq Roles \cup {Gone}
  PROVE  FormIsTyped'
<1>1. form' = f
  BY DEF Sets
<1>2. FieldsAreTyped(form)'
  BY <1>1 DEF FieldsAreTyped
<1>3. frame' # NoValue => frame' \subseteq Roles \cup {Gone}
  BY DEF FormIsTyped
<1> QED BY <1>2, <1>3 DEF FormIsTyped

\* Fields that say neither roles nor efforts.
LEMMA FieldsStayTyped ==
  ASSUME FormIsTyped, NEW f, Sets(f), f.roles = form.roles, f.effort = form.effort,
         f.offered = form.offered, frame' = frame
  PROVE  FormIsTyped'
  BY TypedSets DEF FieldsAreTyped, FormIsTyped

\* Every step of a form keeps the types of its fields.
LEMMA FormStaysTyped == FormInv /\ FormIsTyped /\ [FormNext]_formVars => FormIsTyped'
<1> SUFFICES ASSUME FormInv, FormIsTyped, [FormNext]_formVars PROVE FormIsTyped'
  OBVIOUS
<1>1. DOMAIN form = Fields /\ stored = Persisted(form) /\ FieldsAreTyped(form)
  BY DEF FormInv, FormIsOfOne, FormIsTyped
<1>2. stored.effort = form.effort /\ stored.roles = form.roles
  BY <1>1 DEF Persisted
<1>3. ASSUME form' = form, frame' = frame PROVE FormIsTyped'
  BY <1>3 DEF FormIsTyped, FieldsAreTyped
<1>4. CASE Reopen
  <2>1. PICK rows \in Allowlists : Sets(Opened(kind, Allowlisted(rows), stored))
    BY <1>4 DEF Reopen
  <2>2. frame' \subseteq Roles \cup {Gone}
    BY <1>1, <1>2, <1>4 DEF Reopen, FieldsAreTyped
  <2>3. FieldsAreTyped(Opened(kind, Allowlisted(rows), stored))
    BY <1>1, <1>2, OpenedIsTyped DEF FieldsAreTyped
  <2> QED BY <2>1, <2>2, <2>3, TypedSets
<1>5. ASSUME NEW R \in SUBSET (Roles \cup {Gone}), Sets([form EXCEPT !.roles = R]),
             frame' = frame \/ frame' = NoValue
      PROVE  FormIsTyped'
  <2>1. PICK f : f = [form EXCEPT !.roles = R]
    OBVIOUS
  <2>2. f.roles = R /\ f.effort = form.effort /\ f.offered = form.offered
    BY <1>1, <2>1 DEF Fields
  <2>3. FieldsAreTyped(f)
    BY <1>1, <2>2 DEF FieldsAreTyped
  <2> QED BY <1>5, <2>1, <2>3, TypedSets
<1>6. CASE RestoreRoles
  BY <1>5, <1>6 DEF RestoreRoles, FormIsTyped
<1>7. CASE EditTarget
  <2>1. PICK t, f : f = [form EXCEPT !.target = t] /\ Edits(f)
    BY <1>7 DEF EditTarget
  <2>2. f.roles = form.roles /\ f.effort = form.effort /\ f.offered = form.offered
    BY <1>1, <2>1 DEF Fields
  <2> QED BY <2>1, <2>2, FieldsStayTyped DEF Edits
<1>8. CASE PickModel
  <2>1. PICK m, f : f = [form EXCEPT !.model = m, !.offered = Offered(m)] /\ Edits(f)
    BY <1>8 DEF PickModel
  <2>2. f.roles = form.roles /\ f.effort = form.effort /\ f.offered = Offered(m)
    BY <1>1, <2>1 DEF Fields
  <2>3. FieldsAreTyped(f)
    BY <1>1, <2>2 DEF FieldsAreTyped, Offered
  <2> QED BY <2>1, <2>3, TypedSets DEF Edits
<1>9. CASE PickEffort
  <2>1. PICK e, f : /\ e \in form.offered \cup {NoValue}
                   /\ f = [form EXCEPT !.effort = e] /\ Edits(f)
    BY <1>9 DEF PickEffort
  <2>2. f.roles = form.roles /\ f.effort = e /\ f.offered = form.offered
    BY <1>1, <2>1 DEF Fields
  <2>3. FieldsAreTyped(f)
    BY <1>1, <2>1, <2>2 DEF FieldsAreTyped
  <2> QED BY <2>1, <2>3, TypedSets DEF Edits
<1>10. CASE ToggleRole
  <2>1. PICK r \in Roles : Edits([form EXCEPT !.roles = Flip(@, r)])
    BY <1>10 DEF ToggleRole
  <2>2. PICK R : R = Flip(form.roles, r)
    OBVIOUS
  <2>3. [form EXCEPT !.roles = Flip(@, r)] = [form EXCEPT !.roles = R]
    BY <2>2
  <2>4. R \subseteq Roles \cup {Gone}
    BY <1>1, <2>2 DEF Flip, FieldsAreTyped
  <2> QED BY <1>5, <2>1, <2>3, <2>4 DEF Edits
<1>11. CASE SelectAllRoles
  <2>1. MaximalRoles \subseteq Roles
    BY MaximalAreRoles
  <2> QED BY <1>5, <1>11, <2>1 DEF SelectAllRoles, Edits
<1>12. CASE DeselectAllRoles
  BY <1>5, <1>12 DEF DeselectAllRoles, Edits
<1>13. CASE LoadPrs
  <2>1. CASE form.target = NoValue
    BY <1>3, <1>13, <2>1 DEF LoadPrs
  <2>2. CASE form.target # NoValue
    <3>1. PICK f : f = [form EXCEPT !.loading = TRUE, !.prs = <<>>, !.ticked = {}]
      OBVIOUS
    <3>2. f.roles = form.roles /\ f.effort = form.effort /\ f.offered = form.offered
      BY <1>1, <3>1 DEF Fields
    <3> QED BY <1>13, <2>2, <3>1, <3>2, FieldsStayTyped DEF LoadPrs
  <2> QED BY <2>1, <2>2
<1>14. CASE ListAnswer
  <2>1. PICK prs, ticked, f :
          /\ \/ f = [form EXCEPT !.loading = FALSE, !.prs = prs, !.ticked = ticked]
             \/ f = [form EXCEPT !.loading = FALSE]
          /\ Sets(f)
    <3>1. CASE Sets([form EXCEPT !.loading = FALSE])
      BY <3>1
    <3>2. ASSUME NEW prs \in Lists(asked),
                 Sets([form EXCEPT !.loading = FALSE, !.prs = prs,
                         !.ticked = IF prs = <<>> THEN @ ELSE InitiallyTicked(prs)])
          PROVE  \E T : Sets([form EXCEPT !.loading = FALSE, !.prs = prs, !.ticked = T])
      <4>1. PICK T : T = IF prs = <<>> THEN form.ticked ELSE InitiallyTicked(prs)
        OBVIOUS
      <4>2. [form EXCEPT !.loading = FALSE, !.prs = prs,
               !.ticked = IF prs = <<>> THEN @ ELSE InitiallyTicked(prs)]
              = [form EXCEPT !.loading = FALSE, !.prs = prs, !.ticked = T]
        BY <1>1, <4>1 DEF Fields
      <4> QED BY <3>2, <4>2
    <3> QED BY <1>14, <3>1, <3>2 DEF ListAnswer
  <2>2. f.roles = form.roles /\ f.effort = form.effort /\ f.offered = form.offered
    BY <1>1, <2>1 DEF Fields
  <2> QED BY <1>14, <2>1, <2>2, FieldsStayTyped DEF ListAnswer
<1>15. ASSUME NEW T, NEW f, f = [form EXCEPT !.ticked = T], Edits(f) PROVE FormIsTyped'
  <2>1. f.roles = form.roles /\ f.effort = form.effort /\ f.offered = form.offered
    BY <1>1, <1>15 DEF Fields
  <2> QED BY <1>15, <2>1, FieldsStayTyped DEF Edits
<1>16. CASE TickPr
  <2>1. PICK p : Edits([form EXCEPT !.ticked = IF kind = "review" THEN {p} ELSE Flip(@, p)])
    BY <1>16 DEF TickPr
  <2>2. PICK T : T = IF kind = "review" THEN {p} ELSE Flip(form.ticked, p)
    OBVIOUS
  <2>3. [form EXCEPT !.ticked = IF kind = "review" THEN {p} ELSE Flip(@, p)] = [form EXCEPT !.ticked = T]
    BY <2>2
  <2> QED BY <1>15, <2>1, <2>3
<1>17. CASE TickAllPrs
  BY <1>15, <1>17 DEF TickAllPrs
<1>18. ASSUME NEW b, Sets([form EXCEPT !.submitting = b]), frame' = frame PROVE FormIsTyped'
  <2>1. PICK f : f = [form EXCEPT !.submitting = b]
    OBVIOUS
  <2>2. f.roles = form.roles /\ f.effort = form.effort /\ f.offered = form.offered
    BY <1>1, <2>1 DEF Fields
  <2> QED BY <1>18, <2>1, <2>2, FieldsStayTyped
<1>19. CASE Submit
  BY <1>3, <1>18, <1>19 DEF Submit
<1>20. CASE SubmitAnswer
  <2>1. CASE Sets([form EXCEPT !.submitting = FALSE]) /\ frame' = frame
    BY <1>18, <2>1
  <2>2. ASSUME NEW rows \in Allowlists, Sets(Opened(kind, Allowlisted(rows), NothingStored)),
               frame' = NoValue
        PROVE  FormIsTyped'
    <3>1. FieldsAreTyped(Opened(kind, Allowlisted(rows), NothingStored))
      BY OpenedIsTyped DEF NothingStored
    <3> QED BY <2>2, <3>1, TypedSets
  <2> QED BY <1>20, <2>1, <2>2 DEF SubmitAnswer
<1>21. CASE UNCHANGED formVars
  BY <1>3, <1>21 DEF formVars
<1> QED
  BY <1>4, <1>6, <1>7, <1>8, <1>9, <1>10, <1>11, <1>12, <1>13, <1>14, <1>16, <1>17, <1>19, <1>20, <1>21
     DEF FormNext, FormStep

\* A form of one target whose fields are typed has the type of a form.
LEMMA FormTypes == FormInv /\ RolesAreInherited /\ FormIsTyped => FormTypeOK
<1> SUFFICES ASSUME FormInv, RolesAreInherited, FormIsTyped PROVE FormTypeOK
  OBVIOUS
<1>1. FormIsOfOne(form) /\ kind \in {"review", "benchmark"} /\ asked \in Targets \cup {NoValue}
  BY DEF FormInv, ListIsAwaited
<1>2. PICK U : U = UNION {ToSet(q) : q \in UNION {Lists(t) : t \in Targets}}
  OBVIOUS
<1>3. form.prs \in Seq(U)
  <2>1. CASE form.prs = <<>>
    BY <2>1
  <2>2. ASSUME NEW t \in Targets, form.prs \in Lists(t) PROVE form.prs \in Seq(U)
    <3>1. form.prs \in Seq(ToSet(form.prs))
      BY <1>1, <2>2, ListsAreSequences
    <3>2. ToSet(form.prs) \subseteq U
      BY <1>2, <2>2
    <3> QED BY <3>1, <3>2
  <2> QED BY <1>1, <2>1, <2>2 DEF FormIsOfOne
<1> QED
  BY <1>1, <1>2, <1>3 DEF FormIsOfOne, FormIsTyped, FieldsAreTyped, FormTypeOK, RolesAreInherited

-----------------------------------------------------------------------------
\* How much may be said, and what the page shows of the stream.
PanesAreBound ==
  /\ Len(said) <= MaxSaid
  /\ stream \in {"Pending", "Running", "Completed", "Failed"}

\* No more is said than may be.
LEMMA PaneBounds ==
  /\ PaneInit => PanesAreBound
  /\ PaneInv /\ PanesAreBound /\ [PaneNext]_paneVars => PanesAreBound'
<1>1. PaneInit => PanesAreBound
  BY PanesAssumption DEF PaneInit, PanesAreBound
<1>2. ASSUME PaneInv, PanesAreBound, [PaneNext]_paneVars PROVE PanesAreBound'
  <2>1. said \in Seq(Said)
    BY <1>2 DEF PaneInv, PageIsTyped
  <2>2. CASE Publish
    <3>1. Len(said) < MaxSaid /\ UNCHANGED stream /\ \E e \in Said : said' = Append(said, e)
      BY <2>2 DEF Publish, Said
    <3> QED BY <1>2, <2>1, <3>1, PanesAssumption DEF PanesAreBound
  <2>3. CASE ~Publish
    <3>1. Shown("ReviewStarted") = "Running" /\ Shown("ReviewCompleted") = "Completed"
          /\ Shown("ReviewFailed") = "Failed"
      BY DEF Shown
    <3>2. \A k \in Marks : Shown(k) \in {"Running", "Completed", "Failed"}
      BY <3>1 DEF Marks, Endings
    <3>3. UNCHANGED said
      BY <1>2, <2>3 DEF PaneNext, RegisterPanes, OpenPanes, ConnectPage, BreakConnection, Lag,
                        ReceiveEvent, paneVars
    <3>4. CASE ReceiveEvent
      BY <1>2, <3>2, <3>3, <3>4 DEF ReceiveEvent, PanesAreBound
    <3>5. CASE ~ReceiveEvent
      BY <1>2, <2>3, <3>3, <3>5 DEF PaneNext, RegisterPanes, OpenPanes, ConnectPage,
                                    BreakConnection, Lag, paneVars, PanesAreBound
    <3> QED BY <3>4, <3>5
  <2> QED BY <2>2, <2>3
<1> QED BY <1>1, <1>2

\* The panes have their types: what they show are numbers of what was said.
LEMMA PaneTypes == PaneInv /\ PanesAreBound => PaneTypeOK
<1> SUFFICES ASSUME PaneInv, PanesAreBound PROVE PaneTypeOK
  OBVIOUS
<1>1. PageIsTyped /\ PaneIsItsAgents
  BY DEF PaneInv
<1>2. tab.cursor \in Nat /\ tab.cursor <= Len(said) /\ Len(said) \in Nat /\ Len(said) <= MaxSaid
      /\ MaxSaid \in Nat
  BY <1>1, PanesAssumption DEF PageIsTyped, TabRecord, PanesAreBound
<1>3. ASSUME NEW s \in Seq(Nat), ToSet(s) \subseteq 1 .. tab.cursor
      PROVE  s \in Seq(1 .. MaxSaid)
  <2>1. \A i \in 1 .. Len(s) : s[i] \in 1 .. tab.cursor
    BY <1>3 DEF ToSet
  <2>2. 1 .. tab.cursor \subseteq 1 .. MaxSaid
    BY <1>2
  <2>3. PICK M : M = 1 .. MaxSaid
    OBVIOUS
  <2>4. \A i \in 1 .. Len(s) : s[i] \in M
    BY <2>1, <2>2, <2>3
  <2>5. s \in Seq(M)
    BY <1>3, <2>4
  <2> QED BY <2>3, <2>5
<1>4. ASSUME NEW a \in Speakers PROVE panes[a] \in Pane
  <2>1. panes[a] \in [response : Seq(Nat), thinking : Seq(Nat), status : {"Pending", "Completed"}]
    BY <1>1 DEF PageIsTyped
  <2>2. ToSet(panes[a].response) \subseteq 1 .. tab.cursor /\ ToSet(panes[a].thinking) \subseteq 1 .. tab.cursor
    BY <1>1 DEF PaneIsItsAgents, Got
  <2>3. panes[a].response \in Seq(1 .. MaxSaid) /\ panes[a].thinking \in Seq(1 .. MaxSaid)
    BY <1>3, <2>1, <2>2
  <2> QED BY <2>1, <2>3 DEF Pane
<1>5. panes \in [Speakers -> Pane]
  BY <1>1, <1>4 DEF PageIsTyped
<1> QED
  BY <1>1, <1>2, <1>5 DEF PageIsTyped, TabRecord, PanesAreBound, PaneTypeOK

-----------------------------------------------------------------------------
\* How often the pages ask and how many results there may be, and that a list is
\* answered or failed.
PagesAreBound ==
  /\ \A r \in Reviews : results[r] <= MaxResults
  /\ key <= MaxRefresh
  /\ ~(home.ok /\ home.failed)

\* The pages ask and the results grow within their bounds.
LEMMA PageBounds ==
  /\ DashInit => PagesAreBound
  /\ DashInv /\ PagesAreBound /\ [DashNext]_dashVars => PagesAreBound'
<1>1. DashInit => PagesAreBound
  BY DashboardAssumption DEF DashInit, Init, PagesAreBound
<1>2. ASSUME DashInv, PagesAreBound, [DashNext]_dashVars PROVE PagesAreBound'
  <2>1. home \in HomeShows /\ key \in Nat
    BY <1>2 DEF DashInv, PageTypes
  <2>2. CASE Written
    BY <1>2, <2>2 DEF Written, pages, PagesAreBound
  <2>3. CASE ListReads \/ OpenDetail \/ ReadResults \/ LeaveDetail \/ UNCHANGED dashVars
    BY <1>2, <2>3 DEF ListReads, OpenDetail, ReadResults, LeaveDetail, dashVars, PagesAreBound
  <2>6. CASE ListReconciles \/ DetailReconciles
    <3>1. UNCHANGED <<results, key, home>>
      BY <2>6 DEF ListReconciles, DetailReconciles, Fail, Becomes
    <3> QED BY <1>2, <3>1 DEF PagesAreBound
  <2>4. CASE Interval \/ Retry
    BY <1>2, <2>1, <2>4, DashboardAssumption DEF Interval, Retry, Refreshes, PagesAreBound
  <2>5. CASE ListAnswers
    <3>1. UNCHANGED <<status, results, key, detail>>
      BY <2>5 DEF ListAnswers
    <3>2. \/ home' = home
          \/ \E s, u : home' = [ok |-> TRUE, failed |-> FALSE, shown |-> s, unstored |-> u]
          \/ home' = [home EXCEPT !.ok = FALSE, !.failed = TRUE]
      BY <2>5 DEF ListAnswers
    <3>3. home' = home => ~(home'.ok /\ home'.failed)
      BY <1>2 DEF PagesAreBound
    <3>4. (\E s, u : home' = [ok |-> TRUE, failed |-> FALSE, shown |-> s, unstored |-> u])
            => ~(home'.ok /\ home'.failed)
      OBVIOUS
    <3>5. home' = [home EXCEPT !.ok = FALSE, !.failed = TRUE] => ~(home'.ok /\ home'.failed)
      <4>1. home' = [home EXCEPT !.ok = FALSE, !.failed = TRUE] => home'.ok = FALSE
        BY <2>1 DEF HomeShows
      <4> QED BY <4>1
    <3>6. ~(home'.ok /\ home'.failed)
      BY <3>2, <3>3, <3>4, <3>5
    <3> QED BY <1>2, <3>1, <3>6 DEF PagesAreBound
  <2> QED BY <1>2, <2>2, <2>3, <2>4, <2>5, <2>6
          DEF DashNext, OverviewNext, DetailNext
<1> QED BY <1>1, <1>2

\* The pages have their types, and the two lists between them all reviews.
LEMMA DashTypes == DashInv /\ PagesAreBound => DashTypeOK
<1> SUFFICES ASSUME DashInv, PagesAreBound PROVE DashTypeOK
  OBVIOUS
<1>1. PageTypes
  BY DEF DashInv
<1>2. results \in [Reviews -> 0 .. MaxResults] /\ key \in 0 .. MaxRefresh
  BY <1>1, DashboardAssumption DEF PageTypes, PagesAreBound
<1>3. ASSUME home.shown # Nothing
      PROVE  Active(home.shown) \cup History(home.shown) = {r \in Reviews : home.shown[r] # "Absent"}
  <2>1. \A r \in Reviews : home.shown[r] \in {"Absent", "Running", "Completed", "Failed"}
    BY <1>1, <1>3 DEF PageTypes, HomeShows, Snapshots, Statuses
  <2> QED BY <2>1 DEF Active, History
<1> QED
  BY <1>1, <1>2, <1>3 DEF PageTypes, HomeShows, Snapshots, Statuses, PagesAreBound, DashTypeOK

-----------------------------------------------------------------------------
\* How long a file may be, and what a page shows of one.
LogIsBound ==
  /\ Len(file) <= MaxLines /\ day <= MaxFiles
  /\ \A c \in Tails :
       logPage[c].answer \cup logPage[c].text \cup logPage[c].missed \subseteq 1 .. MaxLines

\* The first file and the first pages are within their bounds.
LEMMA LogStartsBound == LogInit => LogIsBound
  BY LogAssumption DEF LogInit, LogIsBound, NewLogPage

\* Writing, rotating, reading and showing stay within them.
LEMMA LogBounds == LogInv /\ LogIsBound /\ [LogNext]_logVars => LogIsBound'
<1> SUFFICES ASSUME LogInv, LogIsBound, [LogNext]_logVars PROVE LogIsBound'
  OBVIOUS
<1>1. /\ file \in Seq(Lengths) /\ day \in Nat \ {0}
      /\ tail \in [Tails -> TailRecord] /\ logPage \in [Tails -> PageRecord]
      /\ MaxLines \in Nat /\ MaxFiles \in Nat \ {0}
  BY LogAssumption DEF LogInv, LogIsTyped
<1>2. DOMAIN file \subseteq 1 .. MaxLines
  BY <1>1 DEF LogIsBound
<1>3. /\ ReadLastLines(file) \subseteq 1 .. MaxLines
      /\ \A p : LinesFrom(file, p) \subseteq 1 .. MaxLines
      /\ \A p, q : Between(file, p, q) \subseteq 1 .. MaxLines
  BY <1>2 DEF ReadLastLines, LastOf, WholeFrom, LinesFrom, Between
<1>4. CASE Write
  BY <1>1, <1>4 DEF Write, LogIsBound
<1>5. CASE Rotate
  <2>1. \A c \in Tails : logPage'[c].answer = {} /\ logPage'[c].text = {} /\ logPage'[c].missed = {}
    BY <1>1, <1>5 DEF Rotate, PageRecord
  <2>2. file' = <<>> /\ day' = day + 1 /\ day < MaxFiles
    BY <1>5 DEF Rotate
  <2>3. Len(file') <= MaxLines
    BY <1>1, <2>2
  <2>4. day' <= MaxFiles
    BY <1>1, <2>2
  <2> QED BY <2>1, <2>3, <2>4 DEF LogIsBound
<1>6. ASSUME NEW c \in Tails, Connect(c) \/ Tick(c) \/ BreakLog(c) PROVE LogIsBound'
  <2>1. CASE Tick(c) \/ BreakLog(c)
    BY <2>1 DEF Tick, BreakLog, LogIsBound
  <2>2. CASE Connect(c)
    <3>1. PICK M : /\ M \subseteq logPage[c].missed \cup (1 .. MaxLines)
                   /\ logPage' = [logPage EXCEPT ![c].missed = M]
      BY <1>1, <1>3, <2>2 DEF Connect
    <3>2. /\ logPage'[c].text = logPage[c].text /\ logPage'[c].answer = logPage[c].answer
          /\ logPage'[c].missed = M /\ \A d \in Tails \ {c} : logPage'[d] = logPage[d]
      BY <1>1, <3>1 DEF PageRecord
    <3> QED BY <2>2, <3>1, <3>2 DEF Connect, LogIsBound
  <2> QED BY <1>6, <2>1, <2>2
<1>7. ASSUME NEW c \in Tails, Disconnect(c) PROVE LogIsBound'
  BY <1>1, <1>7 DEF Disconnect, NewLogPage, LogIsBound
<1>8. ASSUME NEW c \in Tails, NEW opened \in BOOLEAN, Read(c, opened) PROVE LogIsBound'
  <2>1. PICK sent : sent \subseteq 1 .. MaxLines /\ logPage' = [logPage EXCEPT ![c] = WithChunk(@, sent)]
    BY <1>3, <1>8 DEF Read
  <2>2. PICK q : q = logPage[c] /\ q \in PageRecord /\ q.text \subseteq 1 .. MaxLines
                 /\ q.answer \subseteq 1 .. MaxLines /\ q.missed \subseteq 1 .. MaxLines
    BY <1>1 DEF LogIsBound
  <2>3. /\ WithChunk(q, sent).text = q.text \cup sent /\ WithChunk(q, sent).answer = q.answer
        /\ WithChunk(q, sent).missed = q.missed
    BY <2>2 DEF WithChunk, PageRecord
  <2>4. \A d \in Tails : logPage'[d] = IF d = c THEN WithChunk(q, sent) ELSE logPage[d]
    BY <1>1, <2>1, <2>2
  <2> QED BY <1>8, <2>1, <2>2, <2>3, <2>4 DEF Read, LogIsBound
<1>9. ASSUME NEW c \in Tails, ReadLines(c) PROVE LogIsBound'
  <2>1. /\ logPage'[c].answer = ReadLastLines(file) /\ logPage'[c].text = logPage[c].text
        /\ logPage'[c].missed = logPage[c].missed
        /\ \A d \in Tails \ {c} : logPage'[d] = logPage[d]
    BY <1>1, <1>9 DEF ReadLines, PageRecord
  <2> QED BY <1>3, <1>9, <2>1 DEF ReadLines, LogIsBound
<1>10. ASSUME NEW c \in Tails, ShowLines(c) PROVE LogIsBound'
  <2>1. /\ logPage'[c].text = logPage[c].answer /\ logPage'[c].answer = {}
        /\ logPage'[c].missed = logPage[c].missed
        /\ \A d \in Tails \ {c} : logPage'[d] = logPage[d]
    BY <1>1, <1>10 DEF ShowLines, PageRecord
  <2> QED BY <1>10, <2>1 DEF ShowLines, LogIsBound
<1>11. CASE UNCHANGED logVars
  BY <1>11 DEF logVars, LogIsBound
<1> QED
  BY <1>4, <1>5, <1>6, <1>7, <1>8, <1>9, <1>10, <1>11 DEF LogNext

\* The log, its connections and its pages have their types.
LEMMA LogTypes == LogInv /\ LogIsBound => LogTypeOK
<1> SUFFICES ASSUME LogInv, LogIsBound, NEW c \in Tails
             PROVE  /\ file \in Seq(Lengths) /\ Len(file) <= MaxLines /\ day \in 1 .. MaxFiles
                    /\ tail[c].pc \in {"off", "broken", "wait", "read"}
                    /\ {tail[c].pos, tail[c].cur, tail[c].upto} \subseteq Nat
                    /\ logPage[c].lines \in {"asked", "read", "shown"}
                    /\ logPage[c].answer \cup logPage[c].text \cup logPage[c].missed
                         \subseteq 1 .. MaxLines
  BY LogAssumption DEF LogTypeOK, LogInv, LogIsTyped, LogIsBound
<1>1. tail[c] \in TailRecord /\ logPage[c] \in PageRecord
  BY DEF LogInv, LogIsTyped
<1> QED
  BY <1>1, LogAssumption DEF LogInv, LogIsTyped, LogIsBound, TailRecord, PageRecord

-----------------------------------------------------------------------------
\* The state of every page of the console, and of what it is served from, has its
\* type in whatever order answers, ticks and clicks come: a page of the pager
\* never lies past the models there are (total_pages), what is left of a save is
\* of what was sent, and the lists of the overview hold each review once.
THEOREM ConsoleTypes == ConsoleSpec => []ConsoleTypeOK
<1>1. CatalogSpec => []CatTypeOK
  BY SavesStart, SaveSteps, CacheInvariance, CatalogStartsTyped, CatalogStaysTyped, CatalogTypes, PTL
     DEF CatalogSpec
<1>2. FormSpec => []FormTypeOK
  BY FormStarts, FormKeeps, InheritedStays, FormStartsTyped, FormStaysTyped, FormTypes, PTL DEF FormSpec
<1>3. LogSpec => []LogTypeOK
  BY LogStarts, LogSteps, LogStartsBound, LogBounds, LogTypes, PTL DEF LogSpec
<1>4. DashSpec => []DashTypeOK
  BY DashInvariance, PageBounds, DashTypes, PTL DEF DashSpec
<1>5. PaneSpec => []PaneTypeOK
  BY PaneInvariance, PaneBounds, PaneTypes, PTL DEF PaneSpec
<1>6. CatTypeOK /\ FormTypeOK /\ LogTypeOK /\ DashTypeOK /\ PaneTypeOK => ConsoleTypeOK
  BY DEF ConsoleTypeOK
<1> QED
  BY ConsoleIsItsParts, <1>1, <1>2, <1>3, <1>4, <1>5, <1>6, PTL

=============================================================================
