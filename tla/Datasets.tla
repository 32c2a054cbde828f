------------------------------- MODULE Datasets -------------------------------
(***************************************************************************)
(* The golden datasets a benchmark is launched from: the directories under  *)
(* dataset_dir, the files of one, and the lists the console makes of them.  *)
(* A directory is read in whatever order the file system gives.            *)
(***************************************************************************)
EXTENDS Naturals, SequencesExt, FiniteSetsExt

CONSTANTS
  DatasetNames, \* the directories, in the order of their names
  Content       \* Content[d]: the files of d

\* A file is JSON of either layout, JSON of neither, cannot be read, or is not
\* called .json.  Entries are told apart by id: two may have one URL.
FileKinds == {"entries", "array", "malformed", "unreadable", "other"}

ASSUME DatasetAssumption ==
  /\ DatasetNames \in Seq(ToSet(DatasetNames))
  /\ \A d \in ToSet(DatasetNames) :
       /\ \A f \in Content[d] : f.kind \in FileKinds
       /\ IsFiniteSet(UNION {f.entries : f \in Content[d]})

\* One file that cannot be read fails the whole load; one that cannot be parsed
\* is skipped.
LoadFails(d) == \E f \in Content[d] : f.kind = "unreadable"

LoadGoldenDatasets(d) ==
  IF LoadFails(d) THEN {}
  ELSE UNION {f.entries : f \in {g \in Content[d] : g.kind \in {"entries", "array"}}}

\* A load that fails counts as no pull request.
PrCount(d) == Cardinality(LoadGoldenDatasets(d))

\* The fullest first, then by name.
Fuller(i, j) ==
  LET m == PrCount(DatasetNames[i])
      n == PrCount(DatasetNames[j])
  IN  m > n \/ (m = n /\ i < j)

\* The k-th comes after k - 1 others.
ListDatasets ==
  LET Before(i) == {j \in DOMAIN DatasetNames : Fuller(j, i)}
  IN  [k \in DOMAIN DatasetNames |->
         DatasetNames[CHOOSE i \in DOMAIN DatasetNames : Cardinality(Before(i)) = k - 1]]

\* By number, the last segment of the URL if it is one, then by title; the rest
\* is as the directory was read.
Precedes(e, f) == e.number < f.number \/ (e.number = f.number /\ e.title <= f.title)

ListDatasetPrs(d) ==
  {q \in SetToSeqs(LoadGoldenDatasets(d)) :
     \A i \in DOMAIN q : i > 1 => Precedes(q[i - 1], q[i])}

\* What start_benchmark makes of the URLs it is sent.
EntriesOf(d, urls) == {e \in LoadGoldenDatasets(d) : e.url \in urls}

=============================================================================
