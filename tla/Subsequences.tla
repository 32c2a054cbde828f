----------------------------- MODULE Subsequences -----------------------------
(***************************************************************************)
(* The part of a sequence that stands at given places, in its order, and    *)
(* the sequence in the order of its keys.                                   *)
(***************************************************************************)
EXTENDS Naturals, FiniteSets, SequencesExt

\* Iterator::filter, as the places that it keeps.
Picked(s, I) == FlattenSeq([i \in DOMAIN s |-> IF i \in I THEN <<s[i]>> ELSE <<>>])

\* sort_by_key, which is stable: at place k stands the row that k - 1 rows come
\* before, by their keys or else by where they stood.
SortedBy(s, key) ==
  LET Earlier(i) == {j \in DOMAIN s : key[j] < key[i] \/ (key[j] = key[i] /\ j < i)}
  IN [k \in DOMAIN s |-> s[CHOOSE i \in DOMAIN s : Cardinality(Earlier(i)) = k - 1]]

=============================================================================
