---------------------------- MODULE ResponseCache ----------------------------
(***************************************************************************)
(* get_or_compute on the filesystem backend: an answer is read from the file *)
(* of its key, or computed and written there.  Processes share the directory *)
(* without locks and may die between any two steps; fs::write creates or     *)
(* truncates the file, then writes over what is there from its beginning.   *)
(*                                                                         *)
(* A text is a sequence of blocks, a block of the n-th answer and its place. *)
(* A text is read, and written, by a single call.  The crate's own tests are *)
(* its only callers so far.                                                 *)
(***************************************************************************)
EXTENDS Naturals, SequencesExt

CONSTANTS
  Callers,     \* processes, one call of get_or_compute at a time
  CacheKeys,   \* keys, longer than the prefix of them that is logged
  MaxComputed  \* bound: answers computed

ASSUME CacheAssumption == MaxComputed \in Nat

VARIABLES
  file,       \* the blocks of a file, none if there is no file
  indexed,    \* indexed[p]: keys in the index p holds in memory
  indexFile,  \* keys of index.json, and whether it is whole
  call,       \* call[p]: where p is in get_or_compute
  asked,      \* history: the keys the answers so far were computed for
  hit,        \* history: the key and the text of the last hit
  troubled    \* history: keys whose store failed or died, or that two asked for at once

cacheVars == <<file, indexed, indexFile, call, asked, hit, troubled>>

\* The text of the n-th answer: the answers differ in length.
Answers == 1 .. MaxComputed
TextOf(n) == [i \in 1 .. 1 + (n % 2) |-> <<n, i>>]

\* Mutant of FileOf: the file has the name that is logged.
FileOfPrefix(k) == <<CHOOSE j \in CacheKeys : TRUE, ".json">>

\* A file has its key's name.
FileOf(k) == <<k, ".json">>

NoCall == [pc |-> "idle", key |-> CHOOSE k \in CacheKeys : TRUE, answer |-> 0]
NoHit == [key |-> NoCall.key, text |-> <<>>]

\* serde_json::from_str: the text is one value of the type, and nothing follows it.
Parses(text) == \E n \in Answers : text = TextOf(n)

CacheInit ==
  /\ file = [f \in {FileOf(k) : k \in CacheKeys} |-> <<>>]
  /\ indexed = [p \in Callers |-> {}]
  /\ indexFile = [keys |-> {}, whole |-> TRUE]
  /\ call = [p \in Callers |-> NoCall]
  /\ asked = <<>> /\ hit = NoHit /\ troubled = {}

\* A missing file and an empty one do not parse: misses.
CacheLoad(p, k) ==
  /\ call[p].pc = "idle"
  /\ LET text == file[FileOf(k)] IN
     \/ /\ Parses(text)
        /\ hit' = [key |-> k, text |-> text]
        /\ UNCHANGED <<call, troubled>>
     \/ /\ ~Parses(text)
        /\ call' = [call EXCEPT ![p] = [pc |-> "compute", key |-> k, answer |-> 0]]
        /\ troubled' = troubled \cup {call[q].key : q \in {q \in Callers :
                                        call[q].pc # "idle" /\ call[q].key = k}}
        /\ UNCHANGED hit
  /\ UNCHANGED <<file, indexed, indexFile, asked>>

\* The model answers; never the same twice.
Compute(p) ==
  /\ call[p].pc = "compute" /\ Len(asked) < MaxComputed
  /\ asked' = Append(asked, call[p].key)
  /\ call' = [call EXCEPT ![p].pc = "truncate", ![p].answer = Len(asked) + 1]
  /\ UNCHANGED <<file, indexed, indexFile, hit, troubled>>

\* store_raw ignores every error of the file system.
Truncate(p) ==
  LET k == call[p].key IN
  /\ call[p].pc = "truncate"
  /\ \/ /\ file' = [file EXCEPT ![FileOf(k)] = <<>>]
        /\ call' = [call EXCEPT ![p].pc = "write"] /\ UNCHANGED troubled
     \/ /\ UNCHANGED file
        /\ call' = [call EXCEPT ![p].pc = "index"] /\ troubled' = troubled \cup {k}
  /\ UNCHANGED <<indexed, indexFile, asked, hit>>

Over(text, old) == text \o SubSeq(old, Len(text) + 1, Len(old))

WriteText(p) ==
  LET k == call[p].key IN
  /\ call[p].pc = "write"
  /\ \/ /\ file' = [file EXCEPT ![FileOf(k)] = Over(TextOf(call[p].answer), @)]
        /\ UNCHANGED troubled
     \/ UNCHANGED file /\ troubled' = troubled \cup {k}
  /\ call' = [call EXCEPT ![p].pc = "index"]
  /\ UNCHANGED <<indexed, indexFile, asked, hit>>

\* The index in memory, then index.json; no load consults either.
InsertIndex(p) ==
  /\ call[p].pc = "index"
  /\ indexed' = [indexed EXCEPT ![p] = @ \cup {call[p].key}]
  /\ indexFile' = [keys |-> {}, whole |-> FALSE]
  /\ call' = [call EXCEPT ![p].pc = "save"]
  /\ UNCHANGED <<file, asked, hit, troubled>>

SaveIndex(p) ==
  /\ call[p].pc = "save"
  /\ indexFile' = [keys |-> indexed[p], whole |-> TRUE]
  /\ call' = [call EXCEPT ![p] = NoCall]
  /\ UNCHANGED <<file, indexed, asked, hit, troubled>>

\* A process dies and comes back with the index it finds.
Die(p) ==
  /\ call[p].pc # "idle"
  /\ call' = [call EXCEPT ![p] = NoCall]
  /\ indexed' = [indexed EXCEPT ![p] = IF indexFile.whole THEN indexFile.keys ELSE {}]
  /\ troubled' = IF call[p].pc \in {"truncate", "write"}
                 THEN troubled \cup {call[p].key} ELSE troubled
  /\ UNCHANGED <<file, indexFile, asked, hit>>

CacheNext ==
  \E p \in Callers :
    \/ \E k \in CacheKeys : CacheLoad(p, k)
    \/ Compute(p) \/ Truncate(p) \/ WriteText(p) \/ InsertIndex(p) \/ SaveIndex(p) \/ Die(p)

CacheSpec == CacheInit /\ [][CacheNext]_cacheVars

-----------------------------------------------------------------------------
(* Properties.                                                             *)

CacheTypeOK ==
  /\ DOMAIN file = {FileOf(k) : k \in CacheKeys}
  /\ indexed \in [Callers -> SUBSET CacheKeys]
  /\ indexFile \in [keys : SUBSET CacheKeys, whole : BOOLEAN]
  /\ Len(asked) \in 0 .. MaxComputed
  /\ \A p \in Callers : call[p].answer \in 0 .. Len(asked)
  /\ troubled \subseteq CacheKeys

\* A hit is an answer that was computed for its key, whole, whichever processes
\* wrote over each other's file or died in the middle of it (load_raw, store_raw).
HitIsOneAnswer ==
  hit = NoHit \/ \E n \in DOMAIN asked : asked[n] = hit.key /\ hit.text = TextOf(n)

\* An answer is computed once for its key, unless two processes asked for it at
\* the same time or one could not write what it had computed, or died of it
\* (get_or_compute).
PaidOnce ==
  \A m, n \in DOMAIN asked : asked[m] = asked[n] /\ asked[m] \notin troubled => m = n

\* The cache answers what was asked, and spares what it has.
CacheIsSound == HitIsOneAnswer /\ PaidOnce

=============================================================================
