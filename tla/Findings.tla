------------------------------- MODULE Findings -------------------------------
(***************************************************************************)
(* What becomes of a panel's findings: post_process_findings merges them    *)
(* (semantic_dedup), audits their severities (apply_severity_auditor) and   *)
(* cuts the list.  The order in which the agents are joined is the order of *)
(* the input; the order in which a HashMap hands out its groups is any.     *)
(*                                                                         *)
(* A message is reduced to its length, to the patterns it matches and to    *)
(* the messages it resembles; a place is a file with the function named in  *)
(* the message, or with ten lines of it.  The counters written by a merge   *)
(* are left out: nothing reads them afterwards.                             *)
(***************************************************************************)
EXTENDS Naturals, FiniteSetsExt, Subsequences

CONSTANTS
  Agents,      \* agents of the panel
  Places,      \* keys of `groups'
  NoPlace,     \* of a finding without a file
  Sizes,       \* score_finding: text, then line, then evidence; without a file
               \* the length of the text
  Claims,      \* agent_count, as an agent may claim it; 0 for none
  Severities,  \* severities agents give
  Texts,       \* what message and evidence match: sets of pattern categories
  MaxFindings, \* bound: findings of a panel
  Cap          \* DEFAULT_MAX_FINDINGS: 20 in the code

Severity == 0 .. 4
Critical == 0

\* NEVER_DOWNGRADE_CATEGORIES and INFLATED_CATEGORIES, in their order.
Protections == <<"security_vulns", "data_integrity", "correctness_bugs">>
Inflated == <<"architecture_nits", "hypothetical_theoretical", "style_nits">>

ASSUME FindingsAssumption ==
  /\ NoPlace \notin Places
  /\ Sizes \subseteq Nat
  /\ Claims \subseteq Nat
  /\ Severities \subseteq Severity
  /\ Texts \subseteq SUBSET ToSet(Protections \o Inflated)
  /\ MaxFindings \in Nat
  /\ Cap \in Nat

Finding ==
  [agent : Agents, place : Places \cup {NoPlace}, size : Sizes,
   severity : Severities, claim : Claims, matches : Texts]

VARIABLES
  input,    \* all_findings of run_reviewers
  similar,  \* pairs of findings without a place that share 0.4 of their words
  stage,    \* where post_process_findings is
  groups,   \* places whose group is not merged yet
  at,       \* the next of the ungrouped
  gone,     \* merged_indices
  results   \* merged, then findings

findingsVars == <<input, similar, stage, groups, at, gone, results>>

Ids == DOMAIN input
Inputs == UNION {[1 .. n -> Finding] : n \in 0 .. MaxFindings}

Pairs(ids) == kSubset(2, ids)

\* A finding of the list: whose text it has, its severity by now, and (history)
\* the findings it was merged from.
Result == [id : Ids, severity : Severity, from : SUBSET Ids]

\* Every variable has its type; after the audit, too, a severity is one of five.
FindingsTypeOK ==
  /\ input \in Inputs
  /\ similar \subseteq Pairs(Ids)
  /\ stage \in {"start", "groups", "ungrouped", "audit", "cap", "done"}
  /\ groups \subseteq Places
  /\ at \in 1 .. Len(input) + 1
  /\ gone \subseteq Ids
  /\ results \in Seq(Result)

At(p) == Picked([i \in Ids |-> i], {i \in Ids : input[i].place = p})
Ungrouped == At(NoPlace)

FindingsInit ==
  /\ input \in Inputs
  /\ similar \in SUBSET Pairs(ToSet(Ungrouped))
  /\ stage = "start"
  /\ groups = {}
  /\ at = 1
  /\ gone = {}
  /\ results = <<>>

-----------------------------------------------------------------------------
(* semantic_dedup.                                                         *)

\* max_by keeps the last of the largest.
Best(g) ==
  CHOOSE i \in ToSet(g) : \A j \in ToSet(g) :
    \/ input[j].size < input[i].size
    \/ input[j].size = input[i].size /\ j <= i

\* The richest finding stands for all.
Merge(g) ==
  [id |-> Best(g), severity |-> input[Best(g)].severity, from |-> ToSet(g)]

\* Nothing to merge: the findings as they are.
Few ==
  /\ stage = "start" /\ Len(input) <= 1
  /\ results' = [i \in Ids |-> Merge(<<i>>)]
  /\ stage' = "audit"
  /\ UNCHANGED <<input, similar, groups, at, gone>>

Group ==
  /\ stage = "start" /\ Len(input) > 1
  /\ groups' = {p \in Places : At(p) # <<>>}
  /\ stage' = "groups"
  /\ UNCHANGED <<input, similar, at, gone, results>>

MergeGroup(p) ==
  /\ stage = "groups" /\ p \in groups
  /\ results' = Append(results, Merge(At(p)))
  /\ groups' = groups \ {p}
  /\ UNCHANGED <<input, similar, stage, at, gone>>

GroupsMerged ==
  /\ stage = "groups" /\ groups = {}
  /\ stage' = "ungrouped"
  /\ UNCHANGED <<input, similar, groups, at, gone, results>>

Seed == Ungrouped[at]

\* Mutant of Alike: the finding after the seed is not compared with it.
AlikeFromSecond ==
  Picked(Ungrouped, {k \in at + 2 .. Len(Ungrouped) :
                       {Seed, Ungrouped[k]} \in similar /\ Ungrouped[k] \notin gone})

\* The findings after the seed that resemble it and are not taken yet.
Alike ==
  Picked(Ungrouped, {k \in at + 1 .. Len(Ungrouped) :
                       {Seed, Ungrouped[k]} \in similar /\ Ungrouped[k] \notin gone})

SkipMerged ==
  /\ stage = "ungrouped" /\ at <= Len(Ungrouped) /\ Seed \in gone
  /\ at' = at + 1
  /\ UNCHANGED <<input, similar, stage, groups, gone, results>>

MergeAlike ==
  /\ stage = "ungrouped" /\ at <= Len(Ungrouped) /\ Seed \notin gone
  /\ results' = Append(results, Merge(<<Seed>> \o Alike))
  /\ gone' = gone \cup ToSet(Alike) \cup (IF Alike = <<>> THEN {} ELSE {Seed})
  /\ at' = at + 1
  /\ UNCHANGED <<input, similar, stage, groups>>

Deduplicated ==
  /\ stage = "ungrouped" /\ at > Len(Ungrouped)
  /\ stage' = "audit"
  /\ UNCHANGED <<input, similar, groups, at, gone, results>>

-----------------------------------------------------------------------------
(* apply_severity_auditor, for the text and the counters of the finding      *)
(* kept.  Its second guard reads agent_count, which semantic_dedup leaves as  *)
(* the agent gave it.                                                        *)

\* has_pattern: the categories one of whose patterns is in message or evidence,
\* in the order of the table; the first is the match.
Matches(f, table) == Picked(table, {k \in DOMAIN table : table[k] \in f.matches})

\* has_never_downgrade_pattern.
IsProtected(f) == Matches(f, Protections) # <<>>

\* has_inflated_pattern, where one is.
IsInflated(f) == Matches(f, Inflated) # <<>>
MatchedCategory(f) == Head(Matches(f, Inflated))

\* downgrade_quantum, without its sign.
Quantum ==
  [architecture_nits |-> 2, hypothetical_theoretical |-> 1, style_nits |-> 3]

\* apply_quantum.
Lowered(s, q) == IF s + q <= 4 THEN s + q ELSE 4

Audited(r) ==
  LET f == input[r.id] IN
  IF \/ IsProtected(f)
     \/ r.severity = Critical /\ f.claim >= 2
     \/ ~IsInflated(f)
    THEN r
    ELSE [r EXCEPT !.severity = Lowered(@, Quantum[MatchedCategory(f)])]

Audit ==
  /\ stage = "audit"
  /\ results' = [i \in DOMAIN results |-> Audited(results[i])]
  /\ stage' = "cap"
  /\ UNCHANGED <<input, similar, groups, at, gone>>

Truncate ==
  /\ stage = "cap"
  /\ results' = SubSeq(results, 1, Min({Cap, Len(results)}))
  /\ stage' = "done"
  /\ UNCHANGED <<input, similar, groups, at, gone>>

FindingsNext ==
  \/ Few \/ Group \/ GroupsMerged \/ SkipMerged \/ MergeAlike \/ Deduplicated
  \/ Audit \/ Truncate
  \/ \E p \in Places : MergeGroup(p)

FindingsSpec == FindingsInit /\ [][FindingsNext]_findingsVars

-----------------------------------------------------------------------------
(* Properties.                                                             *)

Merged == stage \in {"audit", "cap"}

\* semantic_dedup neither drops a finding nor counts it twice: once it has
\* returned, every finding is behind exactly one of the list.
EveryFindingOnce ==
  Merged =>
    \A i \in Ids : Cardinality({k \in DOMAIN results : i \in results[k].from}) = 1

\* All findings of a place end in one, and the one kept is as rich as any of
\* those it stands for, also after the audit and the cut.
RichestSpeaks ==
  stage \in {"audit", "cap", "done"} =>
    \A k \in DOMAIN results :
      LET r == results[k] IN
      /\ \A i \in r.from : input[i].size <= input[r.id].size
      /\ input[r.id].place # NoPlace => r.from = ToSet(At(input[r.id].place))

\* The greedy merge leaves nothing to merge: the findings that two results
\* without a place started from do not resemble each other, whatever else the
\* results took.
SeedsDiffer ==
  Merged =>
    \A k, l \in DOMAIN results :
      LET r == results[k].from
          s == results[l].from IN
      (k # l /\ r \cup s \subseteq ToSet(Ungrouped)) => {Min(r), Min(s)} \notin similar

\* apply_severity_auditor, "Only downgrade - never upgrade": from the dedup on, no
\* step makes a finding more severe than its text was reported, and one whose
\* text is protected ends as it was reported; a guess ("could cause") loses one
\* level, however many nits its text has besides.
OnlyDowngraded ==
  \A k \in DOMAIN results :
    LET r == results[k] IN
    /\ r.severity >= input[r.id].severity
    /\ IsProtected(input[r.id]) => r.severity = input[r.id].severity
    /\ (/\ "hypothetical_theoretical" \in input[r.id].matches
        /\ "architecture_nits" \notin input[r.id].matches)
          => r.severity <= input[r.id].severity + 1

\* A merge loses nothing and mixes nothing: the list stands for every finding
\* once, by the richest of those that are alike, and no two are alike; and then
\* its severities only go down (post_process_findings).
FindingsAreSound == EveryFindingOnce /\ RichestSpeaks /\ SeedsDiffer /\ OnlyDowngraded

\* Of apply_severity_auditor, "Check multi-agent CRITICAL findings (skip if >= 2
\* agents)": a finding that two agents reported as Critical stays Critical.
MultiAgentCriticalKept ==
  stage \in {"cap", "done"} =>
    \A k \in DOMAIN results :
      LET r == results[k] IN
      (/\ Cardinality({input[i].agent : i \in r.from}) >= 2
       /\ \A i \in r.from : input[i].severity = Critical)
        => r.severity = Critical
=============================================================================
