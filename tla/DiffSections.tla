----------------------------- MODULE DiffSections -----------------------------
(***************************************************************************)
(* The diff of a review before an agent sees it: Diff::new cuts it into one *)
(* section per file, preprocess_diff drops the sections of generated files, *)
(* and get_agents_for_diff asks how large the rest is.  The agents are sent *)
(* the raw diff whatever was dropped.                                       *)
(*                                                                         *)
(* A line is its kind; a header carries what its paths say: the filters     *)
(* that match the old one, the language of the new one, and whether it can  *)
(* be parsed at all (git quotes some paths).  Sections hold line numbers.   *)
(***************************************************************************)
EXTENDS Naturals, FiniteSetsExt, Subsequences

CONSTANTS
  Filters,     \* FILTERED_FILE_PATTERNS: their positions
  Headers,     \* the `diff --git' lines there may be
  MaxRead,     \* bound: lines of a diff
  MaxSections, \* bound: headers of a diff
  SmallFiles,  \* DEFAULT_MAX_FILES
  SmallLines   \* DEFAULT_MAX_LINES

ASSUME DiffAssumption ==
  /\ Filters \subseteq Nat /\ IsFiniteSet(Filters)
  /\ Headers \subseteq [kind : {"git"}, filters : SUBSET Filters, full : BOOLEAN, parses : BOOLEAN]
  /\ {MaxRead, MaxSections, SmallFiles, SmallLines} \subseteq Nat

VARIABLES
  diff,     \* the lines read
  sections, \* Diff.sections: header and body of a file
  header,   \* current_header: its line, 0 for none
  body,     \* current_body
  step,     \* where the diff is
  counter,  \* FilterCounts.counter
  single    \* should_use_single_agent, once it was asked

diffVars == <<diff, sections, header, body, step, counter, single>>

\* The two lines that name the files are read as one.
Kinds == {"index", "names", "hunk", "change", "context"}
IsHeader(i) == diff[i].kind = "git"
HeaderLines == {i \in DOMAIN diff : IsHeader(i)}

DiffTypeOK ==
  /\ diff \in Seq(Headers \cup [kind : Kinds])
  /\ \A s \in ToSet(sections) : s.head \in DOMAIN diff /\ ToSet(s.body) \subseteq DOMAIN diff
  /\ header \in 0 .. Len(diff)
  /\ ToSet(body) \subseteq DOMAIN diff
  /\ step \in {"reading", "read", "filtered", "asked", "panicked"}
  /\ counter \in [Filters -> Nat]
  /\ single \in BOOLEAN

DiffInit ==
  /\ diff = <<>> /\ sections = <<>> /\ header = 0 /\ body = <<>>
  /\ step = "reading"
  /\ counter = [c \in Filters |-> 0]
  /\ single = FALSE

-----------------------------------------------------------------------------
(* get_hunks, a line at a time.  What git may print next is external.       *)

Follows(k) ==
  LET prev == Last(diff).kind IN
  CASE k = "index" -> prev = "git"
    [] k = "names" -> prev \in {"git", "index"}
    [] k = "hunk"  -> prev \in {"names", "change", "context"}
    [] k \in {"change", "context"} -> prev \in {"hunk", "change", "context"}

Current == [head |-> header, body |-> body]

\* The section read so far, if any, is pushed; parse_diff_git_path has its path.
PushSection(next) ==
  /\ IF header = 0 THEN UNCHANGED sections ELSE sections' = Append(sections, Current)
  /\ header' = next /\ body' = <<>>

Unparsed == header # 0 /\ ~diff[header].parses

\* The path of a header that does not parse is unwrapped.
Panic ==
  /\ step' = "panicked"
  /\ UNCHANGED <<diff, sections, header, body, counter, single>>

ReadHeader(h) ==
  /\ step = "reading" /\ Len(diff) < MaxRead /\ Cardinality(HeaderLines) < MaxSections
  /\ ~Unparsed
  /\ diff' = Append(diff, h)
  /\ PushSection(Len(diff) + 1)
  /\ UNCHANGED <<step, counter, single>>

ReadLine(k) ==
  /\ step = "reading" /\ 0 < Len(diff) /\ Len(diff) < MaxRead
  /\ Follows(k)
  /\ diff' = Append(diff, [kind |-> k])
  /\ body' = Append(body, Len(diff) + 1)
  /\ UNCHANGED <<sections, header, step, counter, single>>

\* The diff ends: the last section is pushed.
ReadEnd ==
  /\ step = "reading" /\ ~Unparsed
  /\ PushSection(0)
  /\ step' = "read"
  /\ UNCHANGED <<diff, counter, single>>

\* At the next header, or at the end.
UnwrapFails == step = "reading" /\ Unparsed /\ Panic

-----------------------------------------------------------------------------
(* filter_files: a file is counted under the first filter that matches it.  *)

PathFilters(s) == diff[s.head].filters
IsFiltered(s) == PathFilters(s) # {}

Counted(c) ==
  {i \in DOMAIN sections : IsFiltered(sections[i]) /\ c = Min(PathFilters(sections[i]))}

FilterFiles ==
  /\ step = "read"
  /\ sections' = Picked(sections, {i \in DOMAIN sections : ~IsFiltered(sections[i])})
  /\ counter' = [c \in Filters |-> Cardinality(Counted(c))]
  /\ step' = "filtered"
  /\ UNCHANGED <<diff, header, body, single>>

-----------------------------------------------------------------------------
(* should_use_single_agent.                                                *)

\* The lines naming the files begin with - and +, and are counted as changed.
Weight(i) == CASE diff[i].kind = "names" -> 2 [] diff[i].kind = "change" -> 1 [] OTHER -> 0
LineCount == MapThenSumSet(LAMBDA i : Weight(i), UNION {ToSet(s.body) : s \in ToSet(sections)})

\* Mutant of TouchesFullPanelLanguages: the sections are asked, not the raw diff.
TouchesKeptOnly == \E s \in ToSet(sections) : diff[s.head].full

\* diff_touches_full_panel_languages reads the raw diff.
TouchesFullPanelLanguages == \E i \in HeaderLines : diff[i].full

AskSize ==
  /\ step = "filtered"
  /\ single' = (/\ ~TouchesFullPanelLanguages
                /\ Len(sections) <= SmallFiles
                /\ LineCount <= SmallLines)
  /\ step' = "asked"
  /\ UNCHANGED <<diff, sections, header, body, counter>>

DiffNext ==
  \/ \E h \in Headers : ReadHeader(h)
  \/ \E k \in Kinds : ReadLine(k)
  \/ ReadEnd \/ UnwrapFails \/ FilterFiles \/ AskSize

DiffSpec == DiffInit /\ [][DiffNext]_diffVars

-----------------------------------------------------------------------------
(* strip_diff_metadata, as the numbers of the lines it keeps.               *)

IsChanged(i) == diff[i].kind \in {"names", "change"}

\* flush_hunk: one line of context on each side of what changed.
Reduced(hunk) ==
  LET changed == {j \in 2 .. Len(hunk) : IsChanged(hunk[j])} IN
  IF changed = {} THEN hunk
  ELSE <<hunk[1]>> \o SubSeq(hunk, Max({2, Min(changed) - 1}), Min({Len(hunk), Max(changed) + 1}))

\* A line before the first hunk is kept, later ones are part of a hunk, those
\* of the next file included.
StripLine(acc, i) ==
  IF IsHeader(i) \/ diff[i].kind = "index" THEN acc
  ELSE IF diff[i].kind = "hunk" THEN [out |-> acc.out \o Reduced(acc.hunk), hunk |-> <<i>>]
  ELSE IF acc.hunk # <<>> THEN [acc EXCEPT !.hunk = Append(@, i)]
  ELSE [acc EXCEPT !.out = Append(@, i)]

StripDiffMetadata ==
  LET end == FoldLeftDomain(StripLine, [out |-> <<>>, hunk |-> <<>>], diff)
  IN end.out \o Reduced(end.hunk)

-----------------------------------------------------------------------------
(* Properties.                                                             *)

\* A section is its header and every line up to the next one.
SectionIsWhole(s) ==
  LET later == {i \in HeaderLines : i > s.head}
      end == IF later = {} THEN Len(diff) ELSE Min(later) - 1
  IN ToSet(s.body) = s.head + 1 .. end /\ Len(s.body) = end - s.head

\* Cutting a diff, dropping files from it and asking for its size agree: a file
\* is either a section, whole, or counted once among the dropped ones; a diff
\* is left to one generalist only if nothing in it, dropped or not, is in a
\* language that needs the panel; no changed line is stripped.  Only a header
\* that git quoted ends it otherwise.
DiffIsWhole ==
  /\ step # "reading" => \A s \in ToSet(sections) : SectionIsWhole(s)
  /\ step = "read" => {s.head : s \in ToSet(sections)} = HeaderLines
  /\ step \in {"filtered", "asked"} =>
       /\ Len(sections) + SumFunctionOnSet(counter, Filters) = Cardinality(HeaderLines)
       /\ \A s \in ToSet(sections) : diff[s.head].filters = {}
  /\ step = "asked" /\ single => \A i \in HeaderLines : ~diff[i].full
  /\ step = "panicked" => \E i \in HeaderLines : ~diff[i].parses
  /\ step = "read" =>
       LET kept == StripDiffMetadata IN
       /\ {i \in DOMAIN diff : IsChanged(i)} \subseteq ToSet(kept)
       /\ \A i, j \in DOMAIN kept : i < j => kept[i] < kept[j]

=============================================================================
