------------------------------ MODULE RuleFiles ------------------------------
(***************************************************************************)
(* The rules of a repository (riv-rules): markdown files of .riv/rules,     *)
(* loaded into a RuleSet, of which an agent's preamble shows those that     *)
(* apply to the files of a change.  No caller passes a RuleSet to the       *)
(* harness yet; the crate is modelled by itself.                           *)
(*                                                                         *)
(* A file is the pieces it is made of: a separator, wherever in a line it   *)
(* stands, what a line of frontmatter sets, or other text.  Which paths a   *)
(* pattern matches is the glob crate's affair.                             *)
(***************************************************************************)
EXTENDS Naturals, FiniteSetsExt, Subsequences

CONSTANTS
  RulePaths,   \* file paths
  GlobPaths,   \* pattern -> the paths it matches
  BrokenGlobs, \* patterns glob::Pattern::new rejects
  GlobLists,   \* what a `globs' line may list
  MaxRules,    \* bound: files of the directory
  MaxPieces    \* bound: pieces of all of them

ASSUME RuleAssumption ==
  /\ GlobPaths \in [DOMAIN GlobPaths -> SUBSET RulePaths]
  /\ GlobLists \subseteq SUBSET DOMAIN GlobPaths
  /\ {MaxRules, MaxPieces} \subseteq Nat

VARIABLES
  ruleFiles,  \* the directory, in the order it is read; none for no directory
  ruleStep,   \* "written", "loaded", "asked"
  ruleSet,    \* always_rules and rules: the positions of their files
  badFiles,   \* bad_files
  askedPaths, \* file_paths
  preamble    \* the rules of the preamble, in its order

ruleVars == <<ruleFiles, ruleStep, ruleSet, badFiles, askedPaths, preamble>>

Separator == [kind |-> "---", globs |-> {}]
Piece ==
  {Separator} \cup [kind : {"description", "always_apply", "text"}, globs : {{}}]
    \cup [kind : {"globs"}, globs : GlobLists]

\* Markdown; markdown whose text cannot be read; not markdown; or an entry of
\* the directory of which not even the name can be read.
Kind == {"md", "unreadable", "other", "entry error"}
RuleFile == [kind : Kind, content : Seq(Piece)]

-----------------------------------------------------------------------------
(* parse_rule_file.                                                        *)

\* splitn(3, "---"): where the content is cut.
Cuts(c) == Picked([i \in DOMAIN c |-> i], {i \in DOMAIN c : c[i] = Separator})

HasFrontmatter(c) == c # <<>> /\ c[1] = Separator

Frontmatter(c) == SubSeq(c, 2, Cuts(c)[2] - 1)
Lines(c, k) == {i \in DOMAIN Frontmatter(c) : Frontmatter(c)[i].kind = k}

\* Only one separator, or what stands between two is not RuleMetadata: no
\* mapping, or a key of it twice.
IsMalformed(c) ==
  /\ HasFrontmatter(c)
  /\ \/ Len(Cuts(c)) < 2
     \/ Lines(c, "text") # {}
     \/ \E k \in {"description", "always_apply", "globs"} : Cardinality(Lines(c, k)) > 1

\* Without frontmatter a rule always applies; with it only if it says so.
ParseRuleFile(c) ==
  IF HasFrontmatter(c)
  THEN [described |-> Lines(c, "description") # {},
        globs |-> UNION {Frontmatter(c)[i].globs : i \in Lines(c, "globs")},
        always_apply |-> Lines(c, "always_apply") # {},
        body |-> SubSeq(c, Cuts(c)[2] + 1, Len(c))]
  ELSE [described |-> FALSE, globs |-> {}, always_apply |-> TRUE, body |-> c]

RuleOf(i) == ParseRuleFile(ruleFiles[i].content)

-----------------------------------------------------------------------------
(* The directory, written before it is loaded.                             *)

RuleInit ==
  /\ ruleFiles = <<>> /\ ruleStep = "written"
  /\ ruleSet = [always_rules |-> <<>>, rules |-> <<>>]
  /\ badFiles = 0 /\ askedPaths = {} /\ preamble = <<>>

Pieces == FoldFunction(LAMBDA f, n : Len(f.content) + n, 0, ruleFiles)

CreateFile(kind) ==
  /\ ruleStep = "written" /\ Len(ruleFiles) < MaxRules
  /\ ruleFiles' = Append(ruleFiles, [kind |-> kind, content |-> <<>>])
  /\ UNCHANGED <<ruleStep, ruleSet, badFiles, askedPaths, preamble>>

WritePiece(p) ==
  /\ ruleStep = "written" /\ ruleFiles # <<>> /\ Pieces < MaxPieces
  /\ Last(ruleFiles).kind = "md"
  /\ ruleFiles' = [ruleFiles EXCEPT ![Len(ruleFiles)].content = Append(@, p)]
  /\ UNCHANGED <<ruleStep, ruleSet, badFiles, askedPaths, preamble>>

-----------------------------------------------------------------------------
(* RuleSet.                                                                *)

\* A file that cannot be read or parsed is skipped, and counted; one that is
\* not markdown is neither, and an entry that cannot be read is skipped uncounted.
IsSkipped(f) == f.kind = "unreadable" \/ (f.kind = "md" /\ IsMalformed(f.content))
IsLoaded(f) == f.kind = "md" /\ ~IsMalformed(f.content)

\* The rules that always apply, or those that do not, in the order of the directory.
Loaded(always) ==
  Picked([i \in DOMAIN ruleFiles |-> i],
         {i \in DOMAIN ruleFiles : IsLoaded(ruleFiles[i]) /\ RuleOf(i).always_apply = always})

LoadFromDir ==
  /\ ruleStep = "written" /\ ruleStep' = "loaded"
  /\ ruleSet' = [always_rules |-> Loaded(TRUE), rules |-> Loaded(FALSE)]
  /\ badFiles' = Cardinality({i \in DOMAIN ruleFiles : IsSkipped(ruleFiles[i])})
  /\ UNCHANGED <<ruleFiles, askedPaths, preamble>>

\* Mutant of RuleMatchesPath: a pattern that is none spoils the rule.
RuleMatchesIfWhole(i, path) ==
  /\ RuleOf(i).globs \cap BrokenGlobs = {}
  /\ \E g \in RuleOf(i).globs : path \in GlobPaths[g]

\* rule_matches_path: any of its patterns; one that is none matches nothing.
RuleMatchesPath(i, path) ==
  \E g \in RuleOf(i).globs : g \notin BrokenGlobs /\ path \in GlobPaths[g]

RulesMatching(paths) ==
  ruleSet.always_rules
    \o Picked(ruleSet.rules, {k \in DOMAIN ruleSet.rules :
                                \E p \in paths : RuleMatchesPath(ruleSet.rules[k], p)})

\* format_preamble of what matches: a heading if the rule has one, and its body.
FormatPreamble(paths) ==
  /\ ruleStep \in {"loaded", "asked"}
  /\ askedPaths' = paths
  /\ LET matched == RulesMatching(paths) IN
     preamble' = [k \in DOMAIN matched |->
       [rule |-> matched[k], heading |-> RuleOf(matched[k]).described,
        body |-> RuleOf(matched[k]).body]]
  /\ ruleStep' = "asked"
  /\ UNCHANGED <<ruleFiles, ruleSet, badFiles>>

RuleNext ==
  \/ \E k \in Kind : CreateFile(k)
  \/ \E p \in Piece : WritePiece(p)
  \/ LoadFromDir
  \/ \E paths \in SUBSET RulePaths : FormatPreamble(paths)

RuleSpec == RuleInit /\ [][RuleNext]_ruleVars

-----------------------------------------------------------------------------
(* Properties.                                                             *)

RuleTypeOK ==
  /\ \A f \in ToSet(ruleFiles) : f.kind \in Kind /\ ToSet(f.content) \subseteq Piece
  /\ ruleStep \in {"written", "loaded", "asked"}
  /\ ToSet(ruleSet.always_rules) \cup ToSet(ruleSet.rules) \subseteq DOMAIN ruleFiles
  /\ badFiles \in 0 .. Len(ruleFiles) /\ askedPaths \subseteq RulePaths
  /\ \A k \in DOMAIN preamble : preamble[k].rule \in DOMAIN ruleFiles

ShownRules == {preamble[k].rule : k \in DOMAIN preamble}

\* A bad file costs itself only, and no rule is shown twice: every markdown file
\* that is listed is a rule, once, or counted (load_from_dir); a preamble shows
\* every rule that always applies, whatever the change touches, and every other
\* one of which a pattern that is one matches a path of it, however many of its
\* patterns are none (matching); a rule that names no files and does not say that
\* it always applies is never shown; and of a file with frontmatter only what
\* follows its second separator is.
RulesAreWhole ==
  /\ ruleStep # "written" =>
       /\ Len(ruleSet.always_rules) + Len(ruleSet.rules) + badFiles
            = Cardinality({i \in DOMAIN ruleFiles : ruleFiles[i].kind \in {"md", "unreadable"}})
       /\ ToSet(ruleSet.always_rules) \cap ToSet(ruleSet.rules) = {}
  /\ ruleStep = "asked" =>
       /\ Cardinality(ShownRules) = Len(preamble)
       /\ ShownRules = {i \in ToSet(ruleSet.always_rules) \cup ToSet(ruleSet.rules) :
            \/ RuleOf(i).always_apply
            \/ \E g \in RuleOf(i).globs \ BrokenGlobs : GlobPaths[g] \cap askedPaths # {}}
       /\ \A k \in DOMAIN preamble :
            LET c == ruleFiles[preamble[k].rule].content
                start == Len(c) - Len(preamble[k].body)
            IN /\ preamble[k].body = SubSeq(c, start + 1, Len(c))
               /\ Cardinality({j \in 1 .. start : c[j] = Separator})
                    = IF HasFrontmatter(c) THEN 2 ELSE 0
               /\ start > 0 => c[start] = Separator
=============================================================================
