--------------------------- MODULE BenchmarkAssets ---------------------------
(***************************************************************************)
(* The files a benchmark works on: prepare_benchmark_assets clones the      *)
(* repository of the dataset, fetches a ref for every pull request, checks  *)
(* each out into a worktree and extracts its diff; run_benchmark_pr reviews *)
(* what it finds there.  The directory outlives the server and is shared by *)
(* all benchmarks, and nothing locks it.                                    *)
(*                                                                         *)
(* A file or directory is "none", "part" while somebody makes it or when    *)
(* its maker stopped, or "whole"; a diff may be "empty", too.               *)
(***************************************************************************)
EXTENDS Naturals, SequencesExt, FiniteSetsExt, Subsequences

CONSTANTS
  Dataset,   \* pull requests of the golden dataset, in order
  Chosen,    \* Chosen[b]: selected_entries of benchmark b
  MaxKills   \* bound: times the server is killed

ASSUME AssetsAssumption ==
  /\ Dataset \in Seq(ToSet(Dataset)) /\ IsInjective(Dataset)
  /\ \A b \in DOMAIN Chosen :
       Chosen[b] \in Seq(ToSet(Dataset)) /\ IsInjective(Chosen[b])
  /\ MaxKills \in Nat

Prs == ToSet(Dataset)
Benches == DOMAIN Chosen

VARIABLES
  clone,     \* base-repos/{owner}_{repo}
  refs,      \* refs[k]: pull requests with a ref of kind k
  worktree,  \* worktree[p]: worktrees/{owner}_{repo}_{p}
  diff,      \* diff[p]: diffs/{owner}_{repo}_{p}.diff
  bench,     \* bench[b]: run_benchmark
  short,     \* history: diffs and worktrees whose maker stopped half way
  kills

files == <<clone, refs, worktree, diff>>
assetVars == <<files, bench, short, kills>>

NoTask == [pc |-> "none", diff |-> "none", root |-> "none", excused |-> TRUE]
Resting == [pc |-> "idle", left |-> <<>>, task |-> [p \in Prs |-> NoTask], outcomes |-> <<>>]

AssetInit ==
  /\ clone = "none" /\ refs = [k \in {"merge", "head"} |-> {}]
  /\ worktree = [p \in Prs |-> "none"] /\ diff = [p \in Prs |-> "none"]
  /\ bench = [b \in Benches |-> Resting]
  /\ short = {} /\ kills = 0

AssetTypeOK ==
  /\ {clone} \cup Range(worktree) \subseteq {"none", "part", "whole"}
  /\ Range(diff) \subseteq {"none", "empty", "part", "whole"}
  /\ \A k \in DOMAIN refs : refs[k] \subseteq Prs
  /\ \A b \in Benches : ToSet(bench[b].left) \cup ToSet(bench[b].outcomes) \subseteq Prs

At_(b, pc) == bench[b].pc = pc
GoOn(b, pc, left) == bench' = [bench EXCEPT ![b].pc = pc, ![b].left = left]
Now(b) == bench[b].left[1]
Next_(b) == Tail(bench[b].left)

-----------------------------------------------------------------------------
(* scaffold::run.  A step that fails leaves the rest to diffs::run.         *)

StartBench(b) ==
  /\ At_(b, "idle")
  /\ GoOn(b, "clone", Dataset)
  /\ UNCHANGED <<files, short, kills>>

\* The directory has a .git from the first moment on; a second clone into it
\* fails, and that benchmark fetches nothing.
CloneBegins(b) ==
  /\ At_(b, "clone")
  /\ \/ clone = "none" /\ clone' = "part" /\ GoOn(b, "cloning", Dataset)
     \/ clone # "none" /\ UNCHANGED clone /\ GoOn(b, "fetch", Dataset)
     \/ clone # "whole" /\ UNCHANGED clone /\ GoOn(b, "list", <<>>)
  /\ UNCHANGED <<refs, worktree, diff, short, kills>>

CloneEnds(b) ==
  /\ At_(b, "cloning")
  /\ \/ clone' = "whole" /\ GoOn(b, "fetch", Dataset)
     \/ clone' = "none" /\ GoOn(b, "list", <<>>)
  /\ UNCHANGED <<refs, worktree, diff, short, kills>>

\* The merge ref, or the head ref, or the bare commit, or nothing at all.
FetchRef(b) ==
  /\ At_(b, "fetch")
  /\ \/ bench[b].left = <<>> /\ GoOn(b, "list", <<>>) /\ UNCHANGED refs
     \/ /\ bench[b].left # <<>> /\ GoOn(b, "fetch", Next_(b))
        /\ \/ clone # "none" /\ \E k \in DOMAIN refs : refs' = [refs EXCEPT ![k] = @ \cup {Now(b)}]
           \/ UNCHANGED refs
  /\ UNCHANGED <<clone, worktree, diff, short, kills>>

-----------------------------------------------------------------------------
(* diffs::run.                                                             *)

Listed == IF clone = "none" THEN {} ELSE IF refs["merge"] # {} THEN refs["merge"] ELSE refs["head"]

\* The refs may be listed before another benchmark has fetched the others.
ListRefs(b) ==
  /\ At_(b, "list")
  /\ GoOn(b, "extract", Picked(Dataset, {i \in DOMAIN Dataset : Dataset[i] \in Listed}))
  /\ UNCHANGED <<files, short, kills>>

\* extract_diff_for_pr: nothing to do, a worktree to add, or a diff to take.
\* git refuses to add where another one has just begun to.
Extract(b) ==
  /\ At_(b, "extract") /\ bench[b].left # <<>>
  /\ LET p == Now(b) IN
     \/ /\ worktree[p] # "none" /\ diff[p] # "none"
        /\ GoOn(b, "extract", Next_(b)) /\ UNCHANGED worktree
     \/ /\ worktree[p] = "none"
        /\ worktree' = [worktree EXCEPT ![p] = "part"]
        /\ GoOn(b, "add", bench[b].left)
     \/ /\ worktree[p] # "whole" /\ UNCHANGED worktree
        /\ GoOn(b, "extract", Next_(b))
     \/ /\ worktree[p] # "none" /\ diff[p] = "none" /\ UNCHANGED worktree
        /\ GoOn(b, "diff", bench[b].left)
  /\ UNCHANGED <<clone, refs, diff, short, kills>>

\* git undoes what it could not finish.
WorktreeAdded(b) ==
  /\ At_(b, "add")
  /\ \/ worktree' = [worktree EXCEPT ![Now(b)] = "whole"] /\ GoOn(b, "diff", bench[b].left)
     \/ worktree' = [worktree EXCEPT ![Now(b)] = "none"] /\ GoOn(b, "extract", Next_(b))
  /\ UNCHANGED <<clone, refs, diff, short, kills>>

\* git diff fails, or fs::write opens the file, which empties it.
GitDiff(b) ==
  /\ At_(b, "diff")
  /\ \/ GoOn(b, "extract", Next_(b)) /\ UNCHANGED diff
     \/ diff' = [diff EXCEPT ![Now(b)] = "empty"] /\ GoOn(b, "write", bench[b].left)
  /\ UNCHANGED <<clone, refs, worktree, short, kills>>

\* An error of the file system ends diffs::run.
WriteDiff(b) ==
  /\ At_(b, "write")
  /\ \/ /\ diff' = [diff EXCEPT ![Now(b)] = "part"]
        /\ \/ UNCHANGED <<bench, short>>
           \/ GoOn(b, "extract", <<>>) /\ short' = short \cup {<<"diff", Now(b)>>}
     \/ /\ diff' = [diff EXCEPT ![Now(b)] = "whole"]
        /\ GoOn(b, "extract", Next_(b)) /\ UNCHANGED short
  /\ UNCHANGED <<clone, refs, worktree, kills>>

-----------------------------------------------------------------------------
(* The pull requests, each a task.                                         *)

Step(b, p, t) == bench' = [bench EXCEPT ![b].task[p] = t]
Being(what, p, b) ==
  \/ <<what, p>> \in short
  \/ \E c \in Benches \ {b} : bench[c].left # <<>> /\ Now(c) = p
       /\ At_(c, IF what = "diff" THEN "write" ELSE "add")

\* Mutant of SpawnPrs: the assets are prepared while they are reviewed.
SpawnPrsEarly(b) ==
  /\ bench[b].pc \in {"extract", "write"}
  /\ bench' = [bench EXCEPT ![b].pc = "review",
                 ![b].task = [p \in Prs |-> IF p \in ToSet(Chosen[b]) THEN [NoTask EXCEPT !.pc = "diff"]
                                                                     ELSE NoTask]]
  /\ UNCHANGED <<files, short, kills>>

SpawnPrs(b) ==
  /\ At_(b, "extract") /\ bench[b].left = <<>>
  /\ bench' = [bench EXCEPT ![b].pc = "review",
                 ![b].task = [p \in Prs |-> IF p \in ToSet(Chosen[b]) THEN [NoTask EXCEPT !.pc = "diff"]
                                                                     ELSE NoTask]]
  /\ UNCHANGED <<files, short, kills>>

\* load_cached_benchmark_diff, and fetch_pr_diff when there is nothing in it.
ReadDiff(b, p) ==
  LET t == bench[b].task[p] IN
  /\ t.pc = "diff"
  /\ IF diff[p] \in {"part", "whole"}
       THEN Step(b, p, [t EXCEPT !.pc = "root", !.diff = diff[p],
                                 !.excused = diff[p] = "whole" \/ Being("diff", p, b)])
       ELSE \/ Step(b, p, [t EXCEPT !.pc = "root", !.diff = "live"])
            \/ Step(b, p, [t EXCEPT !.pc = "failed"])
  /\ UNCHANGED <<files, short, kills>>

\* The worktree if there is one, or repo_root_fallback; then review_diff,
\* which ends either way.
FindRoot(b, p) ==
  LET t == bench[b].task[p] IN
  /\ t.pc = "root"
  /\ \E pc \in {"reviewed", "failed"} :
       Step(b, p, [t EXCEPT !.pc = pc, !.root = worktree[p],
                            !.excused = @ /\ (worktree[p] # "part" \/ Being("worktree", p, b))])
  /\ UNCHANGED <<files, short, kills>>

Order(b, p) == CHOOSE i \in DOMAIN Chosen[b] : Chosen[b][i] = p

\* In any order; an error is logged.
JoinPr(b, p) ==
  /\ bench[b].task[p].pc \in {"reviewed", "failed"}
  /\ bench' = IF bench[b].task[p].pc = "reviewed"
                THEN [bench EXCEPT ![b].task[p].pc = "joined", ![b].outcomes = Append(@, p)]
                ELSE [bench EXCEPT ![b].task[p].pc = "dropped"]
  /\ UNCHANGED <<files, short, kills>>

\* The outcomes are returned in the order of the selection.
SortOutcomes(b) ==
  /\ At_(b, "review")
  /\ \A p \in Prs : bench[b].task[p].pc \in {"none", "joined", "dropped"}
  /\ bench' = [bench EXCEPT ![b].pc = "done", ![b].outcomes =
                  SortedBy(@, [i \in DOMAIN @ |-> Order(b, @[i])])]
  /\ UNCHANGED <<files, short, kills>>

\* What is half made stays half made.
Killed ==
  /\ kills < MaxKills
  /\ kills' = kills + 1
  /\ bench' = [b \in Benches |-> Resting]
  /\ short' = short \cup {x \in {"diff", "worktree"} \X Prs :
                            \E b \in Benches : bench[b].left # <<>> /\ Now(b) = x[2]
                              /\ At_(b, IF x[1] = "diff" THEN "write" ELSE "add")}
  /\ UNCHANGED files

AssetNext ==
  \/ Killed
  \/ \E b \in Benches :
       \/ StartBench(b) \/ CloneBegins(b) \/ CloneEnds(b) \/ FetchRef(b) \/ ListRefs(b)
       \/ Extract(b) \/ WorktreeAdded(b) \/ GitDiff(b) \/ WriteDiff(b) \/ SpawnPrs(b)
       \/ SortOutcomes(b)
       \/ \E p \in Prs : ReadDiff(b, p) \/ FindRoot(b, p) \/ JoinPr(b, p)

AssetSpec == AssetInit /\ [][AssetNext]_assetVars

-----------------------------------------------------------------------------
(* Properties.                                                             *)

\* A pull request is reviewed against half a diff, or in half a worktree, only
\* while another benchmark is making it or when its maker stopped: a benchmark
\* never overtakes its own preparation, and an emptied file counts as none
\* (prepare_benchmark_assets, load_cached_benchmark_diff).
AssetsAreReady ==
  \A b \in Benches, p \in Prs : bench[b].task[p].excused
=============================================================================
