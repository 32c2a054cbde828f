-------------------------------- MODULE Scoring --------------------------------
(***************************************************************************)
(* A review measured against the golden comments of its pull request.       *)
(* run_consensus_post goes through the goldens and takes findings out of a  *)
(* sorted pool; judge_finding asks a model about one finding and every      *)
(* golden at once.  Neither has a caller but its tests.                     *)
(*                                                                         *)
(* A finding is its place in the sorted pool, a golden its place in the     *)
(* dataset, and which texts contain each other is data.                     *)
(***************************************************************************)
EXTENDS Naturals, SequencesExt, FiniteSetsExt

CONSTANTS MaxPool, MaxGoldens  \* bounds: findings of all agents, goldens

ASSUME ScoringAssumption == MaxPool \in Nat /\ MaxGoldens \in Nat

VARIABLES
  goldens,    \* how many there are
  overlap,    \* pairs of golden and finding whose texts contain each other
  unmatched,  \* the pool
  next,       \* the golden at hand
  truePos,    \* true_positives
  falseNeg,   \* false_negatives
  verdict,    \* verdict[g]: the judge's task for golden g
  verdicts,   \* goldens whose verdict was taken
  judgeErrors \* goldens whose error was taken

pool == <<unmatched, next, truePos, falseNeg>>
judging == <<verdict, verdicts, judgeErrors>>
scoringVars == <<goldens, overlap, pool, judging>>

AllGoldens == 1 .. goldens
Taken == {truePos[i][2] : i \in DOMAIN truePos}

ScoringTypeOK ==
  /\ goldens \in 0 .. MaxGoldens
  /\ overlap \subseteq AllGoldens \X (1 .. MaxPool)
  /\ unmatched \in Seq(1 .. MaxPool)
  /\ next \in 1 .. goldens + 1
  /\ truePos \in Seq(AllGoldens \X (1 .. MaxPool))
  /\ falseNeg \in Seq(AllGoldens)
  /\ verdict \in [AllGoldens -> {"none", "running", "ok", "error", "panic", "joined"}]
  /\ verdicts \subseteq AllGoldens /\ judgeErrors \subseteq AllGoldens

ScoringInit ==
  /\ goldens \in 0 .. MaxGoldens
  /\ overlap \in SUBSET (AllGoldens \X (1 .. MaxPool))
  /\ \E n \in 0 .. MaxPool : unmatched = [i \in 1 .. n |-> i]
  /\ next = 1 /\ truePos = <<>> /\ falseNeg = <<>>
  /\ verdict = [g \in AllGoldens |-> "none"] /\ verdicts = {} /\ judgeErrors = {}

-----------------------------------------------------------------------------
(* run_consensus_post.                                                     *)

\* judge_comment: some candidate matches; which one is not returned.
JudgeComment(g) == \E f \in ToSet(unmatched) : <<g, f>> \in overlap

\* Mutant of TruePositive: the pool keeps the finding.
TruePositiveKept ==
  /\ JudgeComment(next)
  /\ truePos' = Append(truePos, <<next, Head(unmatched)>>)
  /\ UNCHANGED <<unmatched, falseNeg>>

\* The first of the pool is taken, whichever of them matched.
TruePositive ==
  /\ JudgeComment(next)
  /\ truePos' = Append(truePos, <<next, Head(unmatched)>>)
  /\ unmatched' = Tail(unmatched)
  /\ UNCHANGED falseNeg

FalseNegative ==
  /\ ~JudgeComment(next)
  /\ falseNeg' = Append(falseNeg, next)
  /\ UNCHANGED <<unmatched, truePos>>

MatchGolden ==
  /\ next <= goldens
  /\ TruePositive \/ FalseNegative
  /\ next' = next + 1
  /\ UNCHANGED <<goldens, overlap, judging>>

-----------------------------------------------------------------------------
(* judge_finding.                                                          *)

\* Without goldens there is nothing to ask.
SpawnJudges ==
  /\ \A g \in AllGoldens : verdict[g] = "none"
  /\ goldens > 0
  /\ verdict' = [g \in AllGoldens |-> "running"]
  /\ UNCHANGED <<goldens, overlap, pool, verdicts, judgeErrors>>

JudgeAnswers(g) ==
  /\ verdict[g] = "running"
  /\ \E r \in {"ok", "error", "panic"} : verdict' = [verdict EXCEPT ![g] = r]
  /\ UNCHANGED <<goldens, overlap, pool, verdicts, judgeErrors>>

\* A panic is logged.
JoinVerdict(g) ==
  /\ verdict[g] \in {"ok", "error", "panic"}
  /\ verdicts' = IF verdict[g] = "ok" THEN verdicts \cup {g} ELSE verdicts
  /\ judgeErrors' = IF verdict[g] = "error" THEN judgeErrors \cup {g} ELSE judgeErrors
  /\ verdict' = [verdict EXCEPT ![g] = "joined"]
  /\ UNCHANGED <<goldens, overlap, pool>>

ScoringNext ==
  \/ MatchGolden \/ SpawnJudges
  \/ \E g \in AllGoldens : JudgeAnswers(g) \/ JoinVerdict(g)

ScoringSpec == ScoringInit /\ [][ScoringNext]_scoringVars

-----------------------------------------------------------------------------
(* Metrics of the report.                                                  *)

Metrics == [true_positives  |-> Len(truePos),
            false_positives |-> Len(unmatched),
            false_negatives |-> Len(falseNeg)]

\* precision and recall as fractions: 0 of 1 where nothing can be divided.
Precision(m) ==
  LET n == m.true_positives + m.false_positives
  IN IF n > 0 THEN <<m.true_positives, n>> ELSE <<0, 1>>
Recall(m) ==
  LET n == m.true_positives + m.false_negatives
  IN IF n > 0 THEN <<m.true_positives, n>> ELSE <<0, 1>>

-----------------------------------------------------------------------------
(* Properties.                                                             *)

\* Every golden seen so far is either found or missed, and every finding is
\* claimed by one golden or a false positive, although the finding that is
\* taken from the pool need not be the one that matched; so precision and
\* recall are shares of the findings and of the goldens.
ScoreIsAPartition ==
  LET found == {truePos[i][1] : i \in DOMAIN truePos} IN
  /\ found \cup ToSet(falseNeg) = 1 .. next - 1
  /\ Len(truePos) + Len(falseNeg) = next - 1
  /\ Taken \cap ToSet(unmatched) = {}
  /\ Cardinality(Taken) = Len(truePos)
  /\ Precision(Metrics)[2] \in {1, Cardinality(Taken \cup ToSet(unmatched))}
  /\ Recall(Metrics)[2] \in {1, next - 1}

\* A verdict is of a golden that was asked about, and taken once.
VerdictsAreKept ==
  /\ verdicts \cap judgeErrors = {}
  /\ \A g \in verdicts \cup judgeErrors : verdict[g] = "joined"

\* What is counted is what was judged, once.
ScoreIsWhole == ScoreIsAPartition /\ VerdictsAreKept

=============================================================================
