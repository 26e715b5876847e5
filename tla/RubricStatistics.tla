-------------------------- MODULE RubricStatistics --------------------------
(***************************************************************************)
(* A document judged by a rubric (drafting/scoring.ts), the judging of one *)
(* criterion after another (drafting/batch-runner.ts), and what k passes   *)
(* say of the rubric (drafting/rubric-stats.ts).                           *)
(*                                                                         *)
(* A criterion is [id, gate, weight, by, patterns].  A verdict is          *)
(* [id, passed].  Fractions are kept as a numerator and a denominator, and *)
(* an interval by what its ends are compared with; square roots are        *)
(* compared by their squares, in ten-thousandths.                          *)
(***************************************************************************)
EXTENDS Integers, Sequences, SequencesExt, FiniteSets, FiniteSetsExt

(* checkPatterns: a forbidden pattern that is there, a required one that   *)
(* is not.  A pattern that is no regular expression matches nothing.       *)
Matches(rule, text) == rule # "malformed" /\ rule \in text
PatternsPass(criterion, text) ==
    /\ \A rule \in criterion.forbidden : ~Matches(rule, text)
    /\ \A rule \in criterion.required : Matches(rule, text)

(* llmDocumentJudge: the judge is asked unless the patterns decide; an     *)
(* answer that cannot be read fails the criterion.                         *)
Judged(criterion, text, answer) ==
    /\ criterion.by # "llm_judge" => PatternsPass(criterion, text)
    /\ criterion.by # "deterministic" => answer = "pass"
JudgeDocument(rubric, text, answers) ==
    [i \in DOMAIN rubric |-> [id |-> rubric[i].id, passed |-> Judged(rubric[i], text, answers[i])]]

-----------------------------------------------------------------------------
(* scoreRubric.  The last verdict of an id counts; none is a failure.      *)
PassedUnlessFailed(verdicts, c) ==     \* mutant: an unjudged criterion passes
    \A i \in DOMAIN verdicts : verdicts[i].id = c.id => verdicts[i].passed
Passed(verdicts, c) == \E i \in DOMAIN verdicts :
    /\ verdicts[i].id = c.id /\ verdicts[i].passed
    /\ \A j \in DOMAIN verdicts : j > i => verdicts[j].id # c.id

Weight(criteria) == FoldLeft(LAMBDA sum, c : sum + c.weight, 0, criteria)
Scoring(rubric) == SelectSeq(rubric, LAMBDA c : c.gate # "advisory")
Awarded(rubric, verdicts) == Weight(SelectSeq(Scoring(rubric), LAMBDA c : Passed(verdicts, c)))
Possible(rubric) == Weight(Scoring(rubric))
Fails(rubric, verdicts, gate) == \E c \in ToSet(rubric) : c.gate = gate /\ ~Passed(verdicts, c)
GatePassed(rubric, verdicts) == ~Fails(rubric, verdicts, "critical")

(* threshold is in hundredths; with no weight at all the score is 1.       *)
Reaches(rubric, verdicts, threshold) ==
    Possible(rubric) > 0 => 100 * Awarded(rubric, verdicts) >= threshold * Possible(rubric)
Approved(rubric, verdicts, threshold, trajectory) ==
    GatePassed(rubric, verdicts) /\ trajectory /\ Reaches(rubric, verdicts, threshold)
ReviewRequired(rubric, verdicts, threshold, trajectory) ==
    \/ ~GatePassed(rubric, verdicts) \/ ~trajectory \/ ~Reaches(rubric, verdicts, threshold)
    \/ Fails(rubric, verdicts, "major")

-----------------------------------------------------------------------------
(* Wilson's interval for x of n with z = 1.96: its ends are                *)
(*   (2x + z2 -+ sqrt(z2 (4x(n - x)/n + z2))) / 2(n + z2).                 *)
Root(a) == FoldLeft(LAMBDA r, b : IF (r + b) * (r + b) <= a THEN r + b ELSE r, 0,
                    <<4096, 2048, 1024, 512, 256, 128, 64, 32, 16, 8, 4, 2, 1>>)
Wilson(x, n) ==
    IF n = 0 THEN [low |-> 0, high |-> 1, of |-> 1]
    ELSE LET root == Root(((15366400 * x * (n - x)) \div n) + 14757890)
         IN [low |-> 2000 * x + 3842 - root, high |-> 2000 * x + 3842 + root,
             of |-> 2000 * n + 7683]

CoinFlip(x, n) == LET ci == Wilson(x, n) IN 2 * ci.low < ci.of /\ 2 * ci.high > ci.of
ByRate(x, n) == IF 2 * x >= n THEN "stable_pass" ELSE "stable_fail"     \* mutant
Stability(x, n) ==
    IF CoinFlip(x, n) THEN "unstable"
    ELSE IF 2 * x >= n THEN "stable_pass" ELSE "stable_fail"

(* compareBatches: a difference is likely real when the intervals are      *)
(* disjoint.                                                               *)
Below(a, b) == a.high * b.of < b.low * a.of
LikelySignal(x, n, y, m) ==
    Below(Wilson(x, n), Wilson(y, m)) \/ Below(Wilson(y, m), Wilson(x, n))

(* aggregateBatch over the verdicts of each run.                           *)
Passes(runs, c) == UNION {{<<r, i>> : i \in {j \in DOMAIN runs[r] : runs[r][j].id = c.id /\ runs[r][j].passed}} :
                             r \in DOMAIN runs}
PassCount(runs, c) == Cardinality(Passes(runs, c))
GatePasses(rubric, runs) == Cardinality({r \in DOMAIN runs : GatePassed(rubric, runs[r])})

-----------------------------------------------------------------------------
(* A criterion is unstable exactly when its passes are within what a fair  *)
(* coin gives (the score test), so never decided by fewer than four runs.  *)
(* Decided means that the majority passed or that it failed, by the same   *)
(* measure for both; more passes never unmake a pass.  Two criteria that   *)
(* are decided differently differ by a signal, and a signal is never       *)
(* claimed of equal rates.                                                 *)
StabilityHolds(n) == \A x \in 0..n :
    /\ CoinFlip(x, n) <=> n = 0 \/ 10000 * (2 * x - n) * (2 * x - n) < 38416 * n
    /\ n < 4 => Stability(x, n) = "unstable"
    /\ (Stability(x, n) = "stable_pass") <=> (Stability(n - x, n) = "stable_fail")
    /\ x < n /\ Stability(x, n) = "stable_pass" => Stability(x + 1, n) = "stable_pass"
SignalHolds(n, m) == \A x \in 0..n : \A y \in 0..m :
    /\ {Stability(x, n), Stability(y, m)} = {"stable_pass", "stable_fail"} => LikelySignal(x, n, y, m)
    /\ LikelySignal(x, n, y, m) => x * m # y * n

(* No run is approved on a critical criterion that nobody judged, or whose *)
(* forbidden pattern is in the text, whatever its weight; what is not      *)
(* approved is reviewed, and what is approved is reviewed only for a major *)
(* failure.  A gate that passed in every run passed each of its criteria   *)
(* in every run.                                                           *)
ScoringHolds(rubric, runs, threshold, trajectory) ==
    LET critical == {c \in ToSet(rubric) : c.gate = "critical"}
    IN /\ \A v \in ToSet(runs) :
            /\ Approved(rubric, v, threshold, trajectory) =>
                 /\ \A c \in critical : \E i \in DOMAIN v : v[i].id = c.id /\ v[i].passed
                 /\ trajectory
            /\ ~Approved(rubric, v, threshold, trajectory) => ReviewRequired(rubric, v, threshold, trajectory)
            /\ Approved(rubric, v, threshold, trajectory) /\ ReviewRequired(rubric, v, threshold, trajectory) =>
                 \E c \in ToSet(rubric) : c.gate = "major" /\ ~Passed(v, c)
       /\ \A c \in critical : GatePasses(rubric, runs) <= PassCount(runs, c)

JudgingHolds(rubric, text, answers) ==
    LET v == JudgeDocument(rubric, text, answers)
    IN GatePassed(rubric, v) => \A c \in ToSet(rubric) :
         c.gate = "critical" /\ c.by # "llm_judge" => (c.forbidden \ {"malformed"}) \cap text = {}
=============================================================================
