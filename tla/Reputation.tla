------------------------------ MODULE Reputation ------------------------------
(***************************************************************************)
(* The reputation of one node, v3/bingo/reputation.py: outcomes are counted*)
(* for each grade, and a score that match weighs the node by is derived    *)
(* from the counts, the prior, and whether the node is on probation.       *)
(*                                                                         *)
(* Scores are fractions, compared exactly; the code's are rounded floats.  *)
(***************************************************************************)
EXTENDS Integers, FiniteSetsExt

CONSTANTS Grades,      \* grade and process
          Prior,       \* in tenths
          Probation,   \* PROBATION_COMPLETIONS
          MaxOutcomes  \* bound: outcomes recorded

ASSUME ReputationAssumption ==
    Prior \in 0 .. 10 /\ Probation \in Nat /\ MaxOutcomes \in Nat

VARIABLES stats,    \* GradeStats of each grade
          expelled

reputationVars == <<stats, expelled>>

NoStats == [completed |-> 0, failed |-> 0, on_time |-> 0, qa_pass |-> 0, disputes_lost |-> 0]
ReputationInit == stats = [g \in Grades |-> NoStats] /\ expelled = FALSE

One(b) == IF b THEN 1 ELSE 0

\* record_completion, record_failure, record_dispute_lost
Completed(s, on_time, qa_pass) ==
    [s EXCEPT !.completed = @ + 1, !.on_time = @ + One(on_time), !.qa_pass = @ + One(qa_pass)]
Failed(s) == [s EXCEPT !.failed = @ + 1]
Lost(s) == [s EXCEPT !.disputes_lost = @ + 1]

Outcomes(s) == {Failed(s), Lost(s)} \union {Completed(s, t, q) : t \in BOOLEAN, q \in BOOLEAN}

CountOf(s) == s.completed + s.failed + s.disputes_lost

RecordOutcome(g) ==
    /\ MapThenSumSet(LAMBDA h : CountOf(stats[h]), Grades) < MaxOutcomes
    /\ \E s \in Outcomes(stats[g]) : stats' = [stats EXCEPT ![g] = s]
    /\ UNCHANGED expelled

\* slash with expel
Expel == ~expelled /\ expelled' = TRUE /\ UNCHANGED stats

ReputationNext == Expel \/ \E g \in Grades : RecordOutcome(g)

ReputationSpec == ReputationInit /\ [][ReputationNext]_reputationVars

-----------------------------------------------------------------------------
Fraction(num, den) == [num |-> num, den |-> den]
AtMost(x, y) == x.num * y.den <= y.num * x.den
Clamped(x) == IF x.num < 0 THEN Fraction(0, 1) ELSE IF x.num > x.den THEN Fraction(1, 1) ELSE x

\* A score that punishes lost disputes by their share of the outcomes.
BugScore(s) ==
    LET n == s.completed + s.failed
    IN  IF n = 0 THEN Fraction(1, 2)
        ELSE IF s.completed = 0 THEN Fraction(0, 1)
        ELSE Clamped(Fraction(10 * s.completed * s.completed + 5 * n * (s.on_time + s.qa_pass)
                                  - 20 * s.completed * Min({n, s.disputes_lost}),
                              20 * n * s.completed))

\* GradeStats.score: a half for completing, a quarter each for being on time and
\* for passing QA, less a tenth for each dispute lost, up to a half.
Score(s) ==
    LET n == s.completed + s.failed
    IN  IF n = 0 THEN Fraction(1, 2)
        ELSE IF s.completed = 0 THEN Fraction(0, 1)
        ELSE Clamped(Fraction(10 * s.completed * s.completed + 5 * n * (s.on_time + s.qa_pass)
                                  - 2 * n * s.completed * Min({5, s.disputes_lost}),
                              20 * n * s.completed))

IsProbationary == MapThenSumSet(LAMBDA g : stats[g].completed, Grades) < Probation

\* NodeRep.score: prior and observed score, by how much was observed.
NodeScore(g) ==
    LET observed == Score(stats[g])
        w == Min({5, stats[g].completed + stats[g].failed})
        blended == Fraction((5 - w) * Prior * observed.den + 10 * w * observed.num,
                            50 * observed.den)
    IN  IF expelled THEN Fraction(0, 1)
        ELSE IF IsProbationary THEN Fraction(17 * blended.num, 20 * blended.den)
        ELSE blended

-----------------------------------------------------------------------------
\* Whatever a node's history, a completion that is on time and passes QA never
\* lowers its grade's observed score, a failure or a dispute lost never raises
\* it, and a late or faulty completion is worth no more than a good one; a grade
\* without history is rated by the prior alone, and no score leaves [0, 1]
\* (reputation.py:5-9, 41-43).
OutcomesCount == \A g \in Grades :
    LET s == stats[g]
    IN  /\ AtMost(Score(s), Score(Completed(s, TRUE, TRUE)))
        /\ AtMost(Score(Failed(s)), Score(s))
        /\ AtMost(Score(Lost(s)), Score(s))
        /\ \A t, q \in BOOLEAN :
              AtMost(Score(Completed(s, t, q)), Score(Completed(s, TRUE, TRUE)))
        /\ s.completed + s.failed = 0 /\ ~expelled =>
              /\ AtMost(NodeScore(g), Fraction(Prior, 10))
              /\ ~IsProbationary => AtMost(Fraction(Prior, 10), NodeScore(g))
        /\ NodeScore(g).num \in 0 .. NodeScore(g).den
=============================================================================
