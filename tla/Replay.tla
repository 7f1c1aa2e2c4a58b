------------------------------- MODULE Replay -------------------------------
(***************************************************************************)
(* One decision from candidate to ledger, and `guard replay` (report.py),  *)
(* which decides again under another policy from what the ledger kept.     *)
(* The record's inputs are kept beside it, so that the rules can be stated *)
(* about them.                                                             *)
(***************************************************************************)
EXTENDS Normalize, Aggregate

CONSTANTS Candidates, Priors,  \* raw candidates and earlier records of their ids
          Now,                 \* when the candidates are observed
          Answers,             \* what the judge may come to
          Policies

\* A judge answers some of the questions, and never says that it was skipped.
IsPartial(f)  == DOMAIN f \subseteq Questions /\ f \in [DOMAIN f -> Nat]
IsJudgment(j) == /\ j \in [status : STRING, scores : {j.scores}, confidence : {j.confidence}]
                 /\ IsPartial(j.scores) /\ IsPartial(j.confidence)

ASSUME ReplayAssumption ==
  /\ Now \in Nat
  /\ \A raw \in Candidates : IsRaw(raw)
  /\ \A j \in Answers : IsJudgment(j) /\ j.status # "SKIPPED"
  /\ \A p \in Policies :
       /\ p.window \in Nat
       /\ p.thresholds \in [{"task_fit_min", "incremental_value_min", "duplication_risk_max",
                             "evidence_sufficiency_min", "confidence_min"} -> Int]

VARIABLES given,     \* candidate, prior record, answer and policy of the evaluation
          recorded,  \* the guard_evaluated payload
          replayed   \* the newest replay of it, and its policy

vars == <<given, recorded, replayed>>

NoScore == -1   \* JSON null
Nothing == [policy |-> {}]
Total(f)   == [q \in Questions |-> IF q \in DOMAIN f THEN f[q] ELSE NoScore]
Partial(f) == [q \in {k \in DOMAIN f : f[k] # NoScore} |-> f[q]]

\* SemanticJudgment.as_dict() and from_dict().
Stored(j) == [status |-> j.status, scores |-> Total(j.scores),
              confidence |-> IF j.confidence = <<>> THEN <<>> ELSE Total(j.confidence)]

ConfidenceLost(s) == [status |-> s.status, scores |-> Partial(s.scores), confidence |-> <<>>]
AsLowScores(s) ==
  [status |-> "OK", scores |-> [q \in Questions |-> IF s.scores[q] = NoScore THEN 0 ELSE s.scores[q]],
   confidence |-> Partial(s.confidence)]
Loaded(s) == [status |-> s.status, scores |-> Partial(s.scores),
              confidence |-> Partial(s.confidence)]

Init == given = Nothing /\ recorded = Nothing /\ replayed = Nothing

\* ShadowEngine.evaluate(): the judge is asked only about a passing candidate.
Evaluate ==
  /\ recorded = Nothing
  /\ \E raw \in Candidates, prior \in Priors, p \in Policies :
       LET c      == Normalized(raw, Now)
           checks == RunChecks(c, prior, p)
       IN  \E j \in IF checks.status = "PASS" THEN Answers ELSE {Skipped} :
             /\ given' = [cand |-> c, prior |-> prior, answer |-> j, policy |-> p]
             /\ recorded' = [checks |-> checks, judgment |-> Stored(j), policy |-> p,
                             decision |-> Decide(checks, j, p.thresholds)]
  /\ UNCHANGED replayed

ReplayUnder(p) ==
  /\ recorded # Nothing
  /\ replayed' = [policy |-> p, decision |->
                    Decide(recorded.checks, Loaded(recorded.judgment), p.thresholds)]
  /\ UNCHANGED <<given, recorded>>

Next == Evaluate \/ \E p \in Policies : ReplayUnder(p)

Spec == Init /\ [][Next]_vars
----------------------------------------------------------------------------
(* Properties.                                                             *)

\* The rules as the README states them, about the inputs: the rule's number,
\* its verdict, and when it matches.
Rules(c, prior, j, p) ==
  LET t      == p.thresholds
      answered == j.status = "OK" /\ \A q \in Questions : q \in DOMAIN j.scores
      score(q) == IF answered THEN j.scores[q] ELSE 0
      sure(q)  == IF answered /\ q \in DOMAIN j.confidence THEN j.confidence[q] ELSE 0
      seen   == prior # None
      retry  == /\ p.retry_detection # "none"
                /\ \/ c.retry_of
                   \/ seen /\ c.key # NoKey /\ c.key = prior.key
      again(a) == /\ a.service = c.service /\ a.params = c.params /\ c.params # NoParams
                  /\ \/ NoTime \in {a.acquired_at, c.observed_at}
                     \/ /\ a.acquired_at <= c.observed_at
                        /\ c.observed_at <= a.acquired_at + p.window
      optional == {"task.purpose", "task.required_data", "service.description"}
  IN  {<<1, "REVIEW", c.request = NoRequest \/ ~(c.absent \subseteq optional)>>,
       <<2, "REVIEW", seen /\ ~retry>>,
       <<3, "HOLD",   \E a \in c.prior : again(a)>>,
       <<4, "REVIEW", ~answered>>,
       <<5, "REVIEW", \E q \in Questions : sure(q) < t.confidence_min>>,
       <<6, "HOLD",   score("duplication_risk") >= t.duplication_risk_max>>,
       <<7, "REVIEW", score("evidence_sufficiency") < t.evidence_sufficiency_min>>,
       <<8, "HOLD",   \/ score("task_fit") < t.task_fit_min
                      \/ score("incremental_value") < t.incremental_value_min>>,
       <<9, "PAY",    TRUE>>}

\* "Rules run in order; the first match decides": checks, judgment gate and
\* aggregation together come to the verdict of the first rule that matches.
FirstRuleWins ==
  recorded # Nothing =>
    \E r \in Rules(given.cand, given.prior, given.answer, given.policy) :
      /\ r[3] /\ r[2] = recorded.decision.verdict
      /\ \A s \in Rules(given.cand, given.prior, given.answer, given.policy) :
           s[3] => r[1] <= s[1]

\* "The same ledger and the same policy always give the same answer": what
\* the ledger keeps of a judgment is all the decision depends on.
ReplayReproduces ==
  (replayed # Nothing /\ replayed.policy = recorded.policy)
    => replayed.decision = recorded.decision

\* A failed or missing judgment is "never scored as a low answer": no policy
\* changes the decision on it.
OutageIsNotAScore ==
  (replayed # Nothing /\ recorded.judgment.status # "OK")
    => replayed.decision = recorded.decision

Stricter(t, u) ==
  /\ t.duplication_risk_max <= u.duplication_risk_max
  /\ t.task_fit_min >= u.task_fit_min
  /\ t.incremental_value_min >= u.incremental_value_min
  /\ t.evidence_sufficiency_min >= u.evidence_sufficiency_min
  /\ t.confidence_min >= u.confidence_min

\* Choosing thresholds by replay is monotone: a stricter policy never pays
\* what a laxer one did not.
StricterNeverPays ==
  [][(/\ replayed # Nothing /\ replayed' # Nothing
      /\ Stricter(replayed'.policy.thresholds, replayed.policy.thresholds)
      /\ replayed'.decision.verdict = "PAY")
       => replayed.decision.verdict = "PAY"]_vars
=============================================================================
