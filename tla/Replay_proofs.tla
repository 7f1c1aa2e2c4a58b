---------------------------- MODULE Replay_proofs ----------------------------
(***************************************************************************)
(* The rules of aggregate.py and checks.py, and replay, for every          *)
(* candidate, every answer of a judge and every policy.                    *)
(***************************************************************************)
EXTENDS Replay, Lemmas

----------------------------------------------------------------------------
(* The rules as the README states them.                                    *)

USE ReplayAssumption

\* Rule 1: a required field is missing.
LEMMA RuleOne ==
  ASSUME NEW raw \in Candidates, NEW c, c = Normalized(raw, Now)
  PROVE  Blocking(c) # {} <=>
           \/ c.request = NoRequest
           \/ ~(c.absent \subseteq {"task.purpose", "task.required_data", "service.description"})
<1>1. c.absent \subseteq Required \cup TrackedOptional /\ c.missing = MissingFields(c)
  BY NormalizedIs DEF IsRaw
<1>2. "service.request_params_hash" \notin Required /\ "prior_acquisitions.summary" \notin Required
      /\ "request_id" \in Required /\ Required \cap TrackedOptional = {}
  BY DEF Required, TrackedOptional
<1>3. \A f : f \in Blocking(c) <=> f \in Required /\ (f \in c.absent \/ (f = "request_id" /\ c.request = NoRequest))
  BY <1>1, <1>2 DEF Blocking, MissingFields
<1> QED BY <1>1, <1>2, <1>3 DEF TrackedOptional

\* Rules 2 and 3: the signals.
LEMMA RulesTwoAndThree ==
  ASSUME NEW raw \in Candidates, NEW c, c = Normalized(raw, Now),
         NEW prior, NEW p \in Policies
  PROVE  /\ Duplicate \in Signals(c, prior, p) <=>
              c.request # NoRequest /\ prior # None /\ ~IsRetry(c, prior, p)
         /\ Exact \in Signals(c, prior, p) <=>
              \E a \in c.prior :
                /\ a.service = c.service /\ a.params = c.params /\ c.params # NoParams
                /\ \/ NoTime \in {a.acquired_at, c.observed_at}
                   \/ /\ a.acquired_at <= c.observed_at
                      /\ c.observed_at <= a.acquired_at + p.window
<1>1. Duplicate \in Signals(c, prior, p) <=>
        c.request # NoRequest /\ prior # None /\ ~IsRetry(c, prior, p)
  BY DEF Signals, Duplicate, Retry, Exact
<1>2. Exact \in Signals(c, prior, p) <=> ExactRepurchase(c, p)
  BY DEF Signals, Duplicate, Retry, Exact
<1>3. c.observed_at \in Nat \cup {NoTime} /\ c.prior = raw.prior
  BY NormalizedIs DEF IsRaw
<1>4. ASSUME NEW a \in c.prior
      PROVE  InWindow(c.observed_at, a.acquired_at, p) <=>
               \/ NoTime \in {a.acquired_at, c.observed_at}
               \/ /\ a.acquired_at <= c.observed_at
                  /\ c.observed_at <= a.acquired_at + p.window
  <2>1. a.acquired_at \in Nat \cup {NoTime} /\ p.window \in Nat
    BY <1>3, <1>4 DEF IsRaw
  <2> QED BY <1>3, <2>1 DEF InWindow, NoTime
<1> QED BY <1>1, <1>2, <1>4 DEF ExactRepurchase

\* The verdict of an evaluation is that of the first rule that matches.
LEMMA FirstMatch ==
  ASSUME NEW raw \in Candidates, NEW c, c = Normalized(raw, Now),
         NEW prior, NEW p \in Policies,
         NEW checks, checks = RunChecks(c, prior, p),
         NEW j, IF checks.status = "PASS" THEN j.status # "SKIPPED" ELSE j = Skipped
  PROVE  \E r \in Rules(c, prior, j, p) :
           /\ r[3] /\ r[2] = Decide(checks, j, p.thresholds).verdict
           /\ \A s \in Rules(c, prior, j, p) : s[3] => r[1] <= s[1]
<1> DEFINE t == p.thresholds
           answered == j.status = "OK" /\ \A q \in Questions : q \in DOMAIN j.scores
           score(q) == IF answered THEN j.scores[q] ELSE 0
           sure(q)  == IF answered /\ q \in DOMAIN j.confidence THEN j.confidence[q] ELSE 0
           seen   == prior # None
           retry  == /\ p.retry_detection # "none"
                     /\ \/ c.retry_of
                        \/ seen /\ c.key # NoKey /\ c.key = prior.key
           again(a) == /\ a.service = c.service /\ a.params = c.params /\ c.params # NoParams
                       /\ \/ NoTime \in {a.acquired_at, c.observed_at}
                          \/ /\ a.acquired_at <= c.observed_at
                             /\ c.observed_at <= a.acquired_at + p.window
           optional == {"task.purpose", "task.required_data", "service.description"}
           f1 == c.request = NoRequest \/ ~(c.absent \subseteq optional)
           f2 == seen /\ ~retry
           f3 == \E a \in c.prior : again(a)
           f4 == ~answered
           f5 == \E q \in Questions : sure(q) < t.confidence_min
           f6 == score("duplication_risk") >= t.duplication_risk_max
           f7 == score("evidence_sufficiency") < t.evidence_sufficiency_min
           f8 == \/ score("task_fit") < t.task_fit_min
                 \/ score("incremental_value") < t.incremental_value_min
<1>1. Rules(c, prior, j, p) =
        {<<1, "REVIEW", f1>>, <<2, "REVIEW", f2>>, <<3, "HOLD", f3>>, <<4, "REVIEW", f4>>,
         <<5, "REVIEW", f5>>, <<6, "HOLD", f6>>, <<7, "REVIEW", f7>>, <<8, "HOLD", f8>>,
         <<9, "PAY", TRUE>>}
  BY Zenon DEF Rules
<1>2. PICK b1 \in BOOLEAN : b1 <=> f1
  OBVIOUS
<1>3. PICK b2 \in BOOLEAN : b2 <=> f2
  OBVIOUS
<1>4. PICK b3 \in BOOLEAN : b3 <=> f3
  OBVIOUS
<1>5. PICK b4 \in BOOLEAN : b4 <=> f4
  OBVIOUS
<1>6. PICK b5 \in BOOLEAN : b5 <=> f5
  OBVIOUS
<1>7. PICK b6 \in BOOLEAN : b6 <=> f6
  OBVIOUS
<1>8. PICK b7 \in BOOLEAN : b7 <=> f7
  OBVIOUS
<1>9. PICK b8 \in BOOLEAN : b8 <=> f8
  OBVIOUS
<1>10. Decide(checks, j, p.thresholds).verdict =
         IF b1 THEN "REVIEW" ELSE IF b2 THEN "REVIEW" ELSE IF b3 THEN "HOLD"
         ELSE IF b4 THEN "REVIEW" ELSE IF b5 THEN "REVIEW" ELSE IF b6 THEN "HOLD"
         ELSE IF b7 THEN "REVIEW" ELSE IF b8 THEN "HOLD" ELSE "PAY"
  <2>1. Decide(checks, j, t).verdict = RuleVerdict(checks, j, t)
    BY ChecksAre, DecideVerdict
  <2>2. (checks.status # "PASS" \/ j.status = "SKIPPED") <=> b1
    BY <1>2, ChecksAre, RuleOne DEF Skipped
  <2>3. ~b1 => (Duplicate \in checks.signals <=> b2)
    BY <1>2, <1>3, ChecksAre, RulesTwoAndThree, NormalizedIs DEF IsRetry
  <2>4. Exact \in checks.signals <=> b3
    BY <1>4, ChecksAre, RulesTwoAndThree
  <2>5. (j.status = "OK" /\ Questions \subseteq DOMAIN j.scores) <=> ~b4
    BY <1>5
  <2>6. ~b4 => (AnyUnsure(j, t) <=> b5)
    BY <1>5, <1>6 DEF AnyUnsure, Confidence, BelowFloor
  <2>7. ~b4 => /\ TooRisky(j, t) <=> b6
               /\ NoEvidence(j, t) <=> b7
               /\ NoUse(j, t) <=> b8
    BY <1>5, <1>7, <1>8, <1>9 DEF TooRisky, NoEvidence, NoUse, BelowFloor, OverCeiling
  <2> QED BY <2>1, <2>2, <2>3, <2>4, <2>5, <2>6, <2>7 DEF RuleVerdict, Duplicate, Exact
<1>11. /\ f1 \in BOOLEAN /\ f2 \in BOOLEAN /\ f3 \in BOOLEAN /\ f4 \in BOOLEAN
       /\ f5 \in BOOLEAN /\ f6 \in BOOLEAN /\ f7 \in BOOLEAN /\ f8 \in BOOLEAN
  OBVIOUS
<1> HIDE DEF f1, f2, f3, f4, f5, f6, f7, f8
<1>12. /\ f1 = b1 /\ f2 = b2 /\ f3 = b3 /\ f4 = b4
       /\ f5 = b5 /\ f6 = b6 /\ f7 = b7 /\ f8 = b8
  BY <1>2, <1>3, <1>4, <1>5, <1>6, <1>7, <1>8, <1>9, <1>11
<1>13. Rules(c, prior, j, p) =
        {<<1, "REVIEW", b1>>, <<2, "REVIEW", b2>>, <<3, "HOLD", b3>>, <<4, "REVIEW", b4>>,
         <<5, "REVIEW", b5>>, <<6, "HOLD", b6>>, <<7, "REVIEW", b7>>, <<8, "HOLD", b8>>,
         <<9, "PAY", TRUE>>}
  BY <1>1, <1>12
<1> QED BY <1>10, <1>13

----------------------------------------------------------------------------
(* What the ledger keeps of a judgment.                                    *)

IsAsked(j) == IsJudgment(j) \/ j = Skipped

\* as_dict() and from_dict() lose nothing: null is no score.
LEMMA RoundTrip == ASSUME NEW j, IsAsked(j) PROVE Loaded(Stored(j)) = j
<1>1. /\ j = [status |-> j.status, scores |-> j.scores, confidence |-> j.confidence]
      /\ IsPartial(j.scores) /\ IsPartial(j.confidence)
  <2>1. CASE IsJudgment(j)
    BY <2>1 DEF IsJudgment
  <2>2. CASE j = Skipped
    <3>1. DOMAIN <<>> = {} /\ <<>> \in [{} -> Nat]
      OBVIOUS
    <3>2. IsPartial(<<>>)
      BY <3>1 DEF IsPartial
    <3> QED BY <2>2, <3>2 DEF Skipped
  <2> QED BY <2>1, <2>2 DEF IsAsked
<1>2. ASSUME NEW f, IsPartial(f) PROVE Partial(Total(f)) = f
  <2>1. DOMAIN f \subseteq Questions /\ f \in [DOMAIN f -> Nat]
    BY <1>2 DEF IsPartial
  <2>2. {k \in DOMAIN Total(f) : Total(f)[k] # NoScore} = DOMAIN f
    <3>1. DOMAIN Total(f) = Questions
      BY DEF Total
    <3>2. \A k \in Questions : Total(f)[k] # NoScore <=> k \in DOMAIN f
      BY <2>1 DEF Total, NoScore
    <3> QED BY <2>1, <3>1, <3>2
  <2>3. \A q \in DOMAIN f : Total(f)[q] = f[q]
    BY <2>1 DEF Total
  <2>4. Partial(Total(f)) = [q \in DOMAIN f |-> f[q]]
    BY <2>2, <2>3 DEF Partial
  <2> QED BY <2>1, <2>4
<1>3. Partial(<<>>) = <<>>
  <2>1. {k \in DOMAIN <<>> : <<>>[k] # NoScore} = {}
    OBVIOUS
  <2>2. <<>> = [i \in {} |-> <<>>[i]]
    OBVIOUS
  <2> QED BY <2>1, <2>2 DEF Partial
<1>4. /\ Stored(j).status = j.status /\ Stored(j).scores = Total(j.scores)
      /\ Stored(j).confidence = IF j.confidence = <<>> THEN <<>> ELSE Total(j.confidence)
  BY DEF Stored
<1>5. Partial(Stored(j).scores) = j.scores /\ Partial(Stored(j).confidence) = j.confidence
  BY <1>1, <1>2, <1>3, <1>4
<1> QED BY <1>1, <1>4, <1>5 DEF Loaded

\* Thresholds do not matter without an answer.
LEMMA NoAnswerNoThreshold ==
  ASSUME NEW checks, NEW j, j.status # "OK", NEW t, NEW u
  PROVE  Decide(checks, j, t) = Decide(checks, j, u)
<1>1. Unanswered(j) # <<>>
  BY UnansweredVerdict
<1>2. Matches(checks, j, t) = Matches(checks, j, u)
  BY <1>1 DEF Matches
<1> QED BY <1>2 DEF Decide

\* A stricter policy pays only what a laxer one pays.
LEMMA StricterPays ==
  ASSUME NEW checks, IsChecks(checks), NEW j, IsAsked(j),
         NEW p \in Policies, NEW q \in Policies, Stricter(p.thresholds, q.thresholds),
         Decide(checks, j, p.thresholds).verdict = "PAY"
  PROVE  Decide(checks, j, q.thresholds).verdict = "PAY"
<1> DEFINE t == p.thresholds
           u == q.thresholds
<1>1. /\ RuleVerdict(checks, j, t) = "PAY"
      /\ Decide(checks, j, u).verdict = RuleVerdict(checks, j, u)
  BY DecideVerdict
<1>2. /\ t \in [{"task_fit_min", "incremental_value_min", "duplication_risk_max",
                "evidence_sufficiency_min", "confidence_min"} -> Int]
      /\ u \in [{"task_fit_min", "incremental_value_min", "duplication_risk_max",
                "evidence_sufficiency_min", "confidence_min"} -> Int]
  OBVIOUS
<1>3. /\ t.duplication_risk_max \in Int /\ u.duplication_risk_max \in Int
      /\ t.task_fit_min \in Int /\ u.task_fit_min \in Int
      /\ t.incremental_value_min \in Int /\ u.incremental_value_min \in Int
      /\ t.evidence_sufficiency_min \in Int /\ u.evidence_sufficiency_min \in Int
      /\ t.confidence_min \in Int /\ u.confidence_min \in Int
  BY <1>2
<1>4. /\ j.status = "OK" /\ Questions \subseteq DOMAIN j.scores
      /\ ~AnyUnsure(j, t) /\ ~TooRisky(j, t) /\ ~NoEvidence(j, t) /\ ~NoUse(j, t)
  BY <1>1 DEF RuleVerdict
<1>5. IsPartial(j.scores) /\ IsPartial(j.confidence)
  BY <1>4 DEF IsAsked, IsJudgment, Skipped
<1>6. /\ \A k \in Questions : j.scores[k] \in Nat /\ Confidence(j, k) \in Nat
  BY <1>4, <1>5 DEF IsPartial, Confidence
<1>7. /\ t.duplication_risk_max <= u.duplication_risk_max
      /\ t.task_fit_min >= u.task_fit_min
      /\ t.incremental_value_min >= u.incremental_value_min
      /\ t.evidence_sufficiency_min >= u.evidence_sufficiency_min
      /\ t.confidence_min >= u.confidence_min
  BY DEF Stricter
<1> HIDE DEF t, u
<1>8. ~AnyUnsure(j, u)
  BY <1>3, <1>4, <1>6, <1>7 DEF AnyUnsure, BelowFloor
<1>9. ~TooRisky(j, u) /\ ~NoEvidence(j, u) /\ ~NoUse(j, u)
  BY <1>3, <1>4, <1>6, <1>7
  DEF TooRisky, NoEvidence, NoUse, BelowFloor, OverCeiling, Questions
<1>10. RuleVerdict(checks, j, u) = "PAY"
  BY <1>1, <1>4, <1>8, <1>9 DEF RuleVerdict
<1> QED BY <1>1, <1>10 DEF u

----------------------------------------------------------------------------
(* The specification.                                                      *)

\* The ledger holds what an evaluation of one candidate made of it.
Evaluation ==
  recorded # Nothing =>
    \E raw \in Candidates, prior \in Priors, p \in Policies :
      LET c      == Normalized(raw, Now)
          checks == RunChecks(c, prior, p)
      IN  \E j : /\ IF checks.status = "PASS" THEN j \in Answers ELSE j = Skipped
                 /\ given = [cand |-> c, prior |-> prior, answer |-> j, policy |-> p]
                 /\ recorded = [checks |-> checks, judgment |-> Stored(j), policy |-> p,
                                decision |-> Decide(checks, j, p.thresholds)]

\* A replay decides from what the ledger holds and from its own policy.
ReplayOf(p) ==
  [policy |-> p,
   decision |-> Decide(recorded.checks, Loaded(recorded.judgment), p.thresholds)]
Replays == replayed # Nothing => recorded # Nothing /\ \E p \in Policies : replayed = ReplayOf(p)

IInv == Evaluation /\ Replays

LEMMA Invariance == Spec => []IInv
<1>1. Init => IInv
  BY DEF Init, IInv, Evaluation, Replays
<1>2. ASSUME IInv, [Next]_vars PROVE IInv'
  <2>1. CASE Evaluate
    <3>1. replayed = Nothing /\ replayed' = Nothing
      BY <1>2, <2>1 DEF Evaluate, IInv, Replays
    <3>2. PICK raw \in Candidates, prior \in Priors, p \in Policies :
            LET c      == Normalized(raw, Now)
                checks == RunChecks(c, prior, p)
            IN  \E j \in IF checks.status = "PASS" THEN Answers ELSE {Skipped} :
                  /\ given' = [cand |-> c, prior |-> prior, answer |-> j, policy |-> p]
                  /\ recorded' = [checks |-> checks, judgment |-> Stored(j), policy |-> p,
                                  decision |-> Decide(checks, j, p.thresholds)]
      BY <2>1, Zenon DEF Evaluate
    <3> DEFINE c      == Normalized(raw, Now)
               checks == RunChecks(c, prior, p)
    <3>3. PICK j \in IF checks.status = "PASS" THEN Answers ELSE {Skipped} :
            /\ given' = [cand |-> c, prior |-> prior, answer |-> j, policy |-> p]
            /\ recorded' = [checks |-> checks, judgment |-> Stored(j), policy |-> p,
                            decision |-> Decide(checks, j, p.thresholds)]
      BY <3>2, Zenon
    <3>4. IF checks.status = "PASS" THEN j \in Answers ELSE j = Skipped
      BY <3>3
    <3>5. Evaluation'
      BY <3>3, <3>4, Zenon DEF Evaluation
    <3> QED BY <3>1, <3>5 DEF IInv, Replays
  <2>2. ASSUME NEW p \in Policies, ReplayUnder(p) PROVE IInv'
    <3>1. replayed' = ReplayOf(p)' /\ recorded # Nothing /\ UNCHANGED <<given, recorded>>
      BY <2>2 DEF ReplayUnder, ReplayOf
    <3>2. Evaluation'
      BY <1>2, <3>1 DEF IInv, Evaluation
    <3> QED BY <3>1, <3>2 DEF IInv, Replays
  <2>3. CASE UNCHANGED vars
    BY <1>2, <2>3 DEF IInv, Evaluation, Replays, ReplayOf, vars
  <2> QED BY <1>2, <2>1, <2>2, <2>3 DEF Next
<1> QED BY <1>1, <1>2, PTL DEF Spec

\* What the proofs below use of it.
LEMMA AnyRecord ==
  ASSUME IInv, recorded # Nothing
  PROVE  \E j : /\ IsAsked(j) /\ IsChecks(recorded.checks)
                /\ recorded.judgment.status = j.status /\ Loaded(recorded.judgment) = j
                /\ recorded.decision = Decide(recorded.checks, j, recorded.policy.thresholds)
<1>1. PICK raw \in Candidates, prior \in Priors, p \in Policies, j \in Answers \cup {Skipped} :
        LET c      == Normalized(raw, Now)
            checks == RunChecks(c, prior, p)
        IN  /\ IF checks.status = "PASS" THEN j \in Answers ELSE j = Skipped
            /\ recorded = [checks |-> checks, judgment |-> Stored(j), policy |-> p,
                           decision |-> Decide(checks, j, p.thresholds)]
  BY DEF IInv, Evaluation
<1>2. IsAsked(j) /\ IsChecks(recorded.checks)
  BY <1>1, ChecksAre DEF IsAsked
<1>3. recorded.judgment = Stored(j) /\ Stored(j).status = j.status
  BY <1>1 DEF Stored
<1>4. recorded.decision = Decide(recorded.checks, j, recorded.policy.thresholds)
  BY <1>1
<1> QED BY <1>2, <1>3, <1>4, RoundTrip

----------------------------------------------------------------------------
(* The theorems.                                                           *)

\* "Rules run in order; the first match decides", for every candidate, answer
\* and policy.
THEOREM TheFirstRuleDecides == Spec => []FirstRuleWins
<1>1. ASSUME IInv, recorded # Nothing PROVE FirstRuleWins
  <2>1. PICK raw \in Candidates, prior \in Priors, p \in Policies, j \in Answers \cup {Skipped} :
          LET c      == Normalized(raw, Now)
              checks == RunChecks(c, prior, p)
          IN  /\ IF checks.status = "PASS" THEN j \in Answers ELSE j = Skipped
              /\ given = [cand |-> c, prior |-> prior, answer |-> j, policy |-> p]
              /\ recorded = [checks |-> checks, judgment |-> Stored(j), policy |-> p,
                             decision |-> Decide(checks, j, p.thresholds)]
    BY <1>1 DEF IInv, Evaluation
  <2> DEFINE c      == Normalized(raw, Now)
             checks == RunChecks(c, prior, p)
  <2>2. /\ given.cand = c /\ given.prior = prior /\ given.answer = j /\ given.policy = p
        /\ recorded.decision = Decide(checks, j, p.thresholds)
        /\ IF checks.status = "PASS" THEN j.status # "SKIPPED" ELSE j = Skipped
    BY <2>1
  <2> HIDE DEF c, checks
  <2>3. \E r \in Rules(c, prior, j, p) :
          /\ r[3] /\ r[2] = Decide(checks, j, p.thresholds).verdict
          /\ \A s \in Rules(c, prior, j, p) : s[3] => r[1] <= s[1]
    BY <2>2, FirstMatch DEF c, checks
  <2> QED BY <2>2, <2>3 DEF FirstRuleWins
<1>2. IInv => FirstRuleWins
  BY <1>1 DEF FirstRuleWins
<1> QED BY <1>2, Invariance, PTL

\* "The same ledger and the same policy always give the same answer."
THEOREM ReplayIsFaithful == Spec => []ReplayReproduces
<1>1. IInv => ReplayReproduces
  BY AnyRecord DEF IInv, Replays, ReplayOf, ReplayReproduces
<1> QED BY <1>1, Invariance, PTL

\* No choice of thresholds decides anything on a judgment that failed.
THEOREM OutagesStay == Spec => []OutageIsNotAScore
<1>1. ASSUME IInv, replayed # Nothing, recorded.judgment.status # "OK"
      PROVE  replayed.decision = recorded.decision
  <2>1. PICK p \in Policies : replayed = ReplayOf(p)
    BY <1>1 DEF IInv, Replays
  <2>2. PICK j : /\ recorded.judgment.status = j.status /\ Loaded(recorded.judgment) = j
                 /\ recorded.decision = Decide(recorded.checks, j, recorded.policy.thresholds)
    BY <1>1, AnyRecord DEF IInv, Replays
  <2>3. Decide(recorded.checks, j, p.thresholds)
          = Decide(recorded.checks, j, recorded.policy.thresholds)
    BY <1>1, <2>2, NoAnswerNoThreshold
  <2> QED BY <2>1, <2>2, <2>3 DEF ReplayOf
<1>2. IInv => OutageIsNotAScore
  BY <1>1 DEF OutageIsNotAScore
<1> QED BY <1>2, Invariance, PTL

\* Replay is monotone in the thresholds: a stricter policy pays for less.
THEOREM StricterIsSafer == Spec => StricterNeverPays
<1> DEFINE Claim == (/\ replayed # Nothing /\ replayed' # Nothing
                     /\ Stricter(replayed'.policy.thresholds, replayed.policy.thresholds)
                     /\ replayed'.decision.verdict = "PAY")
                      => replayed.decision.verdict = "PAY"
<1>1. ASSUME IInv, [Next]_vars PROVE Claim
  <2>1. CASE Evaluate
    BY <1>1, <2>1 DEF IInv, Replays, Evaluate
  <2>2. ASSUME NEW p \in Policies, ReplayUnder(p) PROVE Claim
    <3>1. SUFFICES ASSUME replayed # Nothing,
                          Stricter(replayed'.policy.thresholds, replayed.policy.thresholds),
                          replayed'.decision.verdict = "PAY"
                   PROVE  replayed.decision.verdict = "PAY"
      OBVIOUS
    <3>2. PICK q \in Policies : replayed = ReplayOf(q)
      BY <1>1, <3>1 DEF IInv, Replays
    <3>3. replayed' = ReplayOf(p) /\ recorded # Nothing
      BY <2>2 DEF ReplayUnder, ReplayOf
    <3>4. PICK j : /\ IsAsked(j) /\ IsChecks(recorded.checks)
                   /\ Loaded(recorded.judgment) = j
      BY <1>1, <3>3, AnyRecord
    <3>5. /\ Stricter(p.thresholds, q.thresholds)
          /\ Decide(recorded.checks, j, p.thresholds).verdict = "PAY"
      BY <3>1, <3>2, <3>3, <3>4 DEF ReplayOf
    <3>6. Decide(recorded.checks, j, q.thresholds).verdict = "PAY"
      BY <3>4, <3>5, StricterPays
    <3> QED BY <3>2, <3>4, <3>6 DEF ReplayOf
  <2>3. CASE UNCHANGED vars
    BY <2>3 DEF vars
  <2> QED BY <1>1, <2>1, <2>2, <2>3 DEF Next
<1>2. IInv /\ [Next]_vars => [Claim]_vars
  BY <1>1
<1> QED BY <1>2, Invariance, PTL DEF Spec, StricterNeverPays
=============================================================================
