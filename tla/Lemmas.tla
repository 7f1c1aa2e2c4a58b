------------------------------- MODULE Lemmas -------------------------------
(***************************************************************************)
(* Lemmas about the operators the models share: what normalize() keeps,    *)
(* what aggregate() answers for every outcome of the checks, every         *)
(* judgment and any thresholds, and what a LedgerIndex knows after any     *)
(* events.                                                                 *)
(***************************************************************************)
EXTENDS Normalize, Aggregate, Index, SequenceTheorems, FiniteSetTheorems, TLAPS

\* The reason codes a rule can give.
Codes == SemanticFailures \cup
  {"MISSING_REQUIRED_FIELDS", "DETERMINISTIC_CHECK_FAILED", "SEMANTIC_SKIPPED",
   "DUPLICATE_REQUEST_ID", "EXACT_REPURCHASE", "SEMANTIC_STATUS_UNKNOWN",
   "SEMANTIC_SCORE_MISSING", "LOW_CONFIDENCE_TASK_FIT", "LOW_CONFIDENCE_INCREMENTAL_VALUE",
   "LOW_CONFIDENCE_DUPLICATION_RISK", "LOW_CONFIDENCE_EVIDENCE_SUFFICIENCY",
   "DUPLICATION_RISK", "EVIDENCE_INSUFFICIENT", "TASK_MISMATCH", "NO_INCREMENTAL_VALUE"}

\* What the matches come to: the verdict of the first, or PAY.
Match      == [verdict : {"HOLD", "REVIEW"}, code : Codes]
Verdict(m) == IF m = <<>> THEN "PAY" ELSE m[1].verdict

----------------------------------------------------------------------------
(* normalize().                                                            *)

\* What normalize() keeps of a raw candidate and what it lists as missing.
LEMMA NormalizedIs ==
  ASSUME NEW raw, IsRaw(raw), NEW now \in Nat, NEW c, c = Normalized(raw, now)
  PROVE  /\ c.request = raw.request /\ c.key = raw.key /\ c.retry_of = raw.retry_of
         /\ c.service = raw.service /\ c.params = raw.params /\ c.prior = raw.prior
         /\ c.absent = raw.absent /\ c.retry_of \in BOOLEAN
         /\ c.observed_at \in Nat \cup {NoTime}
         /\ c.missing = MissingFields(c)
<1> DEFINE at == IF raw.observed_at = Absent THEN now ELSE raw.observed_at
           d  == [raw EXCEPT !.observed_at = at]
<1>1. at \in Nat \cup {NoTime}
  BY DEF IsRaw, Absent, NoTime
<1>2. c = [f \in DOMAIN d \cup {"missing"} |-> IF f = "missing" THEN MissingFields(d) ELSE d[f]]
  BY DEF Normalized
<1>3. /\ DOMAIN d = {"request", "key", "retry_of", "service", "params",
                     "observed_at", "prior", "absent"}
      /\ d.request = raw.request /\ d.key = raw.key /\ d.retry_of = raw.retry_of
      /\ d.service = raw.service /\ d.params = raw.params /\ d.prior = raw.prior
      /\ d.absent = raw.absent /\ d.observed_at = at
  BY DEF IsRaw
<1> HIDE DEF d, at
<1>4. /\ \A x \in DOMAIN d : c[x] = d[x]
      /\ c.missing = MissingFields(d)
  BY <1>2, <1>3
<1>5. /\ c.request = raw.request /\ c.key = raw.key /\ c.retry_of = raw.retry_of
      /\ c.service = raw.service /\ c.params = raw.params /\ c.prior = raw.prior
      /\ c.absent = raw.absent /\ c.observed_at = at
  BY <1>3, <1>4
<1>6. MissingFields(c) = MissingFields(d)
  BY <1>3, <1>5 DEF MissingFields
<1> QED BY <1>1, <1>4, <1>5, <1>6 DEF IsRaw

----------------------------------------------------------------------------
(* Lists of matches.                                                       *)

\* The first list that has a match decides.
LEMMA FirstDecides ==
  ASSUME NEW m \in Seq(Match), NEW n \in Seq(Match)
  PROVE  /\ m \o n \in Seq(Match)
         /\ Verdict(m \o n) = IF Verdict(m) = "PAY" THEN Verdict(n) ELSE Verdict(m)
<1>1. m \o n \in Seq(Match)
  BY ConcatProperties
<1>2. CASE m = <<>>
  <2>1. m \o n = n
    BY <1>2, ConcatEmptySeq
  <2> QED BY <1>1, <1>2, <2>1 DEF Verdict
<1>3. CASE m # <<>>
  <2>1. Len(m) \in Nat \ {0} /\ Len(n) \in Nat
    BY <1>3, EmptySeq, LenProperties
  <2>2. (m \o n)[1] = m[1] /\ m \o n # <<>>
    BY <1>3, <2>1, ConcatProperties, ConcatEqualIffEmpty
  <2>3. m[1] \in Match
    BY <2>1, LenProperties
  <2>4. m[1].verdict # "PAY"
    BY <2>3 DEF Match
  <2> QED BY <1>1, <1>3, <2>2, <2>4 DEF Verdict
<1> QED BY <1>2, <1>3

\* One rule is a list of at most one match.
LEMMA NoMatch == <<>> \in Seq(Match) /\ Verdict(<<>>) = "PAY"
BY EmptySeq DEF Verdict

LEMMA OneMatch ==
  ASSUME NEW verdict \in {"HOLD", "REVIEW"}, NEW code \in Codes
  PROVE  /\ <<[verdict |-> verdict, code |-> code]>> \in Seq(Match)
         /\ Verdict(<<[verdict |-> verdict, code |-> code]>>) = verdict
<1>1. [verdict |-> verdict, code |-> code] \in Match
  BY DEF Match
<1> QED BY <1>1 DEF Verdict

\* Rules 5 to 8, as one verdict.
AnyUnsure(j, t) == \E q \in Questions : BelowFloor(Confidence(j, q), t.confidence_min)
TooRisky(j, t)  == OverCeiling(j.scores["duplication_risk"], t.duplication_risk_max)
NoEvidence(j, t) ==
  BelowFloor(j.scores["evidence_sufficiency"], t.evidence_sufficiency_min)
NoUse(j, t) == \/ BelowFloor(j.scores["task_fit"], t.task_fit_min)
               \/ BelowFloor(j.scores["incremental_value"], t.incremental_value_min)

LEMMA ScoredVerdict ==
  ASSUME NEW j, NEW t
  PROVE  /\ Scored(j, t) \in Seq(Match)
         /\ Verdict(Scored(j, t)) = IF AnyUnsure(j, t) THEN "REVIEW"
                                    ELSE IF TooRisky(j, t) THEN "HOLD"
                                    ELSE IF NoEvidence(j, t) THEN "REVIEW"
                                    ELSE IF NoUse(j, t) THEN "HOLD" ELSE "PAY"
<1> DEFINE u1 == Unsure(j, "task_fit", "LOW_CONFIDENCE_TASK_FIT", t)
           u2 == Unsure(j, "incremental_value", "LOW_CONFIDENCE_INCREMENTAL_VALUE", t)
           u3 == Unsure(j, "duplication_risk", "LOW_CONFIDENCE_DUPLICATION_RISK", t)
           u4 == Unsure(j, "evidence_sufficiency", "LOW_CONFIDENCE_EVIDENCE_SUFFICIENCY", t)
           s1 == Settle(OverCeiling(j.scores["duplication_risk"], t.duplication_risk_max),
                        "HOLD", "DUPLICATION_RISK")
           s2 == Settle(BelowFloor(j.scores["evidence_sufficiency"], t.evidence_sufficiency_min),
                        "REVIEW", "EVIDENCE_INSUFFICIENT")
           s3 == Settle(BelowFloor(j.scores["task_fit"], t.task_fit_min), "HOLD", "TASK_MISMATCH")
           s4 == Settle(BelowFloor(j.scores["incremental_value"], t.incremental_value_min),
                        "HOLD", "NO_INCREMENTAL_VALUE")
<1>1. /\ u1 \in Seq(Match) /\ u2 \in Seq(Match) /\ u3 \in Seq(Match) /\ u4 \in Seq(Match)
      /\ Verdict(u1) = IF BelowFloor(Confidence(j, "task_fit"), t.confidence_min)
                       THEN "REVIEW" ELSE "PAY"
      /\ Verdict(u2) = IF BelowFloor(Confidence(j, "incremental_value"), t.confidence_min)
                       THEN "REVIEW" ELSE "PAY"
      /\ Verdict(u3) = IF BelowFloor(Confidence(j, "duplication_risk"), t.confidence_min)
                       THEN "REVIEW" ELSE "PAY"
      /\ Verdict(u4) = IF BelowFloor(Confidence(j, "evidence_sufficiency"), t.confidence_min)
                       THEN "REVIEW" ELSE "PAY"
  BY NoMatch, OneMatch DEF Unsure, Settle, Codes
<1>2. /\ s1 \in Seq(Match) /\ s2 \in Seq(Match) /\ s3 \in Seq(Match) /\ s4 \in Seq(Match)
      /\ Verdict(s1) = IF TooRisky(j, t) THEN "HOLD" ELSE "PAY"
      /\ Verdict(s2) = IF NoEvidence(j, t) THEN "REVIEW" ELSE "PAY"
      /\ Verdict(s3) = IF BelowFloor(j.scores["task_fit"], t.task_fit_min)
                       THEN "HOLD" ELSE "PAY"
      /\ Verdict(s4) = IF BelowFloor(j.scores["incremental_value"], t.incremental_value_min)
                       THEN "HOLD" ELSE "PAY"
  BY NoMatch, OneMatch DEF TooRisky, NoEvidence, Settle, Codes
<1>3. Scored(j, t) = u1 \o u2 \o u3 \o u4 \o s1 \o s2 \o s3 \o s4
  BY DEF Scored
<1> HIDE DEF u1, u2, u3, u4, s1, s2, s3, s4
<1>4. /\ u1 \o u2 \o u3 \o u4 \in Seq(Match)
      /\ Verdict(u1 \o u2 \o u3 \o u4) = IF AnyUnsure(j, t) THEN "REVIEW" ELSE "PAY"
  <2>1. /\ u1 \o u2 \in Seq(Match)
        /\ Verdict(u1 \o u2) =
             IF Verdict(u1) = "REVIEW" \/ Verdict(u2) = "REVIEW" THEN "REVIEW" ELSE "PAY"
    BY <1>1, FirstDecides
  <2>2. /\ u1 \o u2 \o u3 \in Seq(Match)
        /\ Verdict(u1 \o u2 \o u3) =
             IF Verdict(u1) = "REVIEW" \/ Verdict(u2) = "REVIEW" \/ Verdict(u3) = "REVIEW"
             THEN "REVIEW" ELSE "PAY"
    BY <1>1, <2>1, FirstDecides
  <2>3. /\ u1 \o u2 \o u3 \o u4 \in Seq(Match)
        /\ Verdict(u1 \o u2 \o u3 \o u4) =
             IF \/ Verdict(u1) = "REVIEW" \/ Verdict(u2) = "REVIEW"
                \/ Verdict(u3) = "REVIEW" \/ Verdict(u4) = "REVIEW"
             THEN "REVIEW" ELSE "PAY"
    BY <1>1, <2>2, FirstDecides
  <2>4. AnyUnsure(j, t) <=>
          \/ Verdict(u1) = "REVIEW" \/ Verdict(u2) = "REVIEW"
          \/ Verdict(u3) = "REVIEW" \/ Verdict(u4) = "REVIEW"
    BY <1>1 DEF AnyUnsure, Questions
  <2> QED BY <2>3, <2>4
<1>5. /\ u1 \o u2 \o u3 \o u4 \o s1 \in Seq(Match)
      /\ Verdict(u1 \o u2 \o u3 \o u4 \o s1) =
           IF AnyUnsure(j, t) THEN "REVIEW" ELSE IF TooRisky(j, t) THEN "HOLD" ELSE "PAY"
  BY <1>2, <1>4, FirstDecides
<1>6. /\ u1 \o u2 \o u3 \o u4 \o s1 \o s2 \in Seq(Match)
      /\ Verdict(u1 \o u2 \o u3 \o u4 \o s1 \o s2) =
           IF AnyUnsure(j, t) THEN "REVIEW" ELSE IF TooRisky(j, t) THEN "HOLD"
           ELSE IF NoEvidence(j, t) THEN "REVIEW" ELSE "PAY"
  BY <1>2, <1>5, FirstDecides
<1>7. /\ u1 \o u2 \o u3 \o u4 \o s1 \o s2 \o s3 \in Seq(Match)
      /\ Verdict(u1 \o u2 \o u3 \o u4 \o s1 \o s2 \o s3) =
           IF AnyUnsure(j, t) THEN "REVIEW" ELSE IF TooRisky(j, t) THEN "HOLD"
           ELSE IF NoEvidence(j, t) THEN "REVIEW"
           ELSE IF BelowFloor(j.scores["task_fit"], t.task_fit_min) THEN "HOLD" ELSE "PAY"
  BY <1>2, <1>6, FirstDecides
<1> DEFINE pre == u1 \o u2 \o u3 \o u4 \o s1 \o s2 \o s3
<1>8. /\ pre \o s4 \in Seq(Match)
      /\ Verdict(pre \o s4) = IF Verdict(pre) = "PAY" THEN Verdict(s4) ELSE Verdict(pre)
  BY <1>2, <1>7, FirstDecides
<1> QED BY <1>2, <1>3, <1>7, <1>8 DEF NoUse

----------------------------------------------------------------------------
(* aggregate().                                                            *)

\* What run_checks() can come to.
IsChecks(checks) ==
  \/ checks.status = "PASS" /\ checks.failed = <<>>
  \/ checks.status = "FAIL" /\ checks.failed = <<"MISSING_REQUIRED_FIELDS">>

LEMMA ChecksAre ==
  ASSUME NEW c, NEW prior, NEW p
  PROVE  /\ IsChecks(RunChecks(c, prior, p))
         /\ RunChecks(c, prior, p).status = "PASS" <=> Blocking(c) = {}
         /\ RunChecks(c, prior, p).signals = Signals(c, prior, p)
BY DEF RunChecks, IsChecks

\* No usable answer is REVIEW.
LEMMA UnansweredVerdict ==
  ASSUME NEW j
  PROVE  /\ Unanswered(j) \in Seq(Match)
         /\ Unanswered(j) = <<>> <=> j.status = "OK" /\ Questions \subseteq DOMAIN j.scores
         /\ Unanswered(j) # <<>> => Verdict(Unanswered(j)) = "REVIEW"
<1>1. CASE j.status \in SemanticFailures
  <2>1. Unanswered(j) = <<[verdict |-> "REVIEW", code |-> j.status]>>
    BY <1>1 DEF Unanswered, Settle
  <2>2. j.status \in Codes /\ j.status # "OK"
    BY <1>1 DEF Codes, SemanticFailures
  <2> QED BY <2>1, <2>2, OneMatch
<1>2. CASE j.status \notin SemanticFailures \cup {"OK"}
  <2>1. Unanswered(j) = <<[verdict |-> "REVIEW", code |-> "SEMANTIC_STATUS_UNKNOWN"]>>
    BY <1>2 DEF Unanswered, Settle, SemanticFailures
  <2> QED BY <1>2, <2>1, OneMatch DEF Codes
<1>3. CASE j.status = "OK"
  <2>1. Unanswered(j) = IF Questions \subseteq DOMAIN j.scores THEN <<>>
                        ELSE <<[verdict |-> "REVIEW", code |-> "SEMANTIC_SCORE_MISSING"]>>
    BY <1>3 DEF Unanswered, Settle, SemanticFailures
  <2> QED BY <1>3, <2>1, NoMatch, OneMatch DEF Codes
<1> QED BY <1>1, <1>2, <1>3

\* Rules 1 to 9: the verdict of aggregate().
RuleVerdict(checks, j, t) ==
  IF checks.status # "PASS" \/ j.status = "SKIPPED" THEN "REVIEW"
  ELSE IF "DUPLICATE_REQUEST_ID" \in checks.signals THEN "REVIEW"
  ELSE IF "EXACT_REPURCHASE" \in checks.signals THEN "HOLD"
  ELSE IF ~(j.status = "OK" /\ Questions \subseteq DOMAIN j.scores) THEN "REVIEW"
  ELSE IF AnyUnsure(j, t) THEN "REVIEW"
  ELSE IF TooRisky(j, t) THEN "HOLD"
  ELSE IF NoEvidence(j, t) THEN "REVIEW"
  ELSE IF NoUse(j, t) THEN "HOLD" ELSE "PAY"

LEMMA DecideVerdict ==
  ASSUME NEW checks, IsChecks(checks), NEW j, NEW t
  PROVE  Decide(checks, j, t).verdict = RuleVerdict(checks, j, t)
<1>1. Decide(checks, j, t).verdict = Verdict(Matches(checks, j, t))
  BY DEF Decide, Verdict
<1>2. CASE checks.status # "PASS" \/ j.status = "SKIPPED"
  <2>1. \E code \in Codes :
          Matches(checks, j, t) = <<[verdict |-> "REVIEW", code |-> code]>>
    <3>1. Matches(checks, j, t) = Disqualified(checks)
      BY <1>2 DEF Matches
    <3>2. CASE checks.status = "PASS"
      BY <3>1, <3>2 DEF Disqualified, Settle, Codes
    <3>3. CASE checks.failed = <<"MISSING_REQUIRED_FIELDS">> /\ checks.status = "FAIL"
      <4>1. Disqualified(checks) = [i \in 1..1 |-> [verdict |-> "REVIEW",
                                                   code |-> checks.failed[i]]]
        BY <3>3 DEF Disqualified
      <4>2. Disqualified(checks)
              = <<[verdict |-> "REVIEW", code |-> "MISSING_REQUIRED_FIELDS"]>>
        BY <3>3, <4>1
      <4> QED BY <3>1, <4>2 DEF Codes
    <3> QED BY <3>2, <3>3 DEF IsChecks
  <2> QED BY <1>1, <1>2, <2>1, OneMatch DEF RuleVerdict
<1>3. CASE checks.status = "PASS" /\ j.status # "SKIPPED"
  <2> DEFINE s1   == Settle("DUPLICATE_REQUEST_ID" \in checks.signals, "REVIEW",
                            "DUPLICATE_REQUEST_ID")
             s2   == Settle("EXACT_REPURCHASE" \in checks.signals, "HOLD", "EXACT_REPURCHASE")
             rest == IF Unanswered(j) # <<>> THEN Unanswered(j) ELSE Scored(j, t)
  <2>1. /\ s1 \in Seq(Match) /\ s2 \in Seq(Match)
        /\ Verdict(s1) = IF "DUPLICATE_REQUEST_ID" \in checks.signals THEN "REVIEW" ELSE "PAY"
        /\ Verdict(s2) = IF "EXACT_REPURCHASE" \in checks.signals THEN "HOLD" ELSE "PAY"
    <3>1. "DUPLICATE_REQUEST_ID" \in Codes /\ "EXACT_REPURCHASE" \in Codes
      BY DEF Codes
    <3> QED BY <3>1, NoMatch, OneMatch DEF Settle
  <2>2. /\ rest \in Seq(Match)
        /\ Verdict(rest) = IF Unanswered(j) # <<>> THEN "REVIEW" ELSE Verdict(Scored(j, t))
    BY UnansweredVerdict, ScoredVerdict
  <2>3. Matches(checks, j, t) = (s1 \o s2) \o rest
    BY <1>3 DEF Matches, Signalled
  <2> HIDE DEF s1, s2, rest
  <2>4. /\ s1 \o s2 \in Seq(Match)
        /\ Verdict(s1 \o s2) = IF Verdict(s1) = "PAY" THEN Verdict(s2) ELSE Verdict(s1)
    BY <2>1, FirstDecides
  <2>5. Verdict((s1 \o s2) \o rest) =
          IF Verdict(s1 \o s2) = "PAY" THEN Verdict(rest) ELSE Verdict(s1 \o s2)
    BY <2>2, <2>4, FirstDecides
  <2> QED BY <1>1, <1>3, <2>1, <2>2, <2>3, <2>4, <2>5, UnansweredVerdict, ScoredVerdict
          DEF RuleVerdict
<1> QED BY <1>2, <1>3

----------------------------------------------------------------------------
(* Induction over the numbers, for a set instead of a predicate.           *)

LEMMA SetInduction ==
  ASSUME NEW T \in SUBSET Nat, 0 \in T, \A n \in T : n + 1 \in T
  PROVE  T = Nat
<1> DEFINE R == StrictSubsetOrdering(Nat)
           W == {1..n : n \in Nat \ T}
<1>1. SUFFICES ASSUME Nat \ T # {} PROVE FALSE
  OBVIOUS
<1>2. IsWellFoundedOn(R, FiniteSubsetsOf(Nat))
  BY FS_StrictSubsetOrderingWellFounded
<1>3. W \subseteq FiniteSubsetsOf(Nat) /\ W # {}
  <2>1. \A n \in Nat : IsFiniteSet(1..n) /\ 1..n \in SUBSET Nat
    BY FS_Interval
  <2> QED BY <1>1, <2>1 DEF FiniteSubsetsOf
<1> HIDE DEF R
<1>4. PICK x \in W : \A y \in W : <<y, x>> \notin R
  BY <1>2, <1>3, WFMin
<1>5. PICK n \in Nat \ T : x = 1..n
  OBVIOUS
<1>6. n # 0 /\ n - 1 \in Nat \ T
  <2>1. n # 0
    OBVIOUS
  <2>2. n - 1 \in Nat /\ (n - 1) + 1 = n
    BY <2>1
  <2> QED BY <2>1, <2>2
<1>7. <<1..(n - 1), 1..n>> \in R
  <2>1. 1..(n - 1) \subseteq 1..n /\ n \in 1..n /\ n \notin 1..(n - 1)
    BY <1>6
  <2>2. 1..(n - 1) \in SUBSET Nat /\ 1..n \in SUBSET Nat
    BY <1>6
  <2> QED BY <2>1, <2>2 DEF R, StrictSubsetOrdering
<1>8. 1..(n - 1) \in W
  BY <1>6
<1> QED BY <1>4, <1>5, <1>7, <1>8

----------------------------------------------------------------------------
(* LedgerIndex.rebuild(): one pass over the events, oldest first.          *)

\* pass[i] is the index after the first i events.
IsPass(pass, events, n) ==
  pass = [i \in 0..n |-> IF i = 0 THEN EmptyIndex ELSE ObserveEvent(pass[i - 1], events[i])]

LEMMA PassExists ==
  ASSUME NEW events
  PROVE  \A n \in Nat : \E pass : IsPass(pass, events, n)
<1> DEFINE T == {n \in Nat : \E pass : IsPass(pass, events, n)}
<1>1. 0 \in T
  <2> DEFINE pass == [i \in 0..0 |-> EmptyIndex]
  <2>1. IsPass(pass, events, 0)
    BY DEF IsPass
  <2> QED BY <2>1
<1>2. ASSUME NEW n \in T PROVE n + 1 \in T
  <2>1. PICK pass : IsPass(pass, events, n)
    OBVIOUS
  <2> DEFINE next == [i \in 0..(n + 1) |-> IF i = n + 1 THEN ObserveEvent(pass[n], events[n + 1])
                                          ELSE pass[i]]
  <2>2. DOMAIN pass = 0..n /\ pass[0] = EmptyIndex
        /\ \A i \in 1..n : pass[i] = ObserveEvent(pass[i - 1], events[i])
    BY <2>1 DEF IsPass
  <2>3. /\ next[0] = EmptyIndex
        /\ \A i \in 0..n : next[i] = pass[i]
        /\ next[n + 1] = ObserveEvent(next[n], events[n + 1])
    BY <2>2
  <2>4. \A i \in 1..(n + 1) : next[i] = ObserveEvent(next[i - 1], events[i])
    BY <2>2, <2>3
  <2> HIDE DEF next
  <2>5. next = [i \in 0..(n + 1) |-> next[i]]
    BY DEF next
  <2>6. \A i \in 0..(n + 1) :
          next[i] = IF i = 0 THEN EmptyIndex ELSE ObserveEvent(next[i - 1], events[i])
    BY <2>3, <2>4
  <2>7. next = [i \in 0..(n + 1) |-> IF i = 0 THEN EmptyIndex
                                    ELSE ObserveEvent(next[i - 1], events[i])]
    BY <2>5, <2>6
  <2>8. IsPass(next, events, n + 1)
    BY <2>7 DEF IsPass
  <2> QED BY <2>8
<1> HIDE DEF T
<1>3. T = Nat
  <2>1. T \in SUBSET Nat
    BY DEF T
  <2> QED BY <1>1, <1>2, <2>1, SetInduction
<1> QED BY <1>3 DEF T

LEMMA PassUnique ==
  ASSUME NEW events, NEW more, NEW m \in Nat, NEW n \in Nat, NEW k \in Nat, k <= m, k <= n,
         \A i \in 1..k : events[i] = more[i],
         NEW f, IsPass(f, events, m), NEW g, IsPass(g, more, n)
  PROVE  f[k] = g[k]
<1> DEFINE T == {i \in Nat : i <= k => f[i] = g[i]}
<1>1. /\ f[0] = EmptyIndex /\ \A i \in 1..k : f[i] = ObserveEvent(f[i - 1], events[i])
      /\ g[0] = EmptyIndex /\ \A i \in 1..k : g[i] = ObserveEvent(g[i - 1], more[i])
  BY DEF IsPass
<1>2. 0 \in T
  BY <1>1
<1>3. ASSUME NEW i \in T PROVE i + 1 \in T
  BY <1>1
<1> HIDE DEF T
<1>4. T = Nat
  <2>1. T \in SUBSET Nat
    BY DEF T
  <2> QED BY <1>2, <1>3, <2>1, SetInduction
<1> QED BY <1>4 DEF T

LEMMA RebuildIsPass ==
  ASSUME NEW events, Len(events) \in Nat
  PROVE  \E pass : IsPass(pass, events, Len(events)) /\ Rebuild(events) = pass[Len(events)]
<1> DEFINE pass == CHOOSE pass : IsPass(pass, events, Len(events))
<1>1. IsPass(pass, events, Len(events))
  BY PassExists
<1>2. Rebuild(events) = pass[Len(events)]
  BY DEF Rebuild, IsPass
<1> QED BY <1>1, <1>2

\* A restart after one more event is a restart and one more observe_event().
LEMMA RebuildAppend ==
  ASSUME NEW S, NEW events \in Seq(S), NEW event
  PROVE  Rebuild(Append(events, event)) = ObserveEvent(Rebuild(events), event)
<1> DEFINE more == Append(events, event)
           n    == Len(events)
<1>1. /\ n \in Nat /\ Len(more) = n + 1
      /\ \A i \in 1..n : events[i] = more[i]
      /\ more[n + 1] = event
  <2>1. events \in Seq(S \cup {event})
    OBVIOUS
  <2> QED BY <2>1, LenProperties, AppendProperties
<1>2. PICK f : IsPass(f, events, n) /\ Rebuild(events) = f[n]
  BY <1>1, RebuildIsPass
<1> HIDE DEF more
<1>3. PICK g : IsPass(g, more, n + 1) /\ Rebuild(more) = g[n + 1]
  BY <1>1, RebuildIsPass
<1> HIDE DEF n
<1>4. f[n] = g[n]
  <2>1. n \in Nat /\ n + 1 \in Nat /\ n <= n + 1 /\ n <= n
    BY <1>1
  <2> QED BY <1>1, <1>2, <1>3, <2>1, PassUnique, SMTT(30)
<1>5. g[n + 1] = ObserveEvent(g[n], more[n + 1])
  BY <1>1, <1>3 DEF IsPass
<1> QED BY <1>1, <1>2, <1>3, <1>4, <1>5 DEF more

LEMMA RebuildEmpty == Rebuild(<<>>) = EmptyIndex
<1>1. Len(<<>>) = 0
  BY EmptySeq
<1>2. PICK f : IsPass(f, <<>>, 0) /\ Rebuild(<<>>) = f[0]
  BY <1>1, RebuildIsPass
<1> QED BY <1>2 DEF IsPass

\* observe_event() keeps every entry, and makes at most one of each kind.
LEMMA ObserveKeeps ==
  ASSUME NEW idx, NEW event, NEW more, more = ObserveEvent(idx, event)
  PROVE  /\ \A k \in DOMAIN idx.first : k \in DOMAIN more.first /\ more.first[k] = idx.first[k]
         /\ \A k \in DOMAIN idx.evaluated :
              k \in DOMAIN more.evaluated /\ more.evaluated[k] = idx.evaluated[k]
BY DEF ObserveEvent, SetDefault

LEMMA ObserveAddsFirst ==
  ASSUME NEW idx, NEW event, NEW more, more = ObserveEvent(idx, event),
         NEW k \in DOMAIN more.first, k \notin DOMAIN idx.first
  PROVE  /\ event.type = "candidate_observed" /\ event.cand.request # NoRequest
         /\ k = event.cand.request
         /\ more.first[k] = [dec |-> event.dec, key |-> event.cand.key]
BY DEF ObserveEvent, SetDefault

LEMMA ObserveAddsEvaluated ==
  ASSUME NEW idx, NEW event, NEW more, more = ObserveEvent(idx, event),
         NEW k \in DOMAIN more.evaluated, k \notin DOMAIN idx.evaluated
  PROVE  /\ event.type = "candidate_observed" /\ event.cand.request # NoRequest
         /\ event.duplicate_of = NoDup
         /\ k = Identity(event.cand) /\ more.evaluated[k] = event.dec
BY DEF ObserveEvent, SetDefault

\* The request of what it indexed has an entry, and so has its identity.
LEMMA ObserveHolds ==
  ASSUME NEW idx, NEW event, event.type = "candidate_observed", event.cand.request # NoRequest,
         NEW more, more = ObserveEvent(idx, event)
  PROVE  /\ event.cand.request \in DOMAIN more.first
         /\ event.duplicate_of = NoDup => Identity(event.cand) \in DOMAIN more.evaluated
BY DEF ObserveEvent, SetDefault

LEMMA ObserveOther ==
  ASSUME NEW idx, NEW event, event.type # "candidate_observed"
  PROVE  ObserveEvent(idx, event) = idx
BY DEF ObserveEvent
=============================================================================
