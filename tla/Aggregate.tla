----------------------------- MODULE Aggregate -----------------------------
(***************************************************************************)
(* aggregate.py: checks and a judgment in, PAY, HOLD or REVIEW out.  The   *)
(* matches are listed in the order the code settles them; the first one    *)
(* decides and every one is a reason.  A judgment holds a score and a      *)
(* confidence for some of the questions; numbers are on any integer scale. *)
(***************************************************************************)
EXTENDS Integers, Sequences

Questions == {"task_fit", "incremental_value", "duplication_risk", "evidence_sufficiency"}
SemanticFailures == {"PROVIDER_ERROR", "INVALID_RESPONSE", "TIMEOUT"}
Skipped == [status |-> "SKIPPED", scores |-> <<>>, confidence |-> <<>>]
PayReasons == <<"TASK_MATCH", "INCREMENTAL_VALUE", "NOT_DUPLICATE", "EVIDENCE_SUFFICIENT">>

Settle(when, verdict, code) ==
  IF when THEN <<[verdict |-> verdict, code |-> code]>> ELSE <<>>

\* Rule 1: a failed check, or Jev was not consulted.
Disqualified(checks) ==
  IF checks.status = "PASS" THEN Settle(TRUE, "REVIEW", "SEMANTIC_SKIPPED")
  ELSE IF checks.failed = <<>> THEN Settle(TRUE, "REVIEW", "DETERMINISTIC_CHECK_FAILED")
  ELSE [i \in DOMAIN checks.failed |-> [verdict |-> "REVIEW", code |-> checks.failed[i]]]

ExactFirst(checks) ==
  Settle("EXACT_REPURCHASE" \in checks.signals, "HOLD", "EXACT_REPURCHASE")
    \o Settle("DUPLICATE_REQUEST_ID" \in checks.signals, "REVIEW", "DUPLICATE_REQUEST_ID")

\* Rules 2 and 3.
Signalled(checks) ==
  Settle("DUPLICATE_REQUEST_ID" \in checks.signals, "REVIEW", "DUPLICATE_REQUEST_ID")
    \o Settle("EXACT_REPURCHASE" \in checks.signals, "HOLD", "EXACT_REPURCHASE")

\* Rule 4: no usable answer.
Unanswered(j) ==
  CASE j.status \in SemanticFailures -> Settle(TRUE, "REVIEW", j.status)
    [] j.status \notin SemanticFailures \cup {"OK"} ->
         Settle(TRUE, "REVIEW", "SEMANTIC_STATUS_UNKNOWN")
    [] OTHER -> Settle(~(Questions \subseteq DOMAIN j.scores), "REVIEW", "SEMANTIC_SCORE_MISSING")

\* An answer at its ceiling is over it, one at its floor is not below it.
OverCeiling(score, max) == score >= max
AboveFloor(score, min)  == score > min
BelowFloor(score, min)  == score < min

Confidence(j, q) == IF q \in DOMAIN j.confidence THEN j.confidence[q] ELSE 0
Unsure(j, q, code, t) == Settle(BelowFloor(Confidence(j, q), t.confidence_min), "REVIEW", code)

\* Rules 5 to 8.
Scored(j, t) ==
  Unsure(j, "task_fit", "LOW_CONFIDENCE_TASK_FIT", t)
    \o Unsure(j, "incremental_value", "LOW_CONFIDENCE_INCREMENTAL_VALUE", t)
    \o Unsure(j, "duplication_risk", "LOW_CONFIDENCE_DUPLICATION_RISK", t)
    \o Unsure(j, "evidence_sufficiency", "LOW_CONFIDENCE_EVIDENCE_SUFFICIENCY", t)
    \o Settle(OverCeiling(j.scores["duplication_risk"], t.duplication_risk_max),
              "HOLD", "DUPLICATION_RISK")
    \o Settle(BelowFloor(j.scores["evidence_sufficiency"], t.evidence_sufficiency_min),
              "REVIEW", "EVIDENCE_INSUFFICIENT")
    \o Settle(BelowFloor(j.scores["task_fit"], t.task_fit_min), "HOLD", "TASK_MISMATCH")
    \o Settle(BelowFloor(j.scores["incremental_value"], t.incremental_value_min),
              "HOLD", "NO_INCREMENTAL_VALUE")

Matches(checks, j, t) ==
  IF checks.status # "PASS" \/ j.status = "SKIPPED" THEN Disqualified(checks)
  ELSE Signalled(checks) \o (IF Unanswered(j) # <<>> THEN Unanswered(j) ELSE Scored(j, t))

\* aggregate(): rule 9 pays when nothing matched.
Decide(checks, j, t) ==
  LET m == Matches(checks, j, t)
  IN  IF m = <<>> THEN [verdict |-> "PAY", reasons |-> PayReasons]
      ELSE [verdict |-> m[1].verdict, reasons |-> [i \in DOMAIN m |-> m[i].code]]
=============================================================================
