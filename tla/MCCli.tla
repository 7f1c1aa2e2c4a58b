------------------------------- MODULE MCCli -------------------------------
(* Instances of Cli for TLC. *)
EXTENDS Cli

T == [task_fit_min |-> 80, incremental_value_min |-> 70, duplication_risk_max |-> 30,
      evidence_sufficiency_min |-> 70, confidence_min |-> 80]
SomePolicy == [retry_detection |-> "idempotency_key", window |-> 2, thresholds |-> T]

\* A reply in which every question has this probability of its first option.
Body(fit, duplicate, sure) ==
  [shaped |-> TRUE, answers |->
    [q \in Questions |->
      [probabilities |->
         (CASE q = "task_fit"             -> [fits |-> fit, does_not_fit |-> 100 - fit]
            [] q = "incremental_value"    -> [adds_value |-> 90, no_new_value |-> 10]
            [] q = "duplication_risk"     -> [duplicate |-> duplicate, distinct |-> 100 - duplicate]
            [] q = "evidence_sufficiency" -> [sufficient |-> 90, insufficient |-> 10]),
       confidence |-> sure]]]
Without(body, q) == [body EXCEPT !.answers = [k \in Questions \ {q} |-> body.answers[k]]]

Good == Body(90, 10, 90)
SomeReplies ==
  {Good, Body(90, 80, 90), Body(90, 10, 50),
   Body(150, 10, 90), Body(90, 10, -1), Without(Good, "duplication_risk"), [shaped |-> FALSE]}

Raw(request, observed_at, absent) ==
  [request |-> request, key |-> "k", retry_of |-> FALSE, service |-> "s", params |-> "q",
   observed_at |-> observed_at, prior |-> {}, absent |-> absent]

Entry(scores) == [fail |-> "no_fail", scores |-> scores, confidence |-> <<>>]
High == [q \in Questions |-> IF q = "duplication_risk" THEN 10 ELSE 90]
Line(raw, entry) == [kind |-> "candidate", raw |-> raw, entry |-> entry]

Timed   == Line(Raw("r", 2, {}), Entry(High))
Untimed == Line(Raw("r", -2, {}), Entry([q \in Questions \ {"duplication_risk"} |-> 90]))
Unfit   == Line(Raw("u", 2, {}), [fail |-> "TIMEOUT"])
Unasked == Line(Raw("v", 2, {"quote.amount"}), NoEntry)
Bad(kind) == [kind |-> kind]

Lines == {Timed, Untimed, Unfit, Unasked} \cup
         {Bad(k) : k \in {"blank", "not_json", "unusable", "malformed"}}
SomeInputs ==
  {<<a>> : a \in Lines}
    \cup {<<Timed, a>> : a \in {Timed, Unfit, Unasked, Bad("not_json"), Bad("blank")}}
    \cup {<<Untimed, Bad("malformed")>>}
OneInput == {<<Timed>>}
=============================================================================
