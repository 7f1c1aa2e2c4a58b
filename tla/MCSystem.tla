------------------------------ MODULE MCSystem ------------------------------
(* Instances of System for TLC. *)
EXTENDS System

CONSTANTS p1, p2

TwoPayers == {p1, p2}

Offer(key) ==
  [request |-> "r", key |-> key, retry_of |-> FALSE, service |-> "s", params |-> "q",
   observed_at |-> 2, prior |-> {}, absent |-> {}]
SomeOffers == {Offer("k"), Offer("l")}

Questions == {"task_fit", "incremental_value", "duplication_risk", "evidence_sufficiency"}
SomeJudgments ==
  {[status |-> "OK", scores |-> [q \in Questions |-> 1], confidence |-> [q \in Questions |-> 1]]}

SomePolicy == [retry_detection |-> "idempotency_key", window |-> 2,
               thresholds |-> [task_fit_min |-> 1, incremental_value_min |-> 1,
                               duplication_risk_max |-> 2, evidence_sufficiency_min |-> 1,
                               confidence_min |-> 1]]
SomeHosts == {"threads", "faulty"}
=============================================================================
