------------------------------ MODULE MCEngine ------------------------------
(* Instances of Engine for TLC. *)
EXTENDS Engine

CONSTANTS f1, f2

TwoFlows     == {f1, f2}
OneProcess   == {1}
TwoProcesses == {1, 2}
Together == [f \in TwoFlows |-> 1]
Apart    == [f \in TwoFlows |-> IF f = f1 THEN 1 ELSE 2]
SomeFlows == Permutations(TwoFlows)

Offer(request, key, retry_of, observed_at, prior) ==
  [request |-> request, key |-> key, retry_of |-> retry_of, service |-> "s",
   params |-> "q", observed_at |-> observed_at, prior |-> prior, absent |-> {}]

Bought == {[service |-> "s", params |-> "q", acquired_at |-> 0, summary |-> TRUE]}

\* One request id: two purchases with their own keys, a marked retry, one that
\* was bought before, one without a time, and one without an id.
MixedOffers == {Offer("r", "k", FALSE, 2, {}), Offer("r", "l", FALSE, 2, {}),
                Offer("r", NoKey, TRUE, 2, {}), Offer("r", NoKey, FALSE, Absent, Bought),
                Offer(NoRequest, NoKey, FALSE, 2, {})}
FewOffers == {Offer("r", "k", FALSE, 2, {}), Offer("r", "l", FALSE, 2, {})}

Answer(score) == [status |-> "OK", scores |-> [q \in Questions |-> score],
                  confidence |-> [q \in Questions |-> 1]]
Failure == [status |-> "TIMEOUT", scores |-> <<>>, confidence |-> <<>>]
SomeJudgments == {Answer(1), Failure}

SomePolicy == [retry_detection |-> "idempotency_key", window |-> 2,
               thresholds |-> [task_fit_min |-> 1, incremental_value_min |-> 1,
                               duplication_risk_max |-> 2, evidence_sufficiency_min |-> 1,
                               confidence_min |-> 1]]

\* Whatever a host with threads or failing appends does, a rough one may do.
AllHosts == {"serial", "rough"}
=============================================================================
