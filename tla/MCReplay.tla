------------------------------ MODULE MCReplay ------------------------------
(* Instances of Replay for TLC. *)
EXTENDS Replay, FiniteSets

Raw(request, key, retry_of, observed_at, prior, absent) ==
  [request |-> request, key |-> key, retry_of |-> retry_of, service |-> "s", params |-> "q",
   observed_at |-> observed_at, prior |-> prior, absent |-> absent]

Bought(params, at) ==
  [service |-> "s", params |-> params, acquired_at |-> at, summary |-> at # NoTime]

\* Observed at 3, or without a time: bought at the time, at the edges of a
\* window of 2, in the future, at an unknown time, and something else; without
\* an id, a required field, or an optional one.
SomeCandidates ==
  {Raw("r", "k", FALSE, at, {Bought("q", before)}, {})
      : at \in {3, Absent}, before \in {0, 1, 3, 4, NoTime}}
    \cup {Raw("r", "k", TRUE, NoTime, {Bought("q", 0), Bought("p", 1)}, {}),
          Raw("r", "l", FALSE, 3, {Bought("p", 3)}, {"service.description"}),
          Raw("r", NoKey, FALSE, 3, {}, {"task.purpose", "quote.network"}),
          Raw("r", NoKey, FALSE, 3, {}, {}),
          Raw(NoRequest, "l", TRUE, 3, {}, {})}
SomePriors == {None, [dec |-> 7, key |-> "k"], [dec |-> 7, key |-> NoKey]}

\* Scores and confidences around the thresholds: all the same but one or two.
Flat(n) == [q \in Questions |-> n]
Scores  == {[[q \in Questions |-> IF q = "duplication_risk" THEN 1 ELSE 2] EXCEPT ![a] = n, ![b] = m]
              : a, b \in Questions, n, m \in {1, 2}}
Sure    == {Flat(2), [Flat(2) EXCEPT !["task_fit"] = 1]}
SomeAnswers ==
  {[status |-> "OK", scores |-> s, confidence |-> c] : s \in Scores, c \in Sure}
    \cup {[status |-> "OK", scores |-> [q \in Questions \ {"task_fit"} |-> 2], confidence |-> Flat(2)],
          [status |-> "OK", scores |-> Flat(1), confidence |-> [q \in {"task_fit"} |-> 2]],
          [status |-> "NEW", scores |-> <<>>, confidence |-> <<>>]}
    \cup {[status |-> s, scores |-> <<>>, confidence |-> <<>>] : s \in SemanticFailures}

Thresholds(fit, value, risk, evidence, sure) ==
  [task_fit_min |-> fit, incremental_value_min |-> value, duplication_risk_max |-> risk,
   evidence_sufficiency_min |-> evidence, confidence_min |-> sure]
PolicyOf(t, retry) == [thresholds |-> t, retry_detection |-> retry, window |-> 2]
SomePolicies ==
  {PolicyOf(Thresholds(2, 2, 2, 2, 2), r) : r \in {"none", "idempotency_key"}}
    \cup {PolicyOf(t, "idempotency_key") :
            t \in {Thresholds(1, 1, 3, 1, 0), Thresholds(1, 2, 2, 1, 1), Thresholds(2, 1, 1, 2, 1),
                   Thresholds(3, 2, 2, 2, 2)}}
=============================================================================
