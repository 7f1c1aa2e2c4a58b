------------------------------ MODULE Fixture ------------------------------
(***************************************************************************)
(* judges/fixture.py, class FixtureProcurementJudge: recorded answers in   *)
(* place of Jev.  An entry names a failure, or holds a score for some of   *)
(* the questions and a confidence for some; NoEntry is a candidate the     *)
(* file says nothing about.                                                *)
(***************************************************************************)
EXTENDS Aggregate

NoEntry == [fail |-> "no_entry"]
NoFail  == "no_fail"
Sure    == 100          \* the confidence of a question without one

Failed(kind) == [status |-> kind, scores |-> <<>>, confidence |-> <<>>]

\* An entry keeps its scores by question.
IsEntry(entry) ==
  \/ entry = NoEntry \/ entry.fail # NoFail
  \/ /\ DOMAIN entry.scores \subseteq Questions
     /\ \A q \in DOMAIN entry.scores : entry.scores[q] \in Int

\* An InputError of the judge: the engine takes it for a provider error.
Unusable(entry) ==
  \/ entry = NoEntry
  \/ IF entry.fail # NoFail THEN entry.fail \notin SemanticFailures
                           ELSE ~(Questions \subseteq DOMAIN entry.scores)

\* A score that is missing counts as zero.
AnswerAnyway(entry) ==
  IF entry = NoEntry \/ entry.fail # NoFail THEN Failed("PROVIDER_ERROR")
  ELSE [status     |-> "OK",
        scores     |-> [q \in Questions |-> IF q \in DOMAIN entry.scores
                                           THEN entry.scores[q] ELSE 0],
        confidence |-> [q \in Questions |-> Sure]]

Answer(entry) ==
  IF Unusable(entry) THEN Failed("PROVIDER_ERROR")
  ELSE IF entry.fail # NoFail THEN Failed(entry.fail)
  ELSE [status     |-> "OK",
        scores     |-> [q \in Questions |-> entry.scores[q]],
        confidence |-> [q \in Questions |-> IF q \in DOMAIN entry.confidence
                                           THEN entry.confidence[q] ELSE Sure]]
=============================================================================
