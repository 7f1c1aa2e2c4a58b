------------------------------- MODULE MCJev -------------------------------
(* Instances of Jev for TLC. *)
EXTENDS Jev

CONSTANT Budget   \* policy.hook.hook_timeout_ms

SomeReplies ==
  {[shaped |-> TRUE, answers |-> [q \in Questions |->
     [probabilities |-> [o \in {Options(q)[1]} |-> 90], confidence |-> 90]]],
   [shaped |-> FALSE]}

\* "Keeping the per-request Jev timeout below `hook_timeout_ms` is what
\* actually bounds the wait": a call waits no longer than the budget.
TimeoutBoundsWait == Timeout < Budget => waited <= Budget
=============================================================================
