----------------------------- MODULE MCOutcome -----------------------------
(* Instances of Outcome for TLC. *)
EXTENDS Outcome, TLC

CONSTANTS r1, r2

TwoRequests == {r1, r2}
SomeVerdicts == {"PAY", "HOLD"}
SomeLabels   == {"needed", "not_needed"}
SomeHosts   == {"careful", "free"}
SomeRequests == Permutations(TwoRequests)
=============================================================================
