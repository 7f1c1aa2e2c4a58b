------------------------------- MODULE Checks -------------------------------
(***************************************************************************)
(* checks.py: the code-owned checks on one candidate.  A candidate is the  *)
(* record normalize() makes, reduced to what the checks and the hash read; *)
(* providers, services and routes are one `service`.  The hash covers the  *)
(* whole record but the candidate id, so equal records hash alike.         *)
(***************************************************************************)
EXTENDS Integers, Sequences

NoRequest == "no_request"  \* request_id is missing
NoKey     == "no_key"      \* idempotency_key is missing or empty
NoParams  == "no_params"   \* request_params_hash is missing or empty
NoTime    == -1            \* a time that is missing or cannot be parsed
None      == [dec |-> 0]   \* no earlier record

Retry     == "RETRY_OBSERVED"
Duplicate == "DUPLICATE_REQUEST_ID"
Exact     == "EXACT_REPURCHASE"

\* Evidence the host itself gave; policy.retry_detection can refuse it.
IsRetry(c, prior, policy) ==
  /\ policy.retry_detection # "none"
  /\ c.retry_of \/ (c.key # NoKey /\ c.key = prior.key)

\* The request was bought before, inside the window or at an unknown time.
InWindow(observed, acquired, policy) ==
  \/ observed = NoTime \/ acquired = NoTime
  \/ observed - acquired \in 0..policy.window

ExactRepurchase(c, policy) ==
  /\ c.params # NoParams
  /\ \E p \in c.prior : /\ p.service = c.service /\ p.params = c.params
                        /\ InWindow(c.observed_at, p.acquired_at, policy)

Signals(c, prior, policy) ==
  (IF c.request = NoRequest \/ prior = None THEN {}
   ELSE {IF IsRetry(c, prior, policy) THEN Retry ELSE Duplicate})
  \cup (IF ExactRepurchase(c, policy) THEN {Exact} ELSE {})

\* REQUIRED_FIELDS of normalize.py: without them a candidate is not judged.
\* What else is missing is only recorded.
Required == {"request_id", "service.provider_id", "service.service_id", "service.route_id",
             "quote.amount", "quote.currency", "quote.network"}
EveryMissing(c) == c.missing
Blocking(c)     == c.missing \cap Required

RunChecks(c, prior, policy) ==
  LET failed == IF Blocking(c) # {} THEN <<"MISSING_REQUIRED_FIELDS">> ELSE <<>>
  IN  [status |-> IF failed = <<>> THEN "PASS" ELSE "FAIL", failed |-> failed,
       signals |-> Signals(c, prior, policy)]
=============================================================================
