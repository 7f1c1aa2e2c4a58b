-------------------------------- MODULE Jev --------------------------------
(***************************************************************************)
(* judges/jev.py, class JevProcurementJudge: one call of evaluate() at a   *)
(* time, its attempts, its waits and the reading of the reply.  The        *)
(* network is what the transport can do: reply, fail for a while, refuse,  *)
(* or stay silent.  Time is in ticks of 100 ms, the first back-off.        *)
(*                                                                         *)
(* `timeout` bounds each socket operation, not the call: a reply that      *)
(* comes in pieces may take longer, up to CallTime.                        *)
(***************************************************************************)
EXTENDS Aggregate

CONSTANTS Timeout,   \* policy.jev.timeout_ms
          Setting,   \* policy.jev.retries
          CallTime,  \* bound: the longest call of the transport
          Replies    \* bodies the service may send

JevAssumption ==
  /\ Timeout \in Nat /\ CallTime \in Nat /\ Timeout <= CallTime
  /\ Setting \in Int

VARIABLES jpc,       \* where evaluate() is
          attempt,   \* attempts before this one
          waited,    \* ticks since the call began
          reply,     \* the body it ended with, if any
          judgment   \* what the engine gets of it

vars == <<jpc, attempt, waited, reply, judgment>>

NoReply == [shaped |-> FALSE]

\* What semantic_failure() makes of an error of this kind.
Failure(kind) == [status |-> kind, scores |-> <<>>, confidence |-> <<>>]

TypeOK ==
  /\ jpc \in {"idle", "asked", "done"}
  /\ attempt \in Nat /\ waited \in Nat
  /\ reply \in Replies \cup {NoReply}
  /\ judgment.status \in SemanticFailures \cup {"OK", "SKIPPED"}

Init ==
  /\ jpc = "idle" /\ attempt = 0 /\ waited = 0
  /\ reply = NoReply /\ judgment = Skipped

----------------------------------------------------------------------------
(* The reply.  A body is the answers it holds, if it is JSON of the right  *)
(* shape: for some questions the probability of some options and, perhaps, *)
(* a confidence.  Numbers are hundredths; NotANumber is any other value.   *)
(* The other fields have the shape they should when body.shaped holds: the *)
(* model is a text, for one.                                               *)

One        == 100
NotANumber == -1

Usable(number) == number \in 0..One

\* QUESTION_SPECS: the option that counts, and the other one.
Options(q) ==
  CASE q = "task_fit"             -> <<"fits", "does_not_fit">>
    [] q = "incremental_value"    -> <<"adds_value", "no_new_value">>
    [] q = "duplication_risk"     -> <<"duplicate", "distinct">>
    [] q = "evidence_sufficiency" -> <<"sufficient", "insufficient">>
DistinctCounts(q) == IF q = "duplication_risk" THEN Options(q)[2] ELSE Options(q)[1]
Positive(q) == Options(q)[1]

\* All four questions and no other, each with a usable probability of its
\* positive option and a usable confidence.
Complete(body) ==
  /\ body.shaped
  /\ DOMAIN body.answers = Questions
  /\ \A q \in Questions :
       /\ Positive(q) \in DOMAIN body.answers[q].probabilities
       /\ Usable(body.answers[q].probabilities[Positive(q)])
       /\ Usable(body.answers[q].confidence)

ParseResponse(body) ==
  IF ~Complete(body) THEN Failure("INVALID_RESPONSE")
  ELSE [status     |-> "OK",
        scores     |-> [q \in Questions |-> body.answers[q].probabilities[Positive(q)]],
        confidence |-> [q \in Questions |-> body.answers[q].confidence]]

----------------------------------------------------------------------------
(* evaluate().                                                            *)

Retries == IF Setting < 0 THEN 0 ELSE IF Setting > 5 THEN 5 ELSE Setting
Backoff(a) == IF 2 ^ a > 20 THEN 20 ELSE 2 ^ a

OneTooMany == attempt <= Retries
RetriesLeft == attempt < Retries

\* The request is built and sent.
Ask ==
  /\ jpc = "idle" /\ jpc' = "asked"
  /\ UNCHANGED <<attempt, waited, reply, judgment>>

\* No credentials, or settings that are no numbers: an exception, and the
\* engine takes any exception for a provider error.
CannotAsk ==
  /\ jpc = "idle" /\ jpc' = "done"
  /\ judgment' = Failure("PROVIDER_ERROR") /\ UNCHANGED <<attempt, waited, reply>>

\* The attempt ends after d ticks and so does the call.
Finish(d, j) ==
  /\ jpc = "asked" /\ jpc' = "done"
  /\ waited' = waited + d /\ judgment' = j /\ UNCHANGED attempt

CallAnew(d) ==
  /\ jpc = "asked" /\ RetriesLeft /\ jpc' = "idle"
  /\ attempt' = 0 /\ waited' = 0
  /\ UNCHANGED <<reply, judgment>>

\* 429, 5xx, no connection, or no answer in time: back off and ask again.
Retry(d) ==
  /\ jpc = "asked" /\ RetriesLeft
  /\ attempt' = attempt + 1 /\ waited' = waited + d + Backoff(attempt)
  /\ UNCHANGED <<jpc, reply, judgment>>

\* The same, and no attempt is left; silence takes the whole timeout.
GiveUp(d) ==
  /\ ~RetriesLeft /\ UNCHANGED reply
  /\ \/ Finish(d, Failure("PROVIDER_ERROR"))
     \/ d >= Timeout /\ Finish(d, Failure("TIMEOUT"))

\* Any other HTTP status, or an exception the adapter does not expect.
Refused(d) == Finish(d, Failure("PROVIDER_ERROR")) /\ UNCHANGED reply

\* A reply, and whether it can be used or not it is the last attempt.
Answered(d) ==
  \E body \in Replies : reply' = body /\ Finish(d, ParseResponse(body))

\* The call is over and its locals are gone.
Forget ==
  /\ jpc' = "idle"
  /\ attempt' = 0 /\ waited' = 0 /\ reply' = NoReply /\ judgment' = Skipped

\* The engine takes the judgment.
Return == jpc = "done" /\ Forget

Wait(d) == Retry(d) \/ GiveUp(d) \/ Refused(d) \/ Answered(d)
Next == Ask \/ CannotAsk \/ Return \/ \E d \in 0..CallTime : Wait(d)
Spec == Init /\ [][Next]_vars

----------------------------------------------------------------------------
(* Properties.                                                            *)

\* The most all the back-offs of a call can add up to.
Backoffs == 2 ^ Retries - 1

\* A call is bounded in attempts and in time, and the time is that of all the
\* attempts, not of one: retries is clamped, every transient failure counts,
\* and a reply that cannot be used is not asked for again.
WaitBounded ==
  /\ attempt <= Retries
  /\ waited <= (Retries + 1) * CallTime + Backoffs
=============================================================================
