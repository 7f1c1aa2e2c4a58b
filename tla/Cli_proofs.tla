----------------------------- MODULE Cli_proofs -----------------------------
(***************************************************************************)
(* What a command waits for Jev, what it takes to pay, how it exits, that  *)
(* it asks about no purchase twice and what it prints, for any file,       *)
(* policy, setting of retries, timeout, transport and replies, and any     *)
(* number of runs.                                                         *)
(***************************************************************************)
EXTENDS Cli, Lemmas

Power(a) == 2 ^ a

\* Between two attempts the call has waited for all attempts before, each as
\* long as the transport may take, and for the back-offs between them.
Waited(attempts) == attempts * CallTime + Power(attempt) - 1

WaitInv ==
  /\ jpc \in {"idle", "asked", "done"}
  /\ attempt \in Nat /\ attempt <= J!Retries /\ waited \in Nat
  /\ jpc # "done" => waited <= Waited(attempt)
  /\ jpc = "done" => waited <= Waited(attempt + 1)

----------------------------------------------------------------------------
(* Lemmas.                                                                *)

LEMMA SettingIsClamped == J!Retries \in 0..5 /\ CallTime \in Nat
BY CliAssumption DEF J!JevAssumption, J!Retries

\* The back-offs double, and their sum is one less than the next.
LEMMA Doubling ==
  ASSUME NEW a \in 0..5
  PROVE  /\ Power(0) = 1 /\ Power(a) \in Nat \ {0}
         /\ J!Backoff(a) \in Nat /\ J!Backoff(a) <= Power(a)
         /\ a < 5 => Power(a + 1) = Power(a) + Power(a)
         /\ \A b \in a..5 : Power(a) <= Power(b)
<1>1. /\ Power(0) = 1 /\ Power(1) = 2 /\ Power(2) = 4
      /\ Power(3) = 8 /\ Power(4) = 16 /\ Power(5) = 32
  BY DEF Power
<1>2. \A b \in 0..5 : b = 0 \/ b = 1 \/ b = 2 \/ b = 3 \/ b = 4 \/ b = 5
  OBVIOUS
<1>3. Power(a) \in Nat \ {0}
  BY <1>1, <1>2
<1>4. J!Backoff(a) \in Nat /\ J!Backoff(a) <= Power(a)
  BY <1>3 DEF J!Backoff, Power
<1>5. a < 5 => Power(a + 1) = Power(a) + Power(a)
  BY <1>1, <1>2
<1>6. ASSUME NEW b \in a..5 PROVE Power(a) <= Power(b)
  <2>1. b \in 0..5 /\ a <= b
    OBVIOUS
  <2> QED BY <1>1, <1>2, <2>1
<1> QED BY <1>1, <1>3, <1>4, <1>5, <1>6

\* One more attempt takes one more time of the transport.

LEMMA OneMore ==
  ASSUME NEW a \in Nat
  PROVE  /\ a * CallTime \in Nat /\ (a + 1) * CallTime = a * CallTime + CallTime
         /\ \A b \in Nat : a <= b => a * CallTime <= b * CallTime
<1>1. CallTime \in Nat
  BY SettingIsClamped, Doubling
<1>2. a * CallTime \in Nat /\ (a + 1) * CallTime = a * CallTime + CallTime
  BY <1>1
<1>3. ASSUME NEW b \in Nat, a <= b PROVE a * CallTime <= b * CallTime
  <2>1. PICK k \in Nat : b = a + k
    <3>1. b - a \in Nat /\ b = a + (b - a)
      BY <1>3
    <3> QED BY <3>1
  <2>2. b * CallTime = a * CallTime + k * CallTime
    BY <1>1, <2>1
  <2>3. k * CallTime \in Nat /\ b * CallTime \in Nat
    BY <1>1
  <2> QED BY <1>2, <2>2, <2>3
<1> QED BY <1>2, <1>3
----------------------------------------------------------------------------
(* The steps of evaluate().                                               *)

LEMMA AttemptIsSmall ==
  ASSUME WaitInv
  PROVE  /\ attempt \in 0..5 /\ J!Retries \in attempt..5 /\ CallTime \in Nat /\ waited \in Nat
         /\ attempt * CallTime \in Nat /\ Power(attempt) \in Nat \ {0}
         /\ Waited(attempt) \in Nat /\ Waited(attempt + 1) = Waited(attempt) + CallTime
<1>1. attempt \in 0..5 /\ J!Retries \in attempt..5 /\ CallTime \in Nat /\ waited \in Nat
  BY SettingIsClamped DEF WaitInv
<1>2. /\ attempt * CallTime \in Nat /\ Power(attempt) \in Nat \ {0}
      /\ (attempt + 1) * CallTime = attempt * CallTime + CallTime
  <2>1. attempt \in Nat
    BY <1>1
  <2> QED BY <1>1, <2>1, OneMore, Doubling
<1>3. Waited(attempt) \in Nat /\ Waited(attempt + 1) = Waited(attempt) + CallTime
  <2>1. PICK product, next : product = attempt * CallTime /\ next = (attempt + 1) * CallTime
    OBVIOUS
  <2>2. product \in Nat /\ next = product + CallTime
    BY <1>2, <2>1
  <2>3. Waited(attempt) = product + Power(attempt) - 1 /\ Waited(attempt + 1) = next + Power(attempt) - 1
    BY <2>1 DEF Waited
  <2> QED BY <1>1, <1>2, <2>2, <2>3
<1> QED BY <1>1, <1>2, <1>3

LEMMA ForgetWaits ==
  ASSUME J!Forget PROVE WaitInv'
<1>1. jpc' = "idle" /\ attempt' = 0 /\ waited' = 0 /\ J!Retries' = J!Retries
  BY DEF J!Forget, J!Retries
<1>2. Power(0) = 1 /\ 0 * CallTime = 0
  BY SettingIsClamped, Doubling
<1> QED BY <1>1, <1>2, SettingIsClamped DEF WaitInv, Waited

LEMMA CallWaits ==
  ASSUME WaitInv, J!Ask \/ J!CannotAsk \/ \E d \in 0..CallTime : J!Wait(d)
  PROVE  WaitInv'
<1>0. J!Retries' = J!Retries
  BY DEF J!Retries
<1>1. CASE J!Ask
  BY <1>0, <1>1 DEF J!Ask, WaitInv, Waited
<1>2. CASE J!CannotAsk
  <2>1. jpc = "idle" /\ jpc' = "done" /\ attempt' = attempt /\ waited' = waited
    BY <1>2 DEF J!CannotAsk
  <2>2. waited <= Waited(attempt + 1)
    <3>1. waited <= Waited(attempt)
      BY <2>1 DEF WaitInv
    <3> QED BY <3>1, AttemptIsSmall
  <2> QED BY <1>0, <2>1, <2>2 DEF WaitInv, Waited
<1>3. ASSUME NEW d \in 0..CallTime, J!Retry(d) PROVE WaitInv'
  <2>1. /\ jpc = "asked" /\ jpc' = "asked" /\ attempt < J!Retries
        /\ attempt' = attempt + 1 /\ waited' = waited + d + J!Backoff(attempt)
    BY <1>3 DEF J!Retry, J!RetriesLeft
  <2>2. /\ waited <= attempt * CallTime + Power(attempt) - 1
        /\ (attempt + 1) * CallTime = attempt * CallTime + CallTime
    BY <2>1, OneMore DEF WaitInv, Waited
  <2>3. /\ J!Backoff(attempt) \in Nat /\ J!Backoff(attempt) <= Power(attempt)
        /\ Power(attempt + 1) = Power(attempt) + Power(attempt)
    <3>1. attempt \in 0..5 /\ attempt < 5
      BY <2>1, AttemptIsSmall
    <3> QED BY <3>1, Doubling
  <2>4. attempt' \in Nat /\ attempt' <= J!Retries /\ waited' \in Nat
    BY <2>1, <2>3, AttemptIsSmall
  <2>5. waited' <= (attempt + 1) * CallTime + Power(attempt + 1) - 1
    BY <2>1, <2>2, <2>3, AttemptIsSmall
  <2> QED BY <1>0, <2>1, <2>4, <2>5 DEF WaitInv, Waited
<1>4. ASSUME NEW d \in 0..CallTime, J!GiveUp(d) \/ J!Refused(d) \/ J!Answered(d)
      PROVE  WaitInv'
  <2>1. /\ jpc = "asked" /\ jpc' = "done" /\ waited' = waited + d /\ attempt' = attempt
    BY <1>4 DEF J!GiveUp, J!Refused, J!Answered, J!Finish
  <2>2. waited <= Waited(attempt) /\ Waited(attempt) \in Nat
    BY <2>1, AttemptIsSmall DEF WaitInv, Waited
  <2>3. waited' \in Nat /\ waited' <= Waited(attempt + 1)
    BY <2>1, <2>2, AttemptIsSmall
  <2> QED BY <1>0, <2>1, <2>3 DEF WaitInv, Waited
<1> QED BY <1>1, <1>2, <1>3, <1>4 DEF J!Wait
----------------------------------------------------------------------------
(* The command.                                                           *)

LEMMA WaitInvHolds == Spec => []WaitInv
<1>1. Init => WaitInv
  <2>1. Power(0) = 1 /\ 0 * CallTime = 0
    BY SettingIsClamped, Doubling
  <2> QED BY <2>1, SettingIsClamped DEF Init, J!Init, WaitInv, Waited
<1>2. WaitInv /\ [Next]_vars => WaitInv'
  <2> SUFFICES ASSUME WaitInv, [Next]_vars PROVE WaitInv'
    OBVIOUS
  <2>1. CASE UNCHANGED jev
    BY <2>1 DEF jev, WaitInv, Waited, J!Retries
  <2>2. CASE CallJev
    BY <2>2, CallWaits DEF CallJev
  <2>3. CASE Record \/ RecordFails
    <3>1. J!Forget \/ UNCHANGED jev
      BY <2>3 DEF Record, RecordFails, Judged, J!Return
    <3> QED BY <2>1, <3>1, ForgetWaits
  <2>4. CASE Rerun
    BY <2>4, ForgetWaits DEF Rerun
  <2>5. CASE Open \/ OpenFails \/ Blank \/ BadLine \/ Emit \/ Kill
    <3>1. UNCHANGED jev
      BY <2>5 DEF Open, OpenFails, Blank, BadLine, Emit, Kill
    <3> QED BY <2>1, <3>1
  <2>6. CASE Lookup \/ AppendObserved \/ AppendFails \/ SkipRepeat \/ ObservedNew \/ Check
    <3>1. UNCHANGED jev
      BY <2>6 DEF Lookup, AppendObserved, AppendFails, SkipRepeat, ObservedNew, Check
    <3> QED BY <2>1, <3>1
  <2>7. CASE UNCHANGED vars
    BY <2>1, <2>7 DEF vars
  <2> QED BY <2>2, <2>3, <2>4, <2>5, <2>6, <2>7 DEF Next, Step
<1> QED BY <1>1, <1>2, PTL DEF Spec

\* However often the adapter retries and whatever the service answers, a call
\* takes at most the time of all its attempts and of the back-offs between
\* them, in every run of the command.
THEOREM WaitIsBounded == Spec => []WaitBounded
<1>1. ASSUME WaitInv PROVE WaitBounded
  <2>1. attempt \in 0..5 /\ J!Retries \in attempt..5 /\ J!Retries \in Nat
    BY <1>1, AttemptIsSmall, SettingIsClamped
  <2>2. /\ Power(attempt) <= Power(J!Retries)
        /\ Power(attempt) \in Nat /\ Power(J!Retries) \in Nat
    <3>1. J!Retries \in 0..5
      BY SettingIsClamped
    <3> QED BY <2>1, <3>1, Doubling
  <2>3. (attempt + 1) * CallTime <= (J!Retries + 1) * CallTime
    <3>1. attempt + 1 \in Nat /\ J!Retries + 1 \in Nat /\ attempt + 1 <= J!Retries + 1
      BY <2>1
    <3> QED BY <3>1, OneMore
  <2>4. waited <= Waited(attempt + 1)
    <3>1. Waited(attempt + 1) = Waited(attempt) + CallTime /\ Waited(attempt) \in Nat
      BY <1>1, AttemptIsSmall
    <3> QED BY <1>1, <3>1, AttemptIsSmall DEF WaitInv
  <2>5. waited <= (J!Retries + 1) * CallTime + Power(J!Retries) - 1
    <3>1. PICK some, all : /\ some = (attempt + 1) * CallTime
                           /\ all = (J!Retries + 1) * CallTime
      OBVIOUS
    <3>2. some \in Nat /\ all \in Nat /\ some <= all
      BY <2>1, <2>3, <3>1, SettingIsClamped
    <3>3. waited <= some + Power(attempt) - 1
      BY <2>4, <3>1 DEF Waited
    <3>4. waited \in Nat
      BY <1>1 DEF WaitInv
    <3>5. waited <= all + Power(J!Retries) - 1
      BY <2>2, <3>2, <3>3, <3>4
    <3> QED BY <3>1, <3>5
  <2>6. jpc \in {"idle", "asked", "done"}
    BY <1>1 DEF WaitInv
  <2> QED BY <1>1, <2>1, <2>5 DEF WaitBounded, J!WaitBounded, J!Backoffs, WaitInv, Power
<1> QED BY <1>1, WaitInvHolds, PTL

----------------------------------------------------------------------------
(* What is decided.                                                       *)

\* The engine's aggregate() is Aggregate's.

LEMMA SameDecide ==
  ASSUME NEW checks, NEW j, NEW t
  PROVE  E!Decide(checks, j, t) = Decide(checks, j, t)
<1>1. \A when, verdict, code : E!Settle(when, verdict, code) = Settle(when, verdict, code)
  BY DEF E!Settle, Settle
<1>2. E!Disqualified(checks) = Disqualified(checks)
  BY <1>1 DEF E!Disqualified, Disqualified
<1>3. E!Signalled(checks) = Signalled(checks)
  BY <1>1 DEF E!Signalled, Signalled
<1>4. E!Unanswered(j) = Unanswered(j)
  BY <1>1 DEF E!Unanswered, Unanswered, E!SemanticFailures, SemanticFailures,
              E!Questions, Questions
<1>5. \A q, code : E!Unsure(j, q, code, t) = Unsure(j, q, code, t)
  BY <1>1 DEF E!Unsure, Unsure, E!BelowFloor, BelowFloor, E!Confidence, Confidence
<1>6. E!Scored(j, t) = Scored(j, t)
  BY <1>1, <1>5 DEF E!Scored, Scored, E!BelowFloor, BelowFloor, E!OverCeiling, OverCeiling
<1>7. E!Matches(checks, j, t) = Matches(checks, j, t)
  BY <1>2, <1>3, <1>4, <1>6 DEF E!Matches, Matches
<1> QED BY <1>7 DEF E!Decide, Decide, E!PayReasons, PayReasons

LEMMA VerdictIs ==
  ASSUME NEW checks, IsChecks(checks), NEW j, NEW t, NEW verdict,
         verdict = E!Decide(checks, j, t).verdict
  PROVE  /\ verdict \in {"PAY", "HOLD", "REVIEW"}
         /\ verdict = "PAY" =>
              /\ checks.status = "PASS" /\ j.status = "OK" /\ Questions \subseteq DOMAIN j.scores
              /\ ~AnyUnsure(j, t) /\ ~TooRisky(j, t) /\ ~NoEvidence(j, t) /\ ~NoUse(j, t)
<1>1. verdict = RuleVerdict(checks, j, t)
  BY SameDecide, DecideVerdict
<1> QED BY <1>1 DEF RuleVerdict

----------------------------------------------------------------------------
(* The judge and the checks of one candidate.                             *)

\* evaluate() ends with a failure or with what the reply says.
ReplyInv == jpc = "done" => \/ judgment.status \in SemanticFailures
                            \/ judgment = J!ParseResponse(reply)

\* A candidate under evaluation is the one of the current line, and was checked.
PlaceInv ==
  /\ mode \in {"single", "jsonl"} /\ judge \in {"jev", "fixture"} /\ input \in Inputs
  /\ at \in Nat \ {0}
  /\ cpc \in {"observe", "check", "judge"} => at <= Len(input) /\ input[at].kind = "candidate"
RunInv == /\ running = [p \in {1} |-> running[1]]
          /\ \A r \in running[1] : IsChecks(r.checks)

JudgeInv == ReplyInv /\ PlaceInv /\ RunInv

LEMMA CallReplies ==
  ASSUME ReplyInv, J!Ask \/ J!CannotAsk \/ \E d \in 0..CallTime : J!Wait(d)
  PROVE  ReplyInv'
<1>1. J!Failure("PROVIDER_ERROR").status \in SemanticFailures
      /\ J!Failure("TIMEOUT").status \in SemanticFailures
  BY DEF J!Failure, SemanticFailures
<1>2. CASE J!Ask
  BY <1>2 DEF J!Ask, ReplyInv
<1>3. CASE J!CannotAsk
  BY <1>1, <1>3 DEF J!CannotAsk, ReplyInv
<1>4. ASSUME NEW d \in 0..CallTime, J!Retry(d) PROVE ReplyInv'
  BY <1>4 DEF J!Retry, ReplyInv
<1>5. ASSUME NEW d \in 0..CallTime, J!GiveUp(d) \/ J!Refused(d) PROVE ReplyInv'
  BY <1>1, <1>5 DEF J!GiveUp, J!Refused, J!Finish, ReplyInv
<1>6. ASSUME NEW d \in 0..CallTime, J!Answered(d) PROVE ReplyInv'
  <2>1. PICK body \in Replies : reply' = body /\ judgment' = J!ParseResponse(body)
    BY <1>6 DEF J!Answered, J!Finish
  <2>2. judgment' = J!ParseResponse(reply')
    BY <2>1
  <2>3. J!ParseResponse(reply)' = J!ParseResponse(reply')
    OBVIOUS
  <2> QED BY <2>2, <2>3 DEF ReplyInv
<1> QED BY <1>2, <1>3, <1>4, <1>5, <1>6 DEF J!Wait

LEMMA ForgetReplies ==
  ASSUME J!Forget PROVE ReplyInv'
BY DEF J!Forget, ReplyInv

LEMMA JudgeInvHolds == Spec => []JudgeInv
<1>1. Init => JudgeInv
  <2> SUFFICES ASSUME Init PROVE JudgeInv
    OBVIOUS
  <2>1. ReplyInv
    BY DEF Init, J!Init, ReplyInv
  <2>2. PlaceInv
    BY DEF Init, PlaceInv
  <2>3. RunInv
    BY DEF Init, E!Init, RunInv
  <2> QED BY <2>1, <2>2, <2>3 DEF JudgeInv
<1>2. JudgeInv /\ [Next]_vars => JudgeInv'
  <2> SUFFICES ASSUME JudgeInv, [Next]_vars PROVE JudgeInv'
    OBVIOUS
  <2> USE DEF JudgeInv
  <2>1. ReplyInv'
    <3>1. CASE UNCHANGED jev
      BY <3>1 DEF jev, ReplyInv
    <3>2. CASE CallJev
      BY <3>2, CallReplies DEF CallJev
    <3>3. CASE Record \/ RecordFails
      <4>1. J!Forget \/ UNCHANGED jev
        BY <3>3 DEF Record, RecordFails, Judged, J!Return
      <4> QED BY <3>1, <4>1, ForgetReplies
    <3>4. CASE Rerun
      BY <3>4, ForgetReplies DEF Rerun
    <3>5. CASE Open \/ OpenFails \/ Blank \/ BadLine \/ Emit \/ Kill
      <4>1. UNCHANGED jev
        BY <3>5 DEF Open, OpenFails, Blank, BadLine, Emit, Kill
      <4> QED BY <3>1, <4>1
    <3>6. CASE Lookup \/ AppendObserved \/ AppendFails \/ SkipRepeat \/ ObservedNew \/ Check
      <4>1. UNCHANGED jev
        BY <3>6 DEF Lookup, AppendObserved, AppendFails, SkipRepeat, ObservedNew, Check
      <4> QED BY <3>1, <4>1
    <3>7. CASE UNCHANGED vars
      BY <3>1, <3>7 DEF vars
    <3> QED BY <3>2, <3>3, <3>4, <3>5, <3>6, <3>7 DEF Next, Step
  <2>2. PlaceInv'
    <3>1. CASE Open \/ Emit \/ Kill
      BY <3>1 DEF Open, Emit, Kill, Goto, args, progress, shell, PlaceInv
    <3>2. CASE OpenFails \/ BadLine \/ AppendFails \/ RecordFails
      BY <3>2 DEF OpenFails, BadLine, AppendFails, RecordFails, Fail, Goto, args, progress,
                  PlaceInv
    <3>3. CASE Blank
      BY <3>3 DEF Blank, Goto, args, PlaceInv
    <3>4. CASE Lookup \/ AppendObserved \/ ObservedNew \/ Check \/ CallJev
      BY <3>4 DEF Lookup, AppendObserved, ObservedNew, Check, CallJev, Goto, At, args,
                  progress, PlaceInv
    <3>5. CASE SkipRepeat \/ Record
      <4>1. /\ cpc' = "read" /\ at' = at + 1 /\ UNCHANGED args
        BY <3>5 DEF SkipRepeat, Record, Keep, Goto
      <4> QED BY <4>1 DEF args, PlaceInv
    <3>6. CASE Rerun
      BY <3>6 DEF Rerun, args, PlaceInv
    <3>7. CASE UNCHANGED vars
      BY <3>7 DEF vars, args, progress, PlaceInv
    <3> QED BY <3>1, <3>2, <3>3, <3>4, <3>5, <3>6, <3>7 DEF Next, Step
  <2>3. RunInv'
    <3>1. CASE UNCHANGED running
      BY <3>1 DEF RunInv
    <3>2. CASE Open \/ OpenFails \/ Blank \/ BadLine \/ CallJev \/ Emit \/ Kill \/ UNCHANGED vars
      <4>1. UNCHANGED running
        BY <3>2 DEF Open, OpenFails, Blank, BadLine, CallJev, Emit, Kill, vars, engine
      <4> QED BY <3>1, <4>1
    <3>3. CASE Lookup \/ AppendObserved \/ AppendFails \/ SkipRepeat \/ ObservedNew
      <4>1. UNCHANGED running
        BY <3>3 DEF Lookup, AppendObserved, AppendFails, SkipRepeat, ObservedNew, E!LookupOf,
                    E!AppendObserved, E!AppendObservedFails, E!IndexObserved
      <4> QED BY <3>1, <4>1
    <3>4. CASE Check
      <4>1. PICK e \in pending[1] : E!RunTheChecks(1, e)
        BY <3>4 DEF Check
      <4>2. PICK r : /\ r = [dec |-> e.dec, cand |-> e.cand, checks |-> E!ChecksOf(1, e)]
                     /\ running' = [running EXCEPT ![1] = running[1] \cup {r}]
        BY <4>1 DEF E!RunTheChecks
      <4>3. IsChecks(r.checks)
        BY <4>2 DEF E!ChecksOf, E!RunChecks, IsChecks
      <4> QED BY <4>2, <4>3 DEF RunInv
    <3>5. CASE Record \/ RecordFails
      <4>1. \E r : running' = [running EXCEPT ![1] = running[1] \ {r}]
        BY <3>5 DEF Record, RecordFails, E!RecordOf, E!RecordFailsOf
      <4> QED BY <4>1 DEF RunInv
    <3>6. CASE Rerun
      <4>1. running' = [running EXCEPT ![1] = {}]
        BY <3>6 DEF Rerun, E!Restart
      <4> QED BY <4>1 DEF RunInv
    <3> QED BY <3>2, <3>3, <3>4, <3>5, <3>6 DEF Next, Step
  <2> QED BY <2>1, <2>2, <2>3
<1> QED BY <1>1, <1>2, PTL DEF Spec

----------------------------------------------------------------------------
(* The ledger of the command.                                             *)

LogInv == /\ \E S : ledger \in Seq(S)
          /\ before \in Nat /\ before <= Len(ledger)

\* A step writes nothing, an observation or an evaluation.

LEMMA Writing ==
  ASSUME [Next]_vars
  PROVE  \/ UNCHANGED ledger
         \/ \E e : e.type = "candidate_observed" /\ ledger' = Append(ledger, e)
         \/ \E r \in running[1] :
              /\ cpc = "judge" /\ Judged(r)
              /\ ledger' = Append(ledger, E!Evaluated(r, Judgment(r)))
<1>1. CASE Open \/ OpenFails \/ Blank \/ BadLine \/ CallJev \/ Emit \/ Kill \/ UNCHANGED vars
  BY <1>1 DEF Open, OpenFails, Blank, BadLine, CallJev, Emit, Kill, vars, engine
<1>2. CASE Lookup \/ SkipRepeat \/ ObservedNew \/ Check \/ Rerun
  BY <1>2 DEF Lookup, SkipRepeat, ObservedNew, Check, Rerun, E!LookupOf, E!IndexObserved,
              E!RunTheChecks, E!Restart
<1>3. CASE AppendObserved \/ AppendFails
  <2>1. PICK e : e = E!Observed(Command)
    OBVIOUS
  <2>2. e.type = "candidate_observed"
    BY <2>1 DEF E!Observed
  <2>3. ledger' \in {ledger, Append(ledger, e)}
    BY <1>3, <2>1 DEF AppendObserved, AppendFails, E!AppendObserved, E!AppendObservedFails
  <2> QED BY <2>2, <2>3
<1>4. CASE Record \/ RecordFails
  BY <1>4 DEF Record, RecordFails, Fail, Goto, E!RecordOf, E!RecordFailsOf
<1> QED BY <1>1, <1>2, <1>3, <1>4 DEF Next, Step

LEMMA Appends ==
  ASSUME LogInv, NEW e, ledger' = Append(ledger, e)
  PROVE  /\ Len(ledger) \in Nat /\ Len(ledger') = Len(ledger) + 1
         /\ DOMAIN ledger = 1..Len(ledger) /\ DOMAIN ledger' = 1..Len(ledger) + 1
         /\ \A i \in 1..Len(ledger) : ledger'[i] = ledger[i]
         /\ ledger'[Len(ledger) + 1] = e
         /\ \E S : ledger' \in Seq(S)
<1>1. PICK S : ledger \in Seq(S)
  BY DEF LogInv
<1>2. PICK T : T = S \cup {e}
  OBVIOUS
<1>3. ledger \in Seq(T) /\ e \in T
  BY <1>1, <1>2
<1>4. /\ ledger' \in Seq(T) /\ Len(ledger') = Len(ledger) + 1
      /\ \A i \in 1..Len(ledger) : ledger'[i] = ledger[i]
      /\ ledger'[Len(ledger) + 1] = e
  BY <1>3, AppendProperties
<1>5. Len(ledger) \in Nat /\ DOMAIN ledger = 1..Len(ledger) /\ DOMAIN ledger' = 1..Len(ledger')
  BY <1>3, <1>4, LenProperties
<1> QED BY <1>4, <1>5

LEMMA LogInvHolds == Spec => []LogInv
<1>1. Init => LogInv
  BY EmptySeq DEF Init, E!Init, LogInv
<1>2. LogInv /\ [Next]_vars => LogInv'
  <2> SUFFICES ASSUME LogInv, [Next]_vars PROVE LogInv'
    OBVIOUS
  <2>0. Len(ledger) \in Nat
    BY LenProperties DEF LogInv
  <2>1. before' = before \/ (before' = Len(ledger) /\ UNCHANGED ledger)
    <3>1. CASE Open \/ OpenFails \/ Blank \/ BadLine \/ CallJev \/ Emit \/ Kill \/ UNCHANGED vars
      BY <3>1 DEF Open, OpenFails, Blank, BadLine, CallJev, Emit, Kill, vars, Fail
    <3>2. CASE Lookup \/ AppendObserved \/ AppendFails \/ SkipRepeat \/ ObservedNew \/ Check
      BY <3>2 DEF Lookup, AppendObserved, AppendFails, SkipRepeat, ObservedNew, Check, Fail
    <3>3. CASE Record \/ RecordFails
      BY <3>3 DEF Record, RecordFails, Fail
    <3>4. CASE Rerun
      BY <3>4 DEF Rerun, E!Restart
    <3> QED BY <3>1, <3>2, <3>3, <3>4 DEF Next, Step
  <2>2. CASE UNCHANGED ledger
    BY <2>0, <2>1, <2>2 DEF LogInv
  <2>3. ASSUME NEW e, ledger' = Append(ledger, e) PROVE LogInv'
    <3>1. Len(ledger') = Len(ledger) + 1 /\ \E S : ledger' \in Seq(S)
      BY <2>3, Appends
    <3>2. before' = before
      <4>1. ledger' # ledger
        BY <2>0, <3>1
      <4> QED BY <2>1, <4>1
    <3> QED BY <2>0, <3>1, <3>2 DEF LogInv
  <2> QED BY <2>2, <2>3, Writing
<1> QED BY <1>1, <1>2, PTL DEF Spec

\* However often Jev is asked and whatever it or a fixture answers: a PAY is

\* recorded only for a reply with a usable probability and a usable confidence
\* for every question, each on the right side of its threshold.
THEOREM FullAnswerPays == Spec => PaysOnlyOnFullAnswer
<1> DEFINE t == Policy.thresholds
           Pays == /\ Len(ledger') > Len(ledger) /\ Last(ledger').type = "guard_evaluated"
                   /\ Last(ledger').decision.verdict = "PAY"
           says(q, option, range) == reply.answers[q].probabilities[option] \in range
           FullEntry == /\ input[at].entry.scores["duplication_risk"] < t.duplication_risk_max
                        /\ DOMAIN input[at].entry.scores = Questions
           FullReply ==
             /\ says("task_fit", "fits", t.task_fit_min..100)
             /\ says("incremental_value", "adds_value", t.incremental_value_min..100)
             /\ says("duplication_risk", "duplicate", 0..(t.duplication_risk_max - 1))
             /\ says("evidence_sufficiency", "sufficient", t.evidence_sufficiency_min..100)
             /\ DOMAIN reply.answers = Questions
             /\ \A q \in Questions : reply.answers[q].confidence \in t.confidence_min..100
<1>1. ASSUME JudgeInv, LogInv, [Next]_vars, Pays
      PROVE  IF judge = "fixture" THEN FullEntry ELSE FullReply
  <2>0. /\ t.task_fit_min \in Int /\ t.incremental_value_min \in Int
        /\ t.duplication_risk_max \in Int /\ t.evidence_sufficiency_min \in Int
        /\ t.confidence_min \in Int
    BY CliAssumption
  <2>1. PICK e : e = Last(ledger')
    OBVIOUS
  <2>2. PICK r \in running[1] :
          /\ cpc = "judge" /\ Judged(r) /\ e = E!Evaluated(r, Judgment(r))
    <3>1. Len(ledger) \in Nat
      BY <1>1, LenProperties DEF LogInv
    <3>2. ledger' # ledger
      BY <1>1, <3>1
    <3>3. ASSUME NEW x, ledger' = Append(ledger, x) PROVE e = x
      BY <1>1, <2>1, <3>3, Appends DEF Last
    <3>4. ASSUME NEW x, x.type = "candidate_observed", ledger' = Append(ledger, x) PROVE FALSE
      BY <1>1, <2>1, <3>3, <3>4
    <3>5. \E r \in running[1] : /\ cpc = "judge" /\ Judged(r)
                                /\ ledger' = Append(ledger, E!Evaluated(r, Judgment(r)))
      BY <1>1, <3>2, <3>4, Writing
    <3> QED BY <3>3, <3>5
  <2>3. PICK j : j = Judgment(r)
    OBVIOUS
  <2>4. /\ r.checks.status = "PASS" /\ j.status = "OK" /\ Questions \subseteq DOMAIN j.scores
        /\ ~AnyUnsure(j, t) /\ ~TooRisky(j, t) /\ ~NoEvidence(j, t) /\ ~NoUse(j, t)
    <3>1. E!Decide(r.checks, j, t).verdict = "PAY"
      BY <1>1, <2>1, <2>2, <2>3 DEF E!Evaluated
    <3>2. IsChecks(r.checks)
      BY <1>1, <2>2 DEF JudgeInv, RunInv
    <3> QED BY <3>1, <3>2, VerdictIs
  <2>5. CASE judge = "fixture"
    <3>1. PICK entry : entry = input[at].entry
      OBVIOUS
    <3>2. IsEntry(entry)
      <4>1. at \in 1..Len(input) /\ input[at].kind = "candidate" /\ input \in Inputs
        BY <1>1, <2>2, CliAssumption DEF JudgeInv, PlaceInv
      <4> QED BY <3>1, <4>1, CliAssumption
    <3>3. j = Answer(entry)
      BY <2>3, <2>4, <2>5, <3>1 DEF Judgment, Skipped
    <3>4. ~Unusable(entry) /\ entry.fail = NoFail /\ entry # NoEntry
      BY <2>4, <3>3 DEF Answer, Failed, Unusable, SemanticFailures
    <3>5. /\ DOMAIN entry.scores = Questions /\ \A q \in Questions : entry.scores[q] \in Int
          /\ j.scores = [q \in Questions |-> entry.scores[q]]
      <4>1. Questions \subseteq DOMAIN entry.scores
        BY <3>4 DEF Unusable
      <4>2. DOMAIN entry.scores \subseteq Questions /\ \A q \in DOMAIN entry.scores : entry.scores[q] \in Int
        BY <3>2, <3>4 DEF IsEntry
      <4>3. j.scores = [q \in Questions |-> entry.scores[q]]
        BY <3>3, <3>4 DEF Answer
      <4> QED BY <4>1, <4>2, <4>3
    <3>6. entry.scores["duplication_risk"] < t.duplication_risk_max
      <4>1. "duplication_risk" \in Questions
        BY DEF Questions
      <4>2. ~(entry.scores["duplication_risk"] >= t.duplication_risk_max)
        BY <2>4, <3>5, <4>1 DEF TooRisky, OverCeiling
      <4>3. entry.scores["duplication_risk"] \in Int
        BY <3>5, <4>1
      <4> QED BY <2>0, <4>2, <4>3
    <3> QED BY <2>5, <3>1, <3>5, <3>6
  <2>6. CASE judge # "fixture"
    <3>1. judge = "jev" /\ Asked(r)
      BY <1>1, <2>4, <2>6 DEF JudgeInv, PlaceInv, Asked
    <3>2. j = judgment /\ jpc = "done"
      BY <2>2, <2>3, <2>4, <3>1 DEF Judgment, Judged, J!Return
    <3>3. j = J!ParseResponse(reply)
      BY <1>1, <2>4, <3>2 DEF JudgeInv, ReplyInv, SemanticFailures
    <3>4. /\ J!Complete(reply)
          /\ j.scores = [q \in J!Questions |->
                           reply.answers[q].probabilities[J!Positive(q)]]
          /\ j.confidence = [q \in J!Questions |-> reply.answers[q].confidence]
      BY <2>4, <3>3 DEF J!ParseResponse, J!Failure
    <3>5. J!Questions = Questions
      BY DEF J!Questions, Questions
    <3>6. /\ DOMAIN reply.answers = Questions
          /\ \A q \in Questions :
               /\ reply.answers[q].probabilities[J!Positive(q)] \in 0..100
               /\ reply.answers[q].confidence \in 0..100
               /\ j.scores[q] = reply.answers[q].probabilities[J!Positive(q)]
               /\ j.confidence[q] = reply.answers[q].confidence
               /\ q \in DOMAIN j.confidence
      BY <3>4, <3>5 DEF J!Complete, J!Usable, J!One
    <3>7. /\ J!Positive("task_fit") = "fits" /\ J!Positive("incremental_value") = "adds_value"
          /\ J!Positive("duplication_risk") = "duplicate"
          /\ J!Positive("evidence_sufficiency") = "sufficient"
      BY DEF J!Positive, J!Options
    <3>8. /\ "task_fit" \in Questions /\ "incremental_value" \in Questions
          /\ "duplication_risk" \in Questions /\ "evidence_sufficiency" \in Questions
      BY DEF Questions
    <3>9. \A q \in Questions : reply.answers[q].confidence \in t.confidence_min..100
      <4> SUFFICES ASSUME NEW q \in Questions
                   PROVE  reply.answers[q].confidence \in t.confidence_min..100
        OBVIOUS
      <4>1. ~(reply.answers[q].confidence < t.confidence_min)
        BY <2>4, <3>6 DEF AnyUnsure, Confidence, BelowFloor
      <4>2. reply.answers[q].confidence \in 0..100
        BY <3>6
      <4> QED BY <2>0, <4>1, <4>2
    <3>10. says("task_fit", "fits", t.task_fit_min..100)
      <4>1. /\ ~(j.scores["task_fit"] < t.task_fit_min)
            /\ j.scores["task_fit"] = reply.answers["task_fit"].probabilities["fits"]
            /\ j.scores["task_fit"] \in 0..100
        BY <2>4, <3>6, <3>7, <3>8 DEF NoUse, BelowFloor
      <4> QED BY <2>0, <4>1
    <3>11. says("incremental_value", "adds_value", t.incremental_value_min..100)
      <4>1. /\ ~(j.scores["incremental_value"] < t.incremental_value_min)
            /\ j.scores["incremental_value"]
                 = reply.answers["incremental_value"].probabilities["adds_value"]
            /\ j.scores["incremental_value"] \in 0..100
        BY <2>4, <3>6, <3>7, <3>8 DEF NoUse, BelowFloor
      <4> QED BY <2>0, <4>1
    <3>12. says("duplication_risk", "duplicate", 0..(t.duplication_risk_max - 1))
      <4>1. /\ ~(j.scores["duplication_risk"] >= t.duplication_risk_max)
            /\ j.scores["duplication_risk"]
                 = reply.answers["duplication_risk"].probabilities["duplicate"]
            /\ j.scores["duplication_risk"] \in 0..100
        BY <2>4, <3>6, <3>7, <3>8 DEF TooRisky, OverCeiling
      <4> QED BY <2>0, <4>1
    <3>13. says("evidence_sufficiency", "sufficient", t.evidence_sufficiency_min..100)
      <4>1. /\ ~(j.scores["evidence_sufficiency"] < t.evidence_sufficiency_min)
            /\ j.scores["evidence_sufficiency"]
                 = reply.answers["evidence_sufficiency"].probabilities["sufficient"]
            /\ j.scores["evidence_sufficiency"] \in 0..100
        BY <2>4, <3>6, <3>7, <3>8 DEF NoEvidence, BelowFloor
      <4> QED BY <2>0, <4>1
    <3> QED BY <2>6, <3>6, <3>9, <3>10, <3>11, <3>12, <3>13
  <2> QED BY <2>5, <2>6
<1>2. JudgeInv /\ LogInv /\ [Next]_vars =>
        [Pays => IF judge = "fixture" THEN FullEntry ELSE FullReply]_vars
  BY <1>1
<1> QED BY <1>2, JudgeInvHolds, LogInvHolds, PTL DEF Spec, PaysOnlyOnFullAnswer

----------------------------------------------------------------------------
(* How the command exits.                                                 *)

\* What this run recorded so far.
Going   == cpc \notin {"ended", "killed"}
Says(v) == \E i \in ThisRun : ledger[i].decision.verdict = v
Failing == \E i \in ThisRun : ledger[i].judgment \in SemanticFailures

\* The worst decision of this run, while it goes on.
WorstIs ==
  /\ worst \in {0, 10, 20}
  /\ worst = 20 <=> Says("REVIEW")
  /\ worst = 10 <=> (Says("HOLD") /\ ~Says("REVIEW"))
  /\ \A i \in ThisRun : ledger[i].decision.verdict \in {"PAY", "HOLD", "REVIEW"}

\* One candidate has one result, which tells whether its judgment failed.
OneResult ==
  /\ at = 1 => results = <<>> /\ ~Failing
  /\ at # 1 => (results[1].status \notin {"OK", "SKIPPED"} <=> Failing)

ExitInv ==
  /\ mode = "single" => Len(input) = 1 /\ input[1].kind # "blank"
  /\ Going => WorstIs /\ (mode = "single" => OneResult)
  /\ ExitMeansWorst

\* How an event changes what this run recorded.

LEMMA Telling ==
  ASSUME LogInv, NEW e, ledger' = Append(ledger, e), before' = before
  PROVE  /\ e.type # "guard_evaluated" =>
              /\ ThisRun' = ThisRun
              /\ \A i \in ThisRun : ledger'[i] = ledger[i]
         /\ e.type = "guard_evaluated" =>
              /\ ThisRun' = ThisRun \cup {Len(ledger) + 1} /\ ledger'[Len(ledger) + 1] = e
              /\ \A i \in ThisRun : ledger'[i] = ledger[i]
<1>1. PICK n : n = Len(ledger)
  OBVIOUS
<1>2. /\ n \in Nat /\ before \in Nat /\ before <= n
      /\ DOMAIN ledger = 1..n /\ DOMAIN ledger' = 1..n + 1
      /\ \A i \in 1..n : ledger'[i] = ledger[i]
      /\ ledger'[n + 1] = e
  BY <1>1, Appends DEF LogInv
<1>3. \A i \in ThisRun : i \in 1..n /\ ledger'[i] = ledger[i]
  BY <1>2 DEF ThisRun
<1>4. ASSUME NEW i PROVE i \in ThisRun' <=> (i \in ThisRun \/ (i = n + 1 /\ e.type = "guard_evaluated"))
  <2>1. i \in 1..n + 1 <=> (i \in 1..n \/ i = n + 1)
    BY <1>2
  <2>2. n + 1 > before /\ n + 1 \notin 1..n
    BY <1>2
  <2> QED BY <1>2, <2>1, <2>2 DEF ThisRun
<1> QED BY <1>1, <1>2, <1>3, <1>4

LEMMA WorseOfTwo ==
  ASSUME NEW a \in {0, 10, 20}, NEW b \in {0, 10, 20}
  PROVE  Max({a, b}) = IF a >= b THEN a ELSE b
BY DEF Max

\* Nothing is recorded, and this run goes on from where it was.
LEMMA TellsTheSame ==
  ASSUME ThisRun' = ThisRun, \A i \in ThisRun : ledger'[i] = ledger[i]
  PROVE  /\ \A v : Says(v)' <=> Says(v)
         /\ Failing' <=> Failing
         /\ WorstIs /\ worst' = worst => WorstIs'
<1>1. \A v : Says(v)' <=> Says(v)
  BY DEF Says
<1>2. Failing' <=> Failing
  BY DEF Failing
<1>3. ASSUME WorstIs, worst' = worst PROVE WorstIs'
  <2>1. (Says("REVIEW"))' <=> Says("REVIEW")
    BY <1>1
  <2>2. (Says("HOLD"))' <=> Says("HOLD")
    BY <1>1
  <2>3. \A i \in ThisRun' : ledger'[i].decision.verdict \in {"PAY", "HOLD", "REVIEW"}
    BY <1>3 DEF WorstIs
  <2> QED BY <1>3, <2>1, <2>2, <2>3 DEF WorstIs
<1> QED BY <1>1, <1>2, <1>3

\* A decision is recorded, and the loop keeps the worse of it and those before.
LEMMA TellsOneMore ==
  ASSUME NEW e, NEW n, e.type = "guard_evaluated", e.decision.verdict \in {"PAY", "HOLD", "REVIEW"},
         n \notin ThisRun, ThisRun' = ThisRun \cup {n}, ledger'[n] = e,
         \A i \in ThisRun : ledger'[i] = ledger[i]
  PROVE  /\ Failing' <=> Failing \/ e.judgment \in SemanticFailures
         /\ WorstIs /\ worst' = Max({worst, ExitCode(e.decision.verdict)}) => WorstIs'
<1>1. Failing' <=> Failing \/ e.judgment \in SemanticFailures
  BY DEF Failing
<1>2. \A v : Says(v)' <=> Says(v) \/ e.decision.verdict = v
  BY DEF Says
<1>3. ASSUME WorstIs, worst' = Max({worst, ExitCode(e.decision.verdict)}) PROVE WorstIs'
  <2>1. PICK v : v = e.decision.verdict
    OBVIOUS
  <2>2. /\ v \in {"PAY", "HOLD", "REVIEW"} /\ ExitCode(v) \in {0, 10, 20}
        /\ v = "PAY" => ExitCode(v) = 0
        /\ v = "HOLD" => ExitCode(v) = 10
        /\ v = "REVIEW" => ExitCode(v) = 20
    BY <2>1 DEF ExitCode
  <2>3. worst' = IF worst >= ExitCode(v) THEN worst ELSE ExitCode(v)
    BY <1>3, <2>1, <2>2, WorseOfTwo DEF WorstIs
  <2>4. (Says("REVIEW"))' <=> (Says("REVIEW") \/ v = "REVIEW")
    BY <1>2, <2>1
  <2>5. (Says("HOLD"))' <=> (Says("HOLD") \/ v = "HOLD")
    BY <1>2, <2>1
  <2>6. \A i \in ThisRun' : ledger'[i].decision.verdict \in {"PAY", "HOLD", "REVIEW"}
    BY <1>3 DEF WorstIs
  <2>7. /\ worst \in {0, 10, 20}
        /\ worst = 20 <=> Says("REVIEW")
        /\ worst = 10 <=> (Says("HOLD") /\ ~Says("REVIEW"))
    BY <1>3 DEF WorstIs
  <2>8. /\ worst' \in {0, 10, 20}
        /\ worst' = 20 <=> (worst = 20 \/ v = "REVIEW")
        /\ worst' = 10 <=> ((worst = 10 \/ v = "HOLD") /\ worst # 20 /\ v # "REVIEW")
    BY <2>2, <2>3, <2>7
  <2> QED BY <2>4, <2>5, <2>6, <2>7, <2>8 DEF WorstIs
<1> QED BY <1>1, <1>2, <1>3

\* A judgment is an answer, a failure, or none.
LEMMA StatusIs ==
  ASSUME JudgeInv, cpc = "judge", NEW r \in running[1], Judged(r)
  PROVE  Judgment(r).status \in SemanticFailures \cup {"OK", "SKIPPED"}
<1>1. CASE r.checks.status # "PASS"
  BY <1>1 DEF Judgment, Skipped
<1>2. CASE r.checks.status = "PASS" /\ judge = "jev"
  <2>1. Judgment(r) = judgment /\ jpc = "done"
    BY <1>2 DEF Judgment, Judged, Asked, J!Return
  <2>2. J!ParseResponse(reply).status \in {"OK", "INVALID_RESPONSE"}
    BY DEF J!ParseResponse, J!Failure
  <2> QED BY <2>1, <2>2 DEF JudgeInv, ReplyInv, SemanticFailures
<1>3. CASE r.checks.status = "PASS" /\ judge # "jev"
  <2>1. PICK entry : entry = input[at].entry
    OBVIOUS
  <2>2. Judgment(r) = Answer(entry)
    BY <1>3, <2>1 DEF Judgment
  <2>3. Answer(entry).status \in SemanticFailures \cup {"OK"}
    BY DEF Answer, Failed, Unusable, SemanticFailures
  <2> QED BY <2>2, <2>3
<1> QED BY <1>1, <1>2, <1>3

\* What ends the command otherwise than at the end of its file.
LEMMA Stops ==
  ASSUME ExitInv, OpenFails \/ BadLine \/ AppendFails \/ RecordFails \/ Kill
  PROVE  ExitInv'
<1>1. /\ UNCHANGED args
      /\ cpc' = "killed" \/ (cpc' = "ended" /\ exit' \in {Traceback, ExitInputError, ExitLedgerError})
  BY DEF OpenFails, BadLine, AppendFails, RecordFails, Kill, Fail, Goto
<1>2. ~Going' /\ ~Clean'
  BY <1>1 DEF Going, Clean, Ended
<1> QED BY <1>1, <1>2 DEF ExitInv, ExitMeansWorst, args

\* What neither records nor keeps anything.
LEMMA GoesOn ==
  ASSUME ExitInv, PlaceInv, Going, ThisRun' = ThisRun, \A i \in ThisRun : ledger'[i] = ledger[i],
         cpc' \notin {"ended", "killed"}, UNCHANGED <<mode, input, at, results, worst>>
  PROVE  ExitInv'
<1>1. WorstIs' /\ (Failing' <=> Failing)
  BY TellsTheSame DEF ExitInv
<1>2. ~Clean'
  BY DEF Clean, Ended
<1>3. mode' = "single" => OneResult'
  BY <1>1 DEF ExitInv, OneResult
<1> QED BY <1>1, <1>2, <1>3 DEF ExitInv, ExitMeansWorst

\* The loop keeps an item for the current line, and whether it is an outage.
LEMMA KeepsOne ==
  ASSUME ExitInv, PlaceInv, cpc \in {"observe", "judge"}, WorstIs',
         NEW item, NEW code, Keep(item, code), UNCHANGED args, cpc' = "read",
         Failing' <=> Failing \/ item.status \notin {"OK", "SKIPPED"}
  PROVE  ExitInv'
<1>1. ~Clean'
  BY DEF Clean, Ended
<1>2. ASSUME mode' = "single" PROVE OneResult'
  <2>1. mode = "single" /\ Len(input) = 1
    BY <1>2 DEF args, ExitInv
  <2>2. at = 1
    BY <2>1 DEF PlaceInv
  <2>3. results = <<>> /\ ~Failing
    BY <2>1, <2>2 DEF ExitInv, Going, OneResult
  <2>4. at' = 2 /\ results' = <<item>>
    BY <2>2, <2>3 DEF Keep
  <2>5. results'[1].status \notin {"OK", "SKIPPED"} <=> Failing'
    BY <2>3, <2>4
  <2> QED BY <2>4, <2>5 DEF OneResult
<1> QED BY <1>1, <1>2 DEF ExitInv, ExitMeansWorst, args

LEMMA BeginsAgain ==
  ASSUME ExitInv, LogInv, Rerun
  PROVE  ExitInv'
<1>1. /\ cpc' = "open" /\ at' = 1 /\ results' = <<>> /\ worst' = 0
      /\ before' = Len(ledger) /\ ledger' = ledger /\ UNCHANGED args
  BY DEF Rerun, E!Restart
<1>2. ThisRun' = {}
  <2>1. DOMAIN ledger = 1..Len(ledger) /\ Len(ledger) \in Nat
    BY LenProperties DEF LogInv
  <2>2. \A i \in DOMAIN ledger : ~(i > Len(ledger))
    BY <2>1
  <2> QED BY <1>1, <2>2 DEF ThisRun
<1>3. ~Clean'
  BY <1>1 DEF Clean, Ended
<1>4. ~Failing' /\ ~(Says("REVIEW"))' /\ ~(Says("HOLD"))'
  BY <1>2 DEF Failing, Says
<1>5. WorstIs'
  BY <1>1, <1>2, <1>4 DEF WorstIs
<1>6. OneResult'
  BY <1>1, <1>4 DEF OneResult
<1> QED BY <1>1, <1>3, <1>5, <1>6 DEF ExitInv, ExitMeansWorst, args

LEMMA Exits ==
  ASSUME ExitInv, PlaceInv, Emit
  PROVE  ExitInv'
<1>1. /\ cpc = "read" /\ cpc' = "ended" /\ at > Len(input) /\ exit' = Code
      /\ ledger' = ledger /\ before' = before /\ UNCHANGED args
  BY DEF Emit, Goto, engine
<1>2. /\ WorstIs
      /\ mode = "single" => (results[1].status \notin {"OK", "SKIPPED"} <=> Failing)
  <2>1. Going
    BY <1>1 DEF Going
  <2>2. mode = "single" => at # 1
    BY <1>1 DEF ExitInv
  <2> QED BY <2>1, <2>2 DEF ExitInv, OneResult
<1>3. PICK said, lost : /\ said = {ledger[i].decision.verdict : i \in ThisRun}
                        /\ lost = {ledger[i].judgment : i \in ThisRun} \cap SemanticFailures
  OBVIOUS
<1>4. /\ "REVIEW" \in said <=> Says("REVIEW")
      /\ "HOLD" \in said <=> Says("HOLD")
      /\ lost # {} <=> Failing
      /\ said \subseteq {"PAY", "HOLD", "REVIEW"}
  BY <1>2, <1>3 DEF Says, Failing, WorstIs
<1>5. ThisRun' = ThisRun
  BY <1>1 DEF ThisRun
<1>6. mode' = mode /\ ~Going'
  BY <1>1 DEF args, Going
<1>7. ASSUME CASE exit' = 0  -> said \subseteq {"PAY"}
               [] exit' = 10 -> "HOLD" \in said /\ "REVIEW" \notin said
               [] exit' = 20 -> "REVIEW" \in said /\ (mode = "single" => lost = {})
               [] exit' = 4  -> mode = "single" /\ lost # {}
               [] OTHER      -> FALSE
      PROVE  ExitInv'
  <2>1. /\ said = {ledger'[i].decision.verdict : i \in ThisRun'}
        /\ lost = {ledger'[i].judgment : i \in ThisRun'} \cap SemanticFailures
    BY <1>1, <1>3, <1>5
  <2>2. ExitMeansWorst'
    BY <1>6, <1>7, <2>1 DEF ExitMeansWorst
  <2> QED BY <1>1, <1>6, <2>2 DEF ExitInv, args
<1>8. CASE mode = "single" /\ Failing
  <2>1. exit' = 4
    BY <1>1, <1>2, <1>8 DEF Code, ExitProviderError
  <2> QED BY <1>4, <1>7, <1>8, <2>1
<1>9. CASE ~(mode = "single" /\ Failing)
  <2>1. exit' = worst
    BY <1>1, <1>2, <1>9 DEF Code
  <2>2. /\ worst = 0 => said \subseteq {"PAY"}
        /\ worst = 10 => "HOLD" \in said /\ "REVIEW" \notin said
        /\ worst = 20 => "REVIEW" \in said
        /\ worst \in {0, 10, 20}
        /\ mode = "single" => lost = {}
    BY <1>2, <1>4, <1>9 DEF WorstIs
  <2> QED BY <1>7, <2>1, <2>2
<1> QED BY <1>8, <1>9

LEMMA ExitInvHolds == Spec => []ExitInv
<1>1. Init => ExitInv
  <2> SUFFICES ASSUME Init PROVE ExitInv
    OBVIOUS
  <2>1. ledger = <<>> /\ cpc = "open" /\ worst = 0 /\ at = 1 /\ results = <<>>
    BY DEF Init, E!Init
  <2>2. ThisRun = {}
    BY <2>1, EmptySeq DEF ThisRun
  <2>3. ~Failing /\ ~Says("REVIEW") /\ ~Says("HOLD") /\ ~Clean
    BY <2>1, <2>2 DEF Failing, Says, Clean, Ended
  <2>4. WorstIs /\ OneResult
    BY <2>1, <2>2, <2>3 DEF WorstIs, OneResult
  <2> QED BY <2>3, <2>4 DEF Init, ExitInv, ExitMeansWorst
<1>2. ExitInv /\ JudgeInv /\ LogInv /\ [Next]_vars => ExitInv'
  <2> SUFFICES ASSUME ExitInv, JudgeInv, LogInv, [Next]_vars PROVE ExitInv'
    OBVIOUS
  <2>0. PlaceInv
    BY DEF JudgeInv
  <2>1. CASE OpenFails \/ BadLine \/ AppendFails \/ RecordFails \/ Kill
    BY <2>1, Stops
  <2>2. CASE Open \/ Lookup \/ ObservedNew \/ Check \/ CallJev
    <3>1. /\ cpc \notin {"ended", "killed"} /\ cpc' \notin {"ended", "killed"}
          /\ ledger' = ledger /\ before' = before
          /\ UNCHANGED <<mode, input, at, results, worst>>
      BY <2>2 DEF Open, Lookup, ObservedNew, Check, CallJev, Goto, engine, args, progress,
                  E!LookupOf, E!IndexObserved, E!RunTheChecks
    <3>2. ThisRun' = ThisRun /\ \A i \in ThisRun : ledger'[i] = ledger[i]
      BY <3>1 DEF ThisRun
    <3> QED BY <2>0, <3>1, <3>2, GoesOn DEF Going
  <2>3. CASE AppendObserved
    <3>1. PICK e : e = E!Observed(Command)
      OBVIOUS
    <3>2. /\ cpc \notin {"ended", "killed"} /\ cpc' \notin {"ended", "killed"}
          /\ ledger' = Append(ledger, e) /\ before' = before
          /\ UNCHANGED <<mode, input, at, results, worst>>
      BY <2>3, <3>1 DEF AppendObserved, E!AppendObserved, args, progress
    <3>3. e.type # "guard_evaluated"
      BY <3>1 DEF E!Observed
    <3>4. ThisRun' = ThisRun /\ \A i \in ThisRun : ledger'[i] = ledger[i]
      BY <3>2, <3>3, Telling
    <3> QED BY <2>0, <3>2, <3>4, GoesOn DEF Going
  <2>4. CASE Blank
    <3>1. /\ cpc = "read" /\ cpc' = "read" /\ input[at].kind = "blank" /\ at <= Len(input)
          /\ ledger' = ledger /\ before' = before /\ UNCHANGED <<mode, input, results, worst>>
      BY <2>4 DEF Blank, At, Goto, engine, args
    <3>2. mode # "single"
      BY <2>0, <3>1 DEF ExitInv, PlaceInv
    <3>3. ThisRun' = ThisRun /\ \A i \in ThisRun : ledger'[i] = ledger[i]
      BY <3>1 DEF ThisRun
    <3>4. WorstIs'
      BY <3>1, <3>3, TellsTheSame DEF ExitInv, Going
    <3>5. ~Clean'
      BY <3>1 DEF Clean, Ended
    <3> QED BY <3>1, <3>2, <3>4, <3>5 DEF ExitInv, ExitMeansWorst
  <2>5. CASE SkipRepeat
    <3>1. /\ cpc = "observe" /\ cpc' = "read" /\ ledger' = ledger /\ before' = before
          /\ Keep(Skip, 0) /\ UNCHANGED args
      BY <2>5 DEF SkipRepeat, Goto, E!IndexObserved
    <3>2. ThisRun' = ThisRun /\ \A i \in ThisRun : ledger'[i] = ledger[i]
      BY <3>1 DEF ThisRun
    <3>3. WorstIs
      BY <3>1 DEF ExitInv, Going
    <3>4. worst' = worst
      <4>1. worst' = Max({worst, 0}) /\ worst \in {0, 10, 20} /\ 0 \in {0, 10, 20}
        BY <3>1, <3>3 DEF Keep, WorstIs
      <4>2. Max({worst, 0}) = IF worst >= 0 THEN worst ELSE 0
        BY <4>1, WorseOfTwo
      <4> QED BY <4>1, <4>2
    <3>5. WorstIs' /\ (Failing' <=> Failing)
      BY <3>2, <3>3, <3>4, TellsTheSame
    <3>6. Skip.status = "SKIPPED"
      BY DEF Skip
    <3> QED BY <2>0, <3>1, <3>5, <3>6, KeepsOne
  <2>6. CASE Record
    <3>1. PICK r \in running[1] :
            /\ Judged(r) /\ E!RecordOf(1, r, Judgment(r))
            /\ Keep([dec |-> r.dec, verdict |-> E!Evaluated(r, Judgment(r)).decision.verdict,
                     status |-> Judgment(r).status],
                    ExitCode(E!Evaluated(r, Judgment(r)).decision.verdict))
      BY <2>6 DEF Record
    <3>2. PICK j : j = Judgment(r)
      OBVIOUS
    <3>3. PICK e : e = E!Evaluated(r, j)
      OBVIOUS
    <3>4. PICK item : item = [dec |-> r.dec, verdict |-> e.decision.verdict, status |-> j.status]
      OBVIOUS
    <3>5. /\ cpc = "judge" /\ cpc' = "read" /\ ledger' = Append(ledger, e) /\ before' = before
          /\ Keep(item, ExitCode(e.decision.verdict)) /\ UNCHANGED args
      BY <2>6, <3>1, <3>2, <3>3, <3>4 DEF Record, Goto, E!RecordOf
    <3>6. e.type = "guard_evaluated" /\ e.judgment = j.status
      BY <3>3 DEF E!Evaluated
    <3>7. e.decision.verdict \in {"PAY", "HOLD", "REVIEW"}
      <4>1. IsChecks(r.checks)
        BY DEF JudgeInv, RunInv
      <4> QED BY <3>3, <4>1, VerdictIs DEF E!Evaluated
    <3>8. j.status \in SemanticFailures \cup {"OK", "SKIPPED"}
      BY <3>1, <3>2, <3>5, StatusIs
    <3>9. PICK n : n = Len(ledger) + 1
      OBVIOUS
    <3>10. /\ ThisRun' = ThisRun \cup {n} /\ ledger'[n] = e
           /\ \A i \in ThisRun : ledger'[i] = ledger[i]
      BY <3>5, <3>6, <3>9, Telling
    <3>11. n \notin ThisRun
      BY <3>9, LenProperties DEF LogInv, ThisRun
    <3>12. WorstIs /\ worst' = Max({worst, ExitCode(e.decision.verdict)})
      BY <3>5 DEF ExitInv, Going, Keep
    <3>13. WorstIs' /\ (Failing' <=> Failing \/ e.judgment \in SemanticFailures)
      BY <3>6, <3>7, <3>10, <3>11, <3>12, TellsOneMore
    <3>14. Failing' <=> Failing \/ item.status \notin {"OK", "SKIPPED"}
      BY <3>4, <3>6, <3>8, <3>13 DEF SemanticFailures
    <3> QED BY <2>0, <3>5, <3>13, <3>14, KeepsOne
  <2>7. CASE Emit
    BY <2>0, <2>7, Exits
  <2>8. CASE Rerun
    BY <2>8, BeginsAgain
  <2>9. CASE UNCHANGED vars
    <3>1. /\ UNCHANGED <<ledger, before, cpc, at, results, worst, exit, mode, input>>
      BY <2>9 DEF vars, engine, args, progress, shell
    <3>2. ThisRun' = ThisRun
      BY <3>1 DEF ThisRun
    <3>3. ThisRun' = ThisRun /\ \A i \in ThisRun : ledger'[i] = ledger[i]
      BY <3>1, <3>2
    <3>4. /\ (Going' <=> Going) /\ (Clean' <=> Clean)
      BY <3>1 DEF Going, Clean, Ended
    <3>5. Going => WorstIs' /\ (mode = "single" => OneResult')
      BY <3>1, <3>3, TellsTheSame DEF ExitInv, OneResult
    <3>6. ExitMeansWorst'
      BY <3>1, <3>2, <3>4 DEF ExitInv, ExitMeansWorst
    <3> QED BY <3>1, <3>4, <3>5, <3>6 DEF ExitInv
  <2> QED BY <2>1, <2>2, <2>3, <2>4, <2>5, <2>6, <2>7, <2>8, <2>9 DEF Next, Step
<1> QED BY <1>1, <1>2, JudgeInvHolds, LogInvHolds, PTL DEF Spec

\* A script can trust the exit code: it is that of the worst decision of this
\* run, or tells that Jev failed to judge a single candidate, for every file,
\* kill, failing append and repetition of the command.
THEOREM ExitCodeIsTrue == Spec => []ExitMeansWorst
<1>1. ExitInv => ExitMeansWorst
  BY DEF ExitInv
<1> QED BY <1>1, ExitInvHolds, PTL

----------------------------------------------------------------------------
(* What was judged.                                                       *)

\* The engine's index is LedgerIndex.
LEMMA SameIndex ==
  /\ E!EmptyIndex = EmptyIndex /\ E!NoDup = NoDup /\ E!NoRequest = NoRequest
  /\ \A idx, event : E!ObserveEvent(idx, event) = ObserveEvent(idx, event)
  /\ \A idx, c : E!EvaluatedDecision(idx, c) = EvaluatedDecision(idx, c)
<1>1. /\ E!EmptyIndex = EmptyIndex /\ E!NoDup = NoDup /\ E!NoRequest = NoRequest
  BY DEF E!EmptyIndex, EmptyIndex, E!NoDup, NoDup, E!NoRequest, NoRequest
<1>2. /\ \A f, key, value : E!SetDefault(f, key, value) = SetDefault(f, key, value)
      /\ \A c : E!Identity(c) = Identity(c)
  BY DEF E!SetDefault, SetDefault, E!Identity, Identity
<1>3. \A idx, event : E!ObserveEvent(idx, event) = ObserveEvent(idx, event)
  BY <1>1, <1>2 DEF E!ObserveEvent, ObserveEvent
<1>4. \A idx, c : E!EvaluatedDecision(idx, c) = EvaluatedDecision(idx, c)
  BY <1>1, <1>2 DEF E!EvaluatedDecision, EvaluatedDecision
<1> QED BY <1>1, <1>3, <1>4

LEMMA SameRebuild ==
  ASSUME NEW S, NEW events \in Seq(S)
  PROVE  E!Rebuild(events) = Rebuild(events)
<1> DEFINE n == Len(events)
           IsEnginePass(f) == f = [i \in 0..n |-> IF i = 0 THEN E!EmptyIndex
                                   ELSE E!ObserveEvent(f[i - 1], events[i])]
           pass == CHOOSE f : IsEnginePass(f)
<1>1. n \in Nat
  BY LenProperties
<1>2. \A f : IsEnginePass(f) <=> IsPass(f, events, n)
  BY SameIndex DEF IsPass
<1>3. E!Rebuild(events) = pass[n]
  BY DEF E!Rebuild
<1>4. IsEnginePass(pass)
  <2>1. \E f : IsEnginePass(f)
    BY <1>1, <1>2, PassExists
  <2> HIDE DEF IsEnginePass
  <2> QED BY <2>1
<1> HIDE DEF pass, IsEnginePass
<1>5. PICK g : IsPass(g, events, n) /\ Rebuild(events) = g[n]
  BY <1>1, RebuildIsPass
<1>6. IsPass(pass, events, n)
  BY <1>2, <1>4
<1>7. pass[n] = g[n]
  <2>1. n <= n /\ \A i \in 1..n : events[i] = events[i]
    BY <1>1
  <2> HIDE DEF n
  <2> QED BY <1>1, <1>5, <1>6, <2>1, PassUnique
<1> QED BY <1>3, <1>5, <1>7

\* A line with an evaluation, and what an index knows of a purchase.
Eval(i)       == i \in DOMAIN ledger /\ ledger[i].type = "guard_evaluated"
Seen(c)       == \E i : Eval(i) /\ ledger[i].cand = c
Knows(idx, c) == Identity(c) \in DOMAIN idx.evaluated
Real(idx)     == \A k \in DOMAIN idx.evaluated : idx.evaluated[k] # NoDup

\* One flow and one process, and at most one candidate between them.
Places ==
  /\ epc = [f \in {Command} |-> epc[Command]] /\ held = [f \in {Command} |-> held[Command]]
  /\ index = [p \in {1} |-> index[1]] /\ pending = [p \in {1} |-> pending[1]]
  /\ running = [p \in {1} |-> running[1]] /\ decs \in Nat
  /\ cpc \in {"open", "read", "observe", "check", "judge", "ended", "killed"}
  /\ cpc \in {"open", "read", "observe"} => pending[1] = {} /\ running[1] = {}
  /\ cpc = "check" => running[1] = {} /\ \A d, e \in pending[1] : d = e
  /\ cpc = "judge" => pending[1] = {} /\ \A q, r \in running[1] : q = r

\* What the index knows the ledger tells, and it knows what was judged.
Told ==
  /\ Real(index[1]) /\ Real(Rebuild(ledger))
  /\ DOMAIN index[1].evaluated \subseteq DOMAIN Rebuild(ledger).evaluated
  /\ \A i : Eval(i) /\ ledger[i].cand.request # NoRequest => Knows(index[1], ledger[i].cand)

\* A purchase that is not a repeat has not been judged, and once its
\* observation is recorded the ledger tells of it.
Holds ==
  cpc = "observe" =>
    /\ held[Command].dec # NoDup
    /\ held[Command].duplicate_of = NoDup /\ held[Command].cand.request # NoRequest =>
         /\ ~Seen(held[Command].cand)
         /\ epc[Command] = "index" => Knows(Rebuild(ledger), held[Command].cand)

\* What is under evaluation is known and was not judged.
Evaluates ==
  cpc \in {"check", "judge"} =>
    \A e \in pending[1] \cup running[1] :
      e.cand.request # NoRequest => Knows(index[1], e.cand) /\ ~Seen(e.cand)

OnceJudged ==
  \A i, j : Eval(i) /\ Eval(j) /\ ledger[i].cand = ledger[j].cand
              /\ ledger[i].cand.request # NoRequest => i = j

OnceInv == Places /\ Told /\ Holds /\ Evaluates /\ OnceJudged

\* What an event adds to what the ledger tells.
LEMMA Tells ==
  ASSUME LogInv, NEW e, ledger' = Append(ledger, e)
  PROVE  /\ Rebuild(ledger') = ObserveEvent(Rebuild(ledger), e)
         /\ e.type # "guard_evaluated" => \A i : /\ Eval(i)' <=> Eval(i)
                                                 /\ Eval(i) => ledger'[i] = ledger[i]
         /\ e.type = "guard_evaluated" => \E n :
              /\ ledger'[n] = e /\ ~Eval(n)
              /\ \A i : /\ Eval(i)' <=> (Eval(i) \/ i = n)
                        /\ Eval(i) => ledger'[i] = ledger[i]
<1>1. Rebuild(ledger') = ObserveEvent(Rebuild(ledger), e)
  BY RebuildAppend DEF LogInv
<1>2. PICK n : n = Len(ledger) + 1
  OBVIOUS
<1>3. /\ Len(ledger) \in Nat /\ DOMAIN ledger = 1..Len(ledger) /\ DOMAIN ledger' = 1..n
      /\ \A i \in 1..Len(ledger) : ledger'[i] = ledger[i]
      /\ ledger'[n] = e
  BY <1>2, Appends
<1>4. n \notin DOMAIN ledger /\ \A i : i \in DOMAIN ledger' <=> (i \in DOMAIN ledger \/ i = n)
  BY <1>2, <1>3
<1>5. \A i : Eval(i) => ledger'[i] = ledger[i]
  BY <1>3 DEF Eval
<1>6. \A i : Eval(i)' <=> (Eval(i) \/ (i = n /\ e.type = "guard_evaluated"))
  BY <1>3, <1>4 DEF Eval
<1>7. ~Eval(n)
  BY <1>4 DEF Eval
<1> QED BY <1>1, <1>3, <1>5, <1>6, <1>7

\* Nothing was judged, so what was seen is what was seen before.
LEMMA SeenStays ==
  ASSUME \A i : /\ Eval(i)' <=> Eval(i)
                /\ Eval(i) => ledger'[i] = ledger[i]
  PROVE  /\ \A c : Seen(c)' <=> Seen(c)
         /\ OnceJudged => OnceJudged'
         /\ index' = index /\ Told /\ Real(Rebuild(ledger'))
              /\ DOMAIN index[1].evaluated \subseteq DOMAIN Rebuild(ledger').evaluated => Told'
<1>1. \A c : Seen(c)' <=> Seen(c)
  BY DEF Seen
<1>2. ASSUME OnceJudged PROVE OnceJudged'
  BY <1>2 DEF OnceJudged
<1>3. ASSUME index' = index, Told, Real(Rebuild(ledger')),
             DOMAIN index[1].evaluated \subseteq DOMAIN Rebuild(ledger').evaluated
      PROVE  Told'
  <2>1. Real(index'[1]) /\ Real(Rebuild(ledger'))
    BY <1>3 DEF Told
  <2>2. \A i : Eval(i)' /\ ledger'[i].cand.request # NoRequest => Knows(index'[1], ledger'[i].cand)
    BY <1>3 DEF Told
  <2> QED BY <1>3, <2>1, <2>2 DEF Told, Real, Knows
<1> QED BY <1>1, <1>2, <1>3

LEMMA LedgerStays ==
  ASSUME ledger' = ledger
  PROVE  /\ \A i : /\ Eval(i)' <=> Eval(i)
                   /\ Eval(i) => ledger'[i] = ledger[i]
         /\ Rebuild(ledger') = Rebuild(ledger)
BY DEF Eval

\* An index learns from an observation at most the purchase it is about, and
\* learns it if it is no repeat.
LEMMA Learns ==
  ASSUME NEW idx, NEW e, e.type = "candidate_observed", e.dec # NoDup,
         NEW more, more = ObserveEvent(idx, e)
  PROVE  /\ Real(idx) => Real(more)
         /\ DOMAIN idx.evaluated \subseteq DOMAIN more.evaluated
         /\ e.duplicate_of = NoDup /\ e.cand.request # NoRequest => Knows(more, e.cand)
         /\ \A k \in DOMAIN more.evaluated :
              \/ k \in DOMAIN idx.evaluated
              \/ /\ e.duplicate_of = NoDup /\ e.cand.request # NoRequest
                 /\ k = Identity(e.cand)
<1>1. \A k \in DOMAIN idx.evaluated :
        k \in DOMAIN more.evaluated /\ more.evaluated[k] = idx.evaluated[k]
  BY ObserveKeeps
<1>2. ASSUME NEW k \in DOMAIN more.evaluated, k \notin DOMAIN idx.evaluated
      PROVE  /\ e.duplicate_of = NoDup /\ e.cand.request # NoRequest
             /\ k = Identity(e.cand) /\ more.evaluated[k] = e.dec
  BY <1>2, ObserveAddsEvaluated
<1>3. ASSUME Real(idx) PROVE Real(more)
  BY <1>1, <1>2, <1>3 DEF Real
<1>4. e.duplicate_of = NoDup /\ e.cand.request # NoRequest => Knows(more, e.cand)
  BY ObserveHolds DEF Knows
<1> QED BY <1>1, <1>2, <1>3, <1>4

----------------------------------------------------------------------------
(* What the engine's steps do.                                            *)

LEMMA LookupDoes ==
  ASSUME Places, Lookup
  PROVE  /\ Places' /\ cpc' = "observe" /\ UNCHANGED <<ledger, index>>
         /\ epc'[Command] = "append" /\ held'[Command].dec # NoDup
         /\ held'[Command].duplicate_of = EvaluatedDecision(index[1], held'[Command].cand)
<1>1. PICK c : held' = [held EXCEPT ![Command] =
                          [dec |-> decs', cand |-> c,
                           duplicate_of |-> E!EvaluatedDecision(index[1], c)]]
  BY DEF Lookup, E!LookupOf
<1>2. /\ cpc = "read" /\ cpc' = "observe" /\ decs' = decs + 1
      /\ epc' = [epc EXCEPT ![Command] = "append"]
      /\ UNCHANGED <<ledger, index, pending, running>>
  BY DEF Lookup, E!LookupOf, Goto
<1>3. Command \in {Command}
  OBVIOUS
<1>4. held'[Command] = [dec |-> decs', cand |-> c,
                        duplicate_of |-> E!EvaluatedDecision(index[1], c)]
  BY <1>1, <1>3 DEF Places
<1>5. epc'[Command] = "append" /\ decs' \in Nat /\ decs' # NoDup
  BY <1>2, <1>3 DEF Places, NoDup
<1>6. Places'
  BY <1>1, <1>2, <1>5 DEF Places
<1> QED BY <1>2, <1>4, <1>5, <1>6, SameIndex

LEMMA AppendDoes ==
  ASSUME Places, AppendObserved \/ AppendFails, cpc = "observe"
  PROVE  /\ Places' /\ cpc' \in {"observe", "ended"} /\ UNCHANGED index
         /\ cpc' = "observe" => held' = held
         /\ \E e : /\ e.type = "candidate_observed" /\ e.dec = held[Command].dec
                   /\ e.cand = held[Command].cand
                   /\ e.duplicate_of = held[Command].duplicate_of
                   /\ \/ ledger' = Append(ledger, e)
                      \/ cpc' = "ended" /\ ledger' = ledger
<1>1. PICK e : e = E!Observed(Command)
  OBVIOUS
<1>2. /\ e.type = "candidate_observed" /\ e.dec = held[Command].dec
      /\ e.cand = held[Command].cand /\ e.duplicate_of = held[Command].duplicate_of
  BY <1>1 DEF E!Observed
<1>3. CASE AppendObserved
  <2>1. /\ cpc' = "observe" /\ ledger' = Append(ledger, e)
        /\ epc' = [epc EXCEPT ![Command] = "index"]
        /\ UNCHANGED <<index, held, pending, running, decs>>
    BY <1>1, <1>3 DEF AppendObserved, E!AppendObserved
  <2>2. Places'
    BY <2>1 DEF Places
  <2> QED BY <1>2, <2>1, <2>2
<1>4. CASE AppendFails
  <2>1. /\ cpc' = "ended" /\ ledger' \in {ledger, Append(ledger, e)}
        /\ epc' = [epc EXCEPT ![Command] = "idle"]
        /\ held' = [held EXCEPT ![Command] = E!NoLocal]
        /\ UNCHANGED <<index, pending, running, decs>>
    BY <1>1, <1>4 DEF AppendFails, E!AppendObservedFails, Fail, Goto
  <2>2. Places'
    BY <2>1 DEF Places
  <2> QED BY <1>2, <2>1, <2>2
<1> QED BY <1>3, <1>4

LEMMA IndexDoes ==
  ASSUME Places, SkipRepeat \/ ObservedNew
  PROVE  /\ Places' /\ cpc = "observe" /\ cpc' \in {"read", "check"} /\ UNCHANGED ledger
         /\ epc[Command] = "index" /\ running'[1] = {}
         /\ \A e \in pending'[1] : /\ held[Command].duplicate_of = NoDup
                                   /\ e.cand = held[Command].cand
         /\ \E e : /\ e.type = "candidate_observed" /\ e.dec = held[Command].dec
                   /\ e.cand = held[Command].cand
                   /\ e.duplicate_of = held[Command].duplicate_of
                   /\ index'[1] = ObserveEvent(index[1], e)
<1>1. PICK e : e = E!Observed(Command)
  OBVIOUS
<1>2. /\ e.type = "candidate_observed" /\ e.dec = held[Command].dec
      /\ e.cand = held[Command].cand /\ e.duplicate_of = held[Command].duplicate_of
  BY <1>1 DEF E!Observed
<1>3. PICK todo : todo = E!ToEvaluate(Command)
  OBVIOUS
<1>4. /\ cpc = "observe" /\ epc[Command] = "index"
      /\ epc' = [epc EXCEPT ![Command] = "idle"]
      /\ held' = [held EXCEPT ![Command] = E!NoLocal]
      /\ index' = [index EXCEPT ![1] = E!ObserveEvent(index[1], e)]
      /\ pending' = [pending EXCEPT ![1] = pending[1] \cup todo]
      /\ UNCHANGED <<ledger, running, decs>>
  BY <1>1, <1>3 DEF SkipRepeat, ObservedNew, E!IndexObserved, Goto
<1>5. \/ cpc' = "read" /\ todo = {}
      \/ cpc' = "check"
  BY <1>3 DEF SkipRepeat, ObservedNew, Goto
<1>6. pending[1] = {} /\ running[1] = {} /\ pending'[1] = todo
  BY <1>4 DEF Places
<1>7. index'[1] = ObserveEvent(index[1], e)
  BY <1>4, SameIndex DEF Places
<1>8. /\ \A x, y \in todo : x = y
      /\ \A x \in todo : held[Command].duplicate_of = NoDup /\ x.cand = held[Command].cand
  BY <1>3, SameIndex DEF E!ToEvaluate
<1>9. Places'
  BY <1>4, <1>5, <1>6, <1>8 DEF Places
<1> QED BY <1>2, <1>4, <1>5, <1>6, <1>7, <1>8, <1>9

LEMMA CheckDoes ==
  ASSUME Places, Check
  PROVE  /\ Places' /\ cpc = "check" /\ cpc' = "judge" /\ UNCHANGED <<ledger, index>>
         /\ \A r \in pending'[1] \cup running'[1] : \E e \in pending[1] : r.cand = e.cand
<1>1. PICK e \in pending[1] : E!RunTheChecks(1, e)
  BY DEF Check
<1>2. PICK r : /\ r = [dec |-> e.dec, cand |-> e.cand, checks |-> E!ChecksOf(1, e)]
               /\ running' = [running EXCEPT ![1] = running[1] \cup {r}]
  BY <1>1 DEF E!RunTheChecks
<1>3. /\ cpc = "check" /\ cpc' = "judge"
      /\ pending' = [pending EXCEPT ![1] = pending[1] \ {e}]
      /\ UNCHANGED <<ledger, index, epc, held, decs>>
  BY <1>1 DEF Check, E!RunTheChecks, E!Take, Goto
<1>4. running[1] = {} /\ \A x, y \in pending[1] : x = y
  BY <1>3 DEF Places
<1>5. running'[1] = {r} /\ pending'[1] = {}
  <2>1. running'[1] = running[1] \cup {r} /\ pending'[1] = pending[1] \ {e}
    BY <1>2, <1>3 DEF Places
  <2> QED BY <1>4, <2>1
<1>6. Places'
  BY <1>2, <1>3, <1>5 DEF Places
<1> QED BY <1>2, <1>3, <1>5, <1>6

LEMMA RecordDoes ==
  ASSUME Places, Record \/ RecordFails
  PROVE  /\ Places' /\ cpc = "judge" /\ cpc' \in {"read", "ended"} /\ UNCHANGED index
         /\ \E r, e :
              /\ r \in running[1] /\ e.type = "guard_evaluated" /\ e.cand = r.cand
              /\ \/ ledger' = Append(ledger, e)
                 \/ cpc' = "ended" /\ ledger' = ledger
<1>1. PICK r : \/ cpc' = "read" /\ E!RecordOf(1, r, Judgment(r))
               \/ cpc' = "ended" /\ E!RecordFailsOf(1, r, Judgment(r))
  BY DEF Record, RecordFails, Fail, Goto
<1>2. PICK e : e = E!Evaluated(r, Judgment(r))
  OBVIOUS
<1>3. e.type = "guard_evaluated" /\ e.cand = r.cand
  BY <1>2 DEF E!Evaluated
<1>4. /\ cpc = "judge" /\ cpc' \in {"read", "ended"}
      /\ r \in running[1] /\ running' = [running EXCEPT ![1] = running[1] \ {r}]
      /\ UNCHANGED <<index, epc, held, pending, decs>>
  <2>1. cpc = "judge"
    BY DEF Record, RecordFails, Fail, Goto
  <2> QED BY <1>1, <2>1 DEF E!RecordOf, E!RecordFailsOf
<1>5. \/ ledger' = Append(ledger, e)
      \/ cpc' = "ended" /\ ledger' = ledger
  BY <1>1, <1>2 DEF E!RecordOf, E!RecordFailsOf
<1>6. running'[1] = {} /\ pending'[1] = {}
  BY <1>4 DEF Places
<1>7. Places'
  BY <1>4, <1>6 DEF Places
<1> QED BY <1>3, <1>4, <1>5, <1>7

LEMMA RerunDoes ==
  ASSUME LogInv, Places, Rerun
  PROVE  Places' /\ cpc' = "open" /\ UNCHANGED ledger /\ index'[1] = Rebuild(ledger)
<1>1. E!Rebuild(ledger) = Rebuild(ledger)
  BY SameRebuild DEF LogInv
<1>2. /\ cpc' = "open" /\ UNCHANGED <<ledger, decs>>
      /\ epc' = [f \in {Command} |-> IF [g \in {Command} |-> 1][f] = 1 THEN "idle" ELSE epc[f]]
      /\ held' = [f \in {Command} |-> IF [g \in {Command} |-> 1][f] = 1 THEN E!NoLocal ELSE held[f]]
      /\ pending' = [pending EXCEPT ![1] = {}] /\ running' = [running EXCEPT ![1] = {}]
      /\ index' = [index EXCEPT ![1] = E!Rebuild(ledger)]
  BY DEF Rerun, E!Restart
<1>3. pending'[1] = {} /\ running'[1] = {} /\ index'[1] = Rebuild(ledger)
  BY <1>1, <1>2 DEF Places
<1>4. Places'
  BY <1>2, <1>3 DEF Places
<1> QED BY <1>2, <1>3, <1>4

----------------------------------------------------------------------------
(* Each step judges at most what was not judged before.                   *)

LEMMA LookupOnce ==
  ASSUME OnceInv, Lookup PROVE OnceInv'
<1>1. /\ \A i : (Eval(i)' <=> Eval(i)) /\ (Eval(i) => ledger'[i] = ledger[i])
      /\ Rebuild(ledger') = Rebuild(ledger)
  <2>1. ledger' = ledger
    BY LookupDoes DEF OnceInv
  <2> QED BY <2>1, LedgerStays
<1>2. /\ Places' /\ cpc' = "observe" /\ index' = index
      /\ epc'[Command] = "append" /\ held'[Command].dec # NoDup
      /\ held'[Command].duplicate_of = EvaluatedDecision(index[1], held'[Command].cand)
  BY LookupDoes DEF OnceInv
<1>3. \A c : Seen(c)' <=> Seen(c)
  BY <1>1, SeenStays
<1>4. OnceJudged' /\ Told'
  BY <1>1, <1>2, SeenStays DEF OnceInv, Told
<1>5. PICK c : c = held'[Command].cand
  OBVIOUS
<1>6. ASSUME EvaluatedDecision(index[1], c) = NoDup, c.request # NoRequest
      PROVE  ~Seen(c)
  <2>1. ~Knows(index[1], c)
    BY <1>6 DEF EvaluatedDecision, Knows, OnceInv, Told, Real
  <2> QED BY <1>6, <2>1 DEF OnceInv, Told, Seen
<1>7. Holds'
  BY <1>2, <1>3, <1>5, <1>6 DEF Holds
<1>8. Evaluates'
  BY <1>2 DEF Evaluates
<1> QED BY <1>2, <1>4, <1>7, <1>8 DEF OnceInv

LEMMA AppendOnce ==
  ASSUME OnceInv, LogInv, AppendObserved \/ AppendFails, cpc = "observe"
  PROVE  OnceInv'
<1>1. /\ Places' /\ cpc' \in {"observe", "ended"} /\ index' = index
      /\ cpc' = "observe" => held' = held
  BY AppendDoes DEF OnceInv
<1>2. PICK e : /\ e.type = "candidate_observed" /\ e.dec = held[Command].dec
               /\ e.cand = held[Command].cand
               /\ e.duplicate_of = held[Command].duplicate_of
               /\ \/ ledger' = Append(ledger, e)
                  \/ cpc' = "ended" /\ ledger' = ledger
  BY AppendDoes DEF OnceInv
<1>3. e.dec # NoDup
  BY <1>2 DEF OnceInv, Holds
<1>4. PICK was, after : was = Rebuild(ledger) /\ after = Rebuild(ledger')
  OBVIOUS
<1>5. \A i : (Eval(i)' <=> Eval(i)) /\ (Eval(i) => ledger'[i] = ledger[i])
  BY <1>2, Tells, LedgerStays
<1>6. after = ObserveEvent(was, e) \/ (cpc' = "ended" /\ after = was)
  BY <1>2, <1>4, Tells
<1>7. \A c : Seen(c)' <=> Seen(c)
  BY <1>5, SeenStays
<1>8. /\ Real(after) /\ DOMAIN was.evaluated \subseteq DOMAIN after.evaluated
      /\ cpc' = "observe" /\ e.duplicate_of = NoDup /\ e.cand.request # NoRequest
           => Knows(after, e.cand)
  <2>1. Real(was)
    BY <1>4 DEF OnceInv, Told
  <2> QED BY <1>2, <1>3, <1>6, <2>1, Learns
<1>9. Told' /\ OnceJudged'
  BY <1>1, <1>4, <1>5, <1>8, SeenStays DEF OnceInv, Told
<1>10. Holds'
  BY <1>1, <1>2, <1>3, <1>4, <1>7, <1>8 DEF OnceInv, Holds
<1>11. Evaluates'
  BY <1>1 DEF Evaluates
<1> QED BY <1>1, <1>9, <1>10, <1>11 DEF OnceInv

LEMMA IndexOnce ==
  ASSUME OnceInv, SkipRepeat \/ ObservedNew PROVE OnceInv'
<1>1. /\ Places' /\ cpc = "observe" /\ cpc' \in {"read", "check"} /\ ledger' = ledger
      /\ epc[Command] = "index" /\ running'[1] = {}
      /\ \A x \in pending'[1] : /\ held[Command].duplicate_of = NoDup
                                /\ x.cand = held[Command].cand
  BY IndexDoes DEF OnceInv
<1>2. PICK e : /\ e.type = "candidate_observed" /\ e.dec = held[Command].dec
               /\ e.cand = held[Command].cand
               /\ e.duplicate_of = held[Command].duplicate_of
               /\ index'[1] = ObserveEvent(index[1], e)
  BY IndexDoes DEF OnceInv
<1>3. /\ e.dec # NoDup
      /\ e.duplicate_of = NoDup /\ e.cand.request # NoRequest =>
           ~Seen(e.cand) /\ Knows(Rebuild(ledger), e.cand)
  BY <1>1, <1>2 DEF OnceInv, Holds
<1>4. /\ \A i : (Eval(i)' <=> Eval(i)) /\ (Eval(i) => ledger'[i] = ledger[i])
      /\ Rebuild(ledger') = Rebuild(ledger)
  BY <1>1, LedgerStays
<1>5. \A c : Seen(c)' <=> Seen(c)
  BY <1>4, SeenStays
<1>6. PICK old, more : old = index[1] /\ more = index'[1]
  OBVIOUS
<1>7. /\ Real(more) /\ DOMAIN old.evaluated \subseteq DOMAIN more.evaluated
      /\ e.duplicate_of = NoDup /\ e.cand.request # NoRequest => Knows(more, e.cand)
      /\ \A k \in DOMAIN more.evaluated :
           \/ k \in DOMAIN old.evaluated
           \/ /\ e.duplicate_of = NoDup /\ e.cand.request # NoRequest
              /\ k = Identity(e.cand)
  <2>1. Real(old)
    BY <1>6 DEF OnceInv, Told
  <2> QED BY <1>2, <1>3, <1>6, <2>1, Learns
<1>8. Told'
  <2>1. DOMAIN more.evaluated \subseteq DOMAIN Rebuild(ledger).evaluated
    BY <1>3, <1>6, <1>7 DEF OnceInv, Told, Knows
  <2>2. \A i : Eval(i)' /\ ledger'[i].cand.request # NoRequest => Knows(more, ledger'[i].cand)
    BY <1>4, <1>6, <1>7 DEF OnceInv, Told, Knows
  <2>3. Real(Rebuild(ledger'))
    BY <1>4 DEF OnceInv, Told
  <2> QED BY <1>4, <1>6, <1>7, <2>1, <2>2, <2>3 DEF Told, Real, Knows
<1>9. OnceJudged'
  BY <1>4, SeenStays DEF OnceInv
<1>10. Holds'
  BY <1>1 DEF Holds
<1>11. Evaluates'
  BY <1>1, <1>2, <1>3, <1>5, <1>6, <1>7 DEF Evaluates, Knows
<1> QED BY <1>1, <1>8, <1>9, <1>10, <1>11 DEF OnceInv

LEMMA CheckOnce ==
  ASSUME OnceInv, Check PROVE OnceInv'
<1>1. /\ Places' /\ cpc = "check" /\ cpc' = "judge" /\ ledger' = ledger /\ index' = index
      /\ \A r \in pending'[1] \cup running'[1] : \E e \in pending[1] : r.cand = e.cand
  BY CheckDoes DEF OnceInv
<1>2. /\ \A i : (Eval(i)' <=> Eval(i)) /\ (Eval(i) => ledger'[i] = ledger[i])
      /\ Rebuild(ledger') = Rebuild(ledger)
  BY <1>1, LedgerStays
<1>3. OnceJudged' /\ Told'
  BY <1>1, <1>2, SeenStays DEF OnceInv, Told
<1>4. \A c : Seen(c)' <=> Seen(c)
  BY <1>2, SeenStays
<1>5. Evaluates'
  BY <1>1, <1>4 DEF OnceInv, Evaluates, Knows
<1>6. Holds'
  BY <1>1 DEF Holds
<1> QED BY <1>1, <1>3, <1>5, <1>6 DEF OnceInv

LEMMA RecordOnce ==
  ASSUME OnceInv, LogInv, Record \/ RecordFails PROVE OnceInv'
<1>1. Places' /\ cpc = "judge" /\ cpc' \in {"read", "ended"} /\ index' = index
  BY RecordDoes DEF OnceInv
<1>2. PICK r, e : /\ r \in running[1] /\ e.type = "guard_evaluated" /\ e.cand = r.cand
                  /\ \/ ledger' = Append(ledger, e)
                     \/ cpc' = "ended" /\ ledger' = ledger
  BY RecordDoes DEF OnceInv
<1>3. Holds' /\ Evaluates'
  BY <1>1 DEF Holds, Evaluates
<1>4. CASE ledger' = ledger
  <2>1. /\ \A i : (Eval(i)' <=> Eval(i)) /\ (Eval(i) => ledger'[i] = ledger[i])
        /\ Rebuild(ledger') = Rebuild(ledger)
    BY <1>4, LedgerStays
  <2>2. OnceJudged' /\ Told'
    BY <1>1, <2>1, SeenStays DEF OnceInv, Told
  <2> QED BY <1>1, <1>3, <2>2 DEF OnceInv
<1>5. CASE ledger' = Append(ledger, e)
  <2>1. Rebuild(ledger') = Rebuild(ledger)
    <3>1. ObserveEvent(Rebuild(ledger), e) = Rebuild(ledger)
      BY <1>2, ObserveOther
    <3> QED BY <1>5, <3>1, Tells
  <2>2. PICK n : /\ ledger'[n] = e /\ ~Eval(n)
                 /\ \A i : /\ Eval(i)' <=> (Eval(i) \/ i = n)
                           /\ Eval(i) => ledger'[i] = ledger[i]
    BY <1>2, <1>5, Tells
  <2>3. e.cand.request # NoRequest => Knows(index[1], e.cand) /\ ~Seen(e.cand)
    BY <1>1, <1>2 DEF OnceInv, Evaluates
  <2>4. Told'
    <3>1. \A i : Eval(i)' /\ ledger'[i].cand.request # NoRequest
                   => Knows(index'[1], ledger'[i].cand)
      BY <1>1, <2>2, <2>3 DEF OnceInv, Told
    <3> QED BY <1>1, <2>1, <3>1 DEF OnceInv, Told, Real, Knows
  <2>5. ASSUME NEW i, NEW j, Eval(i)', Eval(j)', ledger'[i].cand = ledger'[j].cand,
               ledger'[i].cand.request # NoRequest
        PROVE  i = j
    <3>1. CASE Eval(i) /\ Eval(j)
      BY <2>2, <2>5, <3>1 DEF OnceInv, OnceJudged
    <3>2. CASE i = n /\ Eval(j)
      BY <2>2, <2>3, <2>5, <3>2 DEF Seen
    <3>3. CASE Eval(i) /\ j = n
      BY <2>2, <2>3, <2>5, <3>3 DEF Seen
    <3> QED BY <2>2, <2>5, <3>1, <3>2, <3>3
  <2>6. OnceJudged'
    BY <2>5 DEF OnceJudged
  <2> QED BY <1>1, <1>3, <2>4, <2>6 DEF OnceInv
<1> QED BY <1>2, <1>4, <1>5

LEMMA RerunOnce ==
  ASSUME OnceInv, LogInv, Rerun PROVE OnceInv'
<1>1. Places' /\ cpc' = "open" /\ ledger' = ledger /\ index'[1] = Rebuild(ledger)
  BY RerunDoes DEF OnceInv
<1>2. /\ \A i : (Eval(i)' <=> Eval(i)) /\ (Eval(i) => ledger'[i] = ledger[i])
      /\ Rebuild(ledger') = Rebuild(ledger)
  BY <1>1, LedgerStays
<1>3. OnceJudged'
  BY <1>2, SeenStays DEF OnceInv
<1>4. \A i : Eval(i)' /\ ledger'[i].cand.request # NoRequest
               => Knows(Rebuild(ledger), ledger'[i].cand)
  BY <1>2 DEF OnceInv, Told, Knows
<1>5. Told'
  BY <1>1, <1>2, <1>4 DEF OnceInv, Told, Real, Knows
<1>6. Holds' /\ Evaluates'
  BY <1>1 DEF Holds, Evaluates
<1> QED BY <1>1, <1>3, <1>5, <1>6 DEF OnceInv

LEMMA ElseOnce ==
  ASSUME OnceInv, UNCHANGED engine,
         \/ cpc' = cpc
         \/ cpc \in {"open", "read"} /\ cpc' = "read"
         \/ cpc' \in {"ended", "killed"}
  PROVE  OnceInv'
<1>1. /\ UNCHANGED <<ledger, index, epc, held, pending, running, decs>>
  BY DEF engine
<1>2. /\ \A i : (Eval(i)' <=> Eval(i)) /\ (Eval(i) => ledger'[i] = ledger[i])
      /\ Rebuild(ledger') = Rebuild(ledger)
  BY <1>1, LedgerStays
<1>3. OnceJudged' /\ Told'
  BY <1>1, <1>2, SeenStays DEF OnceInv, Told
<1>4. \A c : Seen(c)' <=> Seen(c)
  BY <1>2, SeenStays
<1>5. Places'
  BY <1>1 DEF OnceInv, Places
<1>6. Holds'
  BY <1>1, <1>2, <1>4 DEF OnceInv, Holds
<1>7. Evaluates'
  BY <1>1, <1>4 DEF OnceInv, Evaluates, Knows
<1> QED BY <1>3, <1>5, <1>6, <1>7 DEF OnceInv

LEMMA OnceInvHolds == Spec => []OnceInv
<1>1. Init => OnceInv
  <2> SUFFICES ASSUME Init PROVE OnceInv
    OBVIOUS
  <2>1. /\ ledger = <<>> /\ cpc = "open" /\ decs = 0
        /\ index = [p \in {1} |-> E!EmptyIndex]
        /\ epc = [f \in {Command} |-> "idle"] /\ held = [f \in {Command} |-> E!NoLocal]
        /\ pending = [p \in {1} |-> {}] /\ running = [p \in {1} |-> {}]
    BY DEF Init, E!Init
  <2>2. index[1] = EmptyIndex /\ Rebuild(ledger) = EmptyIndex
    BY <2>1, RebuildEmpty, SameIndex
  <2>3. Places
    BY <2>1 DEF Places
  <2>4. \A i : ~Eval(i)
    BY <2>1 DEF Eval
  <2>5. EmptyIndex.evaluated = <<>> /\ DOMAIN EmptyIndex.evaluated = {}
    BY DEF EmptyIndex
  <2>6. Told /\ OnceJudged
    BY <2>2, <2>4, <2>5 DEF Told, Real, OnceJudged
  <2>7. Holds /\ Evaluates
    BY <2>1 DEF Holds, Evaluates
  <2> QED BY <2>3, <2>6, <2>7 DEF OnceInv
<1>2. OnceInv /\ LogInv /\ [Next]_vars => OnceInv'
  <2> SUFFICES ASSUME OnceInv, LogInv, [Next]_vars PROVE OnceInv'
    OBVIOUS
  <2>1. CASE Lookup
    BY <2>1, LookupOnce
  <2>2. CASE AppendObserved \/ AppendFails
    <3>1. cpc = "observe"
      BY <2>2 DEF AppendObserved, AppendFails, Fail, Goto
    <3> QED BY <2>2, <3>1, AppendOnce
  <2>3. CASE SkipRepeat \/ ObservedNew
    BY <2>3, IndexOnce
  <2>4. CASE Check
    BY <2>4, CheckOnce
  <2>5. CASE Record \/ RecordFails
    BY <2>5, RecordOnce
  <2>6. CASE Rerun
    BY <2>6, RerunOnce
  <2>7. CASE Open \/ OpenFails \/ Blank \/ BadLine \/ Emit \/ Kill
    <3>1. /\ UNCHANGED engine
          /\ \/ cpc \in {"open", "read"} /\ cpc' = "read"
             \/ cpc' \in {"ended", "killed"}
      BY <2>7 DEF Open, OpenFails, Blank, BadLine, Emit, Kill, Fail, Goto
    <3> QED BY <3>1, ElseOnce
  <2>8. CASE CallJev \/ UNCHANGED vars
    <3>1. UNCHANGED engine /\ cpc' = cpc
      BY <2>8 DEF CallJev, vars
    <3> QED BY <3>1, ElseOnce
  <2> QED BY <2>1, <2>2, <2>3, <2>4, <2>5, <2>6, <2>7, <2>8 DEF Next, Step
<1> QED BY <1>1, <1>2, LogInvHolds, PTL DEF Spec

\* A purchase of the file that has a request id and a time is judged at most
\* once, however often the command is run on the file, killed or failed.
THEOREM AskedOnce == Spec => []JudgedOnceAcrossRuns
<1>1. ASSUME OnceInv, JudgeInv, LogInv PROVE JudgedOnceAcrossRuns
  <2> SUFFICES ASSUME NEW n \in DOMAIN input, input[n].kind = "candidate",
                      input[n].raw.request # E!NoRequest, input[n].raw.observed_at # E!Absent
               PROVE  Cardinality({i \in E!Evaluations :
                                     ledger[i].cand = E!Normalized(input[n].raw, 0)}) <= 1
    BY DEF JudgedOnceAcrossRuns
  <2>1. PICK c : c = E!Normalized(input[n].raw, 0)
    OBVIOUS
  <2>2. c.request # NoRequest
    <3>1. E!IsRaw(input[n].raw)
      BY <1>1, CliAssumption DEF JudgeInv, PlaceInv
    <3>2. c.request = input[n].raw.request
      BY <2>1, <3>1 DEF E!Normalized, E!IsRaw
    <3> QED BY <3>2, SameIndex
  <2>3. PICK judged : judged = {i \in E!Evaluations : ledger[i].cand = c}
    OBVIOUS
  <2>4. \A i, j \in judged : i = j
    BY <1>1, <2>2, <2>3 DEF OnceInv, OnceJudged, Eval, E!Evaluations
  <2>5. Cardinality(judged) <= 1
    <3>1. CASE judged = {}
      BY <3>1, FS_EmptySet
    <3>2. ASSUME NEW i \in judged PROVE Cardinality(judged) <= 1
      <4>1. judged = {i}
        BY <2>4
      <4>2. Cardinality(judged) = 1
        BY <4>1, FS_Singleton
      <4> QED BY <4>2
    <3> QED BY <3>1, <3>2
  <2> QED BY <2>1, <2>3, <2>5
<1> QED BY <1>1, OnceInvHolds, JudgeInvHolds, LogInvHolds, PTL

----------------------------------------------------------------------------
(* Types.                                                                 *)

\* The calls of observe() that TLC's runs are bounded by.
Calls == MaxRuns * Max({Len(file) : file \in Inputs})

JevTyped ==
  /\ reply \in Replies \cup {J!NoReply}
  /\ judgment.status \in SemanticFailures \cup {"OK", "SKIPPED"}

LedgerTyped ==
  \A i \in DOMAIN ledger : ledger[i].type \in {"candidate_observed", "guard_evaluated"}

\* What is on its way from observe() to the ledger has a decision id that was
\* given out, and is in one place.
EngineTyped ==
  /\ epc[Command] \in {"idle", "append", "index"}
  /\ epc[Command] = "idle" => held[Command] = E!NoLocal
  /\ epc[Command] # "idle" => held[Command].dec \in 1..decs
  /\ \A e \in pending[1] \cup running[1] : e.dec \in 1..decs
  /\ pending[1] = {} \/ running[1] = {}
  /\ decs \in Nat /\ decs <= Calls
  /\ restarts \in Nat /\ restarts <= MaxRuns - 1 /\ host \in {"serial", "faulty"}

LoopTyped ==
  /\ cpc # "killed" => (cpc = "judge" <=> running[1] # {})
  /\ at \in 1..Len(input) + 1 /\ worst \in {0, 10, 20}
  /\ exit # NotYet <=> cpc = "ended"

TypeInv == JevTyped /\ LedgerTyped /\ EngineTyped /\ LoopTyped

LEMMA CallTyped ==
  ASSUME JevTyped, J!Ask \/ J!CannotAsk \/ \E d \in 0..CallTime : J!Wait(d)
  PROVE  JevTyped'
<1>1. J!Failure("PROVIDER_ERROR").status \in SemanticFailures
      /\ J!Failure("TIMEOUT").status \in SemanticFailures
  BY DEF J!Failure, SemanticFailures
<1>2. CASE J!Ask
  BY <1>2 DEF J!Ask, JevTyped
<1>3. CASE J!CannotAsk
  BY <1>1, <1>3 DEF J!CannotAsk, JevTyped
<1>4. ASSUME NEW d \in 0..CallTime, J!Retry(d) PROVE JevTyped'
  BY <1>4 DEF J!Retry, JevTyped
<1>5. ASSUME NEW d \in 0..CallTime, J!GiveUp(d) \/ J!Refused(d) PROVE JevTyped'
  BY <1>1, <1>5 DEF J!GiveUp, J!Refused, J!Finish, JevTyped
<1>6. ASSUME NEW d \in 0..CallTime, J!Answered(d) PROVE JevTyped'
  <2>1. PICK body \in Replies : reply' = body /\ judgment' = J!ParseResponse(body)
    BY <1>6 DEF J!Answered, J!Finish
  <2>2. J!ParseResponse(body).status \in {"OK", "INVALID_RESPONSE"}
    BY DEF J!ParseResponse, J!Failure
  <2> QED BY <2>1, <2>2 DEF JevTyped, SemanticFailures
<1> QED BY <1>2, <1>3, <1>4, <1>5, <1>6 DEF J!Wait

LEMMA JevStays ==
  ASSUME JevTyped, [Next]_vars PROVE JevTyped'
<1>1. CASE UNCHANGED jev
  BY <1>1 DEF jev, JevTyped
<1>2. CASE CallJev
  BY <1>2, CallTyped DEF CallJev
<1>3. CASE J!Forget
  BY <1>3 DEF J!Forget, J!Skipped, JevTyped
<1>4. CASE Record \/ RecordFails
  <2>1. J!Forget \/ UNCHANGED jev
    BY <1>4 DEF Record, RecordFails, Judged, J!Return
  <2> QED BY <1>1, <1>3, <2>1
<1>5. CASE Rerun
  BY <1>3, <1>5 DEF Rerun
<1>6. CASE Open \/ OpenFails \/ Blank \/ BadLine \/ Emit \/ Kill
  <2>1. UNCHANGED jev
    BY <1>6 DEF Open, OpenFails, Blank, BadLine, Emit, Kill
  <2> QED BY <1>1, <2>1
<1>7. CASE Lookup \/ AppendObserved \/ AppendFails \/ SkipRepeat \/ ObservedNew \/ Check
  <2>1. UNCHANGED jev
    BY <1>7 DEF Lookup, AppendObserved, AppendFails, SkipRepeat, ObservedNew, Check
  <2> QED BY <1>1, <2>1
<1>8. CASE UNCHANGED vars
  BY <1>1, <1>8 DEF vars
<1> QED BY <1>2, <1>4, <1>5, <1>6, <1>7, <1>8 DEF Next, Step

\* One more event has a type, too.
LEMMA WritesTyped ==
  ASSUME LogInv, LedgerTyped, [Next]_vars PROVE LedgerTyped'
<1>1. CASE UNCHANGED ledger
  BY <1>1 DEF LedgerTyped
<1>2. ASSUME NEW e, e.type \in {"candidate_observed", "guard_evaluated"},
             ledger' = Append(ledger, e)
      PROVE  LedgerTyped'
  BY <1>2, Appends DEF LedgerTyped
<1>3. \A r : E!Evaluated(r, Judgment(r)).type = "guard_evaluated"
  BY DEF E!Evaluated
<1> QED BY <1>1, <1>2, <1>3, Writing

LEMMA EngineStays ==
  ASSUME EngineTyped, Places, [Next]_vars PROVE EngineTyped'
<1>1. CASE UNCHANGED <<epc, held, pending, running, decs, restarts, host>>
  BY <1>1 DEF EngineTyped
<1>2. CASE Lookup
  <2>1. PICK c, dup : held' = [held EXCEPT ![Command] =
                                 [dec |-> decs', cand |-> c, duplicate_of |-> dup]]
    BY <1>2 DEF Lookup, E!LookupOf
  <2>2. /\ decs < Calls /\ decs' = decs + 1
        /\ epc' = [epc EXCEPT ![Command] = "append"]
        /\ UNCHANGED <<pending, running, restarts, host>>
    BY <1>2 DEF Lookup, E!LookupOf, Calls
  <2>3. Calls \in Nat
    BY CliAssumption DEF E!EngineAssumption, Calls
  <2>4. decs' \in Nat /\ decs' <= Calls /\ decs' \in 1..decs' /\ 1..decs \subseteq 1..decs'
    BY <2>2, <2>3 DEF EngineTyped
  <2>5. held'[Command].dec = decs' /\ epc'[Command] = "append"
    BY <2>1, <2>2 DEF Places
  <2> QED BY <2>2, <2>4, <2>5 DEF EngineTyped
<1>3. CASE AppendObserved
  <2>1. /\ epc[Command] = "append" /\ epc' = [epc EXCEPT ![Command] = "index"]
        /\ UNCHANGED <<held, pending, running, decs, restarts, host>>
    BY <1>3 DEF AppendObserved, E!AppendObserved
  <2>2. epc'[Command] = "index"
    BY <2>1 DEF Places
  <2> QED BY <2>1, <2>2 DEF EngineTyped
<1>4. CASE AppendFails
  <2>1. /\ epc' = [epc EXCEPT ![Command] = "idle"] /\ held' = [held EXCEPT ![Command] = E!NoLocal]
        /\ UNCHANGED <<pending, running, decs, restarts, host>>
    BY <1>4 DEF AppendFails, E!AppendObservedFails
  <2>2. epc'[Command] = "idle" /\ held'[Command] = E!NoLocal
    BY <2>1 DEF Places
  <2> QED BY <2>1, <2>2 DEF EngineTyped
<1>5. CASE SkipRepeat \/ ObservedNew
  <2>1. PICK todo : todo = E!ToEvaluate(Command)
    OBVIOUS
  <2>2. /\ cpc = "observe" /\ epc[Command] = "index"
        /\ epc' = [epc EXCEPT ![Command] = "idle"] /\ held' = [held EXCEPT ![Command] = E!NoLocal]
        /\ pending' = [pending EXCEPT ![1] = pending[1] \cup todo]
        /\ UNCHANGED <<running, decs, restarts, host>>
    BY <1>5, <2>1 DEF SkipRepeat, ObservedNew, E!IndexObserved, Goto
  <2>3. epc'[Command] = "idle" /\ held'[Command] = E!NoLocal /\ pending'[1] = pending[1] \cup todo
    BY <2>2 DEF Places
  <2>4. \A e \in todo : e.dec = held[Command].dec
    BY <2>1 DEF E!ToEvaluate
  <2>5. running[1] = {} /\ held[Command].dec \in 1..decs
    BY <2>2 DEF Places, EngineTyped
  <2> QED BY <2>2, <2>3, <2>4, <2>5 DEF EngineTyped
<1>6. CASE Check
  <2>1. PICK e \in pending[1] : E!RunTheChecks(1, e)
    BY <1>6 DEF Check
  <2>2. PICK r : /\ r.dec = e.dec
                 /\ running' = [running EXCEPT ![1] = running[1] \cup {r}]
    BY <2>1 DEF E!RunTheChecks
  <2>3. /\ cpc = "check" /\ pending' = [pending EXCEPT ![1] = pending[1] \ {e}]
        /\ UNCHANGED <<epc, held, decs, restarts, host>>
    BY <1>6, <2>1 DEF Check, E!RunTheChecks, E!Take, Goto
  <2>4. running'[1] = running[1] \cup {r} /\ pending'[1] = pending[1] \ {e}
    BY <2>2, <2>3 DEF Places
  <2>5. pending'[1] = {}
    BY <2>3, <2>4 DEF Places
  <2> QED BY <2>2, <2>3, <2>4, <2>5 DEF EngineTyped
<1>7. CASE Record \/ RecordFails
  <2>1. \E r : /\ running' = [running EXCEPT ![1] = running[1] \ {r}]
               /\ UNCHANGED <<epc, held, pending, decs, restarts, host>>
    BY <1>7 DEF Record, RecordFails, E!RecordOf, E!RecordFailsOf
  <2>2. PICK r : running' = [running EXCEPT ![1] = running[1] \ {r}]
    BY <2>1
  <2>3. running'[1] = running[1] \ {r}
    BY <2>2 DEF Places
  <2> QED BY <2>1, <2>3 DEF EngineTyped
<1>8. CASE Rerun
  <2>1. /\ restarts < MaxRuns - 1 /\ restarts' = restarts + 1 /\ UNCHANGED <<decs, host>>
        /\ epc' = [f \in {Command} |-> IF [g \in {Command} |-> 1][f] = 1 THEN "idle" ELSE epc[f]]
        /\ held' = [f \in {Command} |-> IF [g \in {Command} |-> 1][f] = 1 THEN E!NoLocal ELSE held[f]]
        /\ pending' = [pending EXCEPT ![1] = {}] /\ running' = [running EXCEPT ![1] = {}]
    BY <1>8 DEF Rerun, E!Restart
  <2>2. /\ pending'[1] = {} /\ running'[1] = {}
        /\ epc'[Command] = "idle" /\ held'[Command] = E!NoLocal
    BY <2>1 DEF Places
  <2>3. restarts' \in Nat /\ restarts' <= MaxRuns - 1
    BY <2>1, CliAssumption DEF EngineTyped
  <2> QED BY <2>1, <2>2, <2>3 DEF EngineTyped
<1>9. CASE Open \/ OpenFails \/ Blank \/ BadLine \/ CallJev \/ Emit \/ Kill \/ UNCHANGED vars
  <2>1. UNCHANGED engine
    BY <1>9 DEF Open, OpenFails, Blank, BadLine, CallJev, Emit, Kill, vars
  <2> QED BY <1>1, <2>1 DEF engine
<1> QED BY <1>2, <1>3, <1>4, <1>5, <1>6, <1>7, <1>8, <1>9 DEF Next, Step

\* What the loop keeps of a line leaves it within the file and its codes.
LEMMA KeepTyped ==
  ASSUME LoopTyped, JudgeInv, cpc \in {"observe", "judge"}, NEW item, NEW code \in {0, 10, 20},
         Keep(item, code), UNCHANGED args
  PROVE  at' \in 1..Len(input') + 1 /\ worst' \in {0, 10, 20}
<1>1. at' = at + 1 /\ worst' = Max({worst, code}) /\ input' = input
  BY DEF Keep, args
<1>2. worst' = IF worst >= code THEN worst ELSE code
  BY <1>1, WorseOfTwo DEF LoopTyped
<1>3. at <= Len(input) /\ Len(input) \in Nat /\ at \in Nat \ {0}
  BY CliAssumption DEF JudgeInv, PlaceInv
<1> QED BY <1>1, <1>2, <1>3 DEF LoopTyped

LEMMA LoopStays ==
  ASSUME LoopTyped, JudgeInv, ExitInv, Places, [Next]_vars PROVE LoopTyped'
<1>0. Len(input) \in Nat
  BY CliAssumption DEF JudgeInv, PlaceInv
<1>1. ASSUME cpc \notin {"ended", "killed", "judge"}, cpc' \notin {"ended", "killed", "judge"},
             UNCHANGED <<running, input, exit>>, at' \in 1..Len(input') + 1, worst' \in {0, 10, 20}
      PROVE  LoopTyped'
  BY <1>1 DEF LoopTyped
<1>2. CASE Open \/ Lookup \/ AppendObserved \/ ObservedNew
  <2>1. /\ cpc \notin {"ended", "killed", "judge"} /\ cpc' \notin {"ended", "killed", "judge"}
        /\ UNCHANGED <<running, input, exit, at, worst>>
    BY <1>2 DEF Open, Lookup, AppendObserved, ObservedNew, Goto, engine, args, progress, shell,
                E!LookupOf, E!AppendObserved, E!IndexObserved
  <2> QED BY <1>1, <2>1 DEF LoopTyped
<1>3. CASE Blank
  <2>1. /\ cpc = "read" /\ cpc' = "read" /\ at <= Len(input) /\ at' = at + 1
        /\ UNCHANGED <<running, input, exit, worst>>
    BY <1>3 DEF Blank, At, Goto, engine, args, shell
  <2>2. at' \in 1..Len(input') + 1
    BY <1>0, <2>1 DEF LoopTyped
  <2> QED BY <1>1, <2>1, <2>2 DEF LoopTyped
<1>4. CASE SkipRepeat
  <2>1. /\ cpc = "observe" /\ cpc' = "read" /\ Keep(Skip, 0) /\ UNCHANGED args
        /\ UNCHANGED <<running, input, exit>>
    BY <1>4 DEF SkipRepeat, Goto, args, shell, E!IndexObserved
  <2> QED BY <1>1, <2>1, KeepTyped
<1>5. CASE Check
  <2>1. /\ cpc' = "judge" /\ cpc = "check" /\ UNCHANGED <<input, exit, at, worst>>
    BY <1>5 DEF Check, Goto, args, progress, shell
  <2>2. \E r : running' = [running EXCEPT ![1] = running[1] \cup {r}]
    BY <1>5 DEF Check, E!RunTheChecks
  <2>3. running'[1] # {}
    BY <2>2 DEF Places
  <2> QED BY <2>1, <2>3 DEF LoopTyped
<1>6. CASE CallJev \/ UNCHANGED vars
  <2>1. UNCHANGED <<cpc, running, input, exit, at, worst>>
    BY <1>6 DEF CallJev, vars, engine, args, progress, shell
  <2> QED BY <2>1 DEF LoopTyped
<1>7. CASE Record
  <2>1. PICK r \in running[1] :
          /\ E!RecordOf(1, r, Judgment(r))
          /\ Keep([dec |-> r.dec, verdict |-> E!Evaluated(r, Judgment(r)).decision.verdict,
                   status |-> Judgment(r).status],
                  ExitCode(E!Evaluated(r, Judgment(r)).decision.verdict))
    BY <1>7 DEF Record
  <2>2. PICK code : code = ExitCode(E!Evaluated(r, Judgment(r)).decision.verdict)
    OBVIOUS
  <2>3. code \in {0, 10, 20}
    <3>1. IsChecks(r.checks)
      BY DEF JudgeInv, RunInv
    <3>2. E!Evaluated(r, Judgment(r)).decision.verdict \in {"PAY", "HOLD", "REVIEW"}
      BY <3>1, VerdictIs DEF E!Evaluated
    <3> QED BY <2>2, <3>2 DEF ExitCode
  <2>4. cpc = "judge" /\ cpc' = "read" /\ UNCHANGED <<args, input, exit>>
    BY <1>7 DEF Record, Goto, args, shell
  <2>5. at' \in 1..Len(input') + 1 /\ worst' \in {0, 10, 20}
    BY <2>1, <2>2, <2>3, <2>4, KeepTyped
  <2>6. running' = [running EXCEPT ![1] = running[1] \ {r}]
    BY <2>1 DEF E!RecordOf
  <2>7. running'[1] = {}
    BY <2>4, <2>6 DEF Places
  <2> QED BY <2>4, <2>5, <2>7 DEF LoopTyped
<1>8. CASE RecordFails
  <2>1. PICK r : r \in running[1] /\ running' = [running EXCEPT ![1] = running[1] \ {r}]
    BY <1>8 DEF RecordFails, E!RecordFailsOf
  <2>2. cpc = "judge" /\ cpc' = "ended" /\ exit' = ExitLedgerError /\ UNCHANGED <<input, at, worst>>
    BY <1>8 DEF RecordFails, Fail, Goto, args, progress
  <2>3. running'[1] = {}
    BY <2>1, <2>2 DEF Places
  <2> QED BY <2>2, <2>3 DEF LoopTyped, ExitLedgerError, NotYet
<1>9. CASE OpenFails \/ BadLine \/ AppendFails
  <2>1. /\ cpc \notin {"killed", "judge"} /\ cpc' = "ended"
        /\ exit' \in {ExitInputError, ExitLedgerError, Traceback}
        /\ UNCHANGED <<running, input, at, worst>>
    BY <1>9 DEF OpenFails, BadLine, AppendFails, Fail, Goto, engine, args, progress,
                E!AppendObservedFails
  <2> QED BY <2>1 DEF LoopTyped, ExitInputError, ExitLedgerError, Traceback, NotYet
<1>10. CASE Emit
  <2>1. cpc = "read" /\ cpc' = "ended" /\ exit' = Code /\ UNCHANGED <<running, input, at, worst>>
    BY <1>10 DEF Emit, Goto, engine, args, progress
  <2>2. Code \in {4, 0, 10, 20}
    BY DEF Code, ExitProviderError, LoopTyped
  <2> QED BY <2>1, <2>2 DEF LoopTyped, NotYet
<1>11. CASE Kill
  <2>1. cpc # "ended" /\ cpc' = "killed" /\ UNCHANGED <<input, exit, at, worst>>
    BY <1>11 DEF Kill, args, progress, shell
  <2> QED BY <2>1 DEF LoopTyped
<1>12. CASE Rerun
  <2>1. cpc' = "open" /\ at' = 1 /\ worst' = 0 /\ exit' = NotYet /\ UNCHANGED input
    BY <1>12 DEF Rerun, args
  <2>2. running' = [running EXCEPT ![1] = {}]
    BY <1>12 DEF Rerun, E!Restart
  <2>3. running'[1] = {}
    BY <2>2 DEF Places
  <2> QED BY <1>0, <2>1, <2>3 DEF LoopTyped
<1> QED BY <1>2, <1>3, <1>4, <1>5, <1>6, <1>7, <1>8, <1>9, <1>10, <1>11, <1>12 DEF Next, Step

LEMMA TypeInvHolds == Spec => []TypeInv
<1>1. Init => TypeInv
  <2> SUFFICES ASSUME Init PROVE TypeInv
    OBVIOUS
  <2>1. JevTyped
    BY DEF Init, J!Init, J!Skipped, JevTyped
  <2>2. LedgerTyped
    BY EmptySeq DEF Init, E!Init, LedgerTyped
  <2>3. EngineTyped
    <3>1. /\ decs = 0 /\ restarts = 0 /\ host \in {"serial", "faulty"}
          /\ epc[Command] = "idle" /\ held[Command] = E!NoLocal
          /\ pending[1] = {} /\ running[1] = {}
      BY DEF Init, E!Init
    <3>2. Calls \in Nat /\ MaxRuns - 1 \in Nat
      BY CliAssumption DEF E!EngineAssumption, Calls
    <3> QED BY <3>1, <3>2 DEF EngineTyped
  <2>4. LoopTyped
    <3>1. Len(input) \in Nat /\ cpc = "open" /\ at = 1 /\ worst = 0 /\ exit = NotYet
      BY CliAssumption DEF Init
    <3>2. running[1] = {}
      BY DEF Init, E!Init
    <3> QED BY <3>1, <3>2 DEF LoopTyped
  <2> QED BY <2>1, <2>2, <2>3, <2>4 DEF TypeInv
<1>2. TypeInv /\ LogInv /\ JudgeInv /\ ExitInv /\ OnceInv /\ [Next]_vars => TypeInv'
  BY JevStays, WritesTyped, EngineStays, LoopStays DEF TypeInv, OnceInv
<1> QED BY <1>1, <1>2, LogInvHolds, JudgeInvHolds, ExitInvHolds, OnceInvHolds, PTL DEF Spec

\* Every variable stays in its range: the ids of what is under way were given
\* out, nothing is in two places, the loop is within its file, and there is an
\* exit code exactly when the command has ended.
THEOREM TypeCorrect == Spec => []TypeOK
<1>1. ASSUME TypeInv, OnceInv, JudgeInv, WaitInv PROVE TypeOK
  <2>1. E!TypeOK
    <3>1. \A i \in DOMAIN ledger : ledger[i].type \in {"candidate_observed", "guard_evaluated"}
      BY <1>1 DEF TypeInv, LedgerTyped
    <3>2. epc \in [{Command} -> {"idle", "append", "index"}]
      BY <1>1 DEF TypeInv, EngineTyped, OnceInv, Places
    <3>3. \A f \in {Command} : held[f] = E!NoLocal <=> epc[f] = "idle"
      BY <1>1 DEF TypeInv, EngineTyped, E!NoLocal
    <3>4. \A p \in {1} : /\ \A e \in pending[p] \cup running[p] : e.dec \in 1..decs
                         /\ \A e \in pending[p], r \in running[p] : e.dec # r.dec
      BY <1>1 DEF TypeInv, EngineTyped
    <3>5. Calls \in Nat /\ MaxRuns - 1 \in Nat
      BY CliAssumption DEF E!EngineAssumption, Calls
    <3>6. decs \in 0..Calls /\ restarts \in 0..MaxRuns - 1 /\ host \in {"serial", "faulty"}
      BY <1>1, <3>5 DEF TypeInv, EngineTyped
    <3> QED BY <3>1, <3>2, <3>3, <3>4, <3>6 DEF E!TypeOK, Calls
  <2>2. J!TypeOK
    BY <1>1 DEF TypeInv, JevTyped, WaitInv, J!TypeOK, J!SemanticFailures, SemanticFailures
  <2> QED BY <1>1, <2>1, <2>2 DEF TypeInv, LoopTyped, JudgeInv, PlaceInv, OnceInv, Places, TypeOK
<1> QED BY <1>1, TypeInvHolds, OnceInvHolds, JudgeInvHolds, WaitInvHolds, PTL

----------------------------------------------------------------------------
(* What the command prints.                                               *)

\* The candidates before a line of the file, and what the loop keeps of them:
\* each item that is a decision stands for one that this run recorded.
Before(line) == {n \in 1..(line - 1) : input[n].kind = "candidate"}
Lined        == \E line \in [Shown(results) -> ThisRun] : StandsFor(results, line)
Kept         == /\ \E S : results \in Seq(S)
                /\ Len(results) = Cardinality(Before(at)) /\ Lined

OutInv ==
  /\ Going => Kept
  /\ OutputIsLedger

LEMMA OneMoreLine ==
  ASSUME PlaceInv, UNCHANGED input, at' = at + 1
  PROVE  /\ Cardinality(Before(at)) \in Nat
         /\ input[at].kind = "candidate" => Cardinality(Before(at))' = Cardinality(Before(at)) + 1
         /\ input[at].kind # "candidate" => Cardinality(Before(at))' = Cardinality(Before(at))
<1>1. at \in Nat \ {0}
  BY DEF PlaceInv
<1>2. IsFiniteSet(Before(at)) /\ at \notin Before(at)
  <2>1. IsFiniteSet(1..(at - 1)) /\ Before(at) \subseteq 1..(at - 1)
    BY <1>1, FS_Interval DEF Before
  <2> QED BY <1>1, <2>1, FS_Subset
<1>3. Cardinality(Before(at)) \in Nat /\ Cardinality(Before(at) \cup {at}) = Cardinality(Before(at)) + 1
  BY <1>2, FS_CardinalityType, FS_AddElement
<1>4. \A n : n \in 1..(at' - 1) <=> (n \in 1..(at - 1) \/ n = at)
  BY <1>1
<1>5. Before(at)' = IF input[at].kind = "candidate" THEN Before(at) \cup {at} ELSE Before(at)
  BY <1>4 DEF Before
<1> QED BY <1>3, <1>5

\* Nothing is recorded and nothing is kept.
LEMMA LinesStay ==
  ASSUME Lined, UNCHANGED results, ThisRun' = ThisRun, \A i \in ThisRun : ledger'[i] = ledger[i]
  PROVE  Lined'
<1>1. PICK line \in [Shown(results) -> ThisRun] : StandsFor(results, line)
  BY DEF Lined
<1>2. \A k \in Shown(results) : ledger'[line[k]] = ledger[line[k]]
  OBVIOUS
<1>3. Shown(results') = Shown(results)
  OBVIOUS
<1>4. StandsFor(results, line)'
  BY <1>1, <1>2, <1>3 DEF StandsFor
<1> QED BY <1>1, <1>3, <1>4 DEF Lined

\* One more item of the loop.
LEMMA ItemsAre ==
  ASSUME NEW S, results \in Seq(S), NEW item, results' = Append(results, item)
  PROVE  /\ Len(results) \in Nat /\ Len(results') = Len(results) + 1
         /\ \E T : results' \in Seq(T)
         /\ \A k \in Shown(results) : k \in 1..Len(results) /\ results'[k] = results[k]
         /\ results'[Len(results) + 1] = item
         /\ Shown(results') = IF item = Skip THEN Shown(results)
                              ELSE Shown(results) \cup {Len(results) + 1}
<1>1. PICK T : T = S \cup {item}
  OBVIOUS
<1>2. results \in Seq(T) /\ item \in T
  BY <1>1
<1>3. PICK n : n = Len(results)
  OBVIOUS
<1>4. /\ results' \in Seq(T) /\ Len(results') = n + 1 /\ n \in Nat
      /\ \A k \in 1..n : results'[k] = results[k]
      /\ results'[n + 1] = item
      /\ DOMAIN results = 1..n /\ DOMAIN results' = 1..(n + 1)
  BY <1>2, <1>3, AppendProperties, LenProperties
<1>5. \A k : k \in 1..(n + 1) <=> (k \in 1..n \/ k = n + 1)
  BY <1>4
<1>6. n + 1 \notin 1..n
  BY <1>4
<1> QED BY <1>3, <1>4, <1>5, <1>6 DEF Shown

\* A repeat is skipped.
LEMMA SkipsOne ==
  ASSUME Kept, PlaceInv, input[at].kind = "candidate", UNCHANGED <<input, ledger, before>>,
         at' = at + 1, results' = Append(results, Skip)
  PROVE  Kept'
<1>1. PICK S : results \in Seq(S)
  BY DEF Kept
<1>2. /\ Len(results') = Len(results) + 1 /\ \E T : results' \in Seq(T)
      /\ \A k \in Shown(results) : results'[k] = results[k]
      /\ Shown(results') = Shown(results)
  BY <1>1, ItemsAre
<1>3. Len(results') = Cardinality(Before(at))'
  BY <1>2, OneMoreLine DEF Kept
<1>4. PICK line \in [Shown(results) -> ThisRun] : StandsFor(results, line)
  BY DEF Kept, Lined
<1>5. ThisRun' = ThisRun
  BY DEF ThisRun
<1>6. StandsFor(results, line)'
  BY <1>2, <1>4, <1>5 DEF StandsFor
<1>7. Lined'
  BY <1>2, <1>4, <1>5, <1>6 DEF Lined
<1> QED BY <1>2, <1>3, <1>7 DEF Kept

\* A decision is recorded and kept.
LEMMA KeepsDecision ==
  ASSUME Kept, PlaceInv, LogInv, input[at].kind = "candidate", UNCHANGED <<input, before>>,
         NEW e, e.type = "guard_evaluated", ledger' = Append(ledger, e),
         NEW item, item # Skip, item.dec = e.dec, item.verdict = e.decision.verdict,
         at' = at + 1, results' = Append(results, item)
  PROVE  Kept'
<1>1. PICK S : results \in Seq(S)
  BY DEF Kept
<1>2. PICK m : m = Len(results) + 1
  OBVIOUS
<1>3. /\ m \in Nat /\ Len(results') = m /\ \E T : results' \in Seq(T)
      /\ \A k \in Shown(results) : k \in 1..(m - 1) /\ results'[k] = results[k]
      /\ results'[m] = item
      /\ Shown(results') = Shown(results) \cup {m}
  BY <1>1, <1>2, ItemsAre
<1>4. Len(results') = Cardinality(Before(at))'
  BY <1>2, <1>3, OneMoreLine DEF Kept
<1>5. PICK old \in [Shown(results) -> ThisRun] : StandsFor(results, old)
  BY DEF Kept, Lined
<1>6. PICK n : n = Len(ledger) + 1
  OBVIOUS
<1>7. /\ ThisRun' = ThisRun \cup {n} /\ ledger'[n] = e
      /\ \A i \in ThisRun : ledger'[i] = ledger[i]
  BY <1>6, Telling
<1>8. n \in Nat /\ \A i \in ThisRun : i \in Nat /\ i < n
  <2>1. Len(ledger) \in Nat /\ DOMAIN ledger = 1..Len(ledger)
    BY LenProperties DEF LogInv
  <2> QED BY <1>6, <2>1 DEF ThisRun
<1>9. \A k \in Shown(results) : k \in Nat /\ k < m
  BY <1>3
<1>10. PICK line : line = [k \in Shown(results) \cup {m} |-> IF k = m THEN n ELSE old[k]]
  OBVIOUS
<1>11. /\ line \in [Shown(results) \cup {m} -> ThisRun \cup {n}] /\ line[m] = n
       /\ \A k \in Shown(results) : line[k] = old[k] /\ line[k] \in ThisRun
  BY <1>3, <1>9, <1>10
<1>12. \A i \in ThisRun \cup {n} : \E k \in Shown(results) \cup {m} : line[k] = i
  BY <1>5, <1>11 DEF StandsFor
<1>13. \A k, l \in Shown(results) \cup {m} : k < l => line[k] < line[l]
  <2> SUFFICES ASSUME NEW k \in Shown(results) \cup {m}, NEW l \in Shown(results) \cup {m}, k < l
               PROVE  line[k] < line[l]
    OBVIOUS
  <2>1. k # m
    BY <1>3, <1>9
  <2>2. CASE l = m
    BY <1>8, <1>11, <2>1, <2>2
  <2>3. CASE l # m
    BY <1>5, <1>11, <2>1, <2>3 DEF StandsFor
  <2> QED BY <2>2, <2>3
<1>14. ASSUME NEW k \in Shown(results) \cup {m}
       PROVE  /\ results'[k].dec = ledger'[line[k]].dec
              /\ results'[k].verdict = ledger'[line[k]].decision.verdict
  <2>1. CASE k = m
    BY <1>3, <1>7, <1>11, <2>1
  <2>2. CASE k # m
    <3>1. k \in Shown(results) /\ results'[k] = results[k]
      BY <1>3, <2>2
    <3>2. line[k] = old[k] /\ ledger'[line[k]] = ledger[old[k]]
      BY <1>7, <1>11, <3>1
    <3> QED BY <1>5, <3>1, <3>2 DEF StandsFor
  <2> QED BY <2>1, <2>2
<1>15. StandsFor(results, line)'
  BY <1>3, <1>7, <1>12, <1>13, <1>14 DEF StandsFor
<1>16. Lined'
  BY <1>3, <1>7, <1>11, <1>15 DEF Lined
<1> QED BY <1>3, <1>4, <1>16 DEF Kept

\* A clean exit prints what the loop kept.
LEMMA EmitPrints ==
  ASSUME Kept, JudgeInv, LoopTyped, Emit
  PROVE  OutInv'
<1>1. /\ cpc' = "ended" /\ at > Len(input) /\ printed' = results /\ exit' = Code
      /\ UNCHANGED <<ledger, before, input>>
  BY DEF Emit, Goto, engine, args
<1>2. ~Going' /\ Clean'
  <2>1. Code \in {4, 0, 10, 20}
    BY DEF Code, ExitProviderError, LoopTyped
  <2> QED BY <1>1, <2>1 DEF Going, Clean, Ended, Traceback, ExitInputError, ExitLedgerError
<1>3. {n \in DOMAIN input : input[n].kind = "candidate"} = Before(at)
  <2>1. Len(input) \in Nat /\ DOMAIN input = 1..Len(input)
    BY CliAssumption DEF JudgeInv, PlaceInv
  <2>2. at - 1 = Len(input)
    BY <1>1, <2>1 DEF LoopTyped
  <2> QED BY <2>1, <2>2 DEF Before
<1>4. PICK line \in [Shown(results) -> ThisRun] : StandsFor(results, line)
  BY DEF Kept, Lined
<1>5. ThisRun' = ThisRun
  BY <1>1 DEF ThisRun
<1>6. StandsFor(printed, line)'
  BY <1>1, <1>4, <1>5 DEF StandsFor
<1>7. Len(printed') = Cardinality({n \in DOMAIN input' : input'[n].kind = "candidate"})
  BY <1>1, <1>3 DEF Kept
<1>8. OutputIsLedger'
  BY <1>1, <1>2, <1>4, <1>5, <1>6, <1>7 DEF OutputIsLedger
<1> QED BY <1>2, <1>8 DEF OutInv

LEMMA OutInvHolds == Spec => []OutInv
<1>1. Init => OutInv
  <2> SUFFICES ASSUME Init PROVE OutInv
    OBVIOUS
  <2>1. ledger = <<>> /\ cpc = "open" /\ at = 1 /\ results = <<>> /\ printed = <<>>
    BY DEF Init, E!Init
  <2>2. Before(at) = {} /\ Shown(results) = {} /\ ThisRun = {}
    <3>1. 1..(at - 1) = {}
      BY <2>1
    <3> QED BY <2>1, <3>1, EmptySeq DEF Before, Shown, ThisRun
  <2>3. Lined
    <3>1. PICK line : line = [k \in {} |-> 0]
      OBVIOUS
    <3>2. line \in [Shown(results) -> ThisRun]
      BY <2>2, <3>1
    <3> QED BY <2>2, <3>2 DEF Lined, StandsFor
  <2>4. Kept
    BY <2>1, <2>2, <2>3, EmptySeq, FS_EmptySet DEF Kept
  <2>5. OutputIsLedger
    BY <2>1 DEF OutputIsLedger, Clean, Ended
  <2> QED BY <2>4, <2>5 DEF OutInv
<1>2. OutInv /\ TypeInv /\ LogInv /\ JudgeInv /\ [Next]_vars => OutInv'
  <2> SUFFICES ASSUME OutInv, TypeInv, LogInv, JudgeInv, [Next]_vars PROVE OutInv'
    OBVIOUS
  <2>0. PlaceInv
    BY DEF JudgeInv
  <2>1. ASSUME Going, cpc' \notin {"ended", "killed"}, Kept', UNCHANGED printed
        PROVE  OutInv'
    <3>1. ~Clean /\ ~Clean'
      BY <2>1 DEF Going, Clean, Ended
    <3> QED BY <2>1, <3>1 DEF OutInv, OutputIsLedger
  <2>2. ASSUME Going, Kept, cpc' \notin {"ended", "killed"}, UNCHANGED <<input, at, results, printed>>,
               ThisRun' = ThisRun, \A i \in ThisRun : ledger'[i] = ledger[i]
        PROVE  OutInv'
    <3>1. Lined'
      BY <2>2, LinesStay DEF Kept
    <3>2. Cardinality(Before(at))' = Cardinality(Before(at))
      BY <2>2 DEF Before
    <3>3. Kept'
      BY <2>2, <3>1, <3>2 DEF Kept
    <3> QED BY <2>1, <2>2, <3>3
  <2>3. CASE OpenFails \/ BadLine \/ AppendFails \/ RecordFails \/ Kill
    <3>1. /\ Going /\ UNCHANGED printed
          /\ \/ cpc' = "killed"
             \/ cpc' = "ended" /\ exit' \in {Traceback, ExitInputError, ExitLedgerError}
      BY <2>3 DEF OpenFails, BadLine, AppendFails, RecordFails, Kill, Fail, Goto, Going, shell
    <3>2. ~Clean /\ ~Clean' /\ ~Going'
      BY <3>1 DEF Going, Clean, Ended
    <3> QED BY <3>1, <3>2 DEF OutInv, OutputIsLedger
  <2>4. CASE Open \/ Lookup \/ ObservedNew \/ Check \/ CallJev
    <3>1. /\ cpc \notin {"ended", "killed"} /\ cpc' \notin {"ended", "killed"}
          /\ UNCHANGED <<ledger, before, input, at, results, printed>>
      BY <2>4 DEF Open, Lookup, ObservedNew, Check, CallJev, Goto, engine, args, progress, shell,
                  E!LookupOf, E!IndexObserved, E!RunTheChecks
    <3>2. ThisRun' = ThisRun
      BY <3>1 DEF ThisRun
    <3> QED BY <2>2, <3>1, <3>2 DEF OutInv, Going
  <2>5. CASE AppendObserved
    <3>1. PICK e : e = E!Observed(Command)
      OBVIOUS
    <3>2. /\ cpc \notin {"ended", "killed"} /\ cpc' \notin {"ended", "killed"}
          /\ ledger' = Append(ledger, e) /\ e.type # "guard_evaluated"
          /\ UNCHANGED <<before, input, at, results, printed>>
      BY <2>5, <3>1 DEF AppendObserved, E!AppendObserved, E!Observed, args, progress, shell
    <3>3. ThisRun' = ThisRun /\ \A i \in ThisRun : ledger'[i] = ledger[i]
      BY <3>2, Telling
    <3> QED BY <2>2, <3>2, <3>3 DEF OutInv, Going
  <2>6. CASE Blank
    <3>1. /\ cpc = "read" /\ cpc' = "read" /\ input[at].kind = "blank" /\ at' = at + 1
          /\ UNCHANGED <<ledger, before, input, results, printed>>
      BY <2>6 DEF Blank, At, Goto, engine, args, shell
    <3>2. Kept
      BY <3>1 DEF OutInv, Going
    <3>3. ThisRun' = ThisRun
      BY <3>1 DEF ThisRun
    <3>4. Lined'
      BY <3>1, <3>2, <3>3, LinesStay DEF Kept
    <3>5. Cardinality(Before(at))' = Cardinality(Before(at))
      BY <2>0, <3>1, OneMoreLine
    <3>6. Kept'
      BY <3>1, <3>2, <3>4, <3>5 DEF Kept
    <3> QED BY <2>1, <3>1, <3>6 DEF Going
  <2>7. CASE SkipRepeat
    <3>1. /\ cpc = "observe" /\ cpc' = "read" /\ at' = at + 1 /\ results' = Append(results, Skip)
          /\ UNCHANGED <<ledger, before, input, printed>>
      BY <2>7 DEF SkipRepeat, Keep, Goto, args, shell, E!IndexObserved
    <3>2. Kept /\ input[at].kind = "candidate"
      BY <2>0, <3>1 DEF OutInv, Going, PlaceInv
    <3>3. Kept'
      BY <2>0, <3>1, <3>2, SkipsOne
    <3> QED BY <2>1, <3>1, <3>3 DEF Going
  <2>8. CASE Record
    <3>1. PICK r \in running[1] :
            /\ E!RecordOf(1, r, Judgment(r))
            /\ Keep([dec |-> r.dec, verdict |-> E!Evaluated(r, Judgment(r)).decision.verdict,
                     status |-> Judgment(r).status],
                    ExitCode(E!Evaluated(r, Judgment(r)).decision.verdict))
      BY <2>8 DEF Record
    <3>2. PICK e : e = E!Evaluated(r, Judgment(r))
      OBVIOUS
    <3>3. PICK item : item = [dec |-> r.dec, verdict |-> e.decision.verdict,
                              status |-> Judgment(r).status]
      OBVIOUS
    <3>4. /\ cpc = "judge" /\ cpc' = "read" /\ ledger' = Append(ledger, e)
          /\ at' = at + 1 /\ results' = Append(results, item)
          /\ UNCHANGED <<before, input, printed>>
      BY <2>8, <3>1, <3>2, <3>3 DEF Record, Goto, Keep, args, shell, E!RecordOf
    <3>5. e.type = "guard_evaluated" /\ e.dec = r.dec
      BY <3>2 DEF E!Evaluated
    <3>6. item.dec = e.dec /\ item.verdict = e.decision.verdict /\ item # Skip
      <4>1. r.dec \in 1..decs
        BY DEF TypeInv, EngineTyped
      <4>2. r.dec # 0
        BY <4>1 DEF TypeInv, EngineTyped
      <4>3. item.dec = r.dec /\ item.verdict = e.decision.verdict
        BY <3>3
      <4>4. Skip.dec = 0
        BY DEF Skip
      <4> QED BY <3>5, <4>2, <4>3, <4>4
    <3>7. Kept /\ input[at].kind = "candidate"
      BY <2>0, <3>4 DEF OutInv, Going, PlaceInv
    <3>8. Kept'
      BY <2>0, <3>4, <3>5, <3>6, <3>7, KeepsDecision
    <3> QED BY <2>1, <3>4, <3>8 DEF Going
  <2>9. CASE Emit
    <3>1. Kept
      BY <2>9 DEF Emit, Goto, OutInv, Going
    <3> QED BY <2>9, <3>1, EmitPrints DEF TypeInv
  <2>10. CASE Rerun
    <3>1. /\ cpc' = "open" /\ at' = 1 /\ results' = <<>> /\ printed' = <<>>
          /\ before' = Len(ledger) /\ ledger' = ledger
      BY <2>10 DEF Rerun, E!Restart
    <3>2. ThisRun' = {}
      <4>1. DOMAIN ledger = 1..Len(ledger) /\ Len(ledger) \in Nat
        BY LenProperties DEF LogInv
      <4> QED BY <3>1, <4>1 DEF ThisRun
    <3>3. Before(at)' = {} /\ Shown(results') = {}
      <4>1. 1..(at' - 1) = {}
        BY <3>1
      <4> QED BY <3>1, <4>1 DEF Before, Shown
    <3>4. Lined'
      <4>1. PICK line : line = [k \in {} |-> 0]
        OBVIOUS
      <4>2. line \in [Shown(results') -> ThisRun']
        BY <3>2, <3>3, <4>1
      <4> QED BY <3>2, <3>3, <4>2 DEF Lined, StandsFor
    <3>5. Kept'
      BY <3>1, <3>3, <3>4, EmptySeq, FS_EmptySet DEF Kept
    <3>6. OutputIsLedger'
      BY <3>1 DEF OutputIsLedger, Clean, Ended
    <3> QED BY <3>5, <3>6 DEF OutInv
  <2>11. CASE UNCHANGED vars
    <3>1. UNCHANGED <<ledger, before, cpc, input, at, results, exit, printed>>
      BY <2>11 DEF vars, engine, args, progress, shell
    <3>2. ThisRun' = ThisRun /\ (Going' <=> Going) /\ (Clean' <=> Clean)
      BY <3>1 DEF ThisRun, Going, Clean, Ended
    <3>3. Kept => Kept'
      <4>1. Lined => Lined'
        BY <3>1, <3>2, LinesStay
      <4> QED BY <3>1, <4>1 DEF Kept, Before
    <3>4. OutputIsLedger'
      BY <3>1, <3>2 DEF OutInv, OutputIsLedger, StandsFor
    <3> QED BY <3>2, <3>3, <3>4 DEF OutInv
  <2> QED BY <2>3, <2>4, <2>5, <2>6, <2>7, <2>8, <2>9, <2>10, <2>11 DEF Next, Step
<1> QED BY <1>1, <1>2, TypeInvHolds, LogInvHolds, JudgeInvHolds, PTL DEF Spec

\* A command that exits cleanly prints one item for each candidate of its file,
\* and its decisions are those this run recorded, each once and in that order;
\* a command that fails prints nothing, for any file and any number of runs.
THEOREM PrintedIsRecorded == Spec => []OutputIsLedger
<1>1. OutInv => OutputIsLedger
  BY DEF OutInv
<1> QED BY <1>1, OutInvHolds, PTL
=============================================================================
