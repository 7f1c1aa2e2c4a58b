------------------------------- MODULE Engine -------------------------------
(***************************************************************************)
(* engine.py, class ShadowEngine, with the LedgerIndex each process keeps  *)
(* of a ledger it shares with the others.  A flow is a payment thread      *)
(* inside observe(); what observe() returned waits for evaluate(), which a *)
(* worker or the CLI calls.  An append is one step here: Ledger shows that *)
(* it is one.                                                              *)
(***************************************************************************)
EXTENDS Normalize, Aggregate, Index, FiniteSets, SequencesExt

CONSTANTS Processes, Flows,
          ProcOf,       \* the process of each flow
          Offers,       \* raw candidates the payment flow may hand over
          Judgments,    \* what a call of the judge may come to
          Policy,
          Hosts,        \* how the host may behave: see Threaded and Faulty
          MaxObserved,  \* bound: calls of observe()
          MaxRestarts   \* bound: crashes of a process

ASSUME EngineAssumption ==
  /\ ProcOf \in [Flows -> Processes]
  /\ MaxObserved \in Nat /\ MaxRestarts \in Nat
  /\ Hosts \subseteq {"serial", "threads", "faulty", "rough"}
  /\ \A raw \in Offers : IsRaw(raw)

VARIABLES ledger,    \* the events, oldest first
          index,     \* LedgerIndex of each process
          pc, held,  \* flows: place in observe(), its locals
          pending,   \* of each process: observed, and not yet evaluated
          running,   \* of each process: checked, and the judge was asked
          decs,      \* decision ids given out (new_id)
          restarts, host

vars == <<ledger, index, pc, held, pending, running, decs, restarts, host>>

\* Payment threads of one process overlap in observe(); an append can fail
\* after its line is in the file (fsync); or both.
Threaded == host \in {"threads", "rough"}
Faulty   == host \in {"faulty", "rough"}

NoLocal == [dec |-> 0]

\* What utc_now() may say when the next candidate is observed: seconds, so two
\* candidates can have the same, and a clock can be set back.
Times == 1..decs + 1

ChecksOf(p, e) == RunChecks(e.cand, PriorRequest(index[p], e.cand.request, e.dec), Policy)
----------------------------------------------------------------------------
Init ==
  /\ ledger = <<>> /\ index = [p \in Processes |-> EmptyIndex]
  /\ pc = [f \in Flows |-> "idle"] /\ held = [f \in Flows |-> NoLocal]
  /\ pending = [p \in Processes |-> {}] /\ running = [p \in Processes |-> {}]
  /\ decs = 0 /\ restarts = 0 /\ host \in Hosts

Alone(f) == \A g \in Flows : ProcOf[g] = ProcOf[f] => pc[g] = "idle"

\* observe(): normalise, and look the candidate up.
LookupOf(f, raw) ==
  /\ pc[f] = "idle" /\ decs < MaxObserved
  /\ Threaded \/ Alone(f)
  /\ decs' = decs + 1
  /\ \E now \in Times :
       LET c == Normalized(raw, now)
       IN  held' = [held EXCEPT ![f] = [dec |-> decs', cand |-> c,
                      duplicate_of |-> EvaluatedDecision(index[ProcOf[f]], c)]]
  /\ pc' = [pc EXCEPT ![f] = "append"]
  /\ UNCHANGED <<ledger, index, pending, running, restarts, host>>

Lookup(f) == \E raw \in Offers : LookupOf(f, raw)

Observed(f) == [type |-> "candidate_observed", dec |-> held[f].dec, cand |-> held[f].cand,
                duplicate_of |-> held[f].duplicate_of]

AppendObserved(f) ==
  /\ pc[f] = "append" /\ pc' = [pc EXCEPT ![f] = "index"]
  /\ ledger' = Append(ledger, Observed(f))
  /\ UNCHANGED <<index, held, pending, running, decs, restarts, host>>

\* The append raises LedgerError, before its line is in the file or after.
AppendObservedFails(f) ==
  /\ Faulty
  /\ pc[f] = "append" /\ pc' = [pc EXCEPT ![f] = "idle"]
  /\ ledger' \in {ledger, Append(ledger, Observed(f))}
  /\ held' = [held EXCEPT ![f] = NoLocal]
  /\ UNCHANGED <<index, pending, running, decs, restarts, host>>

JudgeAnyway(f) == {[dec |-> held[f].dec, cand |-> held[f].cand]}

\* What the caller of observe() goes on to evaluate: nothing for a repeat.
ToEvaluate(f) ==
  IF held[f].duplicate_of # NoDup THEN {}
  ELSE {[dec |-> held[f].dec, cand |-> held[f].cand]}

IndexObserved(f) ==
  /\ pc[f] = "index" /\ pc' = [pc EXCEPT ![f] = "idle"]
  /\ index' = [index EXCEPT ![ProcOf[f]] = ObserveEvent(@, Observed(f))]
  /\ pending' = [pending EXCEPT ![ProcOf[f]] = @ \cup ToEvaluate(f)]
  /\ held' = [held EXCEPT ![f] = NoLocal]
  /\ UNCHANGED <<ledger, running, decs, restarts, host>>

Peek(p, e) == e \in pending[p] /\ UNCHANGED pending
Take(p, e) == e \in pending[p] /\ pending' = [pending EXCEPT ![p] = @ \ {e}]

\* The hook drops a candidate whose queue is full.
Drop(p, e) ==
  /\ Take(p, e)
  /\ UNCHANGED <<ledger, index, pc, held, running, decs, restarts, host>>

\* evaluate(): the checks, and the call of the judge unless they failed.
RunTheChecks(p, e) ==
  /\ Take(p, e)
  /\ running' = [running EXCEPT ![p] = @ \cup {[dec |-> e.dec, cand |-> e.cand,
                                                checks |-> ChecksOf(p, e)]}]
  /\ UNCHANGED <<ledger, index, pc, held, decs, restarts, host>>

Judge(checks) == IF checks.status # "PASS" THEN {Skipped} ELSE Judgments

Evaluated(r, j) == [type |-> "guard_evaluated", dec |-> r.dec, cand |-> r.cand,
                    checks |-> r.checks, judgment |-> j.status,
                    decision |-> Decide(r.checks, j, Policy.thresholds)]

\* The judgment comes, is aggregated and recorded; observe_event() ignores it.
RecordOf(p, r, j) ==
  /\ r \in running[p] /\ running' = [running EXCEPT ![p] = @ \ {r}]
  /\ ledger' = Append(ledger, Evaluated(r, j))
  /\ UNCHANGED <<index, pc, held, pending, decs, restarts, host>>

RecordFailsOf(p, r, j) ==
  /\ Faulty
  /\ r \in running[p] /\ running' = [running EXCEPT ![p] = @ \ {r}]
  /\ ledger' \in {ledger, Append(ledger, Evaluated(r, j))}
  /\ UNCHANGED <<index, pc, held, pending, decs, restarts, host>>

Record(p, r)      == \E j \in Judge(r.checks) : RecordOf(p, r, j)
RecordFails(p, r) == \E j \in Judge(r.checks) : RecordFailsOf(p, r, j)

\* The process dies and starts again: its memory is what the ledger tells.
Restart(p) ==
  /\ restarts < MaxRestarts /\ restarts' = restarts + 1
  /\ pc' = [f \in Flows |-> IF ProcOf[f] = p THEN "idle" ELSE pc[f]]
  /\ held' = [f \in Flows |-> IF ProcOf[f] = p THEN NoLocal ELSE held[f]]
  /\ pending' = [pending EXCEPT ![p] = {}] /\ running' = [running EXCEPT ![p] = {}]
  /\ index' = [index EXCEPT ![p] = Rebuild(ledger)]
  /\ UNCHANGED <<ledger, decs, host>>

Next ==
  \/ \E f \in Flows : \/ Lookup(f) \/ AppendObserved(f) \/ AppendObservedFails(f)
                      \/ IndexObserved(f)
  \/ \E p \in Processes :
       \/ \E e \in pending[p] : Drop(p, e) \/ RunTheChecks(p, e)
       \/ \E r \in running[p] : Record(p, r) \/ RecordFails(p, r)
       \/ Restart(p)

Spec == Init /\ [][Next]_vars
----------------------------------------------------------------------------
(* Properties.                                                             *)

Observations == {i \in DOMAIN ledger : ledger[i].type = "candidate_observed"}
Evaluations  == {i \in DOMAIN ledger : ledger[i].type = "guard_evaluated"}
ObservedAs(dec) == CHOOSE i \in Observations : ledger[i].dec = dec

TypeOK ==
  /\ \A i \in DOMAIN ledger : ledger[i].type \in {"candidate_observed", "guard_evaluated"}
  /\ pc \in [Flows -> {"idle", "append", "index"}]
  /\ \A f \in Flows : held[f] = NoLocal <=> pc[f] = "idle"
  /\ \A p \in Processes :
       /\ \A e \in pending[p] \cup running[p] : e.dec \in 1..decs
       /\ \A e \in pending[p], r \in running[p] : e.dec # r.dec
  /\ decs \in 0..MaxObserved /\ restarts \in 0..MaxRestarts /\ host \in Hosts

\* A double spend is never paid silently: of the decisions on one request at
\* most one says PAY without retry evidence, whatever the threads, the lost
\* candidates and the restarts.
NoSecondPay ==
  \A i, j \in Evaluations :
    /\ ledger[i].cand.request = ledger[j].cand.request
    /\ \A k \in {i, j} : /\ ledger[k].decision.verdict = "PAY"
                         /\ Retry \notin ledger[k].checks.signals
    => ledger[i].dec = ledger[j].dec

\* Evaluating later changes nothing: while a candidate waits, other purchases
\* are observed, and the checks would say the same at any moment.
WaitingChangesNothing ==
  [][\A p \in Processes : \A e \in pending[p] :
       e \in pending'[p] => ChecksOf(p, e)' = ChecksOf(p, e)]_vars

\* A repeat points at an earlier observation of the same request and content
\* that is not a repeat itself.
RepeatPointsBack ==
  \A i \in Observations : ledger[i].duplicate_of # NoDup =>
    \E k \in Observations :
      /\ k < i /\ ledger[k].dec = ledger[i].duplicate_of
      /\ ledger[k].cand = ledger[i].cand /\ ledger[k].duplicate_of = NoDup

\* A repeat is not judged a second time, by a host that observes one candidate
\* at a time and whose appends do not fail.
JudgedOnce ==
  host = "serial" =>
    \A i, j \in Evaluations : ledger[i].cand = ledger[j].cand
                                /\ ledger[i].cand.request # NoRequest => i = j

\* The ledger explains every check: with such a host the signals recorded are
\* those the first earlier event of the same request calls for.
LedgerExplainsSignals ==
  host = "serial" =>
    \A i \in Evaluations :
      LET c     == ledger[i].cand
          here  == ObservedAs(ledger[i].dec)
          earlier == {k \in Observations : k < here /\ ledger[k].cand.request = c.request}
          first == ledger[CHOOSE k \in earlier : \A l \in earlier : k <= l].cand
      IN  /\ Duplicate \in ledger[i].checks.signals <=>
               (/\ earlier # {} /\ c.request # NoRequest /\ ~IsRetry(c, first, Policy))
          /\ Retry \in ledger[i].checks.signals <=>
               (/\ earlier # {} /\ c.request # NoRequest /\ IsRetry(c, first, Policy))

\* A restart is invisible to such a host: the index is at any time what one
\* pass over the ledger would make of it.
RestartInvisible ==
  host = "serial" => \A p \in Processes :
    (\A f \in Flows : ProcOf[f] = p => pc[f] # "index") => index[p] = Rebuild(ledger)
=============================================================================
