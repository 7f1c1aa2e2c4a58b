------------------------------- MODULE System -------------------------------
(***************************************************************************)
(* The guard as a host runs it: ShadowGuard (Guard) over ShadowEngine and  *)
(* its index (Engine), in the asynchronous mode.  A payment thread of the  *)
(* guard is a flow of the engine; a worker calls the engine's evaluate().  *)
(* Each step is one of the two modules' steps, or one of both where a call *)
(* returns or raises.  The host is a quiet one: it keeps the guard running *)
(* while it observes, and stops it once.                                   *)
(***************************************************************************)
EXTENDS Naturals, Sequences, FiniteSets

CONSTANTS Payers, QueueSize, MaxCalls,         \* see Guard
          Offers, Judgments, Policy, Hosts     \* see Engine

VARIABLES pc, cand, calls, queue, unfinished, tpc, item, worker, starts,
          stopping, ctl, stops, mode, host, counters, fates,        \* Guard
          ledger, index, epc, held, pending, running, decs,
          restarts, ehost,                                          \* Engine
          decOf   \* the decision id each call of observe() got, 0 for none

guard  == <<pc, cand, calls, queue, unfinished, tpc, item, worker, starts,
            stopping, ctl, stops, mode, host, counters, fates>>
engine == <<ledger, index, epc, held, pending, running, decs, restarts, ehost>>
vars   == <<guard, engine, decOf>>

G == INSTANCE Guard WITH MaxStarts <- 1
E == INSTANCE Engine WITH
       Processes <- {1}, Flows <- Payers, ProcOf <- [p \in Payers |-> 1],
       MaxObserved <- MaxCalls, MaxRestarts <- 0, pc <- epc, host <- ehost

ASSUME SystemAssumption == G!GuardAssumption /\ E!EngineAssumption

DecOf(c) == IF c \in DOMAIN decOf THEN decOf[c] ELSE 0
InHand   == {p \in Payers : pc[p] = "hand"}
AtWork   == {t \in G!Threads : tpc[t] = "run"}
Checked  == {r.dec : r \in running[1]}
Waiting  == {e.dec : e \in pending[1]}

\* The worker's candidate has gone through evaluate().
Evaluated(t) == DecOf(item[t]) \notin Waiting \cup Checked

Init ==
  /\ G!Init /\ mode = "async" /\ host = "quiet"
  /\ E!Init /\ decOf = <<>>

----------------------------------------------------------------------------
(* observe(), on a payment thread.                                        *)

Inside == {p \in Payers : epc[p] # "idle"}

\* The host may call observe() now.
MayEnter(p) ==
  /\ pc[p] = "idle" /\ epc[p] = "idle"
  /\ ctl = "idle" /\ worker # 0
  /\ calls + Cardinality(Inside) < MaxCalls

Enter(p) == MayEnter(p) /\ E!Lookup(p) /\ UNCHANGED <<guard, decOf>>

AppendObserved(p) == E!AppendObserved(p) /\ UNCHANGED <<guard, decOf>>

\* engine.observe() is over, and where that leaves the payment thread.
Over(p, place, dec) ==
  /\ G!Observe(p) /\ pc'[p] = place /\ decOf' = Append(decOf, dec)

\* It raises, before there is a decision id or when the append fails.
ObserveRaises(p) ==
  \/ MayEnter(p) /\ Over(p, "handler", 0) /\ UNCHANGED engine
  \/ E!AppendObservedFails(p) /\ Over(p, "handler", held[p].dec)

\* It returns, and a repeat goes no further.
ObserveReturns(p) ==
  /\ E!IndexObserved(p)
  /\ Over(p, IF held[p].duplicate_of # E!NoDup THEN "idle" ELSE "hand", held[p].dec)

Enqueue(p) == G!Enqueue(p) /\ UNCHANGED <<engine, decOf>>

EnqueueFull(p) ==
  /\ G!EnqueueFull(p)
  /\ \E e \in pending[1] : e.dec = DecOf(cand[p]) /\ E!Drop(1, e)
  /\ UNCHANGED decOf

Handler(p) == G!Handler(p) /\ UNCHANGED <<engine, decOf>>

----------------------------------------------------------------------------
(* The worker: _drain() and, under it, engine.evaluate().                 *)

Fetch(t) ==
  /\ G!CheckStop(t) \/ G!GetEmpty(t) \/ G!GetPoison(t) \/ G!GetCandidate(t)
  /\ UNCHANGED <<engine, decOf>>

Check(t) ==
  /\ t \in AtWork
  /\ \E e \in pending[1] : e.dec = DecOf(item[t]) /\ E!RunTheChecks(1, e)
  /\ UNCHANGED <<guard, decOf>>

\* The judgment is in the ledger; only then is it counted.
Record(t) ==
  /\ t \in AtWork
  /\ \E r \in running[1] : r.dec = DecOf(item[t]) /\ E!Record(1, r)
  /\ UNCHANGED <<guard, decOf>>

Count(t) ==
  /\ t \in AtWork /\ Evaluated(t) /\ G!Run(t)
  /\ UNCHANGED <<engine, decOf>>

EvaluateRaises(t) ==
  /\ t \in AtWork /\ G!RunFails(t)
  /\ \E r \in running[1] : r.dec = DecOf(item[t]) /\ E!RecordFails(1, r)
  /\ UNCHANGED decOf

----------------------------------------------------------------------------
(* The host's thread.                                                     *)

Start == G!Start /\ UNCHANGED <<engine, decOf>>
Stop  == Inside = {} /\ G!Stop /\ UNCHANGED <<engine, decOf>>
FinishStop == G!FinishStop /\ UNCHANGED <<engine, decOf>>

Pay(p)  == \/ AppendObserved(p) \/ ObserveRaises(p) \/ ObserveReturns(p)
           \/ Enqueue(p) \/ EnqueueFull(p) \/ Handler(p)
Work(t) == Fetch(t) \/ Check(t) \/ Record(t) \/ Count(t) \/ EvaluateRaises(t)

Next == \/ \E p \in Payers : Enter(p) \/ Pay(p)
        \/ \E t \in G!Threads : Work(t)
        \/ Start \/ Stop \/ FinishStop

Spec == Init /\ [][Next]_vars

\* A thread inside observe() goes on, so does the worker, and Jev's answer or
\* failure comes (Cli: the call is bounded).  The host is free not to call.
FairSpec == /\ Spec
            /\ \A p \in Payers : WF_vars((pc[p] # "idle" \/ p \in Inside) /\ Pay(p))
            /\ \A t \in G!Threads : WF_vars(Work(t))

----------------------------------------------------------------------------
(* Properties.                                                            *)

New     == {i \in E!Observations : ledger[i].duplicate_of = E!NoDup}
Dropped == {DecOf(c) : c \in {k \in 1..calls : "dropped" \in fates[k]}} \ {0}
Judged  == {ledger[i].dec : i \in E!Evaluations}

Recorded == {ledger[i].dec : i \in New}
Verdicts == [d \in 1..MaxCalls |-> Cardinality({i \in E!Evaluations : ledger[i].dec = d})]
Lost     == Dropped \ Judged

\* The hook, its queue and the engine together keep the promise to the
\* operator: each purchase recorded is judged once, or counted as lost and not
\* judged.  A verdict whose append raised after it was written is a verdict.
Promise == INSTANCE Recorder WITH
             Decisions <- 1..MaxCalls,
             recorded <- Recorded, verdicts <- Verdicts, lost <- Lost
KeepsPromise == Promise!Spec

\* And none is forgotten: the worker gets to each of them, unless its queue
\* was full, and what raises is counted.
EachSettles == Promise!Settles

\* The counters and the ledger tell the same: what was observed and what was
\* evaluated are there, but for calls that are not over and for appends that
\* raised although their line was written, which are among the dropped.
CountersTellLedger ==
  LET observed  == Cardinality(E!Observations)
                     - Cardinality({p \in Payers : epc[p] = "index"})
      evaluated == Cardinality(E!Evaluations)
                     - Cardinality({t \in AtWork : Evaluated(t)})
      raised    == observed - counters["observed"] + evaluated - counters["evaluated"]
  IN  /\ observed >= counters["observed"] /\ evaluated >= counters["evaluated"]
      /\ IF E!Faulty
         THEN raised <= counters["dropped"] + Cardinality({p \in Payers : pc[p] = "handler"})
         ELSE raised = 0

\* No step loses a purchase silently.  The engine waits for exactly what the
\* guard's threads and its queue hold, and a purchase that is in the ledger and
\* neither judged nor counted is among that, or still inside observe().
NothingForgotten ==
  /\ Waiting \cup Checked =
       {DecOf(c) : c \in {cand[p] : p \in InHand} \cup G!Queued}
         \cup {DecOf(item[t]) : t \in {u \in AtWork : ~Evaluated(u)}}
  /\ Checked \subseteq {DecOf(item[t]) : t \in AtWork}
  /\ \A i \in New :
       \/ ledger[i].dec \in Judged \cup Dropped \cup Waiting \cup Checked
       \/ \E p \in Inside : held[p].dec = ledger[i].dec
       \/ \E p \in Payers : pc[p] = "handler" /\ DecOf(cand[p]) = ledger[i].dec
=============================================================================
