---------------------------- MODULE Engine_proofs ----------------------------
(***************************************************************************)
(* Engine's safety for any processes, flows, offers, judgments and policy, *)
(* any number of observations and of restarts.                             *)
(***************************************************************************)
EXTENDS Engine, Lemmas

----------------------------------------------------------------------------
(* Where a decision id can be.                                             *)

Busy(f) == pc[f] # "idle"
Lines   == 1..Len(ledger)
Obs(i)  == ledger[i].type = "candidate_observed"
Eval(i) == ledger[i].type = "guard_evaluated"

\* A candidate that is judged was observed, under the same decision id, and
\* was no repeat.
Recorded(dec, c) ==
  \E k \in Lines : /\ Obs(k) /\ ledger[k].dec = dec /\ ledger[k].cand = c
                   /\ ledger[k].duplicate_of = NoDup

IsLedger == \E S : ledger \in Seq(S)

Shapes ==
  /\ decs \in 0..MaxObserved /\ restarts \in 0..MaxRestarts /\ host \in Hosts
  /\ pc \in [Flows -> {"idle", "append", "index"}]
  /\ DOMAIN held = Flows /\ DOMAIN index = Processes
  /\ DOMAIN pending = Processes /\ DOMAIN running = Processes
  /\ \A i \in Lines : Obs(i) \/ Eval(i)
  /\ \A f \in Flows : held[f] = NoLocal <=> ~Busy(f)

\* Decision ids were given out, one for each call of observe().
GivenOut ==
  /\ \A i \in Lines : ledger[i].dec \in 1..decs
  /\ \A f \in Flows : Busy(f) => held[f].dec \in 1..decs
  /\ \A p \in Processes : \A e \in pending[p] \cup running[p] : e.dec \in 1..decs

\* What was observed is in the ledger once; what is between append() and
\* observe_event() is already there.
Observing ==
  /\ \A f, g \in Flows : Busy(f) /\ Busy(g) /\ held[f].dec = held[g].dec => f = g
  /\ \A i, j \in Lines : Obs(i) /\ Obs(j) /\ ledger[i].dec = ledger[j].dec => i = j
  /\ \A f \in Flows, i \in Lines : pc[f] = "append" /\ Obs(i) => ledger[i].dec # held[f].dec
  /\ \A f \in Flows : pc[f] = "index" => \E i \in Lines : ledger[i] = Observed(f)

\* A decision id is at one stage of evaluate() in one process, and a line of
\* the ledger afterwards.
Stages ==
  /\ \A p \in Processes : \A e \in pending[p] \cup running[p] :
       /\ Recorded(e.dec, e.cand)
       /\ \A f \in Flows : Busy(f) => e.dec # held[f].dec
       /\ \A i \in Lines : Eval(i) => e.dec # ledger[i].dec
  /\ \A p, q \in Processes : \A e \in pending[p], r \in running[q] : e.dec # r.dec
  /\ \A p, q \in Processes : \A e \in pending[p], d \in pending[q] :
       e.dec = d.dec => p = q /\ e = d
  /\ \A p, q \in Processes : \A e \in running[p], d \in running[q] :
       e.dec = d.dec => p = q /\ e = d

Judged ==
  /\ \A i \in Lines : Eval(i) => Recorded(ledger[i].dec, ledger[i].cand)
  /\ \A i \in Lines, f \in Flows : Eval(i) /\ Busy(f) => ledger[i].dec # held[f].dec
  /\ \A i, j \in Lines : Eval(i) /\ Eval(j) /\ ledger[i].dec = ledger[j].dec => i = j

Ids == IsLedger /\ Shapes /\ GivenOut /\ Observing /\ Stages /\ Judged

----------------------------------------------------------------------------
(* Where the index points.                                                 *)

Indexes(idx) == idx \in {index[p] : p \in Processes} \cup {Rebuild(ledger)}

\* An entry of the index stands for a line of the ledger.
EvaluatedPoints(idx) ==
  \A key \in DOMAIN idx.evaluated :
    \E k \in Lines : /\ Obs(k) /\ ledger[k].dec = idx.evaluated[key]
                     /\ Identity(ledger[k].cand) = key /\ ledger[k].duplicate_of = NoDup

FirstPoints(idx) ==
  \A request \in DOMAIN idx.first :
    /\ request # NoRequest
    /\ \E k \in Lines : /\ Obs(k) /\ ledger[k].cand.request = request
                        /\ idx.first[request] = [dec |-> ledger[k].dec,
                                                 key |-> ledger[k].cand.key]

Entries(idx) == EvaluatedPoints(idx) /\ FirstPoints(idx)

\* So does the repeat that observe() is about to record.
HeldPoints ==
  \A f \in Flows : Busy(f) /\ held[f].duplicate_of # NoDup =>
    Recorded(held[f].duplicate_of, held[f].cand)

\* A repeat in the ledger points at an earlier line.
RepeatsPoint ==
  \A i \in Lines : Obs(i) /\ ledger[i].duplicate_of # NoDup =>
    \E k \in Lines : /\ k < i /\ Obs(k) /\ ledger[k].dec = ledger[i].duplicate_of
                     /\ ledger[k].cand = ledger[i].cand /\ ledger[k].duplicate_of = NoDup

\* A candidate that waits is in the index, as the first of its request or not.
WaitingIndexed ==
  \A p \in Processes : \A e \in pending[p] \cup running[p] :
    e.cand.request # NoRequest => e.cand.request \in DOMAIN index[p].first

Points ==
  /\ \A idx : Indexes(idx) => Entries(idx)
  /\ HeldPoints /\ WaitingIndexed /\ RepeatsPoint

----------------------------------------------------------------------------
(* One process: the first of a request, and who pays.                      *)

SingleProcess == \E p : Processes = {p}

\* Nothing in the checks says that the request was bought or tried before.
Clean(x) == x.cand.request # NoRequest /\ x.checks.signals \cap {Retry, Duplicate} = {}

FirstOf(p, request) == index[p].first[request].dec

\* What is still in observe() is not the first of a request.
BusyIsNotFirst ==
  \A p \in Processes, f \in Flows : \A request \in DOMAIN index[p].first :
    Busy(f) => FirstOf(p, request) # held[f].dec

\* What was judged is in the memory, and what is in the ledger in any other.
JudgedIndexed ==
  \A p \in Processes, i \in Lines : Eval(i) /\ ledger[i].cand.request # NoRequest =>
    ledger[i].cand.request \in DOMAIN index[p].first

ToldIndexed ==
  \A i \in Lines : Obs(i) /\ ledger[i].cand.request # NoRequest =>
    ledger[i].cand.request \in DOMAIN Rebuild(ledger).first

\* Only the first of a request in the memory of the process is clean, and when
\* a clean one was judged no other can come.
CleanIsFirst ==
  \A p \in Processes : \A r \in running[p] : Clean(r) => FirstOf(p, r.cand.request) = r.dec

CleanAlone ==
  \A p \in Processes, i \in Lines : Eval(i) /\ Clean(ledger[i]) =>
    /\ \A e \in pending[p] : e.cand.request = ledger[i].cand.request =>
         FirstOf(p, e.cand.request) # e.dec
    /\ \A r \in running[p] : Clean(r) => r.cand.request # ledger[i].cand.request

OneClean ==
  \A i, j \in Lines : Eval(i) /\ Eval(j) /\ Clean(ledger[i]) /\ Clean(ledger[j])
                        /\ ledger[i].cand.request = ledger[j].cand.request => i = j

Owners == /\ BusyIsNotFirst /\ JudgedIndexed /\ ToldIndexed
          /\ CleanIsFirst /\ CleanAlone /\ OneClean

\* A candidate without a request id lacks a required field, and the checks of a
\* candidate were made from it and some earlier record.
Named(c) == c.request = NoRequest => "request_id" \in Blocking(c)

Checked ==
  /\ \A f \in Flows : Busy(f) => Named(held[f].cand)
  /\ \A p \in Processes : \A e \in pending[p] \cup running[p] : Named(e.cand)
  /\ \A p \in Processes : \A r \in running[p] :
       \E prior : r.checks = RunChecks(r.cand, prior, Policy)

\* A payment without retry evidence is clean.
PaysClean ==
  \A i \in Lines : Eval(i) /\ ledger[i].decision.verdict = "PAY"
                     /\ Retry \notin ledger[i].checks.signals => Clean(ledger[i])

----------------------------------------------------------------------------
(* One process, one candidate at a time, no failing append.                *)

\* The memory is what the ledger tells, but for the line being indexed.
Memory ==
  \A p \in Processes :
    \/ (\A f \in Flows : pc[f] # "index") /\ index[p] = Rebuild(ledger)
    \/ \E f \in Flows : /\ pc[f] = "index"
                        /\ Rebuild(ledger) = ObserveEvent(index[p], Observed(f))

Once ==
  /\ \A f, g \in Flows : Busy(f) /\ Busy(g) => f = g
  /\ \A p \in Processes, f \in Flows : Busy(f) =>
       held[f].duplicate_of = EvaluatedDecision(index[p], held[f].cand)
  /\ \A p \in Processes : \A e \in pending[p] \cup running[p] :
       e.cand.request # NoRequest => EvaluatedDecision(index[p], e.cand) = e.dec
  /\ \A p \in Processes, i \in Lines : Eval(i) /\ ledger[i].cand.request # NoRequest =>
       EvaluatedDecision(index[p], ledger[i].cand) = ledger[i].dec

\* The first entry of a request stands for its first line.
FirstIsOldest ==
  \A request \in DOMAIN Rebuild(ledger).first :
    \E k \in Lines : /\ Obs(k) /\ ledger[k].cand.request = request
                     /\ Rebuild(ledger).first[request] = [dec |-> ledger[k].dec,
                                                          key |-> ledger[k].cand.key]
                     /\ \A l \in Lines : Obs(l) /\ ledger[l].cand.request = request => k <= l

\* The signals are those the oldest line of the request calls for.
Explained(x) ==
  \E h \in Lines :
    /\ Obs(h) /\ ledger[h].dec = x.dec
    /\ \/ /\ x.cand.request = NoRequest \/ \A k \in Lines :
               Obs(k) /\ ledger[k].cand.request = x.cand.request => k >= h
          /\ Duplicate \notin x.checks.signals /\ Retry \notin x.checks.signals
       \/ \E k \in Lines :
            /\ x.cand.request # NoRequest /\ k < h
            /\ Obs(k) /\ ledger[k].cand.request = x.cand.request
            /\ \A l \in Lines : Obs(l) /\ ledger[l].cand.request = x.cand.request => k <= l
            /\ Duplicate \in x.checks.signals <=> ~IsRetry(x.cand, ledger[k].cand, Policy)
            /\ Retry \in x.checks.signals <=> IsRetry(x.cand, ledger[k].cand, Policy)

AllExplained ==
  /\ \A p \in Processes : \A r \in running[p] : Explained(r)
  /\ \A i \in Lines : Eval(i) => Explained(ledger[i])

----------------------------------------------------------------------------
(* Steps.                                                                  *)

USE EngineAssumption

\* An append adds one line and one observe_event() to what a restart finds.
LEMMA Grows ==
  ASSUME IsLedger, NEW event, ledger' = Append(ledger, event)
  PROVE  \E n \in Nat \ {0} :
           /\ n \notin Lines /\ Lines' = Lines \cup {n} /\ \A i \in Lines : i < n
           /\ \A i \in Lines : ledger'[i] = ledger[i]
           /\ ledger'[n] = event
           /\ IsLedger' /\ Lines \subseteq Nat
           /\ Rebuild(ledger)' = ObserveEvent(Rebuild(ledger), event)
<1>1. PICK S : ledger \in Seq(S)
  BY DEF IsLedger
<1>2. ledger \in Seq(S \cup {event})
  BY <1>1
<1>3. /\ Len(ledger) \in Nat /\ Len(ledger') = Len(ledger) + 1
      /\ \A i \in 1..Len(ledger) : ledger'[i] = ledger[i]
      /\ ledger'[Len(ledger) + 1] = event
      /\ ledger' \in Seq(S \cup {event})
  BY <1>2, LenProperties, AppendProperties
<1>4. Rebuild(ledger)' = ObserveEvent(Rebuild(ledger), event)
  BY <1>1, RebuildAppend
<1>5. IsLedger'
  BY <1>3 DEF IsLedger
<1> DEFINE n == Len(ledger) + 1
<1>6. /\ n \in Nat \ {0} /\ n \notin Lines /\ Lines' = Lines \cup {n}
      /\ \A i \in Lines : i < n
      /\ Lines \subseteq Nat
  BY <1>3 DEF Lines
<1> QED BY <1>3, <1>4, <1>5, <1>6 DEF Lines

LEMMA IdsInit == ASSUME Init PROVE Ids
<1>1. ledger \in Seq({}) /\ Lines = {}
  BY EmptySeq DEF Init, Lines
<1>2. IsLedger
  BY <1>1 DEF IsLedger
<1>3. Shapes
  BY <1>1 DEF Init, Shapes, Busy
<1>4. GivenOut /\ Observing /\ Stages /\ Judged
  BY <1>1 DEF Init, GivenOut, Observing, Stages, Judged, Busy
<1> QED BY <1>2, <1>3, <1>4 DEF Ids

\* Nothing but the ledger counts for Recorded.
LEMMA RecordedStays ==
  ASSUME Lines \subseteq Lines', \A i \in Lines : ledger'[i] = ledger[i],
         NEW dec, NEW c, Recorded(dec, c)
  PROVE  Recorded(dec, c)'
BY DEF Recorded, Obs

LEMMA IdsLookup ==
  ASSUME Ids, NEW f \in Flows, NEW raw, LookupOf(f, raw) PROVE Ids'
<1> USE DEF Ids
<1>1. /\ decs' = decs + 1 /\ decs \in Nat /\ decs' \in Nat /\ decs < MaxObserved
      /\ decs' \in 1..decs' /\ decs' \notin 1..decs /\ 1..decs \subseteq 1..decs'
  BY DEF LookupOf, Shapes
<1>2. /\ pc[f] = "idle" /\ pc'[f] = "append" /\ held'[f].dec = decs'
      /\ \A g \in Flows : g # f => pc'[g] = pc[g] /\ held'[g] = held[g]
      /\ DOMAIN held' = Flows /\ pc' \in [Flows -> {"idle", "append", "index"}]
      /\ UNCHANGED <<ledger, index, pending, running, restarts, host>>
  BY DEF LookupOf, Shapes
<1>3. IsLedger' /\ Lines' = Lines
  BY <1>2 DEF IsLedger, Lines
<1>4. Shapes'
  BY <1>1, <1>2, <1>3 DEF Shapes, Busy, Obs, Eval, NoLocal
<1>5. GivenOut'
  BY <1>1, <1>2, <1>3 DEF GivenOut, Busy
<1>6. Observing'
  <2>1. \A g \in Flows : pc'[g] = "index" => g # f /\ pc[g] = "index"
    BY <1>2
  <2>2. \A g \in Flows : pc'[g] = "index" => \E i \in Lines' : ledger'[i] = Observed(g)'
    BY <1>2, <1>3, <2>1 DEF Observing, Observed
  <2>3. \A g \in Flows, i \in Lines' : pc'[g] = "append" /\ Obs(i)' => ledger'[i].dec # held'[g].dec
    BY <1>1, <1>2, <1>3 DEF Observing, GivenOut, Obs
  <2>4. \A g, h \in Flows : Busy(g)' /\ Busy(h)' /\ held'[g].dec = held'[h].dec => g = h
    BY <1>1, <1>2 DEF Observing, GivenOut, Busy
  <2>5. \A i, j \in Lines' : Obs(i)' /\ Obs(j)' /\ ledger'[i].dec = ledger'[j].dec => i = j
    BY <1>2, <1>3 DEF Observing, Obs
  <2> QED BY <2>2, <2>3, <2>4, <2>5 DEF Observing
<1>7. Stages'
  <2>1. \A p \in Processes : \A e \in pending'[p] \cup running'[p] :
          /\ Recorded(e.dec, e.cand)'
          /\ \A i \in Lines' : Eval(i)' => e.dec # ledger'[i].dec
    BY <1>2, <1>3, RecordedStays DEF Stages, Eval
  <2>2. \A p \in Processes : \A e \in pending'[p] \cup running'[p] :
          \A g \in Flows : Busy(g)' => e.dec # held'[g].dec
    BY <1>1, <1>2 DEF Stages, GivenOut, Busy
  <2> QED BY <1>2, <2>1, <2>2 DEF Stages
<1>8. Judged'
  BY <1>1, <1>2, <1>3, RecordedStays DEF Judged, GivenOut, Busy, Eval
<1> QED BY <1>3, <1>4, <1>5, <1>6, <1>7, <1>8

\* The observation goes into the ledger.
LEMMA IdsAppend ==
  ASSUME Ids, NEW f \in Flows, AppendObserved(f) PROVE Ids'
<1> USE DEF Ids
<1>1. /\ pc[f] = "append" /\ pc'[f] = "index" /\ Busy(f) /\ held' = held
      /\ \A g \in Flows : g # f => pc'[g] = pc[g]
      /\ \A g \in Flows : Busy(g)' <=> Busy(g)
      /\ pc' \in [Flows -> {"idle", "append", "index"}]
      /\ UNCHANGED <<index, pending, running, decs, restarts, host>>
  BY DEF AppendObserved, Shapes, Busy
<1>2. PICK n \in Nat \ {0} :
        /\ n \notin Lines /\ Lines' = Lines \cup {n}
        /\ \A i \in Lines : ledger'[i] = ledger[i]
        /\ ledger'[n] = Observed(f) /\ IsLedger'
  BY Grows DEF AppendObserved
<1>3. /\ ledger'[n].dec = held[f].dec /\ ledger'[n].type = "candidate_observed"
      /\ \A i \in Lines : /\ Obs(i)' <=> Obs(i)
                          /\ Eval(i)' <=> Eval(i)
      /\ Obs(n)' /\ ~Eval(n)'
  BY <1>2 DEF Observed, Obs, Eval
<1>4. Shapes'
  BY <1>1, <1>2, <1>3 DEF Shapes
<1>5. GivenOut'
  BY <1>1, <1>2, <1>3 DEF GivenOut
<1>6. Observing'
  <2>1. \A g \in Flows : pc'[g] = "index" => \E i \in Lines' : ledger'[i] = Observed(g)'
    <3>1. \A g \in Flows : Observed(g)' = Observed(g)
      BY <1>1 DEF Observed
    <3> QED BY <1>1, <1>2, <3>1 DEF Observing
  <2>2. \A g \in Flows, i \in Lines' : pc'[g] = "append" /\ Obs(i)' => ledger'[i].dec # held'[g].dec
    BY <1>1, <1>2, <1>3 DEF Observing, Busy
  <2>3. \A i, j \in Lines' : Obs(i)' /\ Obs(j)' /\ ledger'[i].dec = ledger'[j].dec => i = j
    BY <1>1, <1>2, <1>3 DEF Observing
  <2> QED BY <1>1, <2>1, <2>2, <2>3 DEF Observing
<1>7. Stages'
  BY <1>1, <1>2, <1>3, RecordedStays DEF Stages
<1>8. Judged'
  BY <1>1, <1>2, <1>3, RecordedStays DEF Judged
<1> QED BY <1>2, <1>4, <1>5, <1>6, <1>7, <1>8

\* The flow forgets it, with the line in the ledger or not.
LEMMA IdsAppendFails ==
  ASSUME Ids, NEW f \in Flows, AppendObservedFails(f) PROVE Ids'
<1> USE DEF Ids
<1>1. /\ pc[f] = "append" /\ pc'[f] = "idle" /\ Busy(f) /\ held'[f] = NoLocal
      /\ \A g \in Flows : g # f => pc'[g] = pc[g] /\ held'[g] = held[g]
      /\ \A g \in Flows : Busy(g)' <=> Busy(g) /\ g # f
      /\ pc' \in [Flows -> {"idle", "append", "index"}] /\ DOMAIN held' = Flows
      /\ UNCHANGED <<index, pending, running, decs, restarts, host>>
  BY DEF AppendObservedFails, Shapes, Busy
<1>2. \A g \in Flows : g # f => Observed(g)' = Observed(g)
  BY <1>1 DEF Observed
<1>3. CASE ledger' = ledger
  <2>1. IsLedger' /\ Lines' = Lines
    BY <1>3 DEF IsLedger, Lines
  <2>2. Shapes' /\ GivenOut'
    BY <1>1, <1>3, <2>1 DEF Shapes, GivenOut, Obs, Eval
  <2>3. Observing'
    BY <1>1, <1>2, <1>3, <2>1 DEF Observing, Obs
  <2>4. Stages' /\ Judged'
    BY <1>1, <1>3, <2>1, RecordedStays DEF Stages, Judged, Eval
  <2> QED BY <2>1, <2>2, <2>3, <2>4
<1>4. CASE ledger' = Append(ledger, Observed(f))
  <2>1. PICK n \in Nat \ {0} :
          /\ n \notin Lines /\ Lines' = Lines \cup {n}
          /\ \A i \in Lines : ledger'[i] = ledger[i]
          /\ ledger'[n] = Observed(f) /\ IsLedger'
    BY <1>4, Grows
  <2>2. /\ ledger'[n].dec = held[f].dec /\ ledger'[n].type = "candidate_observed"
        /\ \A i \in Lines : /\ Obs(i)' <=> Obs(i)
                            /\ Eval(i)' <=> Eval(i)
        /\ Obs(n)' /\ ~Eval(n)'
    BY <2>1 DEF Observed, Obs, Eval
  <2>3. Shapes' /\ GivenOut'
    BY <1>1, <2>1, <2>2 DEF Shapes, GivenOut
  <2>4. Observing'
    <3>1. \A i, j \in Lines' : Obs(i)' /\ Obs(j)' /\ ledger'[i].dec = ledger'[j].dec => i = j
      BY <1>1, <2>1, <2>2 DEF Observing
    <3>2. \A g \in Flows, i \in Lines' :
            pc'[g] = "append" /\ Obs(i)' => ledger'[i].dec # held'[g].dec
      BY <1>1, <2>1, <2>2 DEF Observing, Busy
    <3> QED BY <1>1, <1>2, <2>1, <2>2, <3>1, <3>2 DEF Observing
  <2>5. Stages' /\ Judged'
    BY <1>1, <2>1, <2>2, RecordedStays DEF Stages, Judged
  <2> QED BY <2>1, <2>3, <2>4, <2>5
<1> QED BY <1>3, <1>4 DEF AppendObservedFails

\* What is not a repeat waits to be evaluated.
LEMMA IdsIndex ==
  ASSUME Ids, NEW f \in Flows, IndexObserved(f) PROVE Ids'
<1> USE DEF Ids
<1> PICK p \in Processes : p = ProcOf[f]
  OBVIOUS
<1> PICK new : new = [dec |-> held[f].dec, cand |-> held[f].cand]
  OBVIOUS
<1>1. /\ pc[f] = "index" /\ pc'[f] = "idle" /\ Busy(f) /\ held'[f] = NoLocal
      /\ \A g \in Flows : g # f => pc'[g] = pc[g] /\ held'[g] = held[g]
      /\ \A g \in Flows : Busy(g)' <=> Busy(g) /\ g # f
      /\ pc' \in [Flows -> {"idle", "append", "index"}] /\ DOMAIN held' = Flows
      /\ DOMAIN index' = Processes /\ DOMAIN pending' = Processes
      /\ UNCHANGED <<ledger, running, decs, restarts, host>>
  BY DEF IndexObserved, Shapes, Busy
<1>2. \A g \in Flows : g # f => Observed(g)' = Observed(g)
  BY <1>1 DEF Observed
<1>3. IsLedger' /\ Lines' = Lines
  BY <1>1 DEF IsLedger, Lines
<1>4. \A q \in Processes : \A e \in pending'[q] :
        \/ e \in pending[q]
        \/ e = new /\ q = p /\ held[f].duplicate_of = NoDup
  BY DEF IndexObserved, Shapes, ToEvaluate
<1>5. /\ new.dec = held[f].dec /\ new.cand = held[f].cand
      /\ held[f].duplicate_of = NoDup => Recorded(new.dec, new.cand)
  <2>1. PICK i \in Lines : ledger[i] = Observed(f)
    BY <1>1 DEF Observing
  <2>2. /\ ledger[i].type = "candidate_observed" /\ ledger[i].dec = held[f].dec
        /\ ledger[i].cand = held[f].cand /\ ledger[i].duplicate_of = held[f].duplicate_of
    BY <2>1 DEF Observed
  <2> QED BY <2>2 DEF Recorded, Obs
<1>6. Shapes' /\ GivenOut'
  BY <1>1, <1>3, <1>4, <1>5 DEF Shapes, GivenOut, Obs, Eval
<1>7. Observing'
  BY <1>1, <1>2, <1>3 DEF Observing, Obs
<1>8. Stages'
  <2>1. \A q \in Processes : \A e \in pending'[q] \cup running'[q] :
          /\ Recorded(e.dec, e.cand)'
          /\ \A g \in Flows : Busy(g)' => e.dec # held'[g].dec
          /\ \A i \in Lines' : Eval(i)' => e.dec # ledger'[i].dec
    <3>1. \A dec, c : Recorded(dec, c) => Recorded(dec, c)'
      BY <1>1, <1>3, RecordedStays
    <3>2. \A q \in Processes : \A e \in pending[q] \cup running[q] :
            /\ Recorded(e.dec, e.cand)'
            /\ \A g \in Flows : Busy(g)' => e.dec # held'[g].dec
            /\ \A i \in Lines' : Eval(i)' => e.dec # ledger'[i].dec
      BY <1>1, <1>3, <3>1 DEF Stages, Eval
    <3>3. held[f].duplicate_of = NoDup =>
            /\ Recorded(new.dec, new.cand)'
            /\ \A g \in Flows : Busy(g)' => new.dec # held'[g].dec
            /\ \A i \in Lines' : Eval(i)' => new.dec # ledger'[i].dec
      BY <1>1, <1>3, <1>5, <3>1 DEF Observing, Judged, Eval
    <3> QED BY <1>1, <1>4, <3>2, <3>3
  <2>2. \A q, r \in Processes : \A e \in pending'[q], x \in running'[r] : e.dec # x.dec
    BY <1>1, <1>4, <1>5 DEF Stages
  <2>3. \A q, r \in Processes : \A e \in pending'[q], d \in pending'[r] :
          e.dec = d.dec => q = r /\ e = d
    BY <1>1, <1>4, <1>5 DEF Stages
  <2> QED BY <1>1, <2>1, <2>2, <2>3 DEF Stages
<1>9. Judged'
  BY <1>1, <1>3, RecordedStays DEF Judged, Eval
<1> QED BY <1>3, <1>6, <1>7, <1>8, <1>9

\* The worker takes a candidate, to drop it or to check it.
LEMMA IdsDrop ==
  ASSUME Ids, NEW p \in Processes, NEW e \in pending[p], Drop(p, e) PROVE Ids'
<1> USE DEF Ids
<1>1. /\ UNCHANGED <<ledger, index, pc, held, running, decs, restarts, host>>
      /\ DOMAIN pending' = Processes
      /\ \A q \in Processes : pending'[q] \subseteq pending[q]
      /\ IsLedger' /\ Lines' = Lines
  BY DEF Drop, Take, Shapes, IsLedger, Lines
<1>2. Shapes' /\ GivenOut'
  BY <1>1 DEF Shapes, GivenOut, Busy, Obs, Eval
<1>3. Observing' /\ Judged'
  BY <1>1, RecordedStays DEF Observing, Judged, Observed, Busy, Obs, Eval
<1>4. Stages'
  BY <1>1, RecordedStays DEF Stages, Busy, Eval
<1> QED BY <1>1, <1>2, <1>3, <1>4

LEMMA IdsCheck ==
  ASSUME Ids, NEW p \in Processes, NEW e \in pending[p], RunTheChecks(p, e) PROVE Ids'
<1> USE DEF Ids
<1>1. /\ UNCHANGED <<ledger, index, pc, held, decs, restarts, host>>
      /\ DOMAIN pending' = Processes /\ DOMAIN running' = Processes
      /\ \A q \in Processes : \A d : d \in pending'[q] => d \in pending[q] /\ ~(q = p /\ d = e)
      /\ IsLedger' /\ Lines' = Lines
  BY DEF RunTheChecks, Take, Shapes, IsLedger, Lines
<1>2. PICK new : /\ new.dec = e.dec /\ new.cand = e.cand
                 /\ \A q \in Processes : \A r : r \in running'[q] => r \in running[q] \/ (q = p /\ r = new)
  <2> DEFINE x == [dec |-> e.dec, cand |-> e.cand, checks |-> ChecksOf(p, e)]
  <2>1. x.dec = e.dec /\ x.cand = e.cand
    OBVIOUS
  <2>2. running' = [running EXCEPT ![p] = @ \cup {x}]
    BY DEF RunTheChecks
  <2> HIDE DEF x
  <2>3. \A q \in Processes : \A r : r \in running'[q] => r \in running[q] \/ (q = p /\ r = x)
    BY <2>2 DEF Shapes
  <2> QED BY <2>1, <2>3
<1>3. Shapes' /\ GivenOut'
  BY <1>1, <1>2 DEF Shapes, GivenOut, Busy, Obs, Eval
<1>4. Observing' /\ Judged'
  BY <1>1, RecordedStays DEF Observing, Judged, Observed, Busy, Obs, Eval
<1>5. Stages'
  <2>1. \A dec, c : Recorded(dec, c) => Recorded(dec, c)'
    BY <1>1, RecordedStays
  <2>2. \A q \in Processes : \A d \in pending'[q] \cup running'[q] :
          /\ Recorded(d.dec, d.cand)'
          /\ \A f \in Flows : Busy(f)' => d.dec # held'[f].dec
          /\ \A i \in Lines' : Eval(i)' => d.dec # ledger'[i].dec
    BY <1>1, <1>2, <2>1 DEF Stages, Busy, Eval
  <2>3. \A q, r \in Processes : \A d \in pending'[q], x \in running'[r] : d.dec # x.dec
    BY <1>1, <1>2 DEF Stages
  <2>4. \A q, r \in Processes : \A d \in running'[q], x \in running'[r] :
          d.dec = x.dec => q = r /\ d = x
    BY <1>1, <1>2 DEF Stages
  <2> QED BY <1>1, <2>2, <2>3, <2>4 DEF Stages
<1> QED BY <1>1, <1>3, <1>4, <1>5

\* The judgment is recorded, or lost with the append.
LEMMA IdsRecord ==
  ASSUME Ids, NEW p \in Processes, NEW r \in running[p], NEW j,
         running' = [running EXCEPT ![p] = @ \ {r}],
         ledger' \in {ledger, Append(ledger, Evaluated(r, j))},
         UNCHANGED <<index, pc, held, pending, decs, restarts, host>>
  PROVE  Ids'
<1> USE DEF Ids
<1>1. /\ DOMAIN running' = Processes
      /\ \A q \in Processes : \A x : x \in running'[q] => x \in running[q] /\ ~(q = p /\ x = r)
  BY DEF Shapes
<1>2. CASE ledger' = ledger
  <2>1. IsLedger' /\ Lines' = Lines
    BY <1>2 DEF IsLedger, Lines
  <2>2. Shapes' /\ GivenOut'
    BY <1>1, <1>2, <2>1 DEF Shapes, GivenOut, Busy, Obs, Eval
  <2>3. Observing' /\ Judged'
    BY <1>2, <2>1, RecordedStays DEF Observing, Judged, Observed, Busy, Obs, Eval
  <2>4. Stages'
    BY <1>1, <1>2, <2>1, RecordedStays DEF Stages, Busy, Eval
  <2> QED BY <2>1, <2>2, <2>3, <2>4
<1>3. CASE ledger' = Append(ledger, Evaluated(r, j))
  <2>1. PICK n \in Nat \ {0} :
          /\ n \notin Lines /\ Lines' = Lines \cup {n}
          /\ \A i \in Lines : ledger'[i] = ledger[i]
          /\ ledger'[n] = Evaluated(r, j) /\ IsLedger'
    BY <1>3, Grows
  <2>2. /\ ledger'[n].dec = r.dec /\ ledger'[n].cand = r.cand
        /\ ledger'[n].type = "guard_evaluated"
    BY <2>1 DEF Evaluated
  <2>3. /\ \A i \in Lines : /\ Obs(i)' <=> Obs(i)
                            /\ Eval(i)' <=> Eval(i)
        /\ Eval(n)' /\ ~Obs(n)'
    BY <2>1, <2>2 DEF Obs, Eval
  <2>4. /\ r.dec \in 1..decs /\ Recorded(r.dec, r.cand)
        /\ \A f \in Flows : Busy(f) => r.dec # held[f].dec
        /\ \A i \in Lines : Eval(i) => r.dec # ledger[i].dec
    BY DEF GivenOut, Stages
  <2>5. \A dec, c : Recorded(dec, c) => Recorded(dec, c)'
    BY <2>1, RecordedStays
  <2>6. Shapes' /\ GivenOut'
    BY <1>1, <2>1, <2>2, <2>3, <2>4 DEF Shapes, GivenOut, Busy
  <2>7. Observing'
    BY <2>1, <2>3 DEF Observing, Busy, Observed
  <2>8. Judged'
    BY <2>1, <2>2, <2>3, <2>4, <2>5 DEF Judged, Busy
  <2>9. Stages'
    <3>1. \A q \in Processes : \A e \in pending'[q] \cup running'[q] :
            /\ Recorded(e.dec, e.cand)'
            /\ \A f \in Flows : Busy(f)' => e.dec # held'[f].dec
      BY <1>1, <2>5 DEF Stages, Busy
    <3>2. \A q \in Processes : \A e \in pending'[q] \cup running'[q] : e.dec # r.dec
      BY <1>1 DEF Stages
    <3>3. \A q \in Processes : \A e \in pending'[q] \cup running'[q] :
            \A i \in Lines' : Eval(i)' => e.dec # ledger'[i].dec
      BY <1>1, <2>1, <2>2, <2>3, <3>2 DEF Stages
    <3> QED BY <1>1, <3>1, <3>3 DEF Stages
  <2> QED BY <2>1, <2>6, <2>7, <2>8, <2>9
<1> QED BY <1>2, <1>3

LEMMA IdsRestart ==
  ASSUME Ids, NEW p \in Processes, Restart(p) PROVE Ids'
<1> USE DEF Ids
<1>1. /\ restarts' \in 0..MaxRestarts
      /\ pc' \in [Flows -> {"idle", "append", "index"}] /\ DOMAIN held' = Flows
      /\ \A f \in Flows : \/ ProcOf[f] = p /\ pc'[f] = "idle" /\ held'[f] = NoLocal
                          \/ pc'[f] = pc[f] /\ held'[f] = held[f]
      /\ DOMAIN index' = Processes /\ DOMAIN pending' = Processes /\ DOMAIN running' = Processes
      /\ \A q \in Processes : pending'[q] \subseteq pending[q] /\ running'[q] \subseteq running[q]
      /\ UNCHANGED <<ledger, decs, host>> /\ Lines' = Lines /\ IsLedger'
  <2>1. restarts' \in 0..MaxRestarts
    BY DEF Restart, Shapes
  <2>2. /\ pc' \in [Flows -> {"idle", "append", "index"}] /\ DOMAIN held' = Flows
        /\ \A f \in Flows : \/ ProcOf[f] = p /\ pc'[f] = "idle" /\ held'[f] = NoLocal
                            \/ pc'[f] = pc[f] /\ held'[f] = held[f]
    BY DEF Restart, Shapes
  <2>3. /\ DOMAIN index' = Processes /\ DOMAIN pending' = Processes /\ DOMAIN running' = Processes
        /\ \A q \in Processes : pending'[q] \subseteq pending[q] /\ running'[q] \subseteq running[q]
    BY DEF Restart, Shapes
  <2>4. UNCHANGED <<ledger, decs, host>> /\ Lines' = Lines /\ IsLedger'
    BY DEF Restart, Lines, IsLedger
  <2> QED BY <2>1, <2>2, <2>3, <2>4
<1>2. \A f \in Flows : Busy(f)' => Busy(f) /\ held'[f] = held[f] /\ pc'[f] = pc[f]
  BY <1>1 DEF Busy
<1>3. Shapes' /\ GivenOut'
  <2>1. \A f \in Flows : held'[f] = NoLocal <=> ~Busy(f)'
    BY <1>1 DEF Shapes, Busy
  <2> QED BY <1>1, <1>2, <2>1 DEF Shapes, GivenOut, Obs, Eval
<1>4. Observing'
  <2>1. \A f \in Flows : Busy(f)' => Observed(f)' = Observed(f)
    BY <1>2 DEF Observed
  <2> QED BY <1>1, <1>2, <2>1 DEF Observing, Busy, Obs
<1>5. Stages' /\ Judged'
  BY <1>1, <1>2, RecordedStays DEF Stages, Judged, Eval
<1> QED BY <1>1, <1>3, <1>4, <1>5

----------------------------------------------------------------------------
(* Next, one action at a time: a property that each action keeps is kept.  *)

LEMMA NextCases ==
  ASSUME Next
  PROVE  \/ \E f \in Flows : \/ \E raw \in Offers : LookupOf(f, raw)
                             \/ AppendObserved(f) \/ AppendObservedFails(f) \/ IndexObserved(f)
         \/ \E p \in Processes :
              \/ \E e \in pending[p] : Drop(p, e) \/ RunTheChecks(p, e)
              \/ \E r \in running[p] : \E j \in Judge(r.checks) :
                   RecordOf(p, r, j) \/ RecordFailsOf(p, r, j)
              \/ Restart(p)
BY DEF Next, Lookup, Record, RecordFails

LEMMA IdsStep == ASSUME Ids, [Next]_vars PROVE Ids'
<1>1. ASSUME NEW p \in Processes, NEW r \in running[p], NEW j,
             RecordOf(p, r, j) \/ RecordFailsOf(p, r, j)
      PROVE  Ids'
  BY <1>1, IdsRecord DEF RecordOf, RecordFailsOf
<1>2. CASE UNCHANGED vars
  BY <1>2 DEF vars, Ids, IsLedger, Shapes, GivenOut, Observing, Stages, Judged, Recorded,
              Observed, Busy, Lines, Obs, Eval
<1>3. CASE Next
  BY <1>1, <1>3, NextCases, IdsLookup, IdsAppend, IdsAppendFails, IdsIndex, IdsDrop, IdsCheck,
     IdsRestart
<1> QED BY <1>2, <1>3

LEMMA IdsHold == Spec => []Ids
<1>1. Init => Ids
  BY IdsInit
<1>2. Ids /\ [Next]_vars => Ids'
  BY IdsStep
<1> QED BY <1>1, <1>2, PTL DEF Spec

\* No decision id is anywhere twice: a candidate is given one id, and has one
\* place in observe() or evaluate() whatever the threads and the processes do.
THEOREM TypeCorrect == Spec => []TypeOK
<1>1. Ids => TypeOK
  <2>1. ASSUME IsLedger PROVE DOMAIN ledger = Lines
    <3>1. PICK S : ledger \in Seq(S)
      BY <2>1 DEF IsLedger
    <3> QED BY <3>1 DEF Lines
  <2> QED BY <2>1 DEF Ids, Shapes, GivenOut, Stages, TypeOK, Busy, Obs, Eval
<1> QED BY <1>1, IdsHold, PTL

----------------------------------------------------------------------------
(* The index keeps what it holds, and points into the ledger.              *)

\* Entries stay true while the ledger grows.
LEMMA EntriesStay ==
  ASSUME Lines \subseteq Lines', \A i \in Lines : ledger'[i] = ledger[i],
         NEW idx, Entries(idx)
  PROVE  Entries(idx)'
<1>1. \A i \in Lines : i \in Lines' /\ (Obs(i) => Obs(i)')
  BY DEF Obs
<1>2. EvaluatedPoints(idx)'
  BY <1>1 DEF Entries, EvaluatedPoints
<1>3. FirstPoints(idx)'
  <2>1. ASSUME NEW request \in DOMAIN idx.first
        PROVE  /\ request # NoRequest
               /\ \E k \in Lines' : /\ Obs(k)' /\ ledger'[k].cand.request = request
                                    /\ idx.first[request] = [dec |-> ledger'[k].dec,
                                                             key |-> ledger'[k].cand.key]
    <3>1. PICK k \in Lines : /\ Obs(k) /\ ledger[k].cand.request = request
                             /\ idx.first[request] = [dec |-> ledger[k].dec,
                                                      key |-> ledger[k].cand.key]
      BY DEF Entries, FirstPoints
    <3>2. request # NoRequest /\ k \in Lines' /\ Obs(k)' /\ ledger'[k] = ledger[k]
      BY <1>1, <3>1 DEF Entries, FirstPoints
    <3> QED BY <3>1, <3>2
  <2> QED BY <2>1 DEF FirstPoints
<1> QED BY <1>2, <1>3 DEF Entries

\* An entry for a line that is in the ledger is true.
LEMMA EntriesObserve ==
  ASSUME Lines \subseteq Lines', \A i \in Lines : ledger'[i] = ledger[i],
         NEW idx, Entries(idx), NEW event, NEW n \in Lines', ledger'[n] = event,
         NEW more, more = ObserveEvent(idx, event)
  PROVE  Entries(more)'
<1>0. Entries(idx)'
  BY EntriesStay
<1>1. EvaluatedPoints(more)'
  <2>1. ASSUME NEW key \in DOMAIN more.evaluated
        PROVE  \E k \in Lines' : /\ Obs(k)' /\ ledger'[k].dec = more.evaluated[key]
                                 /\ Identity(ledger'[k].cand) = key
                                 /\ ledger'[k].duplicate_of = NoDup
    <3>1. CASE key \in DOMAIN idx.evaluated
      BY <1>0, <3>1, ObserveKeeps DEF Entries, EvaluatedPoints
    <3>2. CASE key \notin DOMAIN idx.evaluated
      <4>1. /\ event.type = "candidate_observed" /\ event.duplicate_of = NoDup
            /\ key = Identity(event.cand) /\ more.evaluated[key] = event.dec
        BY <3>2, ObserveAddsEvaluated
      <4>2. Identity(ledger'[n].cand) = key /\ ledger'[n].duplicate_of = NoDup
        BY <4>1
      <4> QED BY <4>1, <4>2 DEF Obs
    <3> QED BY <3>1, <3>2
  <2> QED BY <2>1 DEF EvaluatedPoints
<1>2. FirstPoints(more)'
  <2>1. ASSUME NEW request \in DOMAIN more.first
        PROVE  /\ request # NoRequest
               /\ \E k \in Lines' : /\ Obs(k)' /\ ledger'[k].cand.request = request
                                    /\ more.first[request] = [dec |-> ledger'[k].dec,
                                                              key |-> ledger'[k].cand.key]
    <3>1. CASE request \in DOMAIN idx.first
      BY <1>0, <3>1, ObserveKeeps DEF Entries, FirstPoints
    <3>2. CASE request \notin DOMAIN idx.first
      <4>1. /\ event.type = "candidate_observed" /\ event.cand.request # NoRequest
            /\ request = event.cand.request
            /\ more.first[request] = [dec |-> event.dec, key |-> event.cand.key]
        BY <3>2, ObserveAddsFirst
      <4> QED BY <4>1 DEF Obs
    <3> QED BY <3>1, <3>2
  <2> QED BY <2>1 DEF FirstPoints
<1> QED BY <1>1, <1>2 DEF Entries

LEMMA PointsInit == ASSUME Init PROVE Points
<1>1. Lines = {}
  BY EmptySeq DEF Init, Lines
<1>2. \A idx : Indexes(idx) => idx = EmptyIndex
  BY RebuildEmpty DEF Indexes, Init
<1>3. EvaluatedPoints(EmptyIndex) /\ FirstPoints(EmptyIndex)
  BY DEF EvaluatedPoints, FirstPoints, EmptyIndex
<1>4. HeldPoints /\ WaitingIndexed /\ RepeatsPoint
  BY <1>1 DEF Init, HeldPoints, WaitingIndexed, RepeatsPoint, Busy
<1> QED BY <1>2, <1>3, <1>4 DEF Points, Entries

\* One more line changes no index that is in use.
LEMMA PointsGrow ==
  ASSUME Ids, Points, NEW event, ledger' = Append(ledger, event), index' = index
  PROVE  \A idx : Indexes(idx)' => Entries(idx)'
<1>1. PICK n \in Nat \ {0} :
        /\ n \notin Lines /\ Lines' = Lines \cup {n} /\ \A i \in Lines : i < n
        /\ \A i \in Lines : ledger'[i] = ledger[i]
        /\ ledger'[n] = event
        /\ Rebuild(ledger)' = ObserveEvent(Rebuild(ledger), event)
  BY Grows DEF Ids
<1>2. PICK told : told = Rebuild(ledger)
  OBVIOUS
<1>3. PICK more : more = ObserveEvent(told, event)
  OBVIOUS
<1>4. Entries(told)
  BY <1>2 DEF Points, Indexes
<1>5. Entries(more)'
  BY <1>1, <1>3, <1>4, EntriesObserve
<1>6. ASSUME NEW idx, Indexes(idx)' PROVE Entries(idx)'
  <2>1. idx = more \/ \E p \in Processes : idx = index[p]
    BY <1>1, <1>2, <1>3, <1>6 DEF Indexes
  <2>2. CASE idx = more
    BY <1>5, <2>2
  <2>3. CASE \E p \in Processes : idx = index[p]
    <3>1. Entries(idx)
      BY <2>3 DEF Points, Indexes
    <3> QED BY <1>1, <3>1, EntriesStay
  <2> QED BY <2>1, <2>2, <2>3
<1> QED BY <1>6

LEMMA PointsLookup ==
  ASSUME Ids, Points, NEW f \in Flows, NEW raw, LookupOf(f, raw) PROVE Points'
<1> USE DEF Ids
<1>1. PICK c : held' = [held EXCEPT ![f] = [dec |-> decs', cand |-> c,
                          duplicate_of |-> EvaluatedDecision(index[ProcOf[f]], c)]]
  BY DEF LookupOf
<1>2. /\ held'[f].cand = c /\ held'[f].duplicate_of = EvaluatedDecision(index[ProcOf[f]], c)
      /\ \A g \in Flows : g # f => pc'[g] = pc[g] /\ held'[g] = held[g]
      /\ UNCHANGED <<ledger, index, pending, running>> /\ Lines' = Lines
  BY <1>1 DEF LookupOf, Shapes, Lines
<1>3. \A dec, x : Recorded(dec, x) => Recorded(dec, x)'
  BY <1>2, RecordedStays
<1>4. \A idx : Indexes(idx)' => Entries(idx)'
  BY <1>2, EntriesStay DEF Points, Indexes
<1>5. held'[f].duplicate_of # NoDup => Recorded(held'[f].duplicate_of, c)
  <2> DEFINE idx == index[ProcOf[f]]
  <2>1. ASSUME held'[f].duplicate_of # NoDup
        PROVE  Identity(c) \in DOMAIN idx.evaluated
               /\ held'[f].duplicate_of = idx.evaluated[Identity(c)]
    BY <1>2, <2>1 DEF EvaluatedDecision
  <2>2. EvaluatedPoints(idx)
    <3>1. ProcOf[f] \in Processes
      OBVIOUS
    <3> QED BY <3>1 DEF Points, Indexes, Entries
  <2>3. \A x : Identity(x) = Identity(c) => x = c
    BY DEF Identity
  <2> QED BY <2>1, <2>2, <2>3 DEF EvaluatedPoints, Recorded
<1>6. HeldPoints'
  BY <1>2, <1>3, <1>5 DEF Points, HeldPoints, Busy
<1>7. WaitingIndexed' /\ RepeatsPoint'
  BY <1>2 DEF Points, WaitingIndexed, RepeatsPoint, Obs
<1> QED BY <1>4, <1>6, <1>7 DEF Points

LEMMA PointsAppend ==
  ASSUME Ids, Points, NEW f \in Flows, pc[f] = "append",
         NEW event, event = Observed(f), ledger' = Append(ledger, event),
         \A g \in Flows : Busy(g)' => Busy(g) /\ held'[g] = held[g],
         UNCHANGED <<index, pending, running>>
  PROVE  Points'
<1>1. PICK n \in Nat \ {0} :
        /\ n \notin Lines /\ Lines' = Lines \cup {n} /\ \A i \in Lines : i < n
        /\ \A i \in Lines : ledger'[i] = ledger[i]
        /\ ledger'[n] = event
  BY Grows DEF Ids
<1>2. \A dec, x : Recorded(dec, x) => Recorded(dec, x)'
  BY <1>1, RecordedStays
<1>3. \A idx : Indexes(idx)' => Entries(idx)'
  BY PointsGrow
<1>4. HeldPoints' /\ WaitingIndexed'
  BY <1>2 DEF Points, HeldPoints, WaitingIndexed
<1>5. RepeatsPoint'
  <2>1. ledger'[n].cand = held[f].cand /\ ledger'[n].duplicate_of = held[f].duplicate_of
    <3>1. event.cand = held[f].cand /\ event.duplicate_of = held[f].duplicate_of
      BY DEF Observed
    <3> QED BY <1>1, <3>1
  <2>2. held[f].duplicate_of # NoDup => Recorded(held[f].duplicate_of, held[f].cand)
    BY DEF Points, HeldPoints, Busy
  <2>3. ASSUME NEW i \in Lines', Obs(i)', ledger'[i].duplicate_of # NoDup
        PROVE  \E k \in Lines' : /\ k < i /\ Obs(k)' /\ ledger'[k].dec = ledger'[i].duplicate_of
                                 /\ ledger'[k].cand = ledger'[i].cand
                                 /\ ledger'[k].duplicate_of = NoDup
    <3>1. CASE i = n
      BY <1>1, <2>1, <2>2, <2>3, <3>1 DEF Recorded, Obs
    <3>2. CASE i \in Lines
      <4>1. ledger'[i] = ledger[i] /\ Obs(i)
        BY <1>1, <2>3, <3>2 DEF Obs
      <4>2. PICK k \in Lines : /\ k < i /\ Obs(k) /\ ledger[k].dec = ledger[i].duplicate_of
                               /\ ledger[k].cand = ledger[i].cand
                               /\ ledger[k].duplicate_of = NoDup
        BY <2>3, <3>2, <4>1 DEF Points, RepeatsPoint
      <4>3. k \in Lines' /\ ledger'[k] = ledger[k] /\ Obs(k)'
        BY <1>1, <4>2 DEF Obs
      <4> QED BY <4>1, <4>2, <4>3
    <3> QED BY <1>1, <3>1, <3>2
  <2> QED BY <2>3 DEF RepeatsPoint
<1> QED BY <1>3, <1>4, <1>5 DEF Points

\* Steps that change neither the ledger nor an index.
LEMMA PointsStay ==
  ASSUME Points, UNCHANGED <<ledger, index>>,
         \A g \in Flows : Busy(g)' => Busy(g) /\ held'[g] = held[g],
         \A p \in Processes : \A d : d \in pending'[p] \cup running'[p] =>
           \E e \in pending[p] \cup running[p] : e.cand = d.cand
  PROVE  Points'
<1>1. Lines' = Lines
  BY DEF Lines
<1>2. \A dec, x : Recorded(dec, x) => Recorded(dec, x)'
  BY <1>1, RecordedStays
<1>3. \A idx : Indexes(idx)' => Entries(idx)'
  BY <1>1, EntriesStay DEF Points, Indexes
<1>4. HeldPoints'
  BY <1>2 DEF Points, HeldPoints
<1>5. WaitingIndexed'
  BY DEF Points, WaitingIndexed
<1>6. RepeatsPoint'
  BY <1>1 DEF Points, RepeatsPoint, Obs
<1> QED BY <1>3, <1>4, <1>5, <1>6 DEF Points

LEMMA PointsIndex ==
  ASSUME Ids, Points, NEW f \in Flows, IndexObserved(f) PROVE Points'
<1> USE DEF Ids
<1> PICK p \in Processes : p = ProcOf[f]
  OBVIOUS
<1> PICK event : event = Observed(f)
  OBVIOUS
<1> PICK old : old = index[p]
  OBVIOUS
<1> PICK more : more = ObserveEvent(old, event)
  OBVIOUS
<1>1. /\ event.type = "candidate_observed" /\ event.dec = held[f].dec
      /\ event.cand = held[f].cand /\ event.duplicate_of = held[f].duplicate_of
  BY DEF Observed
<1>2. /\ pc[f] = "index" /\ UNCHANGED <<ledger, running>>
      /\ \A g \in Flows : Busy(g)' => Busy(g) /\ held'[g] = held[g]
      /\ \A q \in Processes : q # p => index'[q] = index[q]
      /\ index'[p] = more
  BY DEF IndexObserved, Shapes, Busy
<1>3. \A q \in Processes : \A e \in pending'[q] :
        \/ e \in pending[q]
        \/ q = p /\ e.cand = held[f].cand
  BY DEF IndexObserved, Shapes, ToEvaluate
<1>4. Lines' = Lines /\ \A dec, x : Recorded(dec, x) => Recorded(dec, x)'
  BY <1>2, RecordedStays DEF Lines
<1>5. PICK n \in Lines : ledger[n] = event
  BY <1>2 DEF Observing
<1>6. Entries(more)'
  <2>1. Entries(old)
    BY DEF Points, Indexes
  <2> QED BY <1>2, <1>4, <1>5, <2>1, EntriesObserve
<1>7. \A idx : Indexes(idx)' => Entries(idx)'
  <2>1. ASSUME NEW idx, Indexes(idx)' PROVE idx = more \/ Indexes(idx)
    BY <1>2, <2>1 DEF Indexes
  <2>2. ASSUME NEW idx, Indexes(idx) PROVE Entries(idx)'
    BY <1>2, <1>4, <2>2, EntriesStay DEF Points
  <2> QED BY <1>6, <2>1, <2>2
<1>8. HeldPoints'
  BY <1>2, <1>4 DEF Points, HeldPoints
<1>9. WaitingIndexed'
  <2>1. DOMAIN old.first \subseteq DOMAIN more.first
    BY ObserveKeeps
  <2>2. held[f].cand.request # NoRequest => held[f].cand.request \in DOMAIN more.first
    BY <1>1, ObserveHolds
  <2> QED BY <1>2, <1>3, <2>1, <2>2 DEF Points, WaitingIndexed
<1>10. RepeatsPoint'
  BY <1>2, <1>4 DEF Points, RepeatsPoint, Obs
<1> QED BY <1>7, <1>8, <1>9, <1>10 DEF Points

LEMMA PointsRecord ==
  ASSUME Ids, Points, NEW p \in Processes, NEW r \in running[p], NEW j,
         running' = [running EXCEPT ![p] = @ \ {r}],
         ledger' \in {ledger, Append(ledger, Evaluated(r, j))},
         UNCHANGED <<index, pc, held, pending, decs, restarts, host>>
  PROVE  Points'
<1>1. /\ \A q \in Processes : pending'[q] \cup running'[q] \subseteq pending[q] \cup running[q]
      /\ \A g \in Flows : Busy(g)' => Busy(g) /\ held'[g] = held[g]
  BY DEF Ids, Shapes, Busy
<1>2. CASE ledger' = ledger
  BY <1>1, <1>2, PointsStay
<1>3. ASSUME NEW event, event = Evaluated(r, j), ledger' = Append(ledger, event)
      PROVE  Points'
  <2>1. event.type = "guard_evaluated"
    BY <1>3 DEF Evaluated
  <2>2. PICK n \in Nat \ {0} :
          /\ n \notin Lines /\ Lines' = Lines \cup {n}
          /\ \A i \in Lines : ledger'[i] = ledger[i]
          /\ ledger'[n] = event
    BY <1>3, Grows DEF Ids
  <2>3. /\ \A i \in Lines : Obs(i)' <=> Obs(i)
        /\ ~Obs(n)'
    BY <2>1, <2>2 DEF Obs
  <2>4. \A dec, x : Recorded(dec, x) => Recorded(dec, x)'
    BY <2>2, RecordedStays
  <2>5. \A idx : Indexes(idx)' => Entries(idx)'
    BY <1>3, PointsGrow
  <2>6. HeldPoints' /\ WaitingIndexed'
    BY <1>1, <2>4 DEF Points, HeldPoints, WaitingIndexed
  <2>7. RepeatsPoint'
    BY <2>2, <2>3 DEF Points, RepeatsPoint
  <2> QED BY <2>5, <2>6, <2>7 DEF Points
<1> QED BY <1>2, <1>3

LEMMA PointsRestart ==
  ASSUME Ids, Points, NEW p \in Processes, Restart(p) PROVE Points'
<1> USE DEF Ids
<1>1. /\ UNCHANGED ledger
      /\ \A g \in Flows : Busy(g)' => Busy(g) /\ held'[g] = held[g]
  BY DEF Restart, Busy
<1>2. /\ index'[p] = Rebuild(ledger) /\ pending'[p] = {} /\ running'[p] = {}
      /\ \A q \in Processes : q # p =>
           index'[q] = index[q] /\ pending'[q] = pending[q] /\ running'[q] = running[q]
  BY DEF Restart, Shapes
<1>3. Lines' = Lines /\ \A dec, x : Recorded(dec, x) => Recorded(dec, x)'
  BY <1>1, RecordedStays DEF Lines
<1>4. \A idx : Indexes(idx)' => Entries(idx)'
  <2>1. \A idx : Indexes(idx)' => Indexes(idx)
    BY <1>1, <1>2 DEF Indexes
  <2> QED BY <1>1, <1>3, <2>1, EntriesStay DEF Points
<1>5. HeldPoints' /\ WaitingIndexed'
  BY <1>1, <1>2, <1>3 DEF Points, HeldPoints, WaitingIndexed
<1>6. RepeatsPoint'
  BY <1>1, <1>3 DEF Points, RepeatsPoint, Obs
<1> QED BY <1>4, <1>5, <1>6 DEF Points

LEMMA PointsStep == ASSUME Ids, Points, [Next]_vars PROVE Points'
<1>1. ASSUME NEW f \in Flows, AppendObserved(f) \/ AppendObservedFails(f) PROVE Points'
  <2>1. /\ pc[f] = "append" /\ UNCHANGED <<index, pending, running>>
        /\ \A g \in Flows : Busy(g)' => Busy(g) /\ held'[g] = held[g]
    BY <1>1 DEF AppendObserved, AppendObservedFails, Ids, Shapes, Busy
  <2>2. CASE ledger' = Append(ledger, Observed(f))
    BY <2>1, <2>2, PointsAppend
  <2>3. CASE ledger' = ledger
    BY <2>1, <2>3, PointsStay
  <2> QED BY <1>1, <2>2, <2>3 DEF AppendObserved, AppendObservedFails
<1>2. ASSUME NEW p \in Processes, NEW e \in pending[p], Drop(p, e) \/ RunTheChecks(p, e)
      PROVE  Points'
  <2>1. /\ UNCHANGED <<ledger, index, pc, held>>
        /\ \A q \in Processes : pending'[q] \subseteq pending[q]
    BY <1>2 DEF Drop, RunTheChecks, Take, Ids, Shapes
  <2>2. \A q \in Processes : \A d : d \in running'[q] =>
          \E x \in pending[q] \cup running[q] : x.cand = d.cand
    BY <1>2 DEF Drop, RunTheChecks, Take, Ids, Shapes
  <2> QED BY <2>1, <2>2, PointsStay DEF Busy
<1>3. ASSUME NEW p \in Processes, NEW r \in running[p], NEW j,
             RecordOf(p, r, j) \/ RecordFailsOf(p, r, j)
      PROVE  Points'
  BY <1>3, PointsRecord DEF RecordOf, RecordFailsOf
<1>4. CASE UNCHANGED vars
  BY <1>4, PointsStay DEF vars, Busy
<1>5. CASE Next
  BY <1>1, <1>2, <1>3, <1>5, NextCases, PointsLookup, PointsIndex, PointsRestart
<1> QED BY <1>4, <1>5

LEMMA PointsHold == Spec => [](Ids /\ Points)
<1>1. Init => Ids /\ Points
  BY IdsInit, PointsInit
<1>2. Ids /\ Points /\ [Next]_vars => (Ids /\ Points)'
  BY IdsStep, PointsStep
<1> QED BY <1>1, <1>2, PTL DEF Spec

LEMMA LinesAre ==
  ASSUME IsLedger
  PROVE  /\ DOMAIN ledger = Lines
         /\ Observations = {i \in Lines : Obs(i)} /\ Evaluations = {i \in Lines : Eval(i)}
<1>1. PICK S : ledger \in Seq(S)
  BY DEF IsLedger
<1> QED BY <1>1 DEF Lines, Observations, Evaluations, Obs, Eval

\* A repeat names an earlier observation of the same candidate that is none
\* itself, with any number of threads, processes, crashes and failing appends.
THEOREM RepeatsAreExplained == Spec => []RepeatPointsBack
<1>1. Ids /\ Points => RepeatPointsBack
  BY LinesAre DEF Ids, Points, RepeatsPoint, RepeatPointsBack
<1> QED BY <1>1, PointsHold, PTL

\* What a purchase is checked against does not depend on how long it waits.
THEOREM WaitingIsHarmless == Spec => WaitingChangesNothing
<1> DEFINE Kept == \A p \in Processes : \A e \in pending[p] :
                     e \in pending'[p] => ChecksOf(p, e)' = ChecksOf(p, e)
<1>1. ASSUME Ids, Points, Points', Next PROVE Kept
  <2>1. ASSUME NEW p \in Processes, NEW e \in pending[p], e \in pending'[p]
        PROVE  /\ e.cand.request = NoRequest => /\ e.cand.request \notin DOMAIN index[p].first
                                                /\ e.cand.request \notin DOMAIN index'[p].first
               /\ e.cand.request # NoRequest =>
                    /\ e.cand.request \in DOMAIN index[p].first
                    /\ e.cand.request \in DOMAIN index'[p].first
                    /\ index'[p].first[e.cand.request] = index[p].first[e.cand.request]
    <3>1. Entries(index[p]) /\ WaitingIndexed
      BY <1>1 DEF Points, Indexes
    <3>2. index'[p] = index[p] \/ \E event : index'[p] = ObserveEvent(index[p], event)
      <4>1. ASSUME NEW f \in Flows, NEW raw,
                   LookupOf(f, raw) \/ AppendObserved(f) \/ AppendObservedFails(f)
            PROVE  index'[p] = index[p]
        BY <4>1 DEF LookupOf, AppendObserved, AppendObservedFails
      <4>2. ASSUME NEW f \in Flows, IndexObserved(f)
            PROVE  index'[p] = index[p] \/ \E event : index'[p] = ObserveEvent(index[p], event)
        BY <1>1, <4>2 DEF IndexObserved, Ids, Shapes
      <4>3. ASSUME NEW q \in Processes, NEW d \in pending[q], Drop(q, d) \/ RunTheChecks(q, d)
            PROVE  index'[p] = index[p]
        BY <4>3 DEF Drop, RunTheChecks
      <4>4. ASSUME NEW q \in Processes, NEW r, NEW j, RecordOf(q, r, j) \/ RecordFailsOf(q, r, j)
            PROVE  index'[p] = index[p]
        BY <4>4 DEF RecordOf, RecordFailsOf
      <4>5. ASSUME NEW q \in Processes, Restart(q) PROVE index'[p] = index[p]
        BY <1>1, <2>1, <4>5 DEF Restart, Ids, Shapes
      <4> QED BY <1>1, <4>1, <4>2, <4>3, <4>4, <4>5, NextCases
    <3>3. \A k \in DOMAIN index[p].first :
            k \in DOMAIN index'[p].first /\ index'[p].first[k] = index[p].first[k]
      BY <3>2, ObserveKeeps
    <3>4. NoRequest \notin DOMAIN index[p].first /\ NoRequest \notin DOMAIN index'[p].first
      <4>1. PICK now : now = index'[p]
        OBVIOUS
      <4>2. Entries(now)'
        BY <1>1, <4>1 DEF Points, Indexes
      <4>3. NoRequest \notin DOMAIN now.first
        BY <4>2 DEF Entries, FirstPoints
      <4> QED BY <3>1, <4>1, <4>3 DEF Entries, FirstPoints
    <3> QED BY <2>1, <3>1, <3>3, <3>4 DEF WaitingIndexed
  <2>2. ASSUME NEW p \in Processes, NEW e \in pending[p], e \in pending'[p]
        PROVE  ChecksOf(p, e)' = ChecksOf(p, e)
    BY <2>1, <2>2 DEF ChecksOf, PriorRequest
  <2> QED BY <2>2
<1>2. Ids /\ Points /\ (Ids /\ Points)' /\ [Next]_vars => [Kept]_vars
  BY <1>1
<1> QED BY <1>2, PointsHold, PTL DEF WaitingChangesNothing, Spec

----------------------------------------------------------------------------
(* Who pays: what the checks and the verdict of a line say about it.       *)

LEMMA NormalizedNamed ==
  ASSUME NEW raw \in Offers, NEW now \in Nat PROVE Named(Normalized(raw, now))
<1> PICK c : c = Normalized(raw, now)
  OBVIOUS
<1>1. c.missing = MissingFields(c)
  BY NormalizedIs
<1>2. c.request = NoRequest => "request_id" \in c.missing
  BY <1>1 DEF MissingFields
<1> QED BY <1>2 DEF Named, Blocking, Required

\* A payment without retry evidence was clean when it was checked.
LEMMA PaidClean ==
  ASSUME NEW c, Named(c), NEW prior, NEW checks, checks = RunChecks(c, prior, Policy), NEW j,
         Decide(checks, j, Policy.thresholds).verdict = "PAY", Retry \notin checks.signals
  PROVE  c.request # NoRequest /\ checks.signals \cap {Retry, Duplicate} = {}
<1>1. IsChecks(checks) /\ (checks.status = "PASS" <=> Blocking(c) = {})
  BY ChecksAre
<1>2. RuleVerdict(checks, j, Policy.thresholds) = "PAY"
  BY <1>1, DecideVerdict
<1>3. checks.status = "PASS" /\ Duplicate \notin checks.signals
  BY <1>2 DEF RuleVerdict, Duplicate
<1> QED BY <1>1, <1>3 DEF Named

LEMMA CheckedStep == ASSUME Ids, Checked, [Next]_vars PROVE Checked'
<1> USE DEF Ids
<1>1. ASSUME NEW f \in Flows, NEW raw \in Offers, LookupOf(f, raw) PROVE Checked'
  <2>1. Named(held'[f].cand)
    <3>1. PICK now \in Times : held'[f].cand = Normalized(raw, now)
      BY <1>1 DEF LookupOf, Shapes
    <3>2. now \in Nat
      BY DEF Times, Shapes
    <3> QED BY <3>1, <3>2, NormalizedNamed
  <2>2. /\ \A g \in Flows : g # f => pc'[g] = pc[g] /\ held'[g] = held[g]
        /\ UNCHANGED <<pending, running>>
    BY <1>1 DEF LookupOf, Shapes
  <2> QED BY <2>1, <2>2 DEF Checked, Busy
<1>2. ASSUME NEW f \in Flows, AppendObserved(f) \/ AppendObservedFails(f) PROVE Checked'
  <2>1. /\ \A g \in Flows : Busy(g)' => Busy(g) /\ held'[g] = held[g]
        /\ UNCHANGED <<pending, running>>
    BY <1>2 DEF AppendObserved, AppendObservedFails, Shapes, Busy
  <2> QED BY <2>1 DEF Checked
<1>3. ASSUME NEW f \in Flows, IndexObserved(f) PROVE Checked'
  <2>1. /\ \A g \in Flows : Busy(g)' => Busy(g) /\ held'[g] = held[g]
        /\ UNCHANGED running /\ Busy(f)
        /\ \A q \in Processes : \A e \in pending'[q] : e \in pending[q] \/ e.cand = held[f].cand
    BY <1>3 DEF IndexObserved, Shapes, Busy, ToEvaluate
  <2> QED BY <2>1 DEF Checked
<1>4. ASSUME NEW p \in Processes, NEW e \in pending[p], Drop(p, e) PROVE Checked'
  <2>1. /\ UNCHANGED <<pc, held, running>>
        /\ \A q \in Processes : pending'[q] \subseteq pending[q]
    BY <1>4 DEF Drop, Take, Shapes
  <2> QED BY <2>1 DEF Checked, Busy
<1>5. ASSUME NEW p \in Processes, NEW e \in pending[p], RunTheChecks(p, e) PROVE Checked'
  <2>1. PICK prior : prior = PriorRequest(index[p], e.cand.request, e.dec)
    OBVIOUS
  <2>2. PICK checks : checks = RunChecks(e.cand, prior, Policy)
    OBVIOUS
  <2>3. PICK new : new = [dec |-> e.dec, cand |-> e.cand, checks |-> checks]
    OBVIOUS
  <2>4. running' = [running EXCEPT ![p] = @ \cup {new}]
    BY <1>5, <2>1, <2>2, <2>3 DEF RunTheChecks, ChecksOf
  <2>5. /\ UNCHANGED <<pc, held>>
        /\ \A q \in Processes : pending'[q] \subseteq pending[q]
        /\ \A q \in Processes : \A r \in running'[q] : r \in running[q] \/ r = new
    BY <1>5, <2>4 DEF RunTheChecks, Take, Shapes
  <2>6. new.cand = e.cand /\ new.checks = checks
    BY <2>3
  <2> QED BY <2>2, <2>5, <2>6 DEF Checked, Busy
<1>6. ASSUME NEW p \in Processes, NEW r \in running[p], NEW j,
             RecordOf(p, r, j) \/ RecordFailsOf(p, r, j)
      PROVE  Checked'
  <2>1. /\ UNCHANGED <<pc, held, pending>>
        /\ \A q \in Processes : running'[q] \subseteq running[q]
    BY <1>6 DEF RecordOf, RecordFailsOf, Shapes
  <2> QED BY <2>1 DEF Checked, Busy
<1>7. ASSUME NEW p \in Processes, Restart(p) PROVE Checked'
  <2>1. /\ \A g \in Flows : Busy(g)' => Busy(g) /\ held'[g] = held[g]
        /\ \A q \in Processes : pending'[q] \subseteq pending[q] /\ running'[q] \subseteq running[q]
    BY <1>7 DEF Restart, Shapes, Busy
  <2> QED BY <2>1 DEF Checked
<1>8. CASE UNCHANGED vars
  BY <1>8 DEF vars, Checked, Busy
<1>9. CASE Next
  BY <1>1, <1>2, <1>3, <1>4, <1>5, <1>6, <1>7, <1>9, NextCases
<1> QED BY <1>8, <1>9

\* What a step may do to the ledger.
LEMMA LedgerCases ==
  ASSUME [Next]_vars
  PROVE  \/ ledger' = ledger
         \/ \E f \in Flows : ledger' = Append(ledger, Observed(f))
         \/ \E p \in Processes : \E r \in running[p] : \E j :
              ledger' = Append(ledger, Evaluated(r, j))
<1>1. CASE UNCHANGED vars
  BY <1>1 DEF vars
<1>2. CASE Next
  BY <1>2, NextCases DEF LookupOf, AppendObserved, AppendObservedFails, IndexObserved, Drop,
     RunTheChecks, RecordOf, RecordFailsOf, Restart
<1> QED BY <1>1, <1>2

LEMMA PaysCleanStep == ASSUME Ids, Checked, PaysClean, [Next]_vars PROVE PaysClean'
<1>1. ASSUME ledger' = ledger PROVE PaysClean'
  BY <1>1 DEF PaysClean, Clean, Lines, Eval
<1>2. ASSUME NEW f \in Flows, ledger' = Append(ledger, Observed(f)) PROVE PaysClean'
  <2>1. PICK n \in Nat \ {0} :
          /\ Lines' = Lines \cup {n} /\ \A i \in Lines : ledger'[i] = ledger[i]
          /\ ledger'[n] = Observed(f)
    BY <1>2, Grows DEF Ids
  <2>2. ~Eval(n)'
    BY <2>1 DEF Eval, Observed
  <2> QED BY <2>1, <2>2 DEF PaysClean, Clean, Eval
<1>3. ASSUME NEW p \in Processes, NEW r \in running[p], NEW j,
             ledger' = Append(ledger, Evaluated(r, j))
      PROVE  PaysClean'
  <2>1. PICK x : x = Evaluated(r, j)
    OBVIOUS
  <2>2. /\ x.cand = r.cand /\ x.checks = r.checks
        /\ x.decision = Decide(r.checks, j, Policy.thresholds)
    BY <2>1 DEF Evaluated
  <2>3. PICK n \in Nat \ {0} :
          /\ Lines' = Lines \cup {n} /\ \A i \in Lines : ledger'[i] = ledger[i]
          /\ ledger'[n] = x
    BY <1>3, <2>1, Grows DEF Ids
  <2>4. x.decision.verdict = "PAY" /\ Retry \notin x.checks.signals => Clean(x)
    BY <2>2, PaidClean DEF Checked, Clean
  <2>5. ledger'[n].decision.verdict = "PAY" /\ Retry \notin ledger'[n].checks.signals =>
          Clean(ledger'[n])
    BY <2>3, <2>4
  <2> QED BY <2>3, <2>5 DEF PaysClean, Clean, Eval
<1> QED BY <1>1, <1>2, <1>3, LedgerCases

----------------------------------------------------------------------------
(* One process: of the candidates of a request one is checked as the first.*)

\* A check that found no earlier record was that of the first.
LEMMA CleanCheck ==
  ASSUME Ids, Points, NEW p \in Processes, NEW e \in pending[p], e.cand.request # NoRequest,
         ChecksOf(p, e).signals \cap {Retry, Duplicate} = {}
  PROVE  FirstOf(p, e.cand.request) = e.dec
<1>1. e.cand.request \in DOMAIN index[p].first
  BY DEF Points, WaitingIndexed
<1>2. PICK k \in Lines :
        index[p].first[e.cand.request] = [dec |-> ledger[k].dec, key |-> ledger[k].cand.key]
  BY <1>1 DEF Points, Indexes, Entries, FirstPoints
<1>3. PICK prior : prior = PriorRequest(index[p], e.cand.request, e.dec)
  OBVIOUS
<1>4. prior = None
  BY <1>3, ChecksAre DEF ChecksOf, Signals, Retry, Duplicate
<1>5. ASSUME FirstOf(p, e.cand.request) # e.dec PROVE FALSE
  <2>1. prior = [dec |-> ledger[k].dec, key |-> ledger[k].cand.key]
    BY <1>1, <1>2, <1>3, <1>5 DEF PriorRequest, FirstOf
  <2>2. ledger[k].dec # 0
    BY DEF Ids, GivenOut, Shapes
  <2> QED BY <1>4, <2>1, <2>2 DEF None
<1> QED BY <1>5

LEMMA OwnersInit == ASSUME Init PROVE Owners
<1>1. Lines = {}
  BY EmptySeq DEF Init, Lines
<1> QED BY <1>1 DEF Init, Owners, BusyIsNotFirst, JudgedIndexed, ToldIndexed, CleanIsFirst,
              CleanAlone, OneClean, Busy

\* Steps that change neither the ledger nor an index.
LEMMA OwnersStay ==
  ASSUME Owners, UNCHANGED <<ledger, index>>,
         \A g \in Flows : Busy(g)' => Busy(g) /\ held'[g] = held[g],
         \A q \in Processes : pending'[q] \subseteq pending[q] /\ running'[q] \subseteq running[q]
  PROVE  Owners'
<1>1. Lines' = Lines /\ \A i \in Lines : Eval(i)' <=> Eval(i)
  BY DEF Lines, Eval
<1>2. BusyIsNotFirst'
  BY DEF Owners, BusyIsNotFirst, FirstOf
<1>3. JudgedIndexed' /\ ToldIndexed' /\ OneClean'
  BY <1>1 DEF Owners, JudgedIndexed, ToldIndexed, OneClean, Clean, Obs
<1>4. CleanIsFirst' /\ CleanAlone'
  BY <1>1 DEF Owners, CleanIsFirst, CleanAlone, Clean, FirstOf
<1> QED BY <1>2, <1>3, <1>4 DEF Owners

LEMMA OwnersLookup ==
  ASSUME Ids, Points, Owners, NEW f \in Flows, NEW raw, LookupOf(f, raw) PROVE Owners'
<1>1. /\ held'[f].dec = decs + 1 /\ decs \in Nat
      /\ \A g \in Flows : g # f => pc'[g] = pc[g] /\ held'[g] = held[g]
      /\ UNCHANGED <<ledger, index, pending, running>>
  BY DEF LookupOf, Ids, Shapes
<1>2. Lines' = Lines /\ \A i \in Lines : Eval(i)' <=> Eval(i)
  BY <1>1 DEF Lines, Eval
<1>3. \A p \in Processes : \A request \in DOMAIN index[p].first :
        FirstOf(p, request) \in 1..decs
  <2>1. ASSUME NEW p \in Processes, NEW request \in DOMAIN index[p].first
        PROVE  FirstOf(p, request) \in 1..decs
    <3>1. PICK k \in Lines :
            index[p].first[request] = [dec |-> ledger[k].dec, key |-> ledger[k].cand.key]
      BY DEF Points, Indexes, Entries, FirstPoints
    <3> QED BY <3>1 DEF FirstOf, Ids, GivenOut
  <2> QED BY <2>1
<1>4. BusyIsNotFirst'
  BY <1>1, <1>3 DEF Owners, BusyIsNotFirst, FirstOf, Busy
<1>5. JudgedIndexed' /\ ToldIndexed' /\ OneClean'
  BY <1>1, <1>2 DEF Owners, JudgedIndexed, ToldIndexed, OneClean, Clean, Obs
<1>6. CleanIsFirst' /\ CleanAlone'
  BY <1>1, <1>2 DEF Owners, CleanIsFirst, CleanAlone, Clean, FirstOf
<1> QED BY <1>4, <1>5, <1>6 DEF Owners

LEMMA OwnersAppend ==
  ASSUME Ids, Owners, NEW event, event.type = "candidate_observed",
         ledger' = Append(ledger, event),
         \A g \in Flows : Busy(g)' => Busy(g) /\ held'[g] = held[g],
         UNCHANGED <<index, pending, running>>
  PROVE  Owners'
<1>1. PICK n \in Nat \ {0} :
        /\ n \notin Lines /\ Lines' = Lines \cup {n}
        /\ \A i \in Lines : ledger'[i] = ledger[i]
        /\ ledger'[n] = event
        /\ Rebuild(ledger)' = ObserveEvent(Rebuild(ledger), event)
  BY Grows DEF Ids
<1>2. /\ \A i \in Lines : /\ Eval(i)' <=> Eval(i)
                          /\ Obs(i)' <=> Obs(i)
      /\ ~Eval(n)'
  BY <1>1 DEF Eval, Obs
<1>3. BusyIsNotFirst'
  BY DEF Owners, BusyIsNotFirst, FirstOf
<1>4. JudgedIndexed' /\ OneClean'
  <2>1. \A i \in Lines' : Eval(i)' => i \in Lines /\ Eval(i) /\ ledger'[i] = ledger[i]
    BY <1>1, <1>2
  <2>2. JudgedIndexed'
    BY <2>1 DEF Owners, JudgedIndexed
  <2>3. OneClean'
    BY <2>1 DEF Owners, OneClean, Clean
  <2> QED BY <2>2, <2>3
<1>5. ToldIndexed'
  <2>1. PICK told, more : told = Rebuild(ledger) /\ more = ObserveEvent(told, event)
    OBVIOUS
  <2>2. DOMAIN told.first \subseteq DOMAIN more.first
    BY <2>1, ObserveKeeps
  <2>3. event.cand.request # NoRequest => event.cand.request \in DOMAIN more.first
    BY <2>1, ObserveHolds
  <2>4. Rebuild(ledger)' = more
    BY <1>1, <2>1
  <2>5. \A i \in Lines' : Obs(i)' /\ ledger'[i].cand.request # NoRequest =>
          ledger'[i].cand.request \in DOMAIN more.first
    BY <1>1, <1>2, <2>1, <2>2, <2>3 DEF Owners, ToldIndexed
  <2> QED BY <2>4, <2>5 DEF ToldIndexed
<1>6. CleanIsFirst'
  BY DEF Owners, CleanIsFirst, Clean, FirstOf
<1>7. CleanAlone'
  <2>1. \A i \in Lines' : Eval(i)' => i \in Lines /\ Eval(i) /\ ledger'[i] = ledger[i]
    BY <1>1, <1>2
  <2>2. ASSUME NEW p \in Processes, NEW i \in Lines, Eval(i), Clean(ledger[i])
        PROVE  /\ \A e \in pending'[p] : e.cand.request = ledger[i].cand.request =>
                    index'[p].first[e.cand.request].dec # e.dec
               /\ \A r \in running'[p] : Clean(r) => r.cand.request # ledger[i].cand.request
    <3>1. /\ \A e \in pending[p] : e.cand.request = ledger[i].cand.request =>
               index[p].first[e.cand.request].dec # e.dec
          /\ \A r \in running[p] : Clean(r) => r.cand.request # ledger[i].cand.request
      BY <2>2 DEF Owners, CleanAlone, FirstOf
    <3> QED BY <3>1
  <2>3. \A i \in Lines' : Eval(i)' /\ Clean(ledger[i])' => Clean(ledger[i])
    BY <2>1 DEF Clean
  <2>4. ASSUME NEW p \in Processes, NEW i \in Lines', Eval(i)', Clean(ledger[i])'
        PROVE  /\ \A e \in pending'[p] : e.cand.request = ledger'[i].cand.request =>
                    index'[p].first[e.cand.request].dec # e.dec
               /\ \A r \in running'[p] : Clean(r) => r.cand.request # ledger'[i].cand.request
    <3>1. i \in Lines /\ Eval(i) /\ ledger'[i] = ledger[i] /\ Clean(ledger[i])
      BY <2>1, <2>3, <2>4
    <3> QED BY <2>2, <3>1
  <2> QED BY <2>4 DEF CleanAlone, Clean, FirstOf
<1> QED BY <1>3, <1>4, <1>5, <1>6, <1>7 DEF Owners

\* What is indexed waits, and is not first unless its request is new.
LEMMA OwnersIndex ==
  ASSUME Ids, Points, Owners, NEW f \in Flows, IndexObserved(f) PROVE Owners'
<1> USE DEF Ids
<1> PICK p \in Processes : p = ProcOf[f]
  OBVIOUS
<1> PICK event : event = Observed(f)
  OBVIOUS
<1> PICK old, more : old = index[p] /\ more = ObserveEvent(old, event)
  OBVIOUS
<1>1. /\ event.type = "candidate_observed" /\ event.dec = held[f].dec
      /\ event.cand = held[f].cand
  BY DEF Observed
<1>2. /\ Busy(f) /\ UNCHANGED <<ledger, running>>
      /\ \A g \in Flows : Busy(g)' => Busy(g) /\ held'[g] = held[g] /\ g # f
      /\ \A q \in Processes : q # p => index'[q] = index[q] /\ pending'[q] = pending[q]
      /\ index'[p] = more
  BY DEF IndexObserved, Shapes, Busy
<1>3. \A e \in pending'[p] :
        e \in pending[p] \/ (e.cand = held[f].cand /\ e.dec = held[f].dec)
  BY DEF IndexObserved, Shapes, ToEvaluate
<1>4. Lines' = Lines /\ \A i \in Lines : Eval(i)' <=> Eval(i)
  BY <1>2 DEF Lines, Eval
<1>5. \A k \in DOMAIN old.first : k \in DOMAIN more.first /\ more.first[k] = old.first[k]
  BY ObserveKeeps
<1>6. \A k \in DOMAIN more.first : k \notin DOMAIN old.first => more.first[k].dec = held[f].dec
  <2>1. ASSUME NEW k \in DOMAIN more.first, k \notin DOMAIN old.first
        PROVE  more.first[k].dec = held[f].dec
    <3>1. more.first[k] = [dec |-> event.dec, key |-> event.cand.key]
      BY <2>1, ObserveAddsFirst
    <3> QED BY <1>1, <3>1
  <2> QED BY <2>1
<1>7. BusyIsNotFirst'
  <2>1. \A g \in Flows : Busy(g)' => held'[g].dec # held[f].dec
    BY <1>2 DEF Observing
  <2> QED BY <1>2, <1>5, <1>6, <2>1 DEF Owners, BusyIsNotFirst, FirstOf
<1>8. JudgedIndexed'
  BY <1>2, <1>4, <1>5 DEF Owners, JudgedIndexed
<1>9. ToldIndexed' /\ OneClean'
  BY <1>2, <1>4 DEF Owners, ToldIndexed, OneClean, Clean, Obs
<1>10. CleanIsFirst'
  <2>1. \A q \in Processes : \A r \in running[q] : Clean(r) =>
          r.cand.request \in DOMAIN index[q].first
    BY DEF Points, WaitingIndexed, Clean
  <2> QED BY <1>2, <1>5, <2>1 DEF Owners, CleanIsFirst, Clean, FirstOf
<1>11. CleanAlone'
  <2>1. ASSUME NEW q \in Processes, NEW i \in Lines, Eval(i), Clean(ledger[i]),
               NEW e \in pending'[q], e.cand.request = ledger[i].cand.request
        PROVE  index'[q].first[e.cand.request].dec # e.dec
    <3>1. e.cand.request \in DOMAIN index[q].first
      BY <2>1 DEF Owners, JudgedIndexed, Clean
    <3>2. index'[q].first[e.cand.request] = index[q].first[e.cand.request]
      BY <1>2, <1>5, <3>1
    <3>3. CASE e \in pending[q]
      BY <2>1, <3>2, <3>3, SMTT(30) DEF Owners, CleanAlone, FirstOf
    <3>4. CASE q = p /\ e.dec = held[f].dec
      BY <1>2, <3>1, <3>2, <3>4, SMTT(30) DEF Owners, BusyIsNotFirst, FirstOf
    <3> QED BY <1>2, <1>3, <3>3, <3>4, SMTT(30)
  <2> QED BY <1>2, <1>4, <2>1, SMTT(30) DEF Owners, CleanAlone, Clean, FirstOf
<1> QED BY <1>7, <1>8, <1>9, <1>10, <1>11 DEF Owners

LEMMA OwnersCheck ==
  ASSUME Ids, Points, Owners, NEW p \in Processes, NEW e \in pending[p], RunTheChecks(p, e)
  PROVE  Owners'
<1> USE DEF Ids
<1> PICK checks : checks = ChecksOf(p, e)
  OBVIOUS
<1> PICK new : new = [dec |-> e.dec, cand |-> e.cand, checks |-> checks]
  OBVIOUS
<1>1. new.cand = e.cand /\ new.checks = checks /\ new.dec = e.dec
  OBVIOUS
<1>2. running' = [running EXCEPT ![p] = @ \cup {new}]
  BY DEF RunTheChecks
<1>3. /\ UNCHANGED <<ledger, index, pc, held>>
      /\ \A q \in Processes : pending'[q] \subseteq pending[q]
      /\ \A q \in Processes : \A r : r \in running'[q] => r \in running[q] \/ (q = p /\ r = new)
  BY <1>2 DEF RunTheChecks, Take, Shapes
<1>4. Lines' = Lines /\ \A i \in Lines : Eval(i)' <=> Eval(i)
  BY <1>3 DEF Lines, Eval
<1>5. Clean(new) => FirstOf(p, e.cand.request) = e.dec
  BY <1>1, CleanCheck DEF Clean
<1>6. BusyIsNotFirst' /\ JudgedIndexed' /\ ToldIndexed' /\ OneClean'
  BY <1>3, <1>4 DEF Owners, BusyIsNotFirst, JudgedIndexed, ToldIndexed, OneClean, Clean, Obs,
                    Busy, FirstOf
<1>7. CleanIsFirst'
  BY <1>1, <1>3, <1>5 DEF Owners, CleanIsFirst, Clean, FirstOf
<1>8. CleanAlone'
  BY <1>1, <1>3, <1>4, <1>5 DEF Owners, CleanAlone, Clean, FirstOf
<1> QED BY <1>6, <1>7, <1>8 DEF Owners

LEMMA OwnersRecord ==
  ASSUME SingleProcess, Ids, Points, Owners, NEW p \in Processes, NEW r \in running[p], NEW j,
         running' = [running EXCEPT ![p] = @ \ {r}],
         ledger' \in {ledger, Append(ledger, Evaluated(r, j))},
         UNCHANGED <<index, pc, held, pending, decs, restarts, host>>
  PROVE  Owners'
<1> USE DEF Ids
<1>1. /\ \A q \in Processes : \A x : x \in running'[q] => x \in running[q] /\ ~(q = p /\ x = r)
      /\ \A g \in Flows : Busy(g)' => Busy(g) /\ held'[g] = held[g]
  BY DEF Shapes, Busy
<1>2. CASE ledger' = ledger
  BY <1>1, <1>2, OwnersStay
<1>3. ASSUME NEW event, event = Evaluated(r, j), ledger' = Append(ledger, event)
      PROVE  Owners'
  <2>1. /\ event.type = "guard_evaluated" /\ event.dec = r.dec
        /\ event.cand = r.cand /\ event.checks = r.checks
    BY <1>3 DEF Evaluated
  <2>2. PICK n \in Nat \ {0} :
          /\ n \notin Lines /\ Lines' = Lines \cup {n}
          /\ \A i \in Lines : ledger'[i] = ledger[i]
          /\ ledger'[n] = event
          /\ Rebuild(ledger)' = ObserveEvent(Rebuild(ledger), event)
    BY <1>3, Grows
  <2>3. /\ \A i \in Lines : /\ Eval(i)' <=> Eval(i)
                            /\ Obs(i)' <=> Obs(i)
        /\ ~Obs(n)' /\ Rebuild(ledger)' = Rebuild(ledger)
    BY <2>1, <2>2, ObserveOther DEF Eval, Obs
  <2>4. Clean(event) <=> Clean(r)
    BY <2>1 DEF Clean
  <2>5. \A q \in Processes : q = p
    BY DEF SingleProcess
  <2>6. BusyIsNotFirst'
    BY <1>1 DEF Owners, BusyIsNotFirst, FirstOf
  <2>7. JudgedIndexed'
    BY <2>1, <2>2, <2>3, <2>5 DEF Owners, JudgedIndexed, Points, WaitingIndexed
  <2>8. ToldIndexed'
    BY <2>2, <2>3 DEF Owners, ToldIndexed
  <2>9. CleanIsFirst'
    BY <1>1 DEF Owners, CleanIsFirst, Clean, FirstOf
  <2>10. CleanAlone'
    <3>1. ASSUME Clean(r), NEW e \in pending[p], e.cand.request = r.cand.request
          PROVE  FirstOf(p, e.cand.request) # e.dec
      BY <3>1 DEF Owners, CleanIsFirst, Stages
    <3>2. ASSUME Clean(r), NEW x \in running[p], x # r, Clean(x) PROVE x.cand.request # r.cand.request
      BY <3>2 DEF Owners, CleanIsFirst, Stages
    <3>3. \A q \in Processes, i \in Lines : Eval(i) /\ Clean(ledger[i]) =>
            /\ \A e \in pending[q] : e.cand.request = ledger[i].cand.request =>
                 FirstOf(q, e.cand.request) # e.dec
            /\ \A x \in running[q] : Clean(x) => x.cand.request # ledger[i].cand.request
      BY DEF Owners, CleanAlone
    <3> QED BY <1>1, <2>1, <2>2, <2>3, <2>4, <2>5, <3>1, <3>2, <3>3 DEF CleanAlone, Clean, FirstOf
  <2>11. OneClean'
    <3>1. \A i \in Lines : Eval(i) /\ Clean(ledger[i]) /\ Clean(r) =>
            r.cand.request # ledger[i].cand.request
      BY DEF Owners, CleanAlone
    <3>2. ASSUME NEW x PROVE Clean(x)' <=> Clean(x)
      BY DEF Clean
    <3> QED BY <2>1, <2>2, <2>3, <2>4, <3>1, <3>2 DEF Owners, OneClean, Clean
  <2> QED BY <2>6, <2>7, <2>8, <2>9, <2>10, <2>11 DEF Owners
<1> QED BY <1>2, <1>3

LEMMA OwnersRestart ==
  ASSUME SingleProcess, Ids, Points, Owners, NEW p \in Processes, Restart(p) PROVE Owners'
<1> USE DEF Ids
<1>1. \A q \in Processes : q = p
  BY DEF SingleProcess
<1>2. /\ UNCHANGED ledger /\ index'[p] = Rebuild(ledger)
      /\ pending'[p] = {} /\ running'[p] = {}
      /\ \A g \in Flows : ~Busy(g)'
  BY <1>1 DEF Restart, Shapes, Busy
<1>3. Lines' = Lines /\ \A i \in Lines : Eval(i)' <=> Eval(i)
  BY <1>2 DEF Lines, Eval
<1>4. JudgedIndexed'
  BY <1>1, <1>2, <1>3 DEF Owners, JudgedIndexed, ToldIndexed, Judged, Recorded
<1>5. BusyIsNotFirst' /\ CleanIsFirst' /\ CleanAlone'
  BY <1>1, <1>2 DEF BusyIsNotFirst, CleanIsFirst, CleanAlone
<1>6. ToldIndexed' /\ OneClean'
  BY <1>2, <1>3 DEF Owners, ToldIndexed, OneClean, Clean, Obs
<1> QED BY <1>4, <1>5, <1>6 DEF Owners

LEMMA OwnersStep == ASSUME SingleProcess, Ids, Points, Owners, [Next]_vars PROVE Owners'
<1>1. ASSUME NEW f \in Flows, AppendObserved(f) \/ AppendObservedFails(f) PROVE Owners'
  <2>1. /\ UNCHANGED <<index, pending, running>>
        /\ \A g \in Flows : Busy(g)' => Busy(g) /\ held'[g] = held[g]
    BY <1>1 DEF AppendObserved, AppendObservedFails, Ids, Shapes, Busy
  <2>2. Observed(f).type = "candidate_observed"
    BY DEF Observed
  <2>3. CASE ledger' = Append(ledger, Observed(f))
    BY <2>1, <2>2, <2>3, OwnersAppend
  <2>4. CASE ledger' = ledger
    BY <2>1, <2>4, OwnersStay
  <2> QED BY <1>1, <2>3, <2>4 DEF AppendObserved, AppendObservedFails
<1>2. ASSUME NEW p \in Processes, NEW e \in pending[p], Drop(p, e) PROVE Owners'
  <2>1. /\ UNCHANGED <<ledger, index, pc, held, running>>
        /\ \A q \in Processes : pending'[q] \subseteq pending[q]
    BY <1>2 DEF Drop, Take, Ids, Shapes
  <2> QED BY <2>1, OwnersStay DEF Busy
<1>3. ASSUME NEW p \in Processes, NEW r \in running[p], NEW j,
             RecordOf(p, r, j) \/ RecordFailsOf(p, r, j)
      PROVE  Owners'
  BY <1>3, OwnersRecord DEF RecordOf, RecordFailsOf
<1>4. CASE UNCHANGED vars
  BY <1>4, OwnersStay DEF vars, Busy
<1>5. CASE Next
  BY <1>1, <1>2, <1>3, <1>5, NextCases, OwnersLookup, OwnersIndex, OwnersCheck, OwnersRestart
<1> QED BY <1>4, <1>5

\* In one process, at most one of the decisions on a request pays without retry
\* evidence: with any number of threads, lost candidates, failing appends and
\* restarts.
THEOREM OnePayment == ASSUME SingleProcess PROVE Spec => []NoSecondPay
<1> DEFINE I == Ids /\ Points /\ Owners /\ Checked /\ PaysClean
<1>1. Init => I
  <2>1. ASSUME Init PROVE Checked /\ PaysClean
    <3>1. Lines = {}
      BY <2>1, EmptySeq DEF Init, Lines
    <3> QED BY <2>1, <3>1 DEF Init, Checked, PaysClean, Busy
  <2> QED BY <2>1, IdsInit, PointsInit, OwnersInit
<1>2. I /\ [Next]_vars => I'
  BY IdsStep, PointsStep, OwnersStep, CheckedStep, PaysCleanStep
<1>3. I => NoSecondPay
  <2>1. ASSUME I PROVE Evaluations = {i \in Lines : Eval(i)}
    BY <2>1, LinesAre DEF Ids
  <2> QED BY <2>1 DEF Owners, OneClean, PaysClean, NoSecondPay
<1> QED BY <1>1, <1>2, <1>3, PTL DEF Spec

----------------------------------------------------------------------------
(* One process and one candidate at a time, with no failing append.        *)

\* What such a host can do.
LEMMA SerialCases ==
  ASSUME SingleProcess, Ids, host = "serial", Next
  PROVE  \/ \E f \in Flows : \/ \E raw \in Offers : LookupOf(f, raw) /\ \A g \in Flows : ~Busy(g)
                             \/ AppendObserved(f) \/ IndexObserved(f)
         \/ \E p \in Processes :
              \/ \E e \in pending[p] : Drop(p, e) \/ RunTheChecks(p, e)
              \/ \E r \in running[p] : \E j \in Judge(r.checks) : RecordOf(p, r, j)
              \/ Restart(p)
<1>1. ~Threaded /\ ~Faulty
  BY DEF Threaded, Faulty
<1>2. ASSUME NEW f \in Flows, NEW raw, LookupOf(f, raw) PROVE \A g \in Flows : ~Busy(g)
  <2>1. Alone(f)
    BY <1>1, <1>2 DEF LookupOf
  <2>2. \A g \in Flows : ProcOf[g] = ProcOf[f]
    BY DEF SingleProcess
  <2> QED BY <2>1, <2>2 DEF Alone, Busy
<1>3. /\ \A f \in Flows : ~AppendObservedFails(f)
      /\ \A p, r, j : ~RecordFailsOf(p, r, j)
  BY <1>1 DEF AppendObservedFails, RecordFailsOf
<1> QED BY <1>2, <1>3, NextCases

\* What is known to the index stays known.
LEMMA EvaluatedKept ==
  ASSUME NEW idx, NEW event, NEW more, more = ObserveEvent(idx, event),
         NEW c, EvaluatedDecision(idx, c) # NoDup
  PROVE  EvaluatedDecision(more, c) = EvaluatedDecision(idx, c)
<1>1. \A k \in DOMAIN idx.evaluated :
        k \in DOMAIN more.evaluated /\ more.evaluated[k] = idx.evaluated[k]
  BY ObserveKeeps
<1> QED BY <1>1 DEF EvaluatedDecision

\* Decision ids are no "no decision".
LEMMA EvaluatedIsDecision ==
  ASSUME Ids, Points, NEW p \in Processes, NEW key \in DOMAIN index[p].evaluated
  PROVE  index[p].evaluated[key] # NoDup
<1>1. PICK k \in Lines : ledger[k].dec = index[p].evaluated[key]
  BY DEF Points, Indexes, Entries, EvaluatedPoints
<1> QED BY <1>1 DEF Ids, GivenOut, Shapes, NoDup

Serial == Memory /\ Once

LEMMA SerialInit == ASSUME Init PROVE Serial
<1>1. Lines = {}
  BY EmptySeq DEF Init, Lines
<1>2. Memory
  BY RebuildEmpty DEF Init, Memory
<1>3. Once
  BY <1>1 DEF Init, Once, Busy
<1> QED BY <1>2, <1>3 DEF Serial

\* Steps that change neither the ledger nor an index, nor what observe() holds.
LEMMA SerialStay ==
  ASSUME Serial, UNCHANGED <<ledger, index, pc, held>>,
         \A p \in Processes : \A d : d \in pending'[p] \cup running'[p] =>
           \E e \in pending[p] \cup running[p] : e.cand = d.cand /\ e.dec = d.dec
  PROVE  Serial'
<1>1. Lines' = Lines /\ Rebuild(ledger)' = Rebuild(ledger)
  BY DEF Lines
<1>2. \A f \in Flows : Observed(f)' = Observed(f)
  BY DEF Observed
<1>3. Memory'
  BY <1>1, <1>2 DEF Serial, Memory
<1>4. Once'
  BY <1>1 DEF Serial, Once, Busy, Eval
<1> QED BY <1>3, <1>4 DEF Serial

LEMMA SerialLookup ==
  ASSUME SingleProcess, Ids, Serial, NEW f \in Flows, NEW raw, LookupOf(f, raw),
         \A g \in Flows : ~Busy(g)
  PROVE  Serial'
<1>1. PICK c : held' = [held EXCEPT ![f] = [dec |-> decs', cand |-> c,
                          duplicate_of |-> EvaluatedDecision(index[ProcOf[f]], c)]]
  BY DEF LookupOf
<1>2. /\ held'[f].cand = c /\ held'[f].duplicate_of = EvaluatedDecision(index[ProcOf[f]], c)
      /\ \A g \in Flows : pc'[g] # "index" /\ (Busy(g)' => g = f)
      /\ UNCHANGED <<ledger, index, pending, running>> /\ Lines' = Lines
  BY <1>1 DEF LookupOf, Ids, Shapes, Lines, Busy
<1>3. \A p \in Processes : p = ProcOf[f]
  BY DEF SingleProcess
<1>4. Memory'
  BY <1>2 DEF Serial, Memory, Busy
<1>5. Once'
  BY <1>2, <1>3 DEF Serial, Once, Eval
<1> QED BY <1>4, <1>5 DEF Serial

LEMMA SerialAppend ==
  ASSUME Ids, Serial, NEW f \in Flows, AppendObserved(f) PROVE Serial'
<1>1. /\ pc[f] = "append" /\ pc'[f] = "index" /\ Busy(f) /\ held' = held
      /\ \A g \in Flows : Busy(g)' <=> Busy(g)
      /\ UNCHANGED <<index, pending, running>>
  BY DEF AppendObserved, Ids, Shapes, Busy
<1>2. PICK n \in Nat \ {0} :
        /\ n \notin Lines /\ Lines' = Lines \cup {n}
        /\ \A i \in Lines : ledger'[i] = ledger[i]
        /\ ledger'[n] = Observed(f)
        /\ Rebuild(ledger)' = ObserveEvent(Rebuild(ledger), Observed(f))
  BY Grows DEF AppendObserved, Ids
<1>3. Observed(f)' = Observed(f)
  BY <1>1 DEF Observed
<1>4. Memory'
  <2>1. \A g \in Flows : pc[g] # "index"
    BY <1>1 DEF Serial, Once, Busy
  <2>2. \A p \in Processes : index[p] = Rebuild(ledger)
    BY <2>1 DEF Serial, Memory
  <2> QED BY <1>1, <1>2, <1>3, <2>2 DEF Memory
<1>5. Once'
  <2>1. ~Eval(n)' /\ \A i \in Lines : Eval(i)' <=> Eval(i)
    BY <1>2 DEF Eval, Observed
  <2> QED BY <1>1, <1>2, <2>1 DEF Serial, Once
<1> QED BY <1>4, <1>5 DEF Serial

LEMMA SerialIndex ==
  ASSUME SingleProcess, Ids, Points, Serial, NEW f \in Flows, IndexObserved(f) PROVE Serial'
<1> USE DEF Ids
<1> PICK p \in Processes : p = ProcOf[f]
  OBVIOUS
<1> PICK event : event = Observed(f)
  OBVIOUS
<1> PICK old, more : old = index[p] /\ more = ObserveEvent(old, event)
  OBVIOUS
<1>1. /\ event.type = "candidate_observed" /\ event.dec = held[f].dec
      /\ event.cand = held[f].cand /\ event.duplicate_of = held[f].duplicate_of
  BY DEF Observed
<1>2. \A q \in Processes : q = p
  BY DEF SingleProcess
<1>3. /\ pc[f] = "index" /\ Busy(f) /\ UNCHANGED <<ledger, running>>
      /\ \A g \in Flows : ~Busy(g)'
      /\ index'[p] = more
  BY DEF IndexObserved, Shapes, Busy, Serial, Once
<1>4. \A e \in pending'[p] :
        \/ e \in pending[p]
        \/ /\ e.cand = held[f].cand /\ e.dec = held[f].dec /\ held[f].duplicate_of = NoDup
  BY DEF IndexObserved, Shapes, ToEvaluate
<1>5. Memory'
  <2>1. Rebuild(ledger) = more
    <3>1. \A g \in Flows : pc[g] = "index" => g = f
      BY <1>3 DEF Serial, Once, Busy
    <3> QED BY <1>3, <3>1 DEF Serial, Memory
  <2> QED BY <1>2, <1>3, <2>1 DEF Memory, Busy
<1>6. \A e \in pending[p] \cup running[p] : e.cand.request # NoRequest =>
        EvaluatedDecision(more, e.cand) = e.dec
  <2>1. ASSUME NEW e \in pending[p] \cup running[p], e.cand.request # NoRequest
        PROVE  EvaluatedDecision(more, e.cand) = e.dec
    <3>1. EvaluatedDecision(old, e.cand) = e.dec /\ e.dec # NoDup
      BY <2>1 DEF Serial, Once, GivenOut, Shapes, NoDup
    <3> QED BY <3>1, EvaluatedKept
  <2> QED BY <2>1
<1>7. \A i \in Lines : Eval(i) /\ ledger[i].cand.request # NoRequest =>
        EvaluatedDecision(more, ledger[i].cand) = ledger[i].dec
  <2>1. ASSUME NEW i \in Lines, Eval(i), ledger[i].cand.request # NoRequest
        PROVE  EvaluatedDecision(more, ledger[i].cand) = ledger[i].dec
    <3>1. EvaluatedDecision(old, ledger[i].cand) = ledger[i].dec /\ ledger[i].dec # NoDup
      BY <2>1 DEF Serial, Once, GivenOut, Shapes, NoDup
    <3> QED BY <3>1, EvaluatedKept
  <2> QED BY <2>1
<1>8. ASSUME held[f].duplicate_of = NoDup, held[f].cand.request # NoRequest
      PROVE  EvaluatedDecision(more, held[f].cand) = held[f].dec
  <2>1. Identity(held[f].cand) \notin DOMAIN old.evaluated
    <3>1. EvaluatedDecision(old, held[f].cand) = NoDup
      BY <1>3, <1>8 DEF Serial, Once
    <3> QED BY <1>8, <3>1, EvaluatedIsDecision DEF EvaluatedDecision
  <2>2. Identity(event.cand) \in DOMAIN more.evaluated
    BY <1>1, <1>8, ObserveHolds
  <2>3. more.evaluated[Identity(held[f].cand)] = held[f].dec
    BY <1>1, <2>1, <2>2, ObserveAddsEvaluated
  <2> QED BY <1>1, <1>8, <2>2, <2>3 DEF EvaluatedDecision
<1>9. Once'
  <2>1. Lines' = Lines /\ \A i \in Lines : Eval(i)' <=> Eval(i)
    BY <1>3 DEF Lines, Eval
  <2> QED BY <1>2, <1>3, <1>4, <1>6, <1>7, <1>8, <2>1 DEF Once
<1> QED BY <1>5, <1>9 DEF Serial

LEMMA SerialRecord ==
  ASSUME SingleProcess, Ids, Serial, NEW p \in Processes, NEW r \in running[p], NEW j,
         RecordOf(p, r, j)
  PROVE  Serial'
<1>1. /\ \A q \in Processes : running'[q] \subseteq running[q]
      /\ UNCHANGED <<index, pc, held, pending>> /\ \A q \in Processes : q = p
  BY DEF RecordOf, Ids, Shapes, SingleProcess
<1>2. PICK event : event = Evaluated(r, j)
  OBVIOUS
<1>3. event.type = "guard_evaluated" /\ event.dec = r.dec /\ event.cand = r.cand
  BY <1>2 DEF Evaluated
<1>4. PICK n \in Nat \ {0} :
        /\ n \notin Lines /\ Lines' = Lines \cup {n}
        /\ \A i \in Lines : ledger'[i] = ledger[i]
        /\ ledger'[n] = event
        /\ Rebuild(ledger)' = ObserveEvent(Rebuild(ledger), event)
  BY <1>2, Grows DEF RecordOf, Ids
<1>5. Rebuild(ledger)' = Rebuild(ledger) /\ \A i \in Lines : Eval(i)' <=> Eval(i)
  BY <1>3, <1>4, ObserveOther DEF Eval
<1>6. \A f \in Flows : Observed(f)' = Observed(f)
  BY <1>1 DEF Observed
<1>7. Memory'
  BY <1>1, <1>5, <1>6 DEF Serial, Memory
<1>8. r.cand.request # NoRequest => EvaluatedDecision(index[p], r.cand) = r.dec
  BY DEF Serial, Once
<1>9. Once'
  BY <1>1, <1>3, <1>4, <1>5, <1>8 DEF Serial, Once, Busy
<1> QED BY <1>7, <1>9 DEF Serial

LEMMA SerialRestart ==
  ASSUME SingleProcess, Ids, Points, Serial, NEW p \in Processes, Restart(p) PROVE Serial'
<1> USE DEF Ids
<1> PICK old, more : old = index[p] /\ more = Rebuild(ledger)
  OBVIOUS
<1>1. \A q \in Processes : q = p
  BY DEF SingleProcess
<1>2. /\ UNCHANGED ledger /\ Lines' = Lines /\ index'[p] = more
      /\ pending'[p] = {} /\ running'[p] = {}
      /\ \A g \in Flows : ~Busy(g)'
  BY <1>1 DEF Restart, Shapes, Busy, Lines
<1>3. Memory'
  BY <1>1, <1>2 DEF Memory, Busy
<1>4. more = old \/ \E event : more = ObserveEvent(old, event)
  BY DEF Serial, Memory
<1>5. ASSUME NEW i \in Lines, Eval(i), ledger[i].cand.request # NoRequest
      PROVE  EvaluatedDecision(more, ledger[i].cand) = ledger[i].dec
  <2>1. EvaluatedDecision(old, ledger[i].cand) = ledger[i].dec /\ ledger[i].dec # NoDup
    BY <1>5 DEF Serial, Once, GivenOut, Shapes, NoDup
  <2> QED BY <1>4, <2>1, EvaluatedKept
<1>6. Once'
  BY <1>1, <1>2, <1>5 DEF Once, Eval
<1> QED BY <1>3, <1>6 DEF Serial

LEMMA HostStays == ASSUME [Next]_vars PROVE host' = host
<1>1. CASE UNCHANGED vars
  BY <1>1 DEF vars
<1>2. CASE Next
  BY <1>2, NextCases DEF LookupOf, AppendObserved, AppendObservedFails, IndexObserved, Drop,
     RunTheChecks, RecordOf, RecordFailsOf, Restart
<1> QED BY <1>1, <1>2

LEMMA SerialStep ==
  ASSUME SingleProcess, Ids, Points, host = "serial", Serial, [Next]_vars PROVE Serial'
<1>1. ASSUME NEW p \in Processes, NEW e \in pending[p], Drop(p, e) \/ RunTheChecks(p, e)
      PROVE  Serial'
  <2>1. /\ UNCHANGED <<ledger, index, pc, held>>
        /\ \A q \in Processes : pending'[q] \subseteq pending[q]
    BY <1>1 DEF Drop, RunTheChecks, Take, Ids, Shapes
  <2>2. \A q \in Processes : \A d : d \in running'[q] =>
          \E x \in pending[q] \cup running[q] : x.cand = d.cand /\ x.dec = d.dec
    BY <1>1 DEF Drop, RunTheChecks, Take, Ids, Shapes
  <2> QED BY <2>1, <2>2, SerialStay
<1>2. CASE UNCHANGED vars
  BY <1>2, SerialStay DEF vars
<1>3. CASE Next
  BY <1>1, <1>3, SerialCases, SerialLookup, SerialAppend, SerialIndex, SerialRecord, SerialRestart
<1> QED BY <1>2, <1>3

LEMMA SerialHolds ==
  ASSUME SingleProcess PROVE Spec => [](Ids /\ (host = "serial" => Serial))
<1> DEFINE I == Ids /\ Points /\ (host = "serial" => Serial)
<1>1. Init => I
  BY IdsInit, PointsInit, SerialInit
<1>2. I /\ [Next]_vars => I'
  BY IdsStep, PointsStep, SerialStep, HostStays
<1> QED BY <1>1, <1>2, PTL DEF Spec

\* A host that observes one candidate at a time never judges a repeat.
THEOREM NoSecondJudgment == ASSUME SingleProcess PROVE Spec => []JudgedOnce
<1>1. Ids /\ (host = "serial" => Serial) => JudgedOnce
  <2>1. ASSUME Ids, host = "serial", Serial,
               NEW i \in Evaluations, NEW j \in Evaluations,
               ledger[i].cand = ledger[j].cand, ledger[i].cand.request # NoRequest
        PROVE  i = j
    <3>1. i \in Lines /\ Eval(i) /\ j \in Lines /\ Eval(j)
      BY <2>1, LinesAre DEF Ids
    <3>2. PICK p : p \in Processes
      BY DEF SingleProcess
    <3>3. ledger[i].dec = EvaluatedDecision(index[p], ledger[i].cand)
          /\ ledger[j].dec = EvaluatedDecision(index[p], ledger[j].cand)
      BY <2>1, <3>1, <3>2 DEF Serial, Once
    <3> QED BY <2>1, <3>1, <3>3 DEF Ids, Judged
  <2> QED BY <2>1 DEF JudgedOnce
<1> QED BY <1>1, SerialHolds, PTL

\* Such a host remembers at any time what a restart would tell it.
THEOREM RestartChangesNothing == ASSUME SingleProcess PROVE Spec => []RestartInvisible
<1>1. Ids /\ (host = "serial" => Serial) => RestartInvisible
  <2>1. \A p \in Processes, f \in Flows : ProcOf[f] = p
    BY DEF SingleProcess
  <2> QED BY <2>1 DEF RestartInvisible, Serial, Memory
<1> QED BY <1>1, SerialHolds, PTL

----------------------------------------------------------------------------
(* The ledger explains the signals.                                        *)

LEMMA OldestStep ==
  ASSUME Ids, ToldIndexed, FirstIsOldest, [Next]_vars PROVE FirstIsOldest'
<1>1. ASSUME ledger' = ledger PROVE FirstIsOldest'
  BY <1>1 DEF FirstIsOldest, Lines, Obs
<1>2. ASSUME NEW event, ledger' = Append(ledger, event),
             event.type \in {"candidate_observed", "guard_evaluated"}
      PROVE  FirstIsOldest'
  <2>1. PICK n \in Nat \ {0} :
          /\ n \notin Lines /\ Lines' = Lines \cup {n} /\ \A i \in Lines : i < n
          /\ \A i \in Lines : ledger'[i] = ledger[i]
          /\ ledger'[n] = event /\ Lines \subseteq Nat
          /\ Rebuild(ledger)' = ObserveEvent(Rebuild(ledger), event)
    BY <1>2, Grows DEF Ids
  <2>2. PICK told, more : told = Rebuild(ledger) /\ more = ObserveEvent(told, event)
    OBVIOUS
  <2>3. /\ \A i \in Lines : Obs(i)' <=> Obs(i)
        /\ Obs(n)' <=> event.type = "candidate_observed"
    BY <2>1 DEF Obs
  <2>4. ASSUME NEW request \in DOMAIN more.first
        PROVE  \E k \in Lines' :
                 /\ Obs(k)' /\ ledger'[k].cand.request = request
                 /\ more.first[request] = [dec |-> ledger'[k].dec, key |-> ledger'[k].cand.key]
                 /\ \A l \in Lines' : Obs(l)' /\ ledger'[l].cand.request = request => k <= l
    <3>1. CASE request \in DOMAIN told.first
      <4>1. PICK k \in Lines :
              /\ Obs(k) /\ ledger[k].cand.request = request
              /\ told.first[request] = [dec |-> ledger[k].dec, key |-> ledger[k].cand.key]
              /\ \A l \in Lines : Obs(l) /\ ledger[l].cand.request = request => k <= l
        BY <2>2, <3>1 DEF FirstIsOldest
      <4>2. more.first[request] = told.first[request]
        BY <2>2, <3>1, ObserveKeeps
      <4>3. k < n /\ k \in Lines' /\ Obs(k)' /\ ledger'[k] = ledger[k]
        BY <2>1, <2>3, <4>1
      <4>4. \A l \in Lines' : Obs(l)' /\ ledger'[l].cand.request = request => k <= l
        BY <2>1, <2>3, <4>1, <4>3
      <4> QED BY <4>1, <4>2, <4>3, <4>4
    <3>2. CASE request \notin DOMAIN told.first
      <4>1. /\ event.type = "candidate_observed" /\ event.cand.request # NoRequest
            /\ request = event.cand.request
            /\ more.first[request] = [dec |-> event.dec, key |-> event.cand.key]
        BY <2>2, <3>2, ObserveAddsFirst
      <4>2. \A l \in Lines : ~(Obs(l) /\ ledger[l].cand.request = request)
        BY <2>2, <3>2, <4>1 DEF ToldIndexed
      <4>3. Obs(n)' /\ n \in Lines' /\ n <= n
        BY <2>1, <2>3, <4>1
      <4>4. \A l \in Lines' : Obs(l)' /\ ledger'[l].cand.request = request => n <= l
        BY <2>1, <2>3, <4>2, <4>3
      <4> QED BY <2>1, <4>1, <4>3, <4>4
    <3> QED BY <3>1, <3>2
  <2>5. Rebuild(ledger)' = more
    BY <2>1, <2>2
  <2> QED BY <2>4, <2>5 DEF FirstIsOldest
<1>3. \A f \in Flows : Observed(f).type = "candidate_observed"
  BY DEF Observed
<1>4. \A r, j : Evaluated(r, j).type = "guard_evaluated"
  BY DEF Evaluated
<1> QED BY <1>1, <1>2, <1>3, <1>4, LedgerCases

\* A later line takes nothing from an explanation.
LEMMA ExplainedStays ==
  ASSUME IsLedger, NEW event, ledger' = Append(ledger, event) \/ ledger' = ledger,
         NEW x, Explained(x)
  PROVE  Explained(x)'
<1>1. CASE ledger' = ledger
  BY <1>1 DEF Explained, Lines, Obs
<1>2. CASE ledger' = Append(ledger, event)
  <2>1. PICK n \in Nat \ {0} :
          /\ n \notin Lines /\ Lines' = Lines \cup {n} /\ \A i \in Lines : i < n
          /\ \A i \in Lines : ledger'[i] = ledger[i]
          /\ Lines \subseteq Nat
    BY <1>2, Grows
  <2>2. \A i \in Lines : Obs(i)' <=> Obs(i)
    BY <2>1 DEF Obs
  <2>3. PICK h \in Lines :
    /\ Obs(h) /\ ledger[h].dec = x.dec
    /\ \/ /\ x.cand.request = NoRequest \/ \A k \in Lines :
               Obs(k) /\ ledger[k].cand.request = x.cand.request => k >= h
          /\ Duplicate \notin x.checks.signals /\ Retry \notin x.checks.signals
       \/ \E k \in Lines :
            /\ x.cand.request # NoRequest /\ k < h
            /\ Obs(k) /\ ledger[k].cand.request = x.cand.request
            /\ \A l \in Lines : Obs(l) /\ ledger[l].cand.request = x.cand.request => k <= l
            /\ Duplicate \in x.checks.signals <=> ~IsRetry(x.cand, ledger[k].cand, Policy)
            /\ Retry \in x.checks.signals <=> IsRetry(x.cand, ledger[k].cand, Policy)
    BY DEF Explained
  <2>4. h \in Lines' /\ Obs(h)' /\ ledger'[h].dec = x.dec
    BY <2>1, <2>2, <2>3
  <2>5. CASE /\ x.cand.request = NoRequest \/ \A k \in Lines :
                  Obs(k) /\ ledger[k].cand.request = x.cand.request => k >= h
             /\ Duplicate \notin x.checks.signals /\ Retry \notin x.checks.signals
    <3>1. x.cand.request = NoRequest \/ \A k \in Lines' :
            Obs(k)' /\ ledger'[k].cand.request = x.cand.request => k >= h
      BY <2>1, <2>2, <2>5
    <3> QED BY <2>4, <2>5, <3>1 DEF Explained
  <2>6. ASSUME NEW k \in Lines,
               /\ x.cand.request # NoRequest /\ k < h
               /\ Obs(k) /\ ledger[k].cand.request = x.cand.request
               /\ \A l \in Lines : Obs(l) /\ ledger[l].cand.request = x.cand.request => k <= l
               /\ Duplicate \in x.checks.signals <=> ~IsRetry(x.cand, ledger[k].cand, Policy)
               /\ Retry \in x.checks.signals <=> IsRetry(x.cand, ledger[k].cand, Policy)
        PROVE  Explained(x)'
    <3>1. k \in Lines' /\ Obs(k)' /\ ledger'[k] = ledger[k]
      BY <2>1, <2>2, <2>6
    <3>2. \A l \in Lines' : Obs(l)' /\ ledger'[l].cand.request = x.cand.request => k <= l
      BY <2>1, <2>2, <2>6
    <3> QED BY <2>4, <2>6, <3>1, <3>2 DEF Explained
  <2> QED BY <2>3, <2>5, <2>6
<1> QED BY <1>1, <1>2

\* The checks see the oldest line of the request.
LEMMA ExplainedCheck ==
  ASSUME Ids, Points, Serial, FirstIsOldest, NEW p \in Processes, NEW e \in pending[p],
         NEW x, x.dec = e.dec, x.cand = e.cand, x.checks = ChecksOf(p, e)
  PROVE  Explained(x)
<1> USE DEF Ids
<1> PICK c : c = e.cand
  OBVIOUS
<1> PICK prior : prior = PriorRequest(index[p], c.request, e.dec)
  OBVIOUS
<1>1. PICK h \in Lines : Obs(h) /\ ledger[h].dec = e.dec /\ ledger[h].cand = c
  BY DEF Stages, Recorded
<1>2. x.checks.signals = Signals(c, prior, Policy)
  BY ChecksAre DEF ChecksOf
<1>3. /\ Duplicate \in x.checks.signals <=>
           c.request # NoRequest /\ prior # None /\ ~IsRetry(c, prior, Policy)
      /\ Retry \in x.checks.signals <=>
           c.request # NoRequest /\ prior # None /\ IsRetry(c, prior, Policy)
  BY <1>2 DEF Signals, Duplicate, Retry, Exact
<1>4. CASE c.request = NoRequest
  BY <1>1, <1>3, <1>4 DEF Explained
<1>5. CASE c.request # NoRequest
  <2>1. c.request \in DOMAIN index[p].first
    BY <1>5 DEF Points, WaitingIndexed
  <2>2. PICK told : told = Rebuild(ledger)
    OBVIOUS
  <2>3. c.request \in DOMAIN told.first /\ told.first[c.request] = index[p].first[c.request]
    <3>1. told = index[p] \/ \E event : told = ObserveEvent(index[p], event)
      BY <2>2 DEF Serial, Memory
    <3> QED BY <2>1, <3>1, ObserveKeeps
  <2>4. PICK k \in Lines :
          /\ Obs(k) /\ ledger[k].cand.request = c.request
          /\ told.first[c.request] = [dec |-> ledger[k].dec, key |-> ledger[k].cand.key]
          /\ \A l \in Lines : Obs(l) /\ ledger[l].cand.request = c.request => k <= l
    BY <2>2, <2>3 DEF FirstIsOldest
  <2>5. index[p].first[c.request] = [dec |-> ledger[k].dec, key |-> ledger[k].cand.key]
    BY <2>3, <2>4
  <2>6. Lines \subseteq Nat
    <3>1. PICK S : ledger \in Seq(S)
      BY DEF IsLedger
    <3> QED BY <3>1, LenProperties DEF Lines
  <2>7. CASE k = h
    <3>1. prior = None
      BY <1>1, <2>1, <2>5, <2>7 DEF PriorRequest
    <3>2. \A l \in Lines : Obs(l) /\ ledger[l].cand.request = x.cand.request => l >= h
      BY <2>4, <2>6, <2>7
    <3> QED BY <1>1, <1>3, <3>1, <3>2 DEF Explained
  <2>8. CASE k # h
    <3>1. ledger[k].dec # e.dec
      BY <1>1, <2>4, <2>8 DEF Observing
    <3>2. index[p].first[c.request].dec # e.dec
      BY <2>5, <3>1
    <3>3. prior = [dec |-> ledger[k].dec, key |-> ledger[k].cand.key]
      BY <2>1, <2>5, <3>2 DEF PriorRequest
    <3>4. prior # None
      <4>1. ledger[k].dec # 0
        BY DEF GivenOut, Shapes
      <4> QED BY <3>3, <4>1 DEF None
    <3>5. prior.key = ledger[k].cand.key
      BY <3>3
    <3>6. IsRetry(c, prior, Policy) <=> IsRetry(c, ledger[k].cand, Policy)
      BY <3>5 DEF IsRetry
    <3>7. k < h
      BY <1>1, <2>4, <2>6, <2>8
    <3> QED BY <1>1, <1>3, <1>5, <2>4, <3>4, <3>6, <3>7 DEF Explained
  <2> QED BY <2>7, <2>8
<1> QED BY <1>4, <1>5

LEMMA ExplainedStep ==
  ASSUME SingleProcess, Ids, Points, Serial, FirstIsOldest, host = "serial", AllExplained,
         [Next]_vars
  PROVE  AllExplained'
<1>1. \A x : Explained(x) => Explained(x)'
  BY LedgerCases, ExplainedStays DEF Ids
<1>2. ASSUME NEW i \in Lines, Eval(i), ledger'[i] = ledger[i] PROVE Explained(ledger[i])'
  <2>1. PICK x : x = ledger[i] /\ x = ledger'[i]
    BY <1>2
  <2>2. Explained(x)'
    BY <1>1, <1>2, <2>1 DEF AllExplained
  <2> QED BY <2>1, <2>2 DEF Explained
<1>3. ASSUME NEW event, event.type = "candidate_observed",
             ledger' = ledger \/ ledger' = Append(ledger, event)
      PROVE  \A i \in Lines' : Eval(i)' => Explained(ledger[i])'
  <2>1. CASE ledger' = ledger
    BY <1>2, <2>1 DEF Lines, Eval
  <2>2. CASE ledger' = Append(ledger, event)
    <3>1. PICK n \in Nat \ {0} :
            /\ Lines' = Lines \cup {n} /\ \A i \in Lines : ledger'[i] = ledger[i]
            /\ ledger'[n] = event
      BY <2>2, Grows DEF Ids
    <3>2. ~Eval(n)' /\ \A i \in Lines : Eval(i)' <=> Eval(i)
      BY <1>3, <3>1 DEF Eval
    <3> QED BY <1>2, <3>1, <3>2
  <2> QED BY <1>3, <2>1, <2>2
<1>4. ASSUME \A q \in Processes : running'[q] \subseteq running[q],
             \A i \in Lines' : Eval(i)' => Explained(ledger[i])'
      PROVE  AllExplained'
  <2>1. \A q \in Processes : \A r \in running'[q] : Explained(r)'
    BY <1>1, <1>4 DEF AllExplained
  <2> QED BY <1>4, <2>1 DEF AllExplained
<1>5. \A f \in Flows : Observed(f).type = "candidate_observed"
  BY DEF Observed
<1>6. ASSUME ledger' = ledger, \A q \in Processes : running'[q] \subseteq running[q]
      PROVE  AllExplained'
  <2>1. PICK event : event.type = "candidate_observed"
    <3>1. [type |-> "candidate_observed"].type = "candidate_observed"
      OBVIOUS
    <3> QED BY <3>1
  <2> QED BY <1>3, <1>4, <1>6, <2>1
<1>7. ASSUME NEW f \in Flows, AppendObserved(f) PROVE AllExplained'
  <2>1. ledger' = Append(ledger, Observed(f)) /\ UNCHANGED running
    BY <1>7 DEF AppendObserved
  <2> QED BY <1>3, <1>4, <1>5, <2>1
<1>8. ASSUME NEW p \in Processes, NEW e \in pending[p], RunTheChecks(p, e) PROVE AllExplained'
  <2>1. PICK checks : checks = ChecksOf(p, e)
    OBVIOUS
  <2>2. PICK new : new = [dec |-> e.dec, cand |-> e.cand, checks |-> checks]
    OBVIOUS
  <2>3. new.dec = e.dec /\ new.cand = e.cand /\ new.checks = checks
    BY <2>2
  <2>4. Explained(new)
    BY <2>1, <2>3, ExplainedCheck
  <2>5. running' = [running EXCEPT ![p] = @ \cup {new}] /\ ledger' = ledger
    BY <1>8, <2>1, <2>2 DEF RunTheChecks
  <2>6. \A q \in Processes : \A r : r \in running'[q] => r \in running[q] \/ r = new
    BY <2>5 DEF Ids, Shapes
  <2>7. \A q \in Processes : \A r \in running'[q] : Explained(r)'
    BY <1>1, <2>4, <2>6 DEF AllExplained
  <2>8. \A i \in Lines' : Eval(i)' => Explained(ledger[i])'
    BY <1>2, <2>5 DEF Lines, Eval
  <2> QED BY <2>7, <2>8 DEF AllExplained
<1>9. ASSUME NEW p \in Processes, NEW r \in running[p], NEW j, RecordOf(p, r, j) PROVE AllExplained'
  <2>1. PICK event : event = Evaluated(r, j)
    OBVIOUS
  <2>2. event.dec = r.dec /\ event.cand = r.cand /\ event.checks = r.checks
    BY <2>1 DEF Evaluated
  <2>3. Explained(event)
    BY <2>2 DEF AllExplained, Explained
  <2>4. PICK n \in Nat \ {0} :
          /\ Lines' = Lines \cup {n} /\ \A i \in Lines : ledger'[i] = ledger[i]
          /\ ledger'[n] = event
    BY <1>9, <2>1, Grows DEF RecordOf, Ids
  <2>5. \A i \in Lines : Eval(i)' <=> Eval(i)
    BY <2>4 DEF Eval
  <2>6. Explained(ledger[n])'
    <3>1. Explained(event)'
      BY <1>1, <2>3
    <3> QED BY <2>4, <3>1 DEF Explained
  <2>7. \A i \in Lines' : Eval(i)' => Explained(ledger[i])'
    BY <1>2, <2>4, <2>5, <2>6
  <2>8. \A q \in Processes : running'[q] \subseteq running[q]
    BY <1>9 DEF RecordOf, Ids, Shapes
  <2> QED BY <1>4, <2>7, <2>8
<1>10. ASSUME NEW p \in Processes, Restart(p) PROVE AllExplained'
  BY <1>6, <1>10 DEF Restart, Ids, Shapes
<1>11. ASSUME NEW f \in Flows, (\E raw \in Offers : LookupOf(f, raw)) \/ IndexObserved(f)
       PROVE  AllExplained'
  BY <1>6, <1>11 DEF LookupOf, IndexObserved
<1>12. ASSUME NEW p \in Processes, NEW e \in pending[p], Drop(p, e) PROVE AllExplained'
  BY <1>6, <1>12 DEF Drop
<1>13. CASE UNCHANGED vars
  BY <1>6, <1>13 DEF vars
<1>14. CASE Next
  BY <1>7, <1>8, <1>9, <1>10, <1>11, <1>12, <1>14, SerialCases
<1> QED BY <1>13, <1>14

\* The ledger of such a host explains every check it records.
THEOREM SignalsAreExplained == ASSUME SingleProcess PROVE Spec => []LedgerExplainsSignals
<1> DEFINE I == /\ Ids /\ Points /\ Owners /\ FirstIsOldest
                /\ host = "serial" => Serial /\ AllExplained
<1>1. Init => I
  <2>1. ASSUME Init PROVE FirstIsOldest /\ AllExplained
    <3>1. Lines = {} /\ DOMAIN Rebuild(ledger).first = {}
      BY <2>1, EmptySeq, RebuildEmpty DEF Init, Lines, EmptyIndex
    <3> QED BY <2>1, <3>1 DEF Init, FirstIsOldest, AllExplained
  <2> QED BY <2>1, IdsInit, PointsInit, OwnersInit, SerialInit
<1>2. I /\ [Next]_vars => I'
  <2>1. Owners => ToldIndexed
    BY DEF Owners
  <2> QED BY <2>1, IdsStep, PointsStep, OwnersStep, OldestStep, SerialStep, ExplainedStep, HostStays
<1>3. I => LedgerExplainsSignals
  <2> DEFINE Here(i)    == ObservedAs(ledger[i].dec)
             Earlier(i) == {k \in Observations :
                              k < Here(i) /\ ledger[k].cand.request = ledger[i].cand.request}
             First(i)   == ledger[CHOOSE k \in Earlier(i) : \A l \in Earlier(i) : k <= l].cand
             Told(i) ==
               /\ Duplicate \in ledger[i].checks.signals <=>
                    /\ Earlier(i) # {} /\ ledger[i].cand.request # NoRequest
                    /\ ~IsRetry(ledger[i].cand, First(i), Policy)
               /\ Retry \in ledger[i].checks.signals <=>
                    /\ Earlier(i) # {} /\ ledger[i].cand.request # NoRequest
                    /\ IsRetry(ledger[i].cand, First(i), Policy)
  <2>1. ASSUME I, host = "serial", NEW i \in Evaluations PROVE Told(i)
    <3>1. Observations = {k \in Lines : Obs(k)} /\ i \in Lines /\ Eval(i) /\ Lines \subseteq Nat
      <4>1. PICK S : ledger \in Seq(S)
        BY <2>1 DEF Ids, IsLedger
      <4> QED BY <2>1, <4>1, LinesAre, LenProperties DEF Ids, Lines
    <3>2. PICK x : x = ledger[i]
      OBVIOUS
    <3>3. Explained(x)
      BY <2>1, <3>1, <3>2 DEF AllExplained
    <3>4. PICK h \in Lines :
      /\ Obs(h) /\ ledger[h].dec = x.dec
      /\ \/ /\ x.cand.request = NoRequest \/ \A k \in Lines :
                 Obs(k) /\ ledger[k].cand.request = x.cand.request => k >= h
            /\ Duplicate \notin x.checks.signals /\ Retry \notin x.checks.signals
         \/ \E k \in Lines :
              /\ x.cand.request # NoRequest /\ k < h
              /\ Obs(k) /\ ledger[k].cand.request = x.cand.request
              /\ \A l \in Lines : Obs(l) /\ ledger[l].cand.request = x.cand.request => k <= l
              /\ Duplicate \in x.checks.signals <=> ~IsRetry(x.cand, ledger[k].cand, Policy)
              /\ Retry \in x.checks.signals <=> IsRetry(x.cand, ledger[k].cand, Policy)
      BY <3>3 DEF Explained
    <3>5. Here(i) = h
      <4>1. \A k \in Observations : ledger[k].dec = x.dec => k = h
        BY <2>1, <3>1, <3>4 DEF Ids, Observing
      <4> QED BY <3>1, <3>2, <3>4, <4>1 DEF ObservedAs
    <3> HIDE DEF Here
    <3>6. \A k : k \in Earlier(i) <=>
            k \in Lines /\ Obs(k) /\ k < h /\ ledger[k].cand.request = x.cand.request
      BY <3>1, <3>2, <3>5
    <3> HIDE DEF Earlier
    <3>7. PICK first : first = First(i)
      OBVIOUS
    <3>8. CASE /\ x.cand.request = NoRequest \/ \A k \in Lines :
                    Obs(k) /\ ledger[k].cand.request = x.cand.request => k >= h
               /\ Duplicate \notin x.checks.signals /\ Retry \notin x.checks.signals
      <4>1. ASSUME x.cand.request # NoRequest, NEW k, k \in Earlier(i) PROVE FALSE
        <5>1. k \in Lines /\ Obs(k) /\ k < h /\ ledger[k].cand.request = x.cand.request
          BY <3>6, <4>1
        <5>2. k >= h
          BY <3>8, <4>1, <5>1
        <5>3. k \in Nat /\ h \in Nat
          BY <3>1, <5>1
        <5> QED BY <5>1, <5>2, <5>3
      <4> HIDE DEF First
      <4> QED BY <3>2, <3>8, <4>1
    <3>9. ASSUME NEW k \in Lines,
                  /\ x.cand.request # NoRequest /\ k < h
                  /\ Obs(k) /\ ledger[k].cand.request = x.cand.request
                  /\ \A l \in Lines : Obs(l) /\ ledger[l].cand.request = x.cand.request => k <= l
                  /\ Duplicate \in x.checks.signals <=> ~IsRetry(x.cand, ledger[k].cand, Policy)
                  /\ Retry \in x.checks.signals <=> IsRetry(x.cand, ledger[k].cand, Policy)
           PROVE  Told(i)
      <4>1. PICK earlier : earlier = Earlier(i)
        OBVIOUS
      <4>2. k \in earlier /\ (\A l \in earlier : k <= l) /\ earlier \subseteq Nat
        BY <3>1, <3>6, <3>9, <4>1
      <4>3. (CHOOSE m \in earlier : \A l \in earlier : m <= l) = k
        <5>1. \A m \in earlier : (\A l \in earlier : m <= l) => m = k
          BY <4>2
        <5> QED BY <4>2, <5>1
      <4>4. first = ledger[k].cand
        BY <3>7, <4>1, <4>3
      <4> HIDE DEF First
      <4> QED BY <3>2, <3>7, <3>9, <4>1, <4>2, <4>4
    <3> QED BY <3>4, <3>8, <3>9
  <2> QED BY <2>1 DEF LedgerExplainsSignals
<1> QED BY <1>1, <1>2, <1>3, PTL DEF Spec
=============================================================================
