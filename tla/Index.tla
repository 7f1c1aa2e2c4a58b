------------------------------- MODULE Index -------------------------------
(***************************************************************************)
(* ledger.py, class LedgerIndex: what a process remembers of the ledger it *)
(* read and of what it appended since.  `first` has the first decision on  *)
(* each request id, `evaluated` the decision on each purchase.             *)
(***************************************************************************)
EXTENDS Checks, SequencesExt

NoDup == 0   \* of an observation that repeats none

EmptyIndex == [first |-> <<>>, evaluated |-> <<>>]

Overwrite(f, key, value) ==
  [k \in DOMAIN f \cup {key} |-> IF k = key THEN value ELSE f[k]]
SetDefault(f, key, value) ==
  [k \in DOMAIN f \cup {key} |-> IF k \in DOMAIN f THEN f[k] ELSE value]

\* The key of `evaluated`: (request_id, input_hash).
ByRequest(c) == c.request
Identity(c)  == <<c.request, c>>

ObserveEvent(idx, event) ==
  IF event.type # "candidate_observed" \/ event.cand.request = NoRequest THEN idx
  ELSE [first |-> SetDefault(idx.first, event.cand.request,
                             [dec |-> event.dec, key |-> event.cand.key]),
        evaluated |-> IF event.duplicate_of # NoDup THEN idx.evaluated
                      ELSE SetDefault(idx.evaluated, Identity(event.cand), event.dec)]

NewestFirst(events) == FoldLeft(ObserveEvent, EmptyIndex, Reverse(events))
NotRead(events)     == EmptyIndex
Rebuild(events)     ==
  LET pass[n \in 0..Len(events)] ==
        IF n = 0 THEN EmptyIndex ELSE ObserveEvent(pass[n - 1], events[n])
  IN  pass[Len(events)]

WithSelf(idx, request, dec) ==
  IF request \in DOMAIN idx.first THEN idx.first[request] ELSE None

PriorRequest(idx, request, dec) ==
  IF request \in DOMAIN idx.first /\ idx.first[request].dec # dec
  THEN idx.first[request] ELSE None

EvaluatedDecision(idx, c) ==
  IF c.request # NoRequest /\ Identity(c) \in DOMAIN idx.evaluated
  THEN idx.evaluated[Identity(c)] ELSE NoDup
=============================================================================
