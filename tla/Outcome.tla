------------------------------ MODULE Outcome ------------------------------
(***************************************************************************)
(* outcome.py, `guard feedback` (cli.py) and what report.py makes of their *)
(* events.  Purchases are numbered as they are observed; a repeat is owned *)
(* by the decision of an earlier purchase, any other by its own.  The      *)
(* engine's part is reduced to the events it appends.                      *)
(***************************************************************************)
EXTENDS Naturals, Sequences, FiniteSets, FiniteSetsExt

CONSTANTS Requests,
          Verdicts,      \* decisions the engine may come to
          Labels,        \* what guard feedback accepts: FEEDBACK_LABELS
          Hosts,         \* subset of {"careful", "free"}
          MaxPurchases,  \* bound: purchases observed
          MaxCalls,      \* bound: calls of the recorder and of guard feedback
          MaxFreeCalls   \* bound: the same with a free host

ASSUME OutcomeAssumption ==
  /\ MaxPurchases \in Nat /\ MaxCalls \in Nat /\ MaxFreeCalls \in Nat
  /\ Hosts \subseteq {"careful", "free"}
  /\ "none" \notin Verdicts \cup Labels

VARIABLES ledger,
          request, owner,  \* of each purchase: request_id, decision
          waiting,         \* decisions the worker may still make
          paid,            \* of each purchase: what really happened,
          verdict,         \*   what the guard decided,
          opinion,         \*   what the operator last said of it
          call,            \* of each purchase: the recorder's call in progress
          calls, host

truth == <<paid, verdict, opinion>>
vars  == <<ledger, request, owner, waiting, truth, call, calls, host>>

Purchases  == DOMAIN request
NoCall     == [type |-> "none"]
NoDecision == 0
Paid       == {"before", "sent", "unknown", "success", "failure", "delivered"}

(***************************************************************************)
(* Lookups in the ledger.                                                  *)
(***************************************************************************)
With(type)  == {i \in DOMAIN ledger : ledger[i].type = type}
Of(dec)     == {i \in DOMAIN ledger : ledger[i].dec = dec}
OldestAt(S) == ledger[Min(S)].dec
NewestAt(S) == ledger[Max(S)].dec

AnyRequest(r)  == With("guard_evaluated")
Evaluated(r)   == {i \in With("guard_evaluated") : ledger[i].request = r}
DecisionFor(r) == IF Evaluated(r) = {} THEN NoDecision ELSE NewestAt(Evaluated(r))

\* link_by_decision_id and cmd_feedback take the request of the last event.
RequestOf(dec) == ledger[Max(Of(dec))].request
----------------------------------------------------------------------------
(* report.py.                                                              *)

\* _evaluations, _feedback, _purchases: of each decision the newest payload of
\* one type; only a result has a payment_status.
FirstOf(S)  == ledger[Min(S)].says
LatestOf(S) == ledger[Max(S)].says
PerDecision(type) ==
  [d \in {ledger[i].dec : i \in With(type)} |-> LatestOf(Of(d) \cap With(type))]

evaluations == PerDecision("guard_evaluated")
feedback    == PerDecision("human_feedback")
purchases   == PerDecision("purchase_result")

AllLabels == DOMAIN feedback
Labelled  == DOMAIN feedback \cap DOMAIN evaluations

\* A rate is its part and its whole; a whole of 0 is None.
Saying(f, ids, what) == {d \in ids \cap DOMAIN f : f[d] = what}
ShareHeld(label) ==
  LET ids == Saying(feedback, Labelled, label)
  IN  <<Cardinality(Saying(evaluations, ids, "HOLD")), Cardinality(ids)>>

report ==
  [counts              |-> [v \in Verdicts |->
                              Cardinality(Saying(evaluations, DOMAIN evaluations, v))],
   purchases_succeeded |-> Cardinality(Saying(purchases, DOMAIN purchases, "success")),
   feedback_coverage   |-> <<Cardinality(Labelled), Cardinality(DOMAIN evaluations)>>,
   held                |-> [l \in Labels |-> ShareHeld(l)]]
----------------------------------------------------------------------------
Init ==
  /\ ledger = <<>> /\ request = <<>> /\ owner = <<>> /\ paid = <<>> /\ call = <<>>
  /\ verdict = <<>> /\ opinion = <<>>
  /\ waiting = {} /\ calls = 0 /\ host \in Hosts

Event(type, dec, r, says, about) ==
  [type |-> type, dec |-> dec, request |-> r, says |-> says, about |-> about]

IsNewest(o) == \A k \in Purchases : request[k] = request[o] => k <= o

\* A careful host uses a request id for one purchase at a time, waits for the
\* decision to be recorded or dropped before it reports, and repeats nothing.
Careful   == host = "careful"
Bound     == IF Careful THEN MaxCalls ELSE MaxFreeCalls
Quiet(r)  == \A o \in Purchases : request[o] = r =>
               o \notin waiting /\ paid[o] # "sent" /\ call[o] = NoCall
MayReport(o) == Careful => IsNewest(o) /\ o \notin waiting

\* The engine observes a purchase, new or repeated.
Observe(r) ==
  /\ Len(request) < MaxPurchases /\ (Careful => Quiet(r))
  /\ LET o == Len(request) + 1
     IN  /\ \/ owner' = Append(owner, o) /\ waiting' = waiting \cup {o}
            \/ /\ ~Careful
               /\ \E k \in Purchases : /\ request[k] = r /\ owner[k] = k
                                       /\ owner' = Append(owner, k)
               /\ UNCHANGED waiting
         /\ ledger' = Append(ledger, Event("candidate_observed", o, r, "none", o))
  /\ request' = Append(request, r) /\ paid' = Append(paid, "before")
  /\ verdict' = Append(verdict, "none") /\ opinion' = Append(opinion, "none")
  /\ call' = Append(call, NoCall)
  /\ UNCHANGED <<calls, host>>

Judge(o) ==
  /\ o \in waiting /\ waiting' = waiting \ {o}
  /\ \E v \in Verdicts :
       /\ verdict' = [verdict EXCEPT ![o] = v]
       /\ ledger' = Append(ledger, Event("guard_evaluated", o, request[o], v, o))
  /\ UNCHANGED <<request, owner, paid, opinion, call, calls, host>>

Drop(o) ==
  /\ o \in waiting /\ waiting' = waiting \ {o}
  /\ UNCHANGED <<ledger, request, owner, truth, call, calls, host>>

\* What the flow may report next about a purchase, and its real state then.
Reports(o) ==
  CASE paid[o] = "before"  -> {<<"purchase_attempted", "sent">>}
    [] paid[o] \in {"sent", "unknown"} ->
         {<<"purchase_result", s>> : s \in {"success", "failure", "unknown"}}
    [] paid[o] = "success" -> {<<"delivery_observed", "delivered">>}
    [] OTHER -> {}

Found(link) == link.dec # NoDecision

\* One pass over the ledger finds the decision: by the request id, or by the
\* decision id the host kept.  Without one the call raises.
Link(o) ==
  {[dec |-> DecisionFor(request[o]), request |-> request[o]]}
    \cup (IF Of(owner[o]) = {} THEN {}
          ELSE {[dec |-> owner[o], request |-> RequestOf(owner[o])]})

Report(o) ==
  /\ calls < Bound /\ calls' = calls + 1
  /\ call[o] = NoCall /\ MayReport(o)
  /\ \E r \in Reports(o), link \in Link(o) :
       /\ paid' = [paid EXCEPT ![o] = r[2]]
       /\ call' = IF Found(link)
                  THEN [call EXCEPT ![o] = Event(r[1], link.dec, link.request, r[2], o)]
                  ELSE call
  /\ UNCHANGED <<ledger, request, owner, waiting, verdict, opinion, host>>

\* ... and the append is a second step: others may append in between.
AppendOutcome(o) ==
  /\ call[o] # NoCall /\ call' = [call EXCEPT ![o] = NoCall]
  /\ ledger' = Append(ledger, call[o])
  /\ UNCHANGED <<request, owner, waiting, truth, calls, host>>

\* guard feedback: a label for any decision the ledger knows, judged or not,
\* labelled before or not.
Feedback(dec) ==
  /\ calls < Bound /\ calls' = calls + 1
  /\ Of(dec) # {}
  /\ \E label \in Labels :
       /\ opinion' = [opinion EXCEPT ![dec] = label]
       /\ ledger' = Append(ledger, Event("human_feedback", dec, RequestOf(dec), label, dec))
  /\ UNCHANGED <<request, owner, waiting, paid, verdict, call, host>>

Next == \/ \E r \in Requests : Observe(r)
        \/ \E o \in Purchases : \/ Judge(o) \/ Drop(o) \/ Report(o) \/ AppendOutcome(o)
                                \/ Feedback(o)

Spec == Init /\ [][Next]_vars
----------------------------------------------------------------------------
(* Properties.                                                             *)

\* All events of a decision carry one request id, whichever way a result was
\* linked and however the recorder, the worker and the operator interleave.
OneRequestPerDecision ==
  \A i, j \in DOMAIN ledger : ledger[i].dec = ledger[j].dec
                                => ledger[i].request = ledger[j].request

Facts == UNION {With(t) : t \in {"purchase_attempted", "purchase_result", "delivery_observed"}}

\* "Keyed back to the decision the guard recorded beforehand": for a careful
\* host every fact about a judged purchase is recorded with its own decision,
\* also when the request id was used before ("newest wins").
AttributedToOwn ==
  Careful => \A i \in Facts :
    LET o == ledger[i].about
    IN  verdict[o] # "none" => ledger[i].dec = owner[o]

\* The report counts a careful host's purchases as they ended: what it reads
\* for the decision of a judged purchase is the newest payment status the host
\* reported, and an "unknown" is replaced when the host learns more; with every
\* purchase judged, purchases_succeeded is the number of payments that did.
ReportTellsOutcome ==
  (Careful /\ \A o \in Purchases : call[o] = NoCall) =>
    /\ \A o \in Purchases :
         (verdict[o] # "none" /\ IsNewest(o) /\ paid[o] \in {"unknown", "success", "failure"})
           => o \in DOMAIN purchases /\ purchases[o] = paid[o]
    /\ (\A o \in Purchases : verdict[o] # "none") =>
         report.purchases_succeeded =
           Cardinality({o \in Purchases : paid[o] \in {"success", "delivered"}})

\* "Read needed_held together with counts": for any host, the shares compare the
\* operator's last word on each judged decision with what the guard decided,
\* whether the label came before the judgment or after, and were it changed.
\* A label for a decision that was dropped, or for a repeat, counts nowhere.
ReportTellsOperator ==
  LET judged == {o \in Purchases : verdict[o] # "none"}
      Said(l) == {o \in judged : opinion[o] = l}
      held   == {o \in judged : verdict[o] = "HOLD"}
  IN  /\ \A l \in Labels :
           report.held[l] = <<Cardinality(Said(l) \cap held), Cardinality(Said(l))>>
      /\ report.feedback_coverage =
           <<Cardinality({o \in judged : opinion[o] # "none"}), Cardinality(judged)>>
      /\ \A v \in Verdicts :
           report.counts[v] = Cardinality({o \in judged : verdict[o] = v})
=============================================================================
