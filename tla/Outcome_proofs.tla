---------------------------- MODULE Outcome_proofs ----------------------------
(***************************************************************************)
(* Outcome's invariants for any requests, verdicts, labels and hosts, and  *)
(* any number of purchases and of calls.                                   *)
(***************************************************************************)
EXTENDS Outcome, FiniteSetTheorems, SequenceTheorems, TLAPS

----------------------------------------------------------------------------
(* The inductive invariant.                                               *)

n     == Len(request)
Lines == 1..Len(ledger)

FactTypes == {"purchase_attempted", "purchase_result", "delivery_observed"}
Types     == FactTypes \cup {"candidate_observed", "guard_evaluated", "human_feedback"}
Sayings   == Verdicts \cup Labels \cup Paid \cup {"none"}
Events(T) == [type : T, dec : Nat, request : Requests, says : Sayings, about : Nat]

Typed ==
  /\ ledger \in Seq(Events(Types))
  /\ request \in Seq(Requests) /\ owner \in Seq(Nat) /\ paid \in Seq(Paid)
  /\ verdict \in Seq(Verdicts \cup {"none"}) /\ opinion \in Seq(Labels \cup {"none"})
  /\ call \in Seq({NoCall} \cup Events(FactTypes))
  /\ Len(owner) = n /\ Len(paid) = n /\ Len(verdict) = n /\ Len(opinion) = n /\ Len(call) = n
  /\ waiting \subseteq 1..n

\* A repeat is of the request of the purchase whose decision owns it.
Owned == \A o \in 1..n : /\ owner[o] \in 1..n /\ request[owner[o]] = request[o]
                         /\ Careful => owner[o] = o

\* Every event, written or about to be, names the request of its decision.
IsNamed(e) == e.dec \in 1..n /\ e.request = request[e.dec]
Named == /\ \A i, e : i \in Lines /\ ledger[i] = e => IsNamed(e)
         /\ \A o, e : o \in 1..n /\ call[o] = e /\ e # NoCall => IsNamed(e)

\* The ledger has one verdict for each judged decision.
IsEvaluation(i) == i \in Lines /\ ledger[i].type = "guard_evaluated"
Judged ==
  /\ \A o \in waiting : verdict[o] = "none"
  /\ \A i : IsEvaluation(i) => /\ ledger[i].says = verdict[ledger[i].dec]
                               /\ verdict[ledger[i].dec] # "none"
  /\ \A o \in 1..n : verdict[o] # "none" => \E i : IsEvaluation(i) /\ ledger[i].dec = o

\* The last label for a decision is what the operator last said of it.
IsFeedback(i, o) == i \in Lines /\ ledger[i].type = "human_feedback" /\ ledger[i].dec = o
LastSaid(o) ==
  /\ opinion[o] = "none" => \A i : ~IsFeedback(i, o)
  /\ opinion[o] # "none" => \E i : /\ IsFeedback(i, o) /\ ledger[i].says = opinion[o]
                                   /\ \A j : IsFeedback(j, o) => j <= i
Labeled == \A o \in 1..n : LastSaid(o)

\* A careful host's purchase waits while it is the newest of its request, and
\* the verdicts of one request are in the order of its purchases.
InOrder ==
  /\ \A o \in waiting : IsNewest(o) /\ paid[o] = "before"
  /\ \A i, j : IsEvaluation(i) /\ IsEvaluation(j) /\ i < j
                 /\ ledger[i].request = ledger[j].request => ledger[i].dec <= ledger[j].dec

\* What it reports of a purchase is linked to that purchase's decision, or to
\* an older one of the same request when the purchase has none.
IsAbout(e, o) == /\ o \in 1..n /\ o \notin waiting /\ e.about = o
                 /\ request[o] = e.request /\ e.dec <= o
                 /\ verdict[o] # "none" => e.dec = o
About == /\ \A i, e : i \in Lines /\ ledger[i] = e /\ e.type \in FactTypes => IsAbout(e, e.about)
         /\ \A o, e : o \in 1..n /\ call[o] = e /\ e # NoCall => IsAbout(e, o)

\* The newest result of a judged purchase, written or about to be, is how it
\* ended.
IsResult(i, o) == i \in Lines /\ ledger[i].type = "purchase_result" /\ ledger[i].about = o
Ended(o)       == IF paid[o] = "delivered" THEN "success" ELSE paid[o]
ToldOf(o) ==
  /\ paid[o] \in {"before", "sent"} => /\ \A i : ~IsResult(i, o)
                                       /\ call[o].type # "purchase_result"
  /\ call[o].type = "purchase_result" => call[o].says = paid[o] /\ paid[o] # "delivered"
  /\ /\ paid[o] \notin {"before", "sent"} /\ verdict[o] # "none"
     /\ call[o].type # "purchase_result"
     => \E i : /\ IsResult(i, o) /\ ledger[i].says = Ended(o)
               /\ \A j : IsResult(j, o) => j <= i
Told == \A o \in 1..n : ToldOf(o)

IInv == /\ Typed /\ Owned /\ Named /\ Judged /\ Labeled
        /\ Careful => InOrder /\ About /\ Told

----------------------------------------------------------------------------
(* Lemmas.                                                                *)

\* A set of line numbers has a last one.
LEMMA LastExists ==
  ASSUME NEW k \in Nat, NEW S \in SUBSET (1..k), S # {}
  PROVE  \E m \in S : \A j \in S : j <= m
<1> DEFINE R == StrictSubsetOrdering(Nat)
           W == {i..k : i \in S}
<1>1. IsWellFoundedOn(R, FiniteSubsetsOf(Nat))
  BY FS_StrictSubsetOrderingWellFounded
<1>2. W \subseteq FiniteSubsetsOf(Nat) /\ W # {}
  <2>1. \A i \in S : IsFiniteSet(i..k) /\ i..k \in SUBSET Nat
    BY FS_Interval
  <2> QED BY <2>1 DEF FiniteSubsetsOf
<1> HIDE DEF R
<1>3. PICK x \in W : \A y \in W : <<y, x>> \notin R
  BY <1>1, <1>2, WFMin
<1>4. PICK m \in S : x = m..k
  OBVIOUS
<1>5. ASSUME NEW j \in S, m < j PROVE FALSE
  <2>1. j..k \subseteq m..k /\ m \in m..k /\ m \notin j..k
    BY <1>5
  <2>2. j..k \in SUBSET Nat /\ m..k \in SUBSET Nat
    OBVIOUS
  <2>3. <<j..k, m..k>> \in R
    BY <2>1, <2>2 DEF R, StrictSubsetOrdering
  <2> QED BY <1>3, <1>4, <2>3
<1>6. \A j \in S : j <= m
  BY <1>5
<1> QED BY <1>6

\* Max finds it.
LEMMA MaxIsLast ==
  ASSUME NEW S \in SUBSET Nat, NEW m \in S, \A j \in S : j <= m
  PROVE  Max(S) = m
<1>1. PICK x : x = Max(S)
  OBVIOUS
<1>2. x \in S /\ \A j \in S : x >= j
  BY <1>1 DEF Max
<1>3. x <= m /\ m <= x /\ x \in Nat /\ m \in Nat
  BY <1>2
<1> QED BY <1>1, <1>3

LEMMA MaxExists ==
  ASSUME NEW k \in Nat, NEW S \in SUBSET (1..k), S # {}
  PROVE  Max(S) \in S /\ \A j \in S : j <= Max(S)
<1>1. PICK m \in S : \A j \in S : j <= m
  BY LastExists
<1>2. Max(S) = m
  BY <1>1, MaxIsLast
<1> QED BY <1>1, <1>2

\* A sequence that grew by one element.
Grew(s, t, x) == /\ Len(t) = Len(s) + 1 /\ t[Len(s) + 1] = x
                 /\ \A i \in 1..Len(s) : t[i] = s[i]

LEMMA AppendGrows ==
  ASSUME NEW S, NEW s \in Seq(S), NEW x \in S
  PROVE  Append(s, x) \in Seq(S) /\ Grew(s, Append(s, x), x)
BY AppendProperties DEF Grew

LEMMA EventFields ==
  ASSUME NEW type \in Types, NEW dec \in Nat, NEW r \in Requests, NEW says \in Sayings,
         NEW about \in Nat, NEW e, e = Event(type, dec, r, says, about)
  PROVE  /\ e \in Events(Types) /\ (type \in FactTypes => e \in Events(FactTypes))
         /\ e.type = type /\ e.dec = dec /\ e.request = r
         /\ e.says = says /\ e.about = about
BY DEF Event, Events

LEMMA Lengths ==
  ASSUME Typed
  PROVE  /\ n \in Nat /\ Len(ledger) \in Nat /\ Purchases = 1..n /\ DOMAIN ledger = Lines
         /\ \A i \in Lines : ledger[i] \in Events(Types)
         /\ \A o \in 1..n : /\ request[o] \in Requests /\ owner[o] \in Nat /\ paid[o] \in Paid
                            /\ verdict[o] \in Verdicts \cup {"none"}
                            /\ opinion[o] \in Labels \cup {"none"}
                            /\ call[o] \in {NoCall} \cup Events(FactTypes)
<1>1. /\ n \in Nat /\ Len(ledger) \in Nat /\ Purchases = 1..n /\ DOMAIN ledger = Lines
  BY LenProperties DEF Typed, n, Lines, Purchases
<1>2. \A i \in Lines : ledger[i] \in Events(Types)
  BY ElementOfSeq DEF Typed, Lines
<1>3. \A o \in 1..n : request[o] \in Requests /\ owner[o] \in Nat /\ paid[o] \in Paid
  BY ElementOfSeq DEF Typed, n
<1>4. \A o \in 1..n : /\ verdict[o] \in Verdicts \cup {"none"}
                      /\ opinion[o] \in Labels \cup {"none"}
  BY ElementOfSeq DEF Typed, n
<1>5. \A o \in 1..n : call[o] \in {NoCall} \cup Events(FactTypes)
  BY ElementOfSeq DEF Typed, n
<1> QED BY <1>1, <1>2, <1>3, <1>4, <1>5

LEMMA CallIs ==
  ASSUME NEW c \in {NoCall} \cup Events(FactTypes)
  PROVE  /\ c = NoCall => c.type = "none"
         /\ c # NoCall => /\ c \in Events(FactTypes) /\ c \in Events(Types)
                          /\ c.type \in FactTypes /\ c.type # "none" /\ c.dec \in Nat
BY DEF NoCall, Events, FactTypes, Types

\* An element of a sequence replaced.
LEMMA Replaced ==
  ASSUME NEW S, NEW s \in Seq(S), NEW o \in 1..Len(s), NEW x \in S,
         NEW t, t = [s EXCEPT ![o] = x]
  PROVE  /\ t \in Seq(S) /\ Len(t) = Len(s)
         /\ t[o] = x /\ \A i \in 1..Len(s) : i # o => t[i] = s[i]
BY ExceptSeq

----------------------------------------------------------------------------
(* What each step does.                                                   *)

\* An event at the end of the ledger.
Appended(e) == e \in Events(Types) /\ ledger' \in Seq(Events(Types)) /\ Grew(ledger, ledger', e)

LEMMA Appending ==
  ASSUME Typed, NEW e \in Events(Types), ledger' = Append(ledger, e)
  PROVE  Appended(e)
BY AppendGrows DEF Typed, Appended

\* The lines after it.
LEMMA NewLines ==
  ASSUME Typed, NEW e, Appended(e)
  PROVE  /\ Len(ledger) \in Nat /\ Len(ledger) + 1 \notin Lines
         /\ Lines' = Lines \cup {Len(ledger) + 1}
         /\ ledger'[Len(ledger) + 1] = e
         /\ \A i \in Lines : ledger'[i] = ledger[i] /\ i < Len(ledger) + 1
BY Lengths DEF Appended, Grew, Lines

NewPurchase(r, k, e) ==
  /\ n' = n + 1 /\ r \in Requests
  /\ Grew(request, request', r) /\ Grew(owner, owner', k) /\ Grew(paid, paid', "before")
  /\ Grew(verdict, verdict', "none") /\ Grew(opinion, opinion', "none")
  /\ Grew(call, call', NoCall)
  /\ Appended(e) /\ e.type = "candidate_observed" /\ e.dec = n + 1 /\ e.request = r
  /\ \/ k = n + 1 /\ waiting' = waiting \cup {n + 1}
     \/ ~Careful /\ k \in 1..n /\ request[k] = r /\ waiting' = waiting
  /\ Careful => Quiet(r)
  /\ host' = host

LEMMA ObserveEffects ==
  ASSUME Typed, NEW r \in Requests, Observe(r)
  PROVE  Typed' /\ \E k \in Nat, e \in Events(Types) : NewPurchase(r, k, e)
<1>0. n \in Nat /\ n + 1 \in Nat /\ Purchases = 1..n
  BY Lengths
<1>1. PICK k \in Nat : /\ owner' = Append(owner, k)
                       /\ \/ k = n + 1 /\ waiting' = waiting \cup {n + 1}
                          \/ /\ ~Careful /\ k \in 1..n /\ request[k] = r
                             /\ waiting' = waiting
  BY <1>0 DEF Observe, n
<1>2. PICK e : e = Event("candidate_observed", n + 1, r, "none", n + 1)
  OBVIOUS
<1>3. e \in Events(Types) /\ e.type = "candidate_observed" /\ e.dec = n + 1 /\ e.request = r
  <2>1. "candidate_observed" \in Types /\ "none" \in Sayings
    BY DEF Types, Sayings
  <2> QED BY <1>0, <1>2, <2>1, EventFields
<1>4. ledger' = Append(ledger, e)
  BY <1>2 DEF Observe, n
<1>5. Appended(e)
  BY <1>3, <1>4, Appending
<1>6. /\ request' = Append(request, r) /\ paid' = Append(paid, "before")
      /\ verdict' = Append(verdict, "none") /\ opinion' = Append(opinion, "none")
      /\ call' = Append(call, NoCall) /\ host' = host /\ (Careful => Quiet(r))
  BY DEF Observe
<1>7. /\ request' \in Seq(Requests) /\ Grew(request, request', r)
      /\ owner' \in Seq(Nat) /\ Grew(owner, owner', k)
  BY <1>1, <1>6, AppendGrows DEF Typed
<1>8. paid' \in Seq(Paid) /\ Grew(paid, paid', "before")
  BY <1>6, AppendGrows DEF Typed, Paid
<1>9. verdict' \in Seq(Verdicts \cup {"none"}) /\ Grew(verdict, verdict', "none")
  BY <1>6, AppendGrows DEF Typed
<1>10. opinion' \in Seq(Labels \cup {"none"}) /\ Grew(opinion, opinion', "none")
  BY <1>6, AppendGrows DEF Typed
<1>11. call' \in Seq({NoCall} \cup Events(FactTypes)) /\ Grew(call, call', NoCall)
  BY <1>6, AppendGrows DEF Typed
<1>12. n' = n + 1
  BY <1>7 DEF Grew, n
<1>13. Typed'
  <2>1. waiting' \subseteq 1..n'
    <3>1. waiting \subseteq 1..n
      BY DEF Typed
    <3>2. waiting' \subseteq waiting \cup {n + 1}
      BY <1>1
    <3>3. 1..n \cup {n + 1} \subseteq 1..n + 1
      BY <1>0
    <3> QED BY <1>12, <3>1, <3>2, <3>3
  <2>2. ledger' \in Seq(Events(Types))
    BY <1>5 DEF Appended
  <2>3. /\ Len(owner') = n' /\ Len(paid') = n' /\ Len(verdict') = n' /\ Len(opinion') = n'
        /\ Len(call') = n'
    BY <1>7, <1>8, <1>9, <1>10, <1>11, <1>12 DEF Grew, Typed
  <2> QED BY <1>7, <1>8, <1>9, <1>10, <1>11, <2>1, <2>2, <2>3 DEF Typed
<1>14. NewPurchase(r, k, e)
  BY <1>1, <1>3, <1>5, <1>6, <1>7, <1>8, <1>9, <1>10, <1>11, <1>12 DEF NewPurchase
<1> QED BY <1>3, <1>13, <1>14

NewVerdict(o, v, e) ==
  /\ o \in waiting /\ waiting' = waiting \ {o} /\ v \in Verdicts
  /\ verdict'[o] = v /\ \A k \in 1..n : k # o => verdict'[k] = verdict[k]
  /\ Appended(e) /\ e.type = "guard_evaluated" /\ e.dec = o /\ e.request = request[o] /\ e.says = v
  /\ UNCHANGED <<request, owner, paid, opinion, call, host, n>>

LEMMA JudgeEffects ==
  ASSUME Typed, NEW o, Judge(o)
  PROVE  Typed' /\ \E v, e : NewVerdict(o, v, e)
<1>0. n \in Nat /\ o \in 1..n /\ o \in Nat /\ request[o] \in Requests
  <2>1. o \in waiting
    BY DEF Judge
  <2>2. waiting \subseteq 1..n
    BY DEF Typed
  <2>3. o \in 1..n
    BY <2>1, <2>2
  <2> QED BY <2>3, Lengths
<1>1. PICK v \in Verdicts :
        /\ verdict' = [verdict EXCEPT ![o] = v]
        /\ ledger' = Append(ledger, Event("guard_evaluated", o, request[o], v, o))
  BY DEF Judge
<1>2. PICK e : e = Event("guard_evaluated", o, request[o], v, o)
  OBVIOUS
<1>3. /\ e \in Events(Types) /\ e.type = "guard_evaluated" /\ e.dec = o
      /\ e.request = request[o] /\ e.says = v
  <2>1. "guard_evaluated" \in Types /\ v \in Sayings
    BY DEF Types, Sayings
  <2> QED BY <1>0, <1>2, <2>1, EventFields
<1>4. Appended(e)
  BY <1>1, <1>2, <1>3, Appending
<1>5. /\ verdict' \in Seq(Verdicts \cup {"none"}) /\ Len(verdict') = Len(verdict)
      /\ verdict'[o] = v /\ \A k \in 1..n : k # o => verdict'[k] = verdict[k]
  BY <1>0, <1>1, Replaced DEF Typed
<1>6. /\ UNCHANGED <<request, owner, paid, opinion, call, host>>
      /\ o \in waiting /\ waiting' = waiting \ {o}
  BY DEF Judge
<1>7. n' = n
  BY <1>6 DEF n
<1>8. Typed'
  BY <1>4, <1>5, <1>6, <1>7 DEF Typed, Appended
<1>9. NewVerdict(o, v, e)
  BY <1>1, <1>3, <1>4, <1>5, <1>6, <1>7 DEF NewVerdict
<1> QED BY <1>8, <1>9

LEMMA DropEffects ==
  ASSUME Typed, NEW o, Drop(o)
  PROVE  /\ Typed' /\ waiting' = waiting \ {o}
         /\ UNCHANGED <<ledger, request, owner, truth, call, host, n, Lines>>
<1>1. /\ waiting' = waiting \ {o}
      /\ UNCHANGED <<ledger, request, owner, truth, call, host, n, Lines>>
  BY DEF Drop, n, Lines
<1> QED BY <1>1 DEF Typed, truth

NewCall(o, type, says, dec, r) ==
  /\ o \in 1..n /\ call[o] = NoCall /\ MayReport(o) /\ <<type, says>> \in Reports(o)
  /\ \/ dec = DecisionFor(request[o]) /\ r = request[o]
     \/ dec = owner[o] /\ Of(dec) # {} /\ r = RequestOf(dec)
  /\ paid'[o] = says /\ \A k \in 1..n : k # o => paid'[k] = paid[k] /\ call'[k] = call[k]
  /\ IF dec = NoDecision THEN call'[o] = NoCall ELSE
       /\ call'[o] \in Events(FactTypes) /\ call'[o].type = type /\ call'[o].says = says
       /\ call'[o].dec = dec /\ call'[o].request = r /\ call'[o].about = o
  /\ UNCHANGED <<ledger, request, owner, waiting, verdict, opinion, host, n, Lines>>

LEMMA LookupsAre ==
  ASSUME Typed, Named, NEW o \in 1..n
  PROVE  /\ Evaluated(request[o]) = {} => DecisionFor(request[o]) = NoDecision
         /\ Evaluated(request[o]) # {} => \E i :
              /\ IsEvaluation(i) /\ ledger[i].request = request[o]
              /\ \A j : IsEvaluation(j) /\ ledger[j].request = request[o] => j <= i
              /\ DecisionFor(request[o]) = ledger[i].dec /\ ledger[i].dec \in 1..n
         /\ Of(o) # {} => RequestOf(o) = request[o]
<1>0. /\ n \in Nat /\ Len(ledger) \in Nat /\ DOMAIN ledger = Lines /\ Lines = 1..Len(ledger)
  BY Lengths DEF Lines
<1>1. \A i : i \in Evaluated(request[o]) <=> IsEvaluation(i) /\ ledger[i].request = request[o]
  BY <1>0 DEF Evaluated, With, IsEvaluation
<1>2. Evaluated(request[o]) \subseteq 1..Len(ledger) /\ Of(o) \subseteq 1..Len(ledger)
  BY <1>0, <1>1 DEF IsEvaluation, Of
<1>3. ASSUME Evaluated(request[o]) # {}
      PROVE  \E i :
              /\ IsEvaluation(i) /\ ledger[i].request = request[o]
              /\ \A j : IsEvaluation(j) /\ ledger[j].request = request[o] => j <= i
              /\ DecisionFor(request[o]) = ledger[i].dec /\ ledger[i].dec \in 1..n
  <2>1. PICK i : i = Max(Evaluated(request[o]))
    OBVIOUS
  <2>2. i \in Evaluated(request[o]) /\ \A j \in Evaluated(request[o]) : j <= i
    BY <1>0, <1>2, <1>3, <2>1, MaxExists
  <2>3. DecisionFor(request[o]) = ledger[i].dec
    BY <1>3, <2>1 DEF DecisionFor, NewestAt
  <2>4. IsEvaluation(i) /\ ledger[i].request = request[o] /\ ledger[i].dec \in 1..n
    BY <1>1, <2>2 DEF Named, IsNamed, IsEvaluation
  <2> QED BY <1>1, <2>2, <2>3, <2>4
<1>4. ASSUME Of(o) # {} PROVE RequestOf(o) = request[o]
  <2>1. Max(Of(o)) \in Of(o)
    BY <1>0, <1>2, <1>4, MaxExists
  <2>2. Max(Of(o)) \in Lines /\ ledger[Max(Of(o))].dec = o
    BY <1>0, <2>1 DEF Of
  <2> QED BY <2>2 DEF RequestOf, Named, IsNamed
<1> QED BY <1>3, <1>4 DEF DecisionFor

LEMMA ReportEffects ==
  ASSUME Typed, Owned, Named, NEW o \in Purchases, Report(o)
  PROVE  Typed' /\ \E type, says, dec, r : NewCall(o, type, says, dec, r)
<1>0. /\ n \in Nat /\ o \in 1..n /\ o \in Nat /\ paid[o] \in Paid /\ request[o] \in Requests
      /\ Len(call) = n /\ Len(paid) = n
  BY Lengths DEF Typed
<1>1. PICK rep \in Reports(o), link \in Link(o) :
        /\ paid' = [paid EXCEPT ![o] = rep[2]]
        /\ call' = IF Found(link)
                   THEN [call EXCEPT ![o] = Event(rep[1], link.dec, link.request, rep[2], o)]
                   ELSE call
  BY DEF Report
<1>2. PICK type, says : type = rep[1] /\ says = rep[2]
  OBVIOUS
<1>3. <<type, says>> \in Reports(o) /\ type \in FactTypes /\ says \in Paid
  <2>1. rep \in {<<"purchase_attempted", "sent">>, <<"delivery_observed", "delivered">>}
                  \cup {<<"purchase_result", s>> : s \in {"success", "failure", "unknown"}}
    BY <1>0, <1>1 DEF Reports, Paid
  <2>2. rep = <<type, says>>
    BY <1>2, <2>1
  <2>3. rep[1] \in FactTypes /\ rep[2] \in Paid
    BY <2>1 DEF FactTypes, Paid
  <2> QED BY <1>1, <1>2, <2>2, <2>3
<1>4. PICK dec, r : dec = link.dec /\ r = link.request
  OBVIOUS
<1>5. \/ dec = DecisionFor(request[o]) /\ r = request[o]
      \/ dec = owner[o] /\ Of(dec) # {} /\ r = RequestOf(dec)
  <2>1. \/ link = [dec |-> DecisionFor(request[o]), request |-> request[o]]
        \/ /\ Of(owner[o]) # {}
           /\ link = [dec |-> owner[o], request |-> RequestOf(owner[o])]
    BY <1>1 DEF Link
  <2> QED BY <1>4, <2>1
<1>6. dec \in Nat /\ r \in Requests
  <2>1. CASE dec = DecisionFor(request[o]) /\ r = request[o]
    <3>1. DecisionFor(request[o]) \in Nat
      <4>1. DecisionFor(request[o]) = NoDecision \/ DecisionFor(request[o]) \in 1..n
        BY <1>0, LookupsAre
      <4> QED BY <1>0, <4>1 DEF NoDecision
    <3> QED BY <1>0, <2>1, <3>1
  <2>2. CASE dec = owner[o] /\ Of(dec) # {} /\ r = RequestOf(dec)
    <3>1. dec \in 1..n
      BY <1>0, <2>2 DEF Owned
    <3>2. r = request[dec]
      BY <2>2, <3>1, LookupsAre
    <3> QED BY <3>1, <3>2, Lengths
  <2> QED BY <1>5, <2>1, <2>2
<1>7. PICK e : e = Event(type, dec, r, says, o)
  OBVIOUS
<1>8. /\ e \in Events(FactTypes) /\ e.type = type /\ e.says = says
      /\ e.dec = dec /\ e.request = r /\ e.about = o
  <2>1. says \in Sayings /\ type \in Types
    BY <1>3 DEF Sayings, Types
  <2> QED BY <1>0, <1>3, <1>6, <1>7, <2>1, EventFields
<1>9. /\ paid' \in Seq(Paid) /\ Len(paid') = n
      /\ paid'[o] = says /\ \A k \in 1..n : k # o => paid'[k] = paid[k]
  BY <1>0, <1>1, <1>2, <1>3, Replaced DEF Typed
<1>10. /\ call[o] = NoCall /\ MayReport(o)
       /\ UNCHANGED <<ledger, request, owner, waiting, verdict, opinion, host, n, Lines>>
  BY DEF Report, n, Lines
<1>11. /\ call' \in Seq({NoCall} \cup Events(FactTypes)) /\ Len(call') = n
       /\ call'[o] = (IF dec = NoDecision THEN NoCall ELSE e)
       /\ \A k \in 1..n : k # o => call'[k] = call[k]
  <2>1. CASE dec = NoDecision
    <3>1. call' = call
      BY <1>1, <1>4, <2>1 DEF Found
    <3> QED BY <1>10, <2>1, <3>1 DEF Typed
  <2>2. CASE dec # NoDecision
    <3>1. call' = [call EXCEPT ![o] = e]
      BY <1>1, <1>2, <1>4, <1>7, <2>2 DEF Found
    <3> QED BY <1>0, <1>8, <2>2, <3>1, Replaced DEF Typed
  <2> QED BY <2>1, <2>2
<1>12. Typed'
  BY <1>9, <1>10, <1>11 DEF Typed
<1>13. NewCall(o, type, says, dec, r)
  BY <1>0, <1>3, <1>5, <1>8, <1>9, <1>10, <1>11 DEF NewCall
<1> QED BY <1>12, <1>13

CallEnds(o, e) ==
  /\ o \in 1..n /\ e = call[o] /\ e # NoCall /\ Appended(e)
  /\ call'[o] = NoCall /\ \A k \in 1..n : k # o => call'[k] = call[k]
  /\ UNCHANGED <<request, owner, waiting, paid, verdict, opinion, host, n>>

LEMMA AppendOutcomeEffects ==
  ASSUME Typed, NEW o \in Purchases, AppendOutcome(o)
  PROVE  Typed' /\ \E e : CallEnds(o, e)
<1>0. o \in 1..n /\ call[o] \in {NoCall} \cup Events(FactTypes) /\ Len(call) = n
  BY Lengths DEF Typed
<1>1. PICK e : e = call[o]
  OBVIOUS
<1>2. e # NoCall /\ e \in Events(Types) /\ ledger' = Append(ledger, e)
  BY <1>0, <1>1, CallIs DEF AppendOutcome
<1>3. Appended(e)
  BY <1>2, Appending
<1>4. /\ call' \in Seq({NoCall} \cup Events(FactTypes)) /\ Len(call') = n
      /\ call'[o] = NoCall /\ \A k \in 1..n : k # o => call'[k] = call[k]
  BY <1>0, Replaced DEF Typed, AppendOutcome
<1>5. UNCHANGED <<request, owner, waiting, paid, verdict, opinion, host, n>>
  BY DEF AppendOutcome, truth, n
<1>6. Typed'
  BY <1>3, <1>4, <1>5 DEF Typed, Appended
<1>7. CallEnds(o, e)
  BY <1>0, <1>1, <1>2, <1>3, <1>4, <1>5 DEF CallEnds
<1> QED BY <1>6, <1>7

NewLabel(o, label, e) ==
  /\ o \in 1..n /\ label \in Labels
  /\ opinion'[o] = label /\ \A k \in 1..n : k # o => opinion'[k] = opinion[k]
  /\ Appended(e) /\ e.type = "human_feedback" /\ e.dec = o /\ e.request = request[o]
  /\ e.says = label
  /\ UNCHANGED <<request, owner, waiting, paid, verdict, call, host, n>>

LEMMA FeedbackEffects ==
  ASSUME Typed, Named, NEW o \in Purchases, Feedback(o)
  PROVE  Typed' /\ \E label, e : NewLabel(o, label, e)
<1>0. n \in Nat /\ o \in 1..n /\ o \in Nat /\ request[o] \in Requests /\ Len(opinion) = n
  BY Lengths DEF Typed
<1>1. RequestOf(o) = request[o]
  BY <1>0, LookupsAre DEF Feedback
<1>2. PICK label \in Labels :
        /\ opinion' = [opinion EXCEPT ![o] = label]
        /\ ledger' = Append(ledger, Event("human_feedback", o, request[o], label, o))
  BY <1>1 DEF Feedback
<1>3. PICK e : e = Event("human_feedback", o, request[o], label, o)
  OBVIOUS
<1>4. /\ e \in Events(Types) /\ e.type = "human_feedback" /\ e.dec = o
      /\ e.request = request[o] /\ e.says = label
  <2>1. "human_feedback" \in Types /\ label \in Sayings
    BY DEF Types, Sayings
  <2>2. o \in Nat /\ request[o] \in Requests
    BY <1>0
  <2> QED BY <1>3, <2>1, <2>2, EventFields
<1>5. Appended(e)
  BY <1>2, <1>3, <1>4, Appending
<1>6. /\ opinion' \in Seq(Labels \cup {"none"}) /\ Len(opinion') = n
      /\ opinion'[o] = label /\ \A k \in 1..n : k # o => opinion'[k] = opinion[k]
  BY <1>0, <1>2, Replaced DEF Typed
<1>7. UNCHANGED <<request, owner, waiting, paid, verdict, call, host, n>>
  BY DEF Feedback, n
<1>8. Typed'
  BY <1>5, <1>6, <1>7 DEF Typed, Appended
<1>9. NewLabel(o, label, e)
  BY <1>0, <1>2, <1>4, <1>5, <1>6, <1>7 DEF NewLabel
<1> QED BY <1>8, <1>9

----------------------------------------------------------------------------
(* The invariant is inductive.                                            *)

LEMMA PurchasesNext == ASSUME Typed' PROVE Purchases' = 1..n'
BY LenProperties DEF Typed, n, Purchases

\* An event of another type leaves verdicts, labels and results as they are.
LEMMA OtherTypes ==
  ASSUME Typed, NEW e, Appended(e)
  PROVE  /\ e.type # "guard_evaluated" => \A i : IsEvaluation(i)' <=> IsEvaluation(i)
         /\ e.type # "human_feedback" => \A i, o : IsFeedback(i, o)' <=> IsFeedback(i, o)
         /\ e.type # "purchase_result" => \A i, o : IsResult(i, o)' <=> IsResult(i, o)
<1>1. e.type # "guard_evaluated" => \A i : IsEvaluation(i)' <=> IsEvaluation(i)
  BY NewLines DEF IsEvaluation
<1>2. e.type # "human_feedback" => \A i, o : IsFeedback(i, o)' <=> IsFeedback(i, o)
  BY NewLines DEF IsFeedback
<1>3. e.type # "purchase_result" => \A i, o : IsResult(i, o)' <=> IsResult(i, o)
  BY NewLines DEF IsResult
<1> QED BY <1>1, <1>2, <1>3

\* A verdict or a label the ledger already has stays its line's.
LEMMA SameVerdicts ==
  ASSUME Typed, Judged, Named, NEW e, Appended(e), e.type # "guard_evaluated", n \in Nat,
         n' \in Nat, n <= n', \A o \in 1..n : verdict'[o] = verdict[o],
         \A o \in 1..n' : o \notin 1..n => verdict'[o] = "none",
         \A o \in waiting' : verdict'[o] = "none"
  PROVE  Judged'
<1>1. \A i : IsEvaluation(i)' <=> IsEvaluation(i)
  BY OtherTypes
<1>2. \A i : IsEvaluation(i) => ledger'[i] = ledger[i] /\ ledger[i].dec \in 1..n
  BY NewLines DEF IsEvaluation, Named, IsNamed
<1>3. \A i : IsEvaluation(i)' => /\ ledger'[i].says = verdict'[ledger'[i].dec]
                                 /\ verdict'[ledger'[i].dec] # "none"
  BY <1>1, <1>2 DEF Judged
<1>4. \A o \in 1..n' : verdict'[o] # "none" => \E i : IsEvaluation(i)' /\ ledger'[i].dec = o
  BY <1>1, <1>2 DEF Judged
<1> QED BY <1>3, <1>4 DEF Judged

LEMMA SameLabels ==
  ASSUME Typed, Labeled, NEW e, Appended(e), NEW o \in 1..n,
         ~(e.type = "human_feedback" /\ e.dec = o), opinion'[o] = opinion[o]
  PROVE  LastSaid(o)'
<1>1. \A i : IsFeedback(i, o)' <=> IsFeedback(i, o)
  BY NewLines DEF IsFeedback
<1>2. \A i : IsFeedback(i, o) => ledger'[i] = ledger[i]
  BY NewLines DEF IsFeedback
<1> QED BY <1>1, <1>2 DEF Labeled, LastSaid

\* The order of the verdicts, when none is added.
LEMMA SameOrder ==
  ASSUME Typed, InOrder, NEW e, Appended(e), e.type # "guard_evaluated",
         \A o \in waiting' : IsNewest(o)' /\ paid'[o] = "before"
  PROVE  InOrder'
<1>1. \A i : IsEvaluation(i)' <=> IsEvaluation(i)
  BY OtherTypes
<1>2. \A i : IsEvaluation(i) => ledger'[i] = ledger[i]
  BY NewLines DEF IsEvaluation
<1>3. \A i, j : IsEvaluation(i)' /\ IsEvaluation(j)' /\ i < j
                  /\ ledger'[i].request = ledger'[j].request => ledger'[i].dec <= ledger'[j].dec
  BY <1>1, <1>2 DEF InOrder
<1> QED BY <1>3 DEF InOrder

\* What was told of a purchase stays so when the event is none of its results.
LEMMA SameTold ==
  ASSUME Typed, Told, NEW e, Appended(e), NEW o \in 1..n,
         ~(e.type = "purchase_result" /\ e.about = o),
         paid'[o] = paid[o], verdict'[o] = verdict[o], call'[o].type = call[o].type,
         call'[o].says = call[o].says
  PROVE  ToldOf(o)'
<1>1. \A i : IsResult(i, o)' <=> IsResult(i, o)
  BY NewLines DEF IsResult
<1>2. \A i : IsResult(i, o) => ledger'[i] = ledger[i]
  BY NewLines DEF IsResult
<1>3. Ended(o)' = Ended(o)
  BY DEF Ended
<1> QED BY <1>1, <1>2, <1>3 DEF Told, ToldOf

LEMMA ObservePreserves ==
  ASSUME IInv, Typed', NEW r, NEW k \in Nat, NEW e, NewPurchase(r, k, e)
  PROVE  IInv'
<1> USE DEF IInv
<1>0. n \in Nat /\ n' = n + 1 /\ Purchases = 1..n /\ Purchases' = 1..n + 1 /\ waiting \subseteq 1..n
  BY Lengths, PurchasesNext DEF NewPurchase, Typed
<1>1. /\ \A o \in 1..n : /\ request'[o] = request[o] /\ owner'[o] = owner[o] /\ paid'[o] = paid[o]
                         /\ verdict'[o] = verdict[o] /\ opinion'[o] = opinion[o]
                         /\ call'[o] = call[o]
      /\ request'[n + 1] = r /\ owner'[n + 1] = k /\ paid'[n + 1] = "before"
      /\ verdict'[n + 1] = "none" /\ opinion'[n + 1] = "none" /\ call'[n + 1] = NoCall
  BY DEF NewPurchase, Grew, Typed, n
<1>2. /\ Appended(e) /\ e.type = "candidate_observed" /\ e.dec = n + 1 /\ e.request = r
      /\ \/ k = n + 1 /\ waiting' = waiting \cup {n + 1}
         \/ ~Careful /\ k \in 1..n /\ request[k] = r /\ waiting' = waiting
      /\ (Careful => Quiet(r)) /\ (Careful' <=> Careful)
  BY DEF NewPurchase, Careful
<1>3. \A o \in 1..n' : o \in 1..n \/ o = n + 1
  BY <1>0
<1>4. Owned'
  <2>1. ASSUME NEW o \in 1..n
        PROVE  /\ owner'[o] \in 1..n' /\ request'[owner'[o]] = request'[o]
               /\ Careful' => owner'[o] = o
    BY <1>0, <1>1, <1>2 DEF Owned
  <2>2. /\ owner'[n + 1] \in 1..n' /\ request'[owner'[n + 1]] = request'[n + 1]
        /\ Careful' => owner'[n + 1] = n + 1
    BY <1>0, <1>1, <1>2
  <2> QED BY <1>3, <2>1, <2>2 DEF Owned
<1>5. Named'
  <2>1. ASSUME NEW x, IsNamed(x) PROVE IsNamed(x)'
    BY <1>0, <1>1, <2>1 DEF IsNamed
  <2>2. IsNamed(e)'
    BY <1>0, <1>1, <1>2 DEF IsNamed
  <2>3. \A i, x : i \in Lines' /\ ledger'[i] = x => IsNamed(x)'
    BY <1>2, <2>1, <2>2, NewLines DEF Named
  <2>4. \A o, x : o \in 1..n' /\ call'[o] = x /\ x # NoCall => IsNamed(x)'
    BY <1>1, <1>3, <2>1 DEF Named
  <2> QED BY <2>3, <2>4 DEF Named
<1>6. Judged'
  <2>1. \A o \in waiting' : verdict'[o] = "none"
    BY <1>0, <1>1, <1>2 DEF Judged
  <2> QED BY <1>0, <1>1, <1>2, <1>3, <2>1, SameVerdicts
<1>7. Labeled'
  <2>1. PICK p : p = n + 1
    OBVIOUS
  <2>2. LastSaid(p)'
    <3>1. \A i : ~IsFeedback(i, p)
      BY <1>0, <2>1 DEF IsFeedback, Named, IsNamed
    <3>2. \A i : IsFeedback(i, p)' <=> IsFeedback(i, p)
      BY <1>2, OtherTypes
    <3>3. opinion'[p] = "none"
      BY <1>1, <2>1
    <3> QED BY <3>1, <3>2, <3>3 DEF LastSaid
  <2>3. \A o \in 1..n : LastSaid(o)'
    BY <1>1, <1>2, SameLabels
  <2> QED BY <1>3, <2>1, <2>2, <2>3 DEF Labeled
<1>8. ASSUME Careful' PROVE InOrder' /\ About' /\ Told'
  <2>0. InOrder /\ About /\ Told /\ Quiet(r)
    BY <1>2, <1>8
  <2>1. InOrder'
    <3>1. ASSUME NEW o \in waiting' PROVE IsNewest(o)' /\ paid'[o] = "before"
      <4>1. CASE o = n + 1
        BY <1>0, <1>1, <4>1 DEF IsNewest
      <4>2. CASE o \in waiting
        <5>1. request[o] # r
          BY <1>0, <2>0, <4>2 DEF Quiet
        <5>2. o \in 1..n /\ IsNewest(o) /\ paid[o] = "before"
          BY <1>0, <2>0, <4>2 DEF InOrder
        <5>3. ASSUME NEW j \in 1..n', request'[j] = request'[o] PROVE j <= o
          BY <1>0, <1>1, <1>3, <5>1, <5>2, <5>3 DEF IsNewest
        <5> QED BY <1>0, <1>1, <5>2, <5>3 DEF IsNewest
      <4> QED BY <1>2, <4>1, <4>2
    <3> QED BY <1>2, <2>0, <3>1, SameOrder
  <2>2. About'
    <3>1. ASSUME NEW x, NEW o, IsAbout(x, o) PROVE IsAbout(x, o)'
      BY <1>0, <1>1, <1>2, <3>1 DEF IsAbout
    <3>2. \A i, x : i \in Lines' /\ ledger'[i] = x /\ x.type \in FactTypes
                     => IsAbout(x, x.about)'
      BY <1>2, <2>0, <3>1, NewLines DEF About, FactTypes
    <3>3. \A o, x : o \in 1..n' /\ call'[o] = x /\ x # NoCall => IsAbout(x, o)'
      BY <1>1, <1>3, <2>0, <3>1 DEF About
    <3> QED BY <3>2, <3>3 DEF About
  <2>3. Told'
    <3>1. PICK p : p = n + 1
      OBVIOUS
    <3>2. ToldOf(p)'
      <4>1. \A i : ~IsResult(i, p)
        BY <1>0, <2>0, <3>1 DEF IsResult, About, IsAbout, FactTypes
      <4>2. \A i : IsResult(i, p)' <=> IsResult(i, p)
        BY <1>2, OtherTypes
      <4>3. call'[p].type = "none" /\ paid'[p] = "before"
        BY <1>1, <3>1 DEF NoCall
      <4> QED BY <4>1, <4>2, <4>3 DEF ToldOf
    <3>3. \A o \in 1..n : ToldOf(o)'
      BY <1>1, <1>2, <2>0, SameTold
    <3> QED BY <1>3, <3>1, <3>2, <3>3 DEF Told
  <2> QED BY <2>1, <2>2, <2>3
<1> QED BY <1>4, <1>5, <1>6, <1>7, <1>8

LEMMA JudgePreserves ==
  ASSUME IInv, Typed', NEW o, NEW v, NEW e, NewVerdict(o, v, e)
  PROVE  IInv'
<1> USE DEF IInv
<1>0. /\ n \in Nat /\ n' = n /\ Purchases = 1..n /\ Purchases' = 1..n /\ waiting \subseteq 1..n
      /\ Careful' <=> Careful
  BY Lengths, PurchasesNext DEF NewVerdict, Typed, Careful
<1>1. /\ o \in waiting /\ waiting' = waiting \ {o} /\ v \in Verdicts /\ o \in 1..n
      /\ verdict'[o] = v /\ \A k \in 1..n : k # o => verdict'[k] = verdict[k]
      /\ UNCHANGED <<request, owner, paid, opinion, call>>
  BY <1>0 DEF NewVerdict
<1>2. /\ Appended(e) /\ e.type = "guard_evaluated" /\ e.dec = o /\ e.request = request[o]
      /\ e.says = v
  BY DEF NewVerdict
<1>3. verdict[o] = "none" /\ v # "none"
  BY <1>1, OutcomeAssumption DEF Judged
<1>4. Owned'
  BY <1>0, <1>1 DEF Owned
<1>5. Named'
  <2>1. \A x : IsNamed(x)' <=> IsNamed(x)
    BY <1>0, <1>1 DEF IsNamed
  <2>2. IsNamed(e)
    BY <1>1, <1>2 DEF IsNamed
  <2>3. \A i, x : i \in Lines' /\ ledger'[i] = x => IsNamed(x)'
    BY <1>2, <2>1, <2>2, NewLines DEF Named
  <2>4. \A k, x : k \in 1..n' /\ call'[k] = x /\ x # NoCall => IsNamed(x)'
    BY <1>0, <1>1, <2>1 DEF Named
  <2> QED BY <2>3, <2>4 DEF Named
<1>6. /\ \A i : IsEvaluation(i)' <=> IsEvaluation(i) \/ i = Len(ledger) + 1
      /\ \A i : IsEvaluation(i) => /\ ledger'[i] = ledger[i] /\ i < Len(ledger) + 1
                                   /\ ledger[i].dec \in 1..n /\ ledger[i].dec # o
                                   /\ ledger[i].request = request[ledger[i].dec]
      /\ ledger'[Len(ledger) + 1] = e /\ Len(ledger) \in Nat
  <2>1. \A i : IsEvaluation(i)' <=> IsEvaluation(i) \/ i = Len(ledger) + 1
    BY <1>2, NewLines DEF IsEvaluation
  <2>2. \A i : IsEvaluation(i) => ledger'[i] = ledger[i] /\ i < Len(ledger) + 1
    BY <1>2, NewLines DEF IsEvaluation
  <2>3. \A i : IsEvaluation(i) => /\ ledger[i].dec \in 1..n /\ ledger[i].dec # o
                                  /\ ledger[i].request = request[ledger[i].dec]
    BY <1>3 DEF IsEvaluation, Named, IsNamed, Judged
  <2> QED BY <1>2, <2>1, <2>2, <2>3, NewLines
<1>7. Judged'
  <2>1. \A k \in waiting' : verdict'[k] = "none"
    BY <1>0, <1>1 DEF Judged
  <2>2. \A i : IsEvaluation(i)' => /\ ledger'[i].says = verdict'[ledger'[i].dec]
                                   /\ verdict'[ledger'[i].dec] # "none"
    BY <1>1, <1>2, <1>3, <1>6 DEF Judged
  <2>3. \A k \in 1..n' : verdict'[k] # "none" => \E i : IsEvaluation(i)' /\ ledger'[i].dec = k
    BY <1>0, <1>1, <1>2, <1>6 DEF Judged
  <2> QED BY <2>1, <2>2, <2>3 DEF Judged
<1>8. Labeled'
  BY <1>0, <1>1, <1>2, SameLabels DEF Labeled
<1>9. ASSUME Careful' PROVE InOrder' /\ About' /\ Told'
  <2>0. InOrder /\ About /\ Told
    BY <1>0, <1>9
  <2>1. InOrder'
    <3>1. \A k \in waiting' : IsNewest(k)' /\ paid'[k] = "before"
      BY <1>0, <1>1, <2>0 DEF InOrder, IsNewest
    <3>2. \A i, j : IsEvaluation(i)' /\ IsEvaluation(j)' /\ i < j
                      /\ ledger'[i].request = ledger'[j].request
                    => ledger'[i].dec <= ledger'[j].dec
      <4> SUFFICES ASSUME NEW i, NEW j, IsEvaluation(i)', IsEvaluation(j)', i < j,
                          ledger'[i].request = ledger'[j].request
                   PROVE  ledger'[i].dec <= ledger'[j].dec
        OBVIOUS
      <4>1. IsEvaluation(i) /\ ledger'[i] = ledger[i]
        <5>1. CASE i = Len(ledger) + 1
          <6>1. j \in Nat /\ j <= Len(ledger) + 1
            BY <1>6 DEF IsEvaluation, Lines
          <6> QED BY <1>6, <5>1, <6>1
        <5> QED BY <1>6, <5>1
      <4>2. CASE IsEvaluation(j)
        BY <1>6, <2>0, <4>1, <4>2 DEF InOrder
      <4>3. CASE j = Len(ledger) + 1
        <5>1. request[ledger[i].dec] = request[o] /\ ledger[i].dec \in 1..n
          BY <1>2, <1>6, <4>1, <4>3
        <5>2. ledger[i].dec <= o
          BY <1>0, <1>1, <2>0, <5>1 DEF InOrder, IsNewest
        <5> QED BY <1>2, <1>6, <4>1, <4>3, <5>2
      <4> QED BY <1>6, <4>2, <4>3
    <3> QED BY <3>1, <3>2 DEF InOrder
  <2>2. About'
    <3>1. ASSUME NEW x, NEW k, IsAbout(x, k) PROVE IsAbout(x, k)'
      BY <1>0, <1>1, <3>1 DEF IsAbout
    <3>2. \A i, x : i \in Lines' /\ ledger'[i] = x /\ x.type \in FactTypes
                     => IsAbout(x, x.about)'
      BY <1>2, <2>0, <3>1, NewLines DEF About, FactTypes
    <3>3. \A k, x : k \in 1..n' /\ call'[k] = x /\ x # NoCall => IsAbout(x, k)'
      BY <1>0, <1>1, <2>0, <3>1 DEF About
    <3> QED BY <3>2, <3>3 DEF About
  <2>3. Told'
    <3>1. paid[o] = "before"
      BY <1>1, <2>0 DEF InOrder
    <3>2. \A i, k : IsResult(i, k)' <=> IsResult(i, k)
      BY <1>2, OtherTypes
    <3>3. (\A i : ~IsResult(i, o)) /\ call[o].type # "purchase_result"
      BY <1>1, <2>0, <3>1 DEF Told, ToldOf
    <3>4. ToldOf(o)'
      BY <1>1, <3>1, <3>2, <3>3 DEF ToldOf
    <3>5. \A k \in 1..n : k # o => ToldOf(k)'
      BY <1>1, <1>2, <2>0, SameTold
    <3> QED BY <1>0, <3>4, <3>5 DEF Told
  <2> QED BY <2>1, <2>2, <2>3
<1> QED BY <1>4, <1>5, <1>7, <1>8, <1>9

LEMMA DropPreserves ==
  ASSUME IInv, NEW o, Drop(o)
  PROVE  IInv'
<1> USE DEF IInv
<1>1. /\ Typed' /\ waiting' = waiting \ {o}
      /\ UNCHANGED <<ledger, request, owner, paid, verdict, opinion, call, host, n, Lines>>
  BY DropEffects DEF truth
<1>2. \A i, k : /\ IsEvaluation(i)' <=> IsEvaluation(i)
                /\ IsFeedback(i, k)' <=> IsFeedback(i, k)
                /\ IsResult(i, k)' <=> IsResult(i, k)
                /\ Ended(k)' = Ended(k)
  BY <1>1 DEF IsEvaluation, IsFeedback, IsResult, Ended
<1>3. Owned' /\ Named'
  BY <1>1 DEF Owned, Named, IsNamed, Careful
<1>4. Judged' /\ Labeled'
  BY <1>1, <1>2 DEF Judged, Labeled, LastSaid
<1>5. ASSUME Careful' PROVE InOrder' /\ About' /\ Told'
  <2>0. InOrder /\ About /\ Told
    BY <1>1, <1>5 DEF Careful
  <2>1. InOrder'
    BY <1>1, <1>2, <2>0 DEF InOrder, IsNewest, Purchases
  <2>2. About'
    BY <1>1, <2>0 DEF About, IsAbout
  <2>3. Told'
    <3>1. ASSUME NEW k \in 1..n PROVE ToldOf(k)'
      <4>1. ToldOf(k)
        BY <2>0 DEF Told
      <4>2. \A i : (IsResult(i, k)' <=> IsResult(i, k)) /\ Ended(k)' = Ended(k)
        BY <1>2
      <4> QED BY <1>1, <4>1, <4>2 DEF ToldOf
    <3> QED BY <1>1, <3>1 DEF Told
  <2> QED BY <2>1, <2>2, <2>3
<1> QED BY <1>1, <1>3, <1>4, <1>5

\* What the recorder finds for a purchase: a decision of its request, and its
\* own when a careful host's purchase was judged.
LEMMA LinkIsRight ==
  ASSUME IInv, NEW o, NEW type, NEW says, NEW dec, NEW r, NewCall(o, type, says, dec, r)
  PROVE  /\ dec # NoDecision => /\ dec \in 1..n /\ r = request[dec] /\ request[dec] = request[o]
         /\ Careful => /\ r = request[o]
                       /\ dec # NoDecision => dec <= o
                       /\ verdict[o] # "none" => dec = o
<1> USE DEF IInv
<1>0. n \in Nat /\ o \in 1..n /\ Purchases = 1..n /\ DOMAIN ledger = Lines
  BY Lengths DEF NewCall
<1>1. CASE dec = DecisionFor(request[o]) /\ r = request[o]
  <2>1. CASE Evaluated(request[o]) = {}
    <3>1. dec = NoDecision
      BY <1>0, <1>1, <2>1, LookupsAre
    <3>2. \A j : ~(IsEvaluation(j) /\ ledger[j].request = request[o])
      BY <1>0, <2>1 DEF Evaluated, With, IsEvaluation
    <3>3. verdict[o] = "none"
      BY <1>0, <3>2 DEF Judged, IsEvaluation, Named, IsNamed
    <3> QED BY <1>1, <3>1, <3>3
  <2>2. CASE Evaluated(request[o]) # {}
    <3>1. PICK i : /\ IsEvaluation(i) /\ ledger[i].request = request[o]
                   /\ \A j : IsEvaluation(j) /\ ledger[j].request = request[o] => j <= i
                   /\ dec = ledger[i].dec /\ dec \in 1..n
      BY <1>0, <1>1, <2>2, LookupsAre
    <3>2. request[dec] = request[o]
      BY <3>1 DEF IsEvaluation, Named, IsNamed
    <3>3. Careful => dec <= o
      BY <1>0, <3>1, <3>2 DEF NewCall, MayReport, IsNewest
    <3>4. ASSUME Careful, verdict[o] # "none" PROVE dec = o
      <4>1. PICK j : IsEvaluation(j) /\ ledger[j].dec = o
        BY <1>0, <3>4 DEF Judged
      <4>2. ledger[j].request = request[o]
        BY <4>1 DEF IsEvaluation, Named, IsNamed
      <4>3. j <= i /\ i \in Int /\ j \in Int
        BY <3>1, <4>1, <4>2 DEF IsEvaluation, Lines
      <4>4. o <= dec
        <5>1. CASE i = j
          BY <1>0, <3>1, <4>1, <5>1
        <5>2. CASE j < i
          BY <3>1, <3>4, <4>1, <4>2, <5>2 DEF InOrder
        <5> QED BY <4>3, <5>1, <5>2
      <4> QED BY <1>0, <3>1, <3>3, <3>4, <4>4
    <3> QED BY <1>1, <3>1, <3>2, <3>3, <3>4
  <2> QED BY <2>1, <2>2
<1>2. CASE dec = owner[o] /\ Of(dec) # {} /\ r = RequestOf(dec)
  <2>1. dec \in 1..n /\ request[dec] = request[o] /\ (Careful => dec = o)
    BY <1>0, <1>2 DEF Owned
  <2>2. r = request[dec]
    BY <1>2, <2>1, LookupsAre
  <2> QED BY <1>0, <2>1, <2>2
<1> QED BY <1>1, <1>2 DEF NewCall

LEMMA ReportPreserves ==
  ASSUME IInv, Typed', NEW o, NEW type, NEW says, NEW dec, NEW r, NewCall(o, type, says, dec, r)
  PROVE  IInv'
<1> USE DEF IInv
<1>0. /\ n \in Nat /\ o \in 1..n /\ call[o] = NoCall /\ MayReport(o)
      /\ paid'[o] = says /\ paid[o] \in Paid /\ <<type, says>> \in Reports(o)
      /\ \A k \in 1..n : k # o => paid'[k] = paid[k] /\ call'[k] = call[k]
  BY Lengths DEF NewCall
<1>1. UNCHANGED <<ledger, request, owner, waiting, verdict, opinion, host, n, Lines>>
  BY DEF NewCall
<1>2. \A i, k : /\ IsEvaluation(i)' <=> IsEvaluation(i)
                /\ IsFeedback(i, k)' <=> IsFeedback(i, k)
                /\ IsResult(i, k)' <=> IsResult(i, k)
  BY <1>1 DEF IsEvaluation, IsFeedback, IsResult
<1>3. PICK e : e = call'[o]
  OBVIOUS
<1>4. /\ dec = NoDecision => e = NoCall
      /\ dec # NoDecision => /\ e \in Events(FactTypes) /\ e.type = type /\ e.says = says
                             /\ e.dec = dec /\ e.request = r /\ e.about = o
  BY <1>3 DEF NewCall
<1>5. /\ dec # NoDecision => /\ dec \in 1..n /\ r = request[dec] /\ request[dec] = request[o]
      /\ Careful => /\ r = request[o]
                    /\ dec # NoDecision => dec <= o
                    /\ verdict[o] # "none" => dec = o
  BY LinkIsRight
<1>6. Owned'
  BY <1>1 DEF Owned, Careful
<1>7. Named'
  <2>1. \A x : IsNamed(x)' <=> IsNamed(x)
    BY <1>1 DEF IsNamed
  <2>2. e # NoCall => IsNamed(e)
    BY <1>4, <1>5 DEF IsNamed
  <2>3. \A i, x : i \in Lines' /\ ledger'[i] = x => IsNamed(x)'
    BY <1>1, <2>1 DEF Named
  <2>4. \A k, x : k \in 1..n' /\ call'[k] = x /\ x # NoCall => IsNamed(x)'
    BY <1>0, <1>1, <1>3, <2>1, <2>2 DEF Named
  <2> QED BY <2>3, <2>4 DEF Named
<1>8. Judged' /\ Labeled'
  BY <1>1, <1>2 DEF Judged, Labeled, LastSaid
<1>9. ASSUME Careful' PROVE InOrder' /\ About' /\ Told'
  <2>0. Careful /\ InOrder /\ About /\ Told /\ o \notin waiting
    BY <1>0, <1>1, <1>9 DEF Careful, MayReport
  <2>1. InOrder'
    <3>1. \A k \in waiting' : IsNewest(k)' /\ paid'[k] = "before"
      BY <1>0, <1>1, <2>0 DEF InOrder, IsNewest, Purchases, Typed
    <3> QED BY <1>1, <1>2, <2>0, <3>1 DEF InOrder
  <2>2. About'
    <3>1. \A x, k : IsAbout(x, k) => IsAbout(x, k)'
      BY <1>1 DEF IsAbout
    <3>2. e # NoCall => IsAbout(e, o)
      BY <1>0, <1>4, <1>5, <2>0 DEF IsAbout
    <3>3. \A i, x : i \in Lines' /\ ledger'[i] = x /\ x.type \in FactTypes
                     => IsAbout(x, x.about)'
      BY <1>1, <2>0, <3>1 DEF About
    <3>4. \A k, x : k \in 1..n' /\ call'[k] = x /\ x # NoCall => IsAbout(x, k)'
      BY <1>0, <1>1, <1>3, <2>0, <3>1, <3>2 DEF About
    <3> QED BY <3>3, <3>4 DEF About
  <2>3. Told'
    <3>1. ASSUME NEW k \in 1..n, k # o PROVE ToldOf(k)'
      <4>1. ToldOf(k) /\ Ended(k)' = Ended(k)
        BY <1>0, <2>0, <3>1 DEF Told, Ended
      <4>2. \A i : IsResult(i, k)' <=> IsResult(i, k)
        BY <1>2
      <4> QED BY <1>0, <1>1, <3>1, <4>1, <4>2 DEF ToldOf
    <3>2. /\ \A i : IsResult(i, o)' <=> IsResult(i, o)
          /\ ToldOf(o) /\ call[o].type # "purchase_result" /\ verdict'[o] = verdict[o]
      BY <1>0, <1>1, <1>2, <2>0 DEF Told, NoCall
    <3>3. /\ e.type = "purchase_result" => type = "purchase_result" /\ e.says = says
          /\ type = "purchase_result" /\ e.type # "purchase_result" => verdict[o] = "none"
      <4>1. CASE dec = NoDecision
        <5>1. e.type = "none"
          BY <1>4, <4>1 DEF NoCall
        <5>2. verdict[o] = "none"
          BY <1>0, <1>5, <2>0, <4>1 DEF NoDecision
        <5> QED BY <5>1, <5>2
      <4>2. CASE dec # NoDecision
        BY <1>4, <4>2
      <4> QED BY <4>1, <4>2
    <3>4. ToldOf(o)'
      <4>1. CASE paid[o] = "before"
        <5>1. type = "purchase_attempted" /\ says = "sent"
          BY <1>0, <4>1 DEF Reports
        <5> QED BY <1>0, <1>3, <3>2, <3>3, <4>1, <5>1 DEF ToldOf
      <4>2. CASE paid[o] \in {"sent", "unknown"}
        <5>1. type = "purchase_result" /\ says \in {"success", "failure", "unknown"}
          BY <1>0, <4>2 DEF Reports
        <5> QED BY <1>0, <1>3, <3>2, <3>3, <5>1 DEF ToldOf
      <4>3. CASE paid[o] = "success"
        <5>1. type = "delivery_observed" /\ says = "delivered"
          BY <1>0, <4>3 DEF Reports
        <5>2. Ended(o)' = Ended(o)
          BY <1>0, <4>3, <5>1 DEF Ended
        <5> QED BY <1>0, <1>1, <1>3, <3>2, <3>3, <4>3, <5>1, <5>2 DEF ToldOf
      <4>4. CASE paid[o] \in {"failure", "delivered"}
        BY <1>0, <4>4 DEF Reports
      <4> QED BY <1>0, <4>1, <4>2, <4>3, <4>4 DEF Paid
    <3> QED BY <1>1, <3>1, <3>4 DEF Told
  <2> QED BY <2>1, <2>2, <2>3
<1> QED BY <1>6, <1>7, <1>8, <1>9

LEMMA AppendOutcomePreserves ==
  ASSUME IInv, Typed', NEW o, NEW e, CallEnds(o, e)
  PROVE  IInv'
<1> USE DEF IInv
<1>0. /\ n \in Nat /\ Len(ledger) \in Nat /\ Purchases = 1..n /\ Purchases' = 1..n'
      /\ waiting \subseteq 1..n
  BY Lengths, PurchasesNext DEF Typed
<1>1. /\ o \in 1..n /\ e = call[o] /\ e # NoCall /\ Appended(e)
      /\ call'[o] = NoCall /\ \A k \in 1..n : k # o => call'[k] = call[k]
      /\ UNCHANGED <<request, owner, waiting, paid, verdict, opinion, host, n>>
  BY DEF CallEnds
<1>2. e \in Events(FactTypes) /\ e.type \in FactTypes
  <2>1. e \in {NoCall} \cup Events(FactTypes)
    BY <1>1, Lengths
  <2> QED BY <1>1, <2>1, CallIs
<1>3. e.type # "guard_evaluated" /\ e.type # "human_feedback"
  BY <1>2 DEF FactTypes
<1>4. Owned'
  BY <1>1 DEF Owned, Careful
<1>5. Named'
  <2>1. \A x : IsNamed(x)' <=> IsNamed(x)
    BY <1>1 DEF IsNamed
  <2>2. IsNamed(e)
    BY <1>1 DEF Named
  <2>3. \A i, x : i \in Lines' /\ ledger'[i] = x => IsNamed(x)'
    BY <1>1, <2>1, <2>2, NewLines DEF Named
  <2>4. \A k, x : k \in 1..n' /\ call'[k] = x /\ x # NoCall => IsNamed(x)'
    BY <1>1, <2>1 DEF Named
  <2> QED BY <2>3, <2>4 DEF Named
<1>6. Judged'
  <2>1. \A k \in waiting' : verdict'[k] = "none"
    BY <1>1 DEF Judged
  <2> QED BY <1>0, <1>1, <1>3, <2>1, SameVerdicts
<1>7. Labeled'
  <2>1. \A k \in 1..n : LastSaid(k)'
    BY <1>1, <1>3, SameLabels
  <2> QED BY <1>1, <2>1 DEF Labeled
<1>8. ASSUME Careful' PROVE InOrder' /\ About' /\ Told'
  <2>0. InOrder /\ About /\ Told
    BY <1>1, <1>8 DEF Careful
  <2>1. InOrder'
    <3>1. \A k \in waiting' : IsNewest(k)' /\ paid'[k] = "before"
      BY <1>0, <1>1, <2>0 DEF InOrder, IsNewest
    <3> QED BY <1>1, <1>3, <2>0, <3>1, SameOrder
  <2>2. IsAbout(e, o)
    BY <1>1, <2>0 DEF About
  <2>3. About'
    <3>1. \A x, k : IsAbout(x, k) => IsAbout(x, k)'
      BY <1>1 DEF IsAbout
    <3>2. IsAbout(e, e.about)
      BY <2>2 DEF IsAbout
    <3>3. \A i, x : i \in Lines' /\ ledger'[i] = x /\ x.type \in FactTypes
                     => IsAbout(x, x.about)'
      BY <1>1, <2>0, <3>1, <3>2, NewLines DEF About
    <3>4. \A k, x : k \in 1..n' /\ call'[k] = x /\ x # NoCall => IsAbout(x, k)'
      BY <1>1, <2>0, <3>1 DEF About
    <3> QED BY <3>3, <3>4 DEF About
  <2>4. Told'
    <3>1. ASSUME NEW k \in 1..n, k # o PROVE ToldOf(k)'
      <4>1. e.about # k
        BY <2>2, <3>1 DEF IsAbout
      <4> QED BY <1>1, <2>0, <3>1, <4>1, SameTold
    <3>2. ToldOf(o)'
      <4>0. ToldOf(o) /\ call'[o].type = "none" /\ Ended(o)' = Ended(o)
        BY <1>1, <2>0 DEF Told, NoCall, Ended
      <4>1. CASE e.type # "purchase_result"
        <5>1. \A i : IsResult(i, o)' <=> IsResult(i, o)
          BY <1>1, <4>1, OtherTypes
        <5>2. \A i : IsResult(i, o) => ledger'[i] = ledger[i]
          BY <1>1, NewLines DEF IsResult
        <5> QED BY <1>1, <4>0, <4>1, <5>1, <5>2 DEF ToldOf
      <4>2. CASE e.type = "purchase_result"
        <5>1. /\ paid[o] \notin {"before", "sent", "delivered"} /\ e.says = paid[o]
          BY <1>1, <4>0, <4>2 DEF ToldOf
        <5>2. PICK l : l = Len(ledger) + 1
          OBVIOUS
        <5>3. IsResult(l, o)' /\ ledger'[l].says = Ended(o)'
          BY <1>1, <2>2, <4>0, <4>2, <5>1, <5>2, NewLines DEF IsResult, IsAbout, Ended
        <5>4. \A j : IsResult(j, o)' => j <= l
          BY <1>0, <1>1, <5>2, NewLines DEF IsResult, Lines
        <5> QED BY <1>1, <4>0, <5>1, <5>3, <5>4 DEF ToldOf
      <4> QED BY <4>1, <4>2
    <3> QED BY <1>1, <3>1, <3>2 DEF Told
  <2> QED BY <2>1, <2>3, <2>4
<1> QED BY <1>4, <1>5, <1>6, <1>7, <1>8

LEMMA FeedbackPreserves ==
  ASSUME IInv, Typed', NEW o, NEW label, NEW e, NewLabel(o, label, e)
  PROVE  IInv'
<1> USE DEF IInv
<1>0. /\ n \in Nat /\ Len(ledger) \in Nat /\ Purchases = 1..n /\ Purchases' = 1..n'
      /\ waiting \subseteq 1..n
  BY Lengths, PurchasesNext DEF Typed
<1>1. /\ o \in 1..n /\ label \in Labels /\ opinion'[o] = label
      /\ \A k \in 1..n : k # o => opinion'[k] = opinion[k]
      /\ UNCHANGED <<request, owner, waiting, paid, verdict, call, host, n>>
  BY DEF NewLabel
<1>2. /\ Appended(e) /\ e.type = "human_feedback" /\ e.dec = o /\ e.request = request[o]
      /\ e.says = label /\ label # "none"
  BY OutcomeAssumption DEF NewLabel
<1>3. Owned'
  BY <1>1 DEF Owned, Careful
<1>4. Named'
  <2>1. \A x : IsNamed(x)' <=> IsNamed(x)
    BY <1>1 DEF IsNamed
  <2>2. IsNamed(e)
    BY <1>1, <1>2 DEF IsNamed
  <2>3. \A i, x : i \in Lines' /\ ledger'[i] = x => IsNamed(x)'
    BY <1>2, <2>1, <2>2, NewLines DEF Named
  <2>4. \A k, x : k \in 1..n' /\ call'[k] = x /\ x # NoCall => IsNamed(x)'
    BY <1>1, <2>1 DEF Named
  <2> QED BY <2>3, <2>4 DEF Named
<1>5. Judged'
  <2>1. \A k \in waiting' : verdict'[k] = "none"
    BY <1>1 DEF Judged
  <2> QED BY <1>0, <1>1, <1>2, <2>1, SameVerdicts
<1>6. Labeled'
  <2>1. \A k \in 1..n : k # o => LastSaid(k)'
    BY <1>1, <1>2, SameLabels
  <2>2. LastSaid(o)'
    <3>1. PICK l : l = Len(ledger) + 1
      OBVIOUS
    <3>2. IsFeedback(l, o)' /\ ledger'[l].says = opinion'[o]
      BY <1>1, <1>2, <3>1, NewLines DEF IsFeedback
    <3>3. \A j : IsFeedback(j, o)' => j <= l
      BY <1>0, <1>2, <3>1, NewLines DEF IsFeedback, Lines
    <3> QED BY <1>1, <1>2, <3>2, <3>3 DEF LastSaid
  <2> QED BY <1>1, <2>1, <2>2 DEF Labeled
<1>7. ASSUME Careful' PROVE InOrder' /\ About' /\ Told'
  <2>0. InOrder /\ About /\ Told
    BY <1>1, <1>7 DEF Careful
  <2>1. InOrder'
    <3>1. \A k \in waiting' : IsNewest(k)' /\ paid'[k] = "before"
      BY <1>0, <1>1, <2>0 DEF InOrder, IsNewest
    <3> QED BY <1>2, <2>0, <3>1, SameOrder
  <2>2. About'
    <3>1. \A x, k : IsAbout(x, k) => IsAbout(x, k)'
      BY <1>1 DEF IsAbout
    <3>2. \A i, x : i \in Lines' /\ ledger'[i] = x /\ x.type \in FactTypes
                     => IsAbout(x, x.about)'
      BY <1>2, <2>0, <3>1, NewLines DEF About, FactTypes
    <3>3. \A k, x : k \in 1..n' /\ call'[k] = x /\ x # NoCall => IsAbout(x, k)'
      BY <1>1, <2>0, <3>1 DEF About
    <3> QED BY <3>2, <3>3 DEF About
  <2>3. Told'
    <3>1. \A k \in 1..n : ToldOf(k)'
      BY <1>1, <1>2, <2>0, SameTold
    <3> QED BY <1>1, <3>1 DEF Told
  <2> QED BY <2>1, <2>2, <2>3
<1> QED BY <1>3, <1>4, <1>5, <1>6, <1>7

THEOREM InitEstablishes == Init => IInv
<1> SUFFICES ASSUME Init PROVE IInv
  OBVIOUS
<1>1. /\ ledger = <<>> /\ request = <<>> /\ owner = <<>> /\ paid = <<>> /\ call = <<>>
      /\ verdict = <<>> /\ opinion = <<>> /\ waiting = {}
  BY DEF Init
<1>2. n = 0 /\ 1..n = {} /\ Lines = {}
  BY <1>1 DEF n, Lines
<1>3. Typed
  BY <1>1, <1>2, EmptySeq DEF Typed
<1>4. Owned /\ Named /\ Judged /\ Labeled
  BY <1>1, <1>2 DEF Owned, Named, Judged, Labeled, IsEvaluation
<1>5. InOrder /\ About /\ Told
  BY <1>1, <1>2 DEF InOrder, About, Told, IsEvaluation
<1> QED BY <1>3, <1>4, <1>5 DEF IInv

THEOREM Inductive == IInv /\ [Next]_vars => IInv'
<1> SUFFICES ASSUME IInv, [Next]_vars PROVE IInv'
  OBVIOUS
<1>0. Typed /\ Owned /\ Named
  BY DEF IInv
<1>1. ASSUME NEW r \in Requests, Observe(r) PROVE IInv'
  <2>1. Typed' /\ \E k \in Nat, e \in Events(Types) : NewPurchase(r, k, e)
    BY <1>0, <1>1, ObserveEffects
  <2> QED BY <2>1, ObservePreserves
<1>2. ASSUME NEW o \in Purchases, Judge(o) PROVE IInv'
  <2>1. Typed' /\ \E v, e : NewVerdict(o, v, e)
    BY <1>0, <1>2, JudgeEffects
  <2> QED BY <2>1, JudgePreserves
<1>3. ASSUME NEW o \in Purchases, Drop(o) PROVE IInv'
  BY <1>3, DropPreserves
<1>4. ASSUME NEW o \in Purchases, Report(o) PROVE IInv'
  <2>1. Typed' /\ \E type, says, dec, r : NewCall(o, type, says, dec, r)
    BY <1>0, <1>4, ReportEffects
  <2> QED BY <2>1, ReportPreserves
<1>5. ASSUME NEW o \in Purchases, AppendOutcome(o) PROVE IInv'
  <2>1. Typed' /\ \E e : CallEnds(o, e)
    BY <1>0, <1>5, AppendOutcomeEffects
  <2> QED BY <2>1, AppendOutcomePreserves
<1>6. ASSUME NEW o \in Purchases, Feedback(o) PROVE IInv'
  <2>1. Typed' /\ \E label, e : NewLabel(o, label, e)
    BY <1>0, <1>6, FeedbackEffects
  <2> QED BY <2>1, FeedbackPreserves
<1>7. CASE UNCHANGED vars
  <2>1. UNCHANGED <<ledger, request, owner, waiting, paid, verdict, opinion, call, host>>
    BY <1>7 DEF vars, truth
  <2>2. UNCHANGED <<n, Lines, Purchases>>
    BY <2>1 DEF n, Lines, Purchases
  <2>3. \A i, k : /\ IsEvaluation(i)' <=> IsEvaluation(i)
                  /\ IsFeedback(i, k)' <=> IsFeedback(i, k)
                  /\ IsResult(i, k)' <=> IsResult(i, k)
                  /\ Ended(k)' = Ended(k)
    BY <2>1, <2>2 DEF IsEvaluation, IsFeedback, IsResult, Ended
  <2>4. Typed' /\ Owned' /\ Named' /\ (Careful' <=> Careful)
    BY <1>0, <2>1, <2>2 DEF Typed, Owned, Named, IsNamed, Careful
  <2>5. Judged' /\ Labeled'
    BY <2>1, <2>2, <2>3 DEF IInv, Judged, Labeled, LastSaid
  <2>6. ASSUME Careful PROVE InOrder' /\ About' /\ Told'
    <3>0. InOrder /\ About /\ Told
      BY <2>6 DEF IInv
    <3>1. InOrder' /\ About'
      <4>1. InOrder'
        BY <2>1, <2>2, <2>3, <3>0 DEF InOrder, IsNewest
      <4>2. \A x, k : IsAbout(x, k)' <=> IsAbout(x, k)
        BY <2>1, <2>2 DEF IsAbout
      <4>3. About'
        BY <2>1, <2>2, <3>0, <4>2 DEF About
      <4> QED BY <4>1, <4>3
    <3>2. ASSUME NEW k \in 1..n PROVE ToldOf(k)'
      <4>1. ToldOf(k)
        BY <3>0 DEF Told
      <4>2. \A i : IsResult(i, k)' <=> IsResult(i, k)
        BY <2>3
      <4>3. Ended(k)' = Ended(k)
        BY <2>3
      <4> QED BY <2>1, <4>1, <4>2, <4>3 DEF ToldOf
    <3> QED BY <2>2, <3>1, <3>2 DEF Told
  <2> QED BY <2>4, <2>5, <2>6 DEF IInv
<1> QED BY <1>1, <1>2, <1>3, <1>4, <1>5, <1>6, <1>7 DEF Next

THEOREM Invariance == Spec => []IInv
BY InitEstablishes, Inductive, PTL DEF Spec

----------------------------------------------------------------------------
(* What it implies.                                                       *)

\* Whichever way a result was linked, all events of a decision carry the
\* request id of the purchase the decision was made for.
THEOREM NamesOneRequest == Spec => []OneRequestPerDecision
<1>1. IInv => OneRequestPerDecision
  <2> SUFFICES ASSUME IInv, NEW i \in DOMAIN ledger, NEW j \in DOMAIN ledger,
                      ledger[i].dec = ledger[j].dec
               PROVE  ledger[i].request = ledger[j].request
    BY DEF OneRequestPerDecision
  <2>1. i \in Lines /\ j \in Lines
    BY Lengths DEF IInv
  <2> QED BY <2>1 DEF IInv, Named, IsNamed
<1> QED BY <1>1, Invariance, PTL

\* A careful host's attempts, results and deliveries of a judged purchase are
\* recorded with the decision made for that purchase.
THEOREM Attributes == Spec => []AttributedToOwn
<1>1. IInv => AttributedToOwn
  <2> SUFFICES ASSUME IInv, Careful, NEW i \in Facts, verdict[ledger[i].about] # "none"
               PROVE  ledger[i].dec = owner[ledger[i].about]
    BY DEF AttributedToOwn
  <2>1. i \in Lines /\ ledger[i].type \in FactTypes
    BY Lengths DEF IInv, Facts, With, FactTypes
  <2>2. IsAbout(ledger[i], ledger[i].about)
    BY <2>1 DEF IInv, About
  <2> QED BY <2>2 DEF IsAbout, IInv, Owned
<1> QED BY <1>1, Invariance, PTL

\* The newest payload of a type the report finds for a decision.
LEMMA PayloadIs ==
  ASSUME Typed, NEW type
  PROVE  /\ \A d : d \in DOMAIN PerDecision(type)
                     <=> \E i \in Lines : ledger[i].type = type /\ ledger[i].dec = d
         /\ \A i \in Lines :
              /\ ledger[i].type = type
              /\ \A j \in Lines : ledger[j].type = type /\ ledger[j].dec = ledger[i].dec => j <= i
              => PerDecision(type)[ledger[i].dec] = ledger[i].says
<1>0. DOMAIN ledger = Lines /\ Lines = 1..Len(ledger)
  BY Lengths DEF Lines
<1>1. With(type) = {i \in Lines : ledger[i].type = type}
  BY <1>0 DEF With
<1>2. DOMAIN PerDecision(type) = {ledger[i].dec : i \in With(type)}
  BY DEF PerDecision
<1>3. \A d : d \in DOMAIN PerDecision(type)
               <=> \E i \in Lines : ledger[i].type = type /\ ledger[i].dec = d
  BY <1>1, <1>2
<1>4. ASSUME NEW i \in Lines, ledger[i].type = type,
             \A j \in Lines : ledger[j].type = type /\ ledger[j].dec = ledger[i].dec => j <= i
      PROVE  PerDecision(type)[ledger[i].dec] = ledger[i].says
  <2>1. PICK S : S = Of(ledger[i].dec) \cap With(type)
    OBVIOUS
  <2>2. S \in SUBSET Nat /\ i \in S /\ \A j \in S : j <= i
    BY <1>0, <1>1, <1>4, <2>1 DEF Of
  <2>3. Max(S) = i
    BY <2>2, MaxIsLast
  <2>4. ledger[i].dec \in {ledger[j].dec : j \in With(type)}
    BY <1>1, <1>4
  <2>5. PerDecision(type)[ledger[i].dec] = LatestOf(S)
    BY <2>1, <2>4 DEF PerDecision
  <2> QED BY <2>3, <2>5 DEF LatestOf
<1> QED BY <1>3, <1>4

\* The report reads the verdict of every judged decision ...
LEMMA EvaluationsAre ==
  ASSUME IInv
  PROVE  /\ DOMAIN evaluations = {o \in Purchases : verdict[o] # "none"}
         /\ \A d \in DOMAIN evaluations : evaluations[d] = verdict[d]
<1> USE DEF IInv
<1>0. Purchases = 1..n /\ Len(ledger) \in Nat
  BY Lengths
<1>1. \A d : d \in DOMAIN evaluations <=> \E i : IsEvaluation(i) /\ ledger[i].dec = d
  BY PayloadIs DEF evaluations, IsEvaluation
<1>2. DOMAIN evaluations = {o \in Purchases : verdict[o] # "none"}
  <2>1. \A i : IsEvaluation(i) => /\ ledger[i].dec \in Purchases
                                  /\ verdict[ledger[i].dec] # "none"
    BY <1>0 DEF Judged, IsEvaluation, Named, IsNamed
  <2>2. \A o \in Purchases : verdict[o] # "none" => \E i : IsEvaluation(i) /\ ledger[i].dec = o
    BY <1>0 DEF Judged
  <2>3. \A d : d \in DOMAIN evaluations <=> d \in Purchases /\ verdict[d] # "none"
    BY <1>1, <2>1, <2>2
  <2> QED BY <2>3
<1>3. ASSUME NEW d \in DOMAIN evaluations PROVE evaluations[d] = verdict[d]
  <2>1. PICK S : S = {i \in Lines : ledger[i].type = "guard_evaluated" /\ ledger[i].dec = d}
    OBVIOUS
  <2>2. S \in SUBSET (1..Len(ledger)) /\ S # {}
    BY <1>1, <2>1 DEF IsEvaluation, Lines
  <2>3. PICK m \in S : \A j \in S : j <= m
    BY <1>0, <2>2, LastExists
  <2>4. evaluations[d] = ledger[m].says
    BY <2>1, <2>3, PayloadIs DEF evaluations
  <2> QED BY <2>1, <2>4 DEF Judged, IsEvaluation
<1> QED BY <1>2, <1>3

\* ... and the last label of every labelled one.
LEMMA FeedbackIs ==
  ASSUME IInv
  PROVE  /\ DOMAIN feedback = {o \in Purchases : opinion[o] # "none"}
         /\ \A d \in DOMAIN feedback : feedback[d] = opinion[d]
<1> USE DEF IInv
<1>0. Purchases = 1..n
  BY Lengths
<1>1. \A d : d \in DOMAIN feedback <=> \E i : IsFeedback(i, d)
  BY PayloadIs DEF feedback, IsFeedback
<1>2. DOMAIN feedback = {o \in Purchases : opinion[o] # "none"}
  <2>1. \A i, d : IsFeedback(i, d) => d \in Purchases
    BY <1>0 DEF IsFeedback, Named, IsNamed
  <2>2. \A o \in Purchases : opinion[o] # "none" <=> \E i : IsFeedback(i, o)
    BY <1>0 DEF Labeled, LastSaid
  <2>3. \A d : d \in DOMAIN feedback <=> d \in Purchases /\ opinion[d] # "none"
    BY <1>1, <2>1, <2>2
  <2> QED BY <2>3
<1>3. ASSUME NEW d \in DOMAIN feedback PROVE feedback[d] = opinion[d]
  <2>1. PICK i : /\ IsFeedback(i, d) /\ ledger[i].says = opinion[d]
                 /\ \A j : IsFeedback(j, d) => j <= i
    BY <1>0, <1>2 DEF Labeled, LastSaid
  <2> QED BY <2>1, PayloadIs DEF feedback, IsFeedback
<1> QED BY <1>2, <1>3

\* For any host, the counts and shares of the report are those of the verdicts
\* the guard gave and of the operator's last word on each.
THEOREM TellsOperator == Spec => []ReportTellsOperator
<1>1. ASSUME IInv PROVE ReportTellsOperator
  <2>1. PICK judged : judged = {o \in Purchases : verdict[o] # "none"}
    OBVIOUS
  <2>2. DOMAIN evaluations = judged /\ \A d \in judged : evaluations[d] = verdict[d]
    BY <1>1, <2>1, EvaluationsAre
  <2>3. /\ DOMAIN feedback = {o \in Purchases : opinion[o] # "none"}
        /\ \A d \in DOMAIN feedback : feedback[d] = opinion[d]
    BY <1>1, FeedbackIs
  <2>4. Labelled = {o \in judged : opinion[o] # "none"}
    BY <2>1, <2>2, <2>3 DEF Labelled
  <2>5. ASSUME NEW l \in Labels
        PROVE  /\ Saying(feedback, Labelled, l) = {o \in judged : opinion[o] = l}
               /\ Saying(evaluations, {o \in judged : opinion[o] = l}, "HOLD")
                    = {o \in judged : opinion[o] = l} \cap {o \in judged : verdict[o] = "HOLD"}
    <3>1. l # "none"
      BY OutcomeAssumption
    <3>2. Saying(feedback, Labelled, l) = {o \in judged : opinion[o] = l}
      BY <2>1, <2>3, <2>4, <3>1 DEF Saying
    <3>3. Saying(evaluations, {o \in judged : opinion[o] = l}, "HOLD")
            = {o \in judged : opinion[o] = l} \cap {o \in judged : verdict[o] = "HOLD"}
      BY <2>2 DEF Saying
    <3> QED BY <3>2, <3>3
  <2>6. \A v : Saying(evaluations, DOMAIN evaluations, v) = {o \in judged : verdict[o] = v}
    BY <2>2 DEF Saying
  <2>7. \A l \in Labels : report.held[l] = ShareHeld(l)
    BY DEF report
  <2>8. \A v \in Verdicts :
          report.counts[v] = Cardinality(Saying(evaluations, DOMAIN evaluations, v))
    BY DEF report
  <2>9. report.feedback_coverage = <<Cardinality(Labelled), Cardinality(DOMAIN evaluations)>>
    BY DEF report
  <2> QED BY <2>1, <2>2, <2>4, <2>5, <2>6, <2>7, <2>8, <2>9 DEF ReportTellsOperator, ShareHeld
<1> QED BY <1>1, Invariance, PTL

\* What the report reads of a judged purchase whose calls have all ended.
LEMMA PurchaseIs ==
  ASSUME IInv, Careful, NEW o \in 1..n, verdict[o] # "none", call[o] = NoCall,
         IsNewest(o) \/ \A k \in Purchases : verdict[k] # "none",
         paid[o] \notin {"before", "sent"}
  PROVE  o \in DOMAIN purchases /\ purchases[o] = Ended(o)
<1> USE DEF IInv
<1>0. Purchases = 1..n
  BY Lengths
<1>1. PICK i : /\ IsResult(i, o) /\ ledger[i].says = Ended(o)
               /\ \A j : IsResult(j, o) => j <= i
  BY DEF Told, ToldOf, NoCall
<1>2. ledger[i].dec = o
  BY <1>1 DEF IsResult, About, IsAbout, FactTypes
<1>3. ASSUME NEW j \in Lines, ledger[j].type = "purchase_result", ledger[j].dec = o
      PROVE  j <= i
  <2>1. PICK e : e = ledger[j]
    OBVIOUS
  <2>2. IsAbout(e, e.about) /\ e.dec = o /\ request[o] = e.request
    BY <1>3, <2>1 DEF About, FactTypes, Named, IsNamed
  <2>3. e.about = o
    <3>1. CASE IsNewest(o)
      BY <1>0, <2>2, <3>1 DEF IsAbout, IsNewest
    <3>2. CASE \A k \in Purchases : verdict[k] # "none"
      BY <1>0, <2>2, <3>2 DEF IsAbout
    <3> QED BY <3>1, <3>2
  <2> QED BY <1>1, <1>3, <2>1, <2>3 DEF IsResult
<1>4. i \in Lines /\ ledger[i].type = "purchase_result"
  BY <1>1 DEF IsResult
<1>5. o \in DOMAIN purchases
  BY <1>2, <1>4, PayloadIs DEF purchases
<1>6. purchases[ledger[i].dec] = ledger[i].says
  BY <1>2, <1>3, <1>4, PayloadIs DEF purchases
<1> QED BY <1>1, <1>2, <1>5, <1>6

\* The report counts a careful host's purchases as they ended.
THEOREM TellsOutcome == Spec => []ReportTellsOutcome
<1>1. ASSUME IInv, Careful, \A o \in Purchases : call[o] = NoCall
      PROVE  /\ \A o \in Purchases :
                  /\ verdict[o] # "none" /\ IsNewest(o)
                  /\ paid[o] \in {"unknown", "success", "failure"}
                  => o \in DOMAIN purchases /\ purchases[o] = paid[o]
             /\ (\A o \in Purchases : verdict[o] # "none") =>
                  report.purchases_succeeded =
                    Cardinality({o \in Purchases : paid[o] \in {"success", "delivered"}})
  <2>0. Purchases = 1..n /\ About /\ Told /\ \A o \in 1..n : paid[o] \in Paid
    BY <1>1, Lengths DEF IInv
  <2>1. ASSUME NEW o \in Purchases, verdict[o] # "none", IsNewest(o),
               paid[o] \in {"unknown", "success", "failure"}
        PROVE  o \in DOMAIN purchases /\ purchases[o] = paid[o]
    <3>1. o \in DOMAIN purchases /\ purchases[o] = Ended(o)
      BY <1>1, <2>0, <2>1, PurchaseIs
    <3> QED BY <2>1, <3>1 DEF Ended
  <2>2. ASSUME \A o \in Purchases : verdict[o] # "none"
        PROVE  report.purchases_succeeded =
                 Cardinality({o \in Purchases : paid[o] \in {"success", "delivered"}})
    <3>1. ASSUME NEW o \in DOMAIN purchases
          PROVE  o \in 1..n /\ paid[o] \notin {"before", "sent"}
      <4>1. PICK i \in Lines : ledger[i].type = "purchase_result" /\ ledger[i].dec = o
        BY <1>1, <3>1, PayloadIs DEF purchases, IInv
      <4>2. PICK e : e = ledger[i]
        OBVIOUS
      <4>3. IsAbout(e, e.about)
        BY <2>0, <4>1, <4>2 DEF About, FactTypes
      <4>4. e.about = o /\ o \in 1..n
        BY <2>0, <2>2, <4>1, <4>2, <4>3 DEF IsAbout
      <4>5. IsResult(i, o)
        BY <4>1, <4>2, <4>4 DEF IsResult
      <4> QED BY <2>0, <4>4, <4>5 DEF Told, ToldOf
    <3>2. ASSUME NEW o \in 1..n, paid[o] \notin {"before", "sent"}
          PROVE  o \in DOMAIN purchases /\ purchases[o] = Ended(o)
      BY <1>1, <2>0, <2>2, <3>2, PurchaseIs
    <3>3. \A o \in 1..n : /\ Ended(o) = "success" <=> paid[o] \in {"success", "delivered"}
                          /\ paid[o] \in {"success", "delivered"}
                               => paid[o] \notin {"before", "sent"}
      BY <2>0 DEF Ended, Paid
    <3>4. Saying(purchases, DOMAIN purchases, "success")
            = {o \in Purchases : paid[o] \in {"success", "delivered"}}
      BY <2>0, <3>1, <3>2, <3>3 DEF Saying
    <3> QED BY <3>4 DEF report
  <2> QED BY <2>1, <2>2
<1>2. IInv => ReportTellsOutcome
  BY <1>1 DEF ReportTellsOutcome
<1> QED BY <1>2, Invariance, PTL
=============================================================================
