--------------------------- MODULE System_proofs ---------------------------
(***************************************************************************)
(* What the hook, its queue, the engine and the ledger do to a purchase    *)
(* between them, for any number of payment threads, any queue size, any    *)
(* number of calls, and whatever appends fail.                             *)
(***************************************************************************)
EXTENDS System, SequenceTheorems, FiniteSetTheorems, TLAPS

\* Where a call of observe() is that is not over for the guard.
Hand(c)    == \E p \in Payers : pc[p] = "hand" /\ cand[p] = c
InQueue(c) == \E i \in 1..Len(queue) : queue[i] = c
AtJob(c)   == \E t \in G!Threads : tpc[t] = "run" /\ item[t] = c
Placed(c)  == Hand(c) \/ InQueue(c) \/ AtJob(c)

Shape ==
  /\ mode = "async" /\ host = "quiet"
  /\ calls \in 0..MaxCalls /\ decs \in Nat
  /\ pc = [p \in Payers |-> pc[p]] /\ epc = [p \in Payers |-> epc[p]]
  /\ cand = [p \in Payers |-> cand[p]] /\ held = [p \in Payers |-> held[p]]
  /\ tpc = [t \in G!Threads |-> tpc[t]] /\ item = [t \in G!Threads |-> item[t]]
  /\ pending = [p \in {1} |-> pending[1]] /\ running = [p \in {1} |-> running[1]]
  /\ queue \in Seq(0..MaxCalls) /\ decOf \in Seq(Nat) /\ Len(decOf) = calls
  /\ \E S : ledger \in Seq(S)
  /\ fates = [c \in G!Candidates |-> fates[c]]
  /\ \A p \in Payers : epc[p] # "idle" => pc[p] = "idle"
  /\ starts = 0 => \A t \in G!Threads : tpc[t] = "none"

\* A decision id belongs to one call: one that is over, or is inside the engine.
Ids ==
  /\ \A c \in 1..calls : decOf[c] \in 0..decs
  /\ \A c, d \in 1..calls : decOf[c] = decOf[d] /\ decOf[c] # 0 => c = d
  /\ \A p \in Inside : held[p].dec \in 1..decs
  /\ \A p \in Inside, c \in 1..calls : decOf[c] # held[p].dec
  /\ \A p, q \in Inside : held[p].dec = held[q].dec => p = q
  /\ \A i \in DOMAIN ledger : ledger[i].dec \in 1..decs

\* A call of observe() is at most at one place.
Places ==
  /\ \A p \in Payers : pc[p] \in {"hand", "handler"} => cand[p] \in 1..calls
  /\ \A i \in 1..Len(queue) : queue[i] \in 0..calls
  /\ \A t \in G!Threads : tpc[t] = "run" => item[t] \in 1..calls
  /\ \A p, q \in Payers : pc[p] = "hand" /\ pc[q] = "hand" /\ cand[p] = cand[q] => p = q
  /\ \A i, j \in 1..Len(queue) : queue[i] = queue[j] /\ queue[i] # 0 => i = j
  /\ \A c : Hand(c) => ~InQueue(c) /\ ~AtJob(c)
  /\ \A c : AtJob(c) => ~InQueue(c)

\* What the engine waits for is at a place, and what is at a place, unless it
\* has gone through evaluate(), the engine waits for.
Match ==
  /\ \A c \in 1..calls : Placed(c) => decOf[c] # 0
  /\ \A c \in 1..calls : Hand(c) \/ InQueue(c) => decOf[c] \in Waiting
  /\ \A d \in Waiting : \E c \in 1..calls : Placed(c) /\ decOf[c] = d
  /\ \A d \in Checked : \E c \in 1..calls : AtJob(c) /\ decOf[c] = d
  /\ \A e, f \in pending[1] : e.dec = f.dec => e = f
  /\ \A e, f \in running[1] : e.dec = f.dec => e = f
  /\ Waiting \cap Checked = {}

\* A decision is in the ledger, judged, counted as dropped, waited for, or its
\* call is not over.
IsNew(d)     == \E i \in DOMAIN ledger : /\ ledger[i].type = "candidate_observed"
                                         /\ ledger[i].duplicate_of = E!NoDup
                                         /\ ledger[i].dec = d
IsJudged(d)  == \E i \in DOMAIN ledger : /\ ledger[i].type = "guard_evaluated"
                                         /\ ledger[i].dec = d
IsDropped(d) == \E c \in 1..calls : "dropped" \in fates[c] /\ decOf[c] = d
IsInside(d)  == \E p \in Inside : held[p].dec = d
IsFailing(d) == \E p \in Payers : pc[p] = "handler" /\ decOf[cand[p]] = d
Covered(d)   == \/ IsJudged(d) \/ IsDropped(d) \/ d \in Waiting \/ d \in Checked
                \/ IsInside(d) \/ IsFailing(d)

\* What is in the ledger as new is covered; the repeats are known to be that.
Accounted ==
  /\ \A d : IsNew(d) => Covered(d)
  /\ \A d : IsNew(d) =>
       \A p \in Inside : held[p].dec = d => held[p].duplicate_of = E!NoDup

IInv == Shape /\ Ids /\ Places /\ Match /\ Accounted

USE SystemAssumption DEF G!GuardAssumption, G!Candidates, G!Threads, G!Poison

----------------------------------------------------------------------------
(* The ledger, the queue and the ids of the calls.                        *)

LEMMA LedgerGrows ==
  ASSUME Shape, NEW e, ledger' = Append(ledger, e)
  PROVE  /\ \E S : ledger' \in Seq(S)
         /\ \E n : /\ n \notin DOMAIN ledger /\ ledger'[n] = e
                   /\ \A i : i \in DOMAIN ledger' <=> (i \in DOMAIN ledger \/ i = n)
                   /\ \A i \in DOMAIN ledger : ledger'[i] = ledger[i]
<1>1. PICK S : ledger \in Seq(S)
  BY DEF Shape
<1>2. PICK T : T = S \cup {e}
  OBVIOUS
<1>3. ledger \in Seq(T) /\ e \in T
  BY <1>1, <1>2
<1>4. /\ ledger' \in Seq(T) /\ Len(ledger') = Len(ledger) + 1
      /\ \A i \in 1..Len(ledger) : ledger'[i] = ledger[i]
      /\ ledger'[Len(ledger) + 1] = e
  BY <1>3, AppendProperties
<1>5. /\ Len(ledger) \in Nat /\ DOMAIN ledger = 1..Len(ledger)
      /\ DOMAIN ledger' = 1..Len(ledger')
  BY <1>3, <1>4, LenProperties
<1>6. PICK n : n = Len(ledger) + 1
  OBVIOUS
<1> QED BY <1>4, <1>5, <1>6

\* What an event adds to the ledger.
LEMMA EventAdds ==
  ASSUME Shape, NEW e, ledger' = Append(ledger, e)
  PROVE  /\ \A d : IsJudged(d)' <=> (IsJudged(d) \/ (e.type = "guard_evaluated" /\ e.dec = d))
         /\ \A d : IsNew(d)' <=> (IsNew(d) \/ (/\ e.type = "candidate_observed"
                                               /\ e.duplicate_of = E!NoDup /\ e.dec = d))
         /\ \A i \in DOMAIN ledger' : \/ ledger'[i].dec = e.dec
                                      \/ \E j \in DOMAIN ledger : ledger'[i].dec = ledger[j].dec
         /\ \E S : ledger' \in Seq(S)
<1>1. PICK n : /\ n \notin DOMAIN ledger /\ ledger'[n] = e
               /\ \A i : i \in DOMAIN ledger' <=> (i \in DOMAIN ledger \/ i = n)
               /\ \A i \in DOMAIN ledger : ledger'[i] = ledger[i]
  BY LedgerGrows
<1>2. \A d : IsJudged(d)' <=> (IsJudged(d) \/ (e.type = "guard_evaluated" /\ e.dec = d))
  BY <1>1 DEF IsJudged
<1>3. \A d : IsNew(d)' <=> (IsNew(d) \/ (/\ e.type = "candidate_observed"
                                         /\ e.duplicate_of = E!NoDup /\ e.dec = d))
  BY <1>1 DEF IsNew, E!NoDup
<1>4. \A i \in DOMAIN ledger' : \/ ledger'[i].dec = e.dec
                                \/ \E j \in DOMAIN ledger : ledger'[i].dec = ledger[j].dec
  BY <1>1
<1> QED BY <1>2, <1>3, <1>4, LedgerGrows

LEMMA DecIs == ASSUME Shape PROVE \A c \in 1..calls : DecOf(c) = decOf[c]
BY LenProperties DEF Shape, DecOf

\* put() adds at the end.
LEMMA QueuePut ==
  ASSUME Shape, NEW x \in 0..MaxCalls, G!Put(x)
  PROVE  /\ queue' \in Seq(0..MaxCalls)
         /\ \A c : InQueue(c)' <=> (InQueue(c) \/ c = x)
         /\ /\ ~InQueue(x) \/ x = 0
            /\ \A i, j \in 1..Len(queue) : queue[i] = queue[j] /\ queue[i] # 0 => i = j
            => \A i, j \in 1..Len(queue') : queue'[i] = queue'[j] /\ queue'[i] # 0 => i = j
<1>1. PICK n : n = Len(queue)
  OBVIOUS
<1>2. /\ n \in Nat /\ queue' \in Seq(0..MaxCalls) /\ Len(queue') = n + 1
      /\ \A i \in 1..n : queue'[i] = queue[i]
      /\ queue'[n + 1] = x
  BY <1>1, AppendProperties, LenProperties DEF Shape, G!Put
<1>3. \A c : InQueue(c)' <=> (InQueue(c) \/ c = x)
  BY <1>1, <1>2 DEF InQueue
<1>4. ASSUME ~InQueue(x) \/ x = 0,
             \A i, j \in 1..Len(queue) : queue[i] = queue[j] /\ queue[i] # 0 => i = j,
             NEW i \in 1..Len(queue'), NEW j \in 1..Len(queue'),
             queue'[i] = queue'[j], queue'[i] # 0
      PROVE  i = j
  <2>1. (i \in 1..n \/ i = n + 1) /\ (j \in 1..n \/ j = n + 1)
    BY <1>2
  <2>2. \A k \in 1..n : queue[k] # x \/ x = 0
    BY <1>1, <1>4 DEF InQueue
  <2> QED BY <1>1, <1>2, <1>4, <2>1, <2>2
<1> QED BY <1>2, <1>3, <1>4

\* get() takes the first.
LEMMA QueueGet ==
  ASSUME Shape, queue # <<>>, queue' = Tail(queue),
         \A i, j \in 1..Len(queue) : queue[i] = queue[j] /\ queue[i] # 0 => i = j
  PROVE  /\ queue' \in Seq(0..MaxCalls)
         /\ InQueue(Head(queue))
         /\ \A c : c # 0 => (InQueue(c)' <=> (InQueue(c) /\ c # Head(queue)))
         /\ \A c : InQueue(c)' => InQueue(c)
         /\ \A i, j \in 1..Len(queue') : queue'[i] = queue'[j] /\ queue'[i] # 0 => i = j
<1>1. PICK n : n = Len(queue)
  OBVIOUS
<1>2. PICK first : first = Head(queue)
  OBVIOUS
<1>3. n \in Nat \ {0}
  BY <1>1, EmptySeq, LenProperties DEF Shape
<1>4. first = queue[1]
  BY <1>2 DEF Shape
<1>5. /\ queue' \in Seq(0..MaxCalls) /\ Len(queue') = n - 1
      /\ \A i \in 1..(n - 1) : queue'[i] = queue[i + 1]
  BY <1>1, <1>3, HeadTailProperties DEF Shape
<1>6. InQueue(first)
  BY <1>1, <1>3, <1>4 DEF InQueue
<1>7. \A c : InQueue(c)' => InQueue(c)
  BY <1>1, <1>3, <1>5 DEF InQueue
<1>8. ASSUME NEW c, c # 0 PROVE InQueue(c)' <=> (InQueue(c) /\ c # first)
  <2>1. ASSUME InQueue(c)' PROVE c # first
    <3>1. PICK i \in 1..(n - 1) : queue[i + 1] = c
      BY <1>5, <2>1 DEF InQueue
    <3>2. i + 1 \in 1..n /\ 1 \in 1..n /\ i + 1 # 1
      BY <1>3
    <3> QED BY <1>1, <1>4, <1>8, <3>1, <3>2
  <2>2. ASSUME InQueue(c), c # first PROVE InQueue(c)'
    <3>1. PICK i \in 1..n : queue[i] = c
      BY <1>1, <2>2 DEF InQueue
    <3>2. i - 1 \in 1..(n - 1) /\ (i - 1) + 1 = i
      BY <1>3, <1>4, <2>2, <3>1
    <3>3. queue'[i - 1] = c
      BY <1>5, <3>1, <3>2
    <3> QED BY <1>5, <3>2, <3>3 DEF InQueue
  <2> QED BY <1>7, <2>1, <2>2
<1>9. ASSUME NEW i \in 1..Len(queue'), NEW j \in 1..Len(queue'),
             queue'[i] = queue'[j], queue'[i] # 0
      PROVE  i = j
  <2>1. i \in 1..(n - 1) /\ j \in 1..(n - 1)
    BY <1>5
  <2>2. i + 1 \in 1..n /\ j + 1 \in 1..n /\ queue[i + 1] = queue[j + 1] /\ queue[i + 1] # 0
    BY <1>3, <1>5, <1>9, <2>1
  <2>3. i + 1 = j + 1
    BY <1>1, <2>2
  <2> QED BY <2>1, <2>3
<1> QED BY <1>2, <1>5, <1>6, <1>7, <1>8, <1>9

----------------------------------------------------------------------------
(* Steps that move no call.                                               *)

\* The places of the calls and what the engine holds stay.
Still ==
  /\ \A c \in 1..calls : /\ Hand(c)' <=> Hand(c)
                         /\ InQueue(c)' <=> InQueue(c)
                         /\ AtJob(c)' <=> AtJob(c)
  /\ UNCHANGED <<calls, decOf, decs, epc, held, ledger, pending, running>>

LEMMA StillKeeps ==
  ASSUME Ids, Match, Still
  PROVE  Ids' /\ Match'
<1>1. Ids'
  BY DEF Still, Ids, Inside
<1>2. \A c \in 1..calls : Placed(c)' <=> Placed(c)
  BY DEF Still, Placed
<1>3. Waiting' = Waiting /\ Checked' = Checked
  BY DEF Still, Waiting, Checked
<1>4. Match'
  BY <1>2, <1>3 DEF Still, Match
<1> QED BY <1>1, <1>4

\* Nothing that covers a decision is undone.
LEMMA CoveredStays ==
  ASSUME UNCHANGED ledger, UNCHANGED <<epc, held>>, Accounted,
         \A d : IsDropped(d) => IsDropped(d)',
         \A d \in Waiting : d \in Waiting' \/ d \in Checked' \/ IsDropped(d)',
         \A d \in Checked : d \in Checked' \/ IsDropped(d)',
         \A d : IsFailing(d) => IsFailing(d)' \/ IsDropped(d)'
  PROVE  Accounted'
<1>1. \A d : (IsNew(d)' <=> IsNew(d)) /\ (IsJudged(d)' <=> IsJudged(d)) /\ (IsInside(d)' <=> IsInside(d))
  BY DEF IsNew, IsJudged, IsInside, Inside, E!NoDup
<1>2. \A d : Covered(d) => Covered(d)'
  BY <1>1 DEF Covered
<1>3. Inside' = Inside
  BY DEF Inside
<1> QED BY <1>1, <1>2, <1>3 DEF Accounted

\* The worker's and the host's steps that leave every call where it is.
LEMMA IdleKeeps ==
  ASSUME IInv, UNCHANGED <<engine, decOf>>, UNCHANGED <<pc, cand, calls, item, fates, mode, host>>,
         tpc' = [t \in G!Threads |-> tpc'[t]],
         \A t \in G!Threads : tpc'[t] = "run" <=> tpc[t] = "run",
         starts' = 0 => \A t \in G!Threads : tpc'[t] = "none",
         queue' \in Seq(0..MaxCalls),
         \A c : c # 0 => (InQueue(c)' <=> InQueue(c)),
         \A i \in 1..Len(queue') : queue'[i] \in 0..calls,
         \A i, j \in 1..Len(queue') : queue'[i] = queue'[j] /\ queue'[i] # 0 => i = j
  PROVE  IInv'
<1> USE DEF engine
<1>1. Shape'
  BY DEF IInv, Shape
<1>2. \A c : (Hand(c)' <=> Hand(c)) /\ (AtJob(c)' <=> AtJob(c))
  BY DEF Hand, AtJob
<1>3. \A c : Hand(c) \/ AtJob(c) => c # 0
  BY DEF Hand, AtJob, IInv, Places, Shape
<1>4. Places'
  BY <1>2, <1>3 DEF IInv, Places
<1>5. Still
  BY <1>2 DEF Still
<1>6. Ids' /\ Match'
  BY <1>5, StillKeeps DEF IInv
<1>7. Accounted'
  <2>1. \A d : (IsDropped(d) => IsDropped(d)') /\ (IsFailing(d) => IsFailing(d)')
    BY DEF IsDropped, IsFailing
  <2>2. Waiting' = Waiting /\ Checked' = Checked
    BY DEF Waiting, Checked
  <2> QED BY <2>1, <2>2, CoveredStays DEF IInv
<1> QED BY <1>1, <1>4, <1>6, <1>7 DEF IInv

\* A step that does not touch the queue.
LEMMA QueueStays ==
  ASSUME IInv, queue' = queue
  PROVE  /\ queue' \in Seq(0..MaxCalls)
         /\ \A c : InQueue(c)' <=> InQueue(c)
         /\ \A i \in 1..Len(queue') : queue'[i] \in 0..calls
         /\ \A i, j \in 1..Len(queue') : queue'[i] = queue'[j] /\ queue'[i] # 0 => i = j
BY DEF IInv, Shape, Places, InQueue

LEMMA LoopKeeps ==
  ASSUME IInv, NEW t \in G!Threads, G!CheckStop(t) \/ G!GetEmpty(t), UNCHANGED <<engine, decOf>>
  PROVE  IInv'
<1>1. /\ UNCHANGED <<pc, cand, calls, item, fates, mode, host, queue, starts>>
      /\ tpc[t] \in {"loop", "get"}
      /\ \E to \in {"exited", "get", "loop"} : tpc' = [tpc EXCEPT ![t] = to]
  BY DEF G!CheckStop, G!GetEmpty, G!Move, G!Payment, G!Queue, G!Host, G!Record
<1>2. starts # 0
  BY <1>1 DEF IInv, Shape
<1>3. /\ tpc' = [u \in G!Threads |-> tpc'[u]]
      /\ \A u \in G!Threads : tpc'[u] = "run" <=> tpc[u] = "run"
  BY <1>1 DEF IInv, Shape
<1> QED BY <1>1, <1>2, <1>3, QueueStays, IdleKeeps

LEMMA GetPoisonKeeps ==
  ASSUME IInv, NEW t \in G!Threads, G!GetPoison(t), UNCHANGED <<engine, decOf>>
  PROVE  IInv'
<1>1. /\ UNCHANGED <<pc, cand, calls, item, fates, mode, host, starts>>
      /\ tpc[t] = "get" /\ tpc' = [tpc EXCEPT ![t] = "exited"]
      /\ queue # <<>> /\ Head(queue) = 0 /\ queue' = Tail(queue)
  BY DEF G!GetPoison, G!Move, G!Payment, G!Host, G!Record
<1>2. starts # 0
  BY <1>1 DEF IInv, Shape
<1>3. /\ tpc' = [u \in G!Threads |-> tpc'[u]]
      /\ \A u \in G!Threads : tpc'[u] = "run" <=> tpc[u] = "run"
  BY <1>1 DEF IInv, Shape
<1>4. /\ queue' \in Seq(0..MaxCalls)
      /\ \A c : c # 0 => (InQueue(c)' <=> (InQueue(c) /\ c # 0))
      /\ \A c : InQueue(c)' => InQueue(c)
      /\ \A i, j \in 1..Len(queue') : queue'[i] = queue'[j] /\ queue'[i] # 0 => i = j
  BY <1>1, QueueGet DEF IInv, Places
<1>5. \A i \in 1..Len(queue') : queue'[i] \in 0..calls
  <2> SUFFICES ASSUME NEW i \in 1..Len(queue') PROVE queue'[i] \in 0..calls
    OBVIOUS
  <2>1. PICK c : c = queue'[i]
    OBVIOUS
  <2>2. InQueue(c)'
    BY <2>1 DEF InQueue
  <2>3. InQueue(c)
    BY <1>4, <2>2
  <2> QED BY <2>1, <2>3 DEF InQueue, IInv, Places
<1> QED BY <1>1, <1>2, <1>3, <1>4, <1>5, IdleKeeps

LEMMA HostKeeps ==
  ASSUME IInv, G!Start \/ G!Stop \/ G!JoinQueue \/ G!JoinWorker, UNCHANGED <<engine, decOf>>
  PROVE  IInv'
<1>1. UNCHANGED <<pc, cand, calls, item, fates, mode, host, queue>>
  BY DEF G!Start, G!Stop, G!JoinQueue, G!JoinWorker, G!Payment, G!Queue, G!Drain, G!Host, G!Record
<1>2. \/ UNCHANGED <<tpc, starts>>
      \/ starts = 0 /\ starts' = 1 /\ tpc' = [tpc EXCEPT ![1] = "loop"]
  <2>1. CASE G!Start
    <3>1. starts = 0 /\ starts' = starts + 1 /\ tpc' = [tpc EXCEPT ![starts'] = "loop"]
      BY <2>1 DEF G!Start, G!Quiet, IInv, Shape
    <3> QED BY <3>1
  <2>2. CASE G!Stop \/ G!JoinQueue \/ G!JoinWorker
    BY <2>2 DEF G!Stop, G!JoinQueue, G!JoinWorker, G!Drain, G!Host
  <2> QED BY <2>1, <2>2
<1>3. /\ tpc' = [u \in G!Threads |-> tpc'[u]]
      /\ \A u \in G!Threads : tpc'[u] = "run" <=> tpc[u] = "run"
      /\ starts' = 0 => \A u \in G!Threads : tpc'[u] = "none"
  <2>1. CASE UNCHANGED <<tpc, starts>>
    BY <2>1 DEF IInv, Shape
  <2>2. CASE starts = 0 /\ starts' = 1 /\ tpc' = [tpc EXCEPT ![1] = "loop"]
    <3>1. \A u \in G!Threads : u = 1 /\ tpc[u] = "none"
      BY <2>2 DEF IInv, Shape
    <3>0. PICK T : T = G!Threads
      OBVIOUS
    <3>2. T = G!Threads /\ 1 \in T
      BY <3>0
    <3>3. tpc = [u \in T |-> tpc[u]]
      BY <3>2 DEF IInv, Shape
    <3>4. tpc' = [u \in T |-> tpc'[u]] /\ tpc'[1] = "loop"
      BY <2>2, <3>2, <3>3
    <3> QED BY <2>2, <3>1, <3>2, <3>4
  <2> QED BY <1>2, <2>1, <2>2
<1> QED BY <1>1, <1>3, QueueStays, IdleKeeps

LEMMA PutPoisonKeeps ==
  ASSUME IInv, G!PutPoison, UNCHANGED <<engine, decOf>>
  PROVE  IInv'
<1>1. /\ UNCHANGED <<pc, cand, calls, item, fates, mode, host, tpc, starts>>
      /\ G!Put(0)
  BY DEF G!PutPoison, G!Payment, G!Drain, G!Host, G!Record
<1>2. /\ tpc' = [u \in G!Threads |-> tpc'[u]]
      /\ starts' = 0 => \A u \in G!Threads : tpc'[u] = "none"
  BY <1>1 DEF IInv, Shape
<1>3. 0 \in 0..MaxCalls
  OBVIOUS
<1>4. /\ queue' \in Seq(0..MaxCalls)
      /\ \A c : InQueue(c)' <=> (InQueue(c) \/ c = 0)
      /\ \A i, j \in 1..Len(queue') : queue'[i] = queue'[j] /\ queue'[i] # 0 => i = j
  BY <1>1, <1>3, QueuePut DEF IInv, Places
<1>5. \A i \in 1..Len(queue') : queue'[i] \in 0..calls
  <2> SUFFICES ASSUME NEW i \in 1..Len(queue') PROVE queue'[i] \in 0..calls
    OBVIOUS
  <2>1. PICK c : c = queue'[i]
    OBVIOUS
  <2>2. InQueue(c)'
    BY <2>1 DEF InQueue
  <2>3. InQueue(c) \/ c = 0
    BY <1>4, <2>2
  <2> QED BY <2>1, <2>3 DEF InQueue, IInv, Places, Shape
<1> QED BY <1>1, <1>2, <1>4, <1>5, IdleKeeps

----------------------------------------------------------------------------
(* Steps of the guard that move a call, the engine looking on.            *)

\* What is dropped stays dropped, and this call is dropped now, if it is that.
LEMMA Drops ==
  ASSUME Shape, NEW c \in 1..calls, UNCHANGED <<calls, decOf>>, NEW fate,
         fates' = [fates EXCEPT ![c] = fates[c] \cup {fate}]
  PROVE  /\ fates' = [d \in G!Candidates |-> fates'[d]]
         /\ fates'[c] = fates[c] \cup {fate}
         /\ \A d \in G!Candidates : d # c => fates'[d] = fates[d]
         /\ \A d : IsDropped(d)' <=> (IsDropped(d) \/ (fate = "dropped" /\ d = decOf[c]))
<1>1. c \in G!Candidates /\ \A d \in 1..calls : d \in G!Candidates
  BY DEF Shape
<1>2. /\ fates' = [d \in G!Candidates |-> fates'[d]]
      /\ fates'[c] = fates[c] \cup {fate}
      /\ \A d \in G!Candidates : d # c => fates'[d] = fates[d]
  BY <1>1 DEF Shape
<1>3. \A d : IsDropped(d)' <=> (IsDropped(d) \/ (fate = "dropped" /\ d = decOf[c]))
  BY <1>1, <1>2 DEF IsDropped
<1> QED BY <1>2, <1>3

\* A call that raised is counted.
LEMMA HandlerKeeps ==
  ASSUME IInv, NEW p \in Payers, Handler(p) PROVE IInv'
<1> USE DEF engine
<1>1. PICK c : c = cand[p]
  OBVIOUS
<1>2. /\ UNCHANGED <<cand, calls, queue, tpc, item, starts, mode, host, engine, decOf>>
      /\ pc[p] = "handler" /\ pc' = [pc EXCEPT ![p] = "idle"]
      /\ fates' = [fates EXCEPT ![c] = fates[c] \cup {"dropped"}]
  BY <1>1 DEF Handler, G!Handler, G!Leave, G!Settle, G!Goto, G!LogOutcome, G!Loud,
              G!Queue, G!Drain, G!Host, IInv, Shape
<1>3. c \in 1..calls
  BY <1>1, <1>2 DEF IInv, Places
<1>4. /\ fates' = [d \in G!Candidates |-> fates'[d]]
      /\ \A d : IsDropped(d) => IsDropped(d)'
      /\ \A d : d = decOf[c] => IsDropped(d)'
  BY <1>2, <1>3, Drops DEF IInv
<1>5. pc' = [q \in Payers |-> pc'[q]] /\ pc'[p] = "idle" /\ \A q \in Payers : q # p => pc'[q] = pc[q]
  BY <1>2 DEF IInv, Shape
<1>6. Shape'
  BY <1>2, <1>4, <1>5 DEF IInv, Shape
<1>7. \A q \in Payers : pc'[q] = "hand" <=> pc[q] = "hand"
  BY <1>2, <1>5
<1>8. \A x : (Hand(x)' <=> Hand(x)) /\ (AtJob(x)' <=> AtJob(x)) /\ (InQueue(x)' <=> InQueue(x))
  BY <1>2, <1>7 DEF Hand, AtJob, InQueue
<1>9. Places'
  BY <1>2, <1>5, <1>7, <1>8 DEF IInv, Places
<1>10. Still
  BY <1>2, <1>8 DEF Still
<1>11. Ids' /\ Match'
  BY <1>10, StillKeeps DEF IInv
<1>12. Accounted'
  <2>1. \A d : IsFailing(d) => IsFailing(d)' \/ IsDropped(d)'
    BY <1>1, <1>2, <1>4, <1>5 DEF IsFailing
  <2>2. Waiting' = Waiting /\ Checked' = Checked
    BY <1>2 DEF Waiting, Checked
  <2> QED BY <1>2, <1>4, <2>1, <2>2, CoveredStays DEF IInv
<1> QED BY <1>6, <1>9, <1>11, <1>12 DEF IInv

\* A call goes from one place to another.
LEMMA Passed ==
  ASSUME IInv, UNCHANGED <<engine, decOf, calls, cand, fates>>,
         \A q \in Payers : pc'[q] = "handler" <=> pc[q] = "handler",
         \A x \in 1..calls : /\ Placed(x)' <=> Placed(x)
                             /\ Hand(x)' \/ InQueue(x)' => Hand(x) \/ InQueue(x)
                             /\ AtJob(x) => AtJob(x)'
  PROVE  Ids' /\ Match' /\ Accounted'
<1> USE DEF engine
<1>1. Ids'
  BY DEF IInv, Ids, Inside
<1>2. Waiting' = Waiting /\ Checked' = Checked
  BY DEF Waiting, Checked
<1>3. Match'
  BY <1>2 DEF IInv, Match
<1>4. \A d : (IsDropped(d) => IsDropped(d)') /\ (IsFailing(d) => IsFailing(d)')
  BY DEF IsDropped, IsFailing
<1>5. Accounted'
  BY <1>2, <1>4, CoveredStays DEF IInv
<1> QED BY <1>1, <1>3, <1>5

LEMMA EnqueueKeeps ==
  ASSUME IInv, NEW p \in Payers, Enqueue(p) PROVE IInv'
<1>1. PICK c : c = cand[p]
  OBVIOUS
<1>2. /\ UNCHANGED <<cand, calls, tpc, item, starts, mode, host, fates, engine, decOf>>
      /\ pc[p] = "hand" /\ pc' = [pc EXCEPT ![p] = "idle"] /\ G!Put(c)
  BY <1>1 DEF Enqueue, G!Enqueue, G!Goto, G!Drain, G!Host, G!Record
<1>3. c \in 1..calls /\ c \in 0..MaxCalls /\ Hand(c)
  BY <1>1, <1>2 DEF IInv, Places, Shape, Hand
<1>4. ~InQueue(c) /\ ~AtJob(c)
  BY <1>3 DEF IInv, Places
<1>5. /\ queue' \in Seq(0..MaxCalls)
      /\ \A x : InQueue(x)' <=> (InQueue(x) \/ x = c)
      /\ \A i, j \in 1..Len(queue') : queue'[i] = queue'[j] /\ queue'[i] # 0 => i = j
  BY <1>2, <1>3, <1>4, QueuePut DEF IInv, Places
<1>6. pc' = [q \in Payers |-> pc'[q]] /\ pc'[p] = "idle" /\ \A q \in Payers : q # p => pc'[q] = pc[q]
  BY <1>2 DEF IInv, Shape
<1>7. Shape'
  BY <1>2, <1>5, <1>6 DEF IInv, Shape, engine
<1>8. \A x : /\ Hand(x)' <=> (Hand(x) /\ x # c)
             /\ AtJob(x)' <=> AtJob(x)
  <2>1. \A x : AtJob(x)' <=> AtJob(x)
    BY <1>2 DEF AtJob
  <2>2. \A q \in Payers : pc'[q] = "hand" <=> (pc[q] = "hand" /\ q # p)
    BY <1>6
  <2>3. \A q \in Payers : pc[q] = "hand" /\ cand[q] = c => q = p
    BY <1>1, <1>2 DEF IInv, Places
  <2>4. \A x : Hand(x)' <=> (Hand(x) /\ x # c)
    BY <1>1, <1>2, <2>2, <2>3 DEF Hand
  <2> QED BY <2>1, <2>4
<1>9. Places'
  <2>1. \A i \in 1..Len(queue') : queue'[i] \in 0..calls
    <3> SUFFICES ASSUME NEW i \in 1..Len(queue') PROVE queue'[i] \in 0..calls
      OBVIOUS
    <3>1. PICK x : x = queue'[i]
      OBVIOUS
    <3>2. InQueue(x)'
      BY <3>1 DEF InQueue
    <3>3. InQueue(x) \/ x = c
      BY <1>5, <3>2
    <3>4. InQueue(x) => x \in 0..calls
      BY DEF InQueue, IInv, Places
    <3> QED BY <1>3, <3>1, <3>3, <3>4
  <2>2. \A q \in Payers : pc'[q] \in {"hand", "handler"} => pc[q] = pc'[q]
    BY <1>6
  <2> QED BY <1>2, <1>4, <1>5, <1>8, <2>1, <2>2 DEF IInv, Places
<1>10. \A x \in 1..calls : /\ Placed(x)' <=> Placed(x)
                           /\ Hand(x)' \/ InQueue(x)' => Hand(x) \/ InQueue(x)
                           /\ AtJob(x) => AtJob(x)'
  BY <1>3, <1>5, <1>8 DEF Placed
<1>11. Ids' /\ Match' /\ Accounted'
  <2>1. \A q \in Payers : pc'[q] = "handler" <=> pc[q] = "handler"
    BY <1>2, <1>6
  <2> QED BY <1>2, <1>10, <2>1, Passed
<1> QED BY <1>7, <1>9, <1>11 DEF IInv

LEMMA GetCandidateKeeps ==
  ASSUME IInv, NEW t \in G!Threads, G!GetCandidate(t), UNCHANGED <<engine, decOf>>
  PROVE  IInv'
<1>1. PICK c : c = Head(queue)
  OBVIOUS
<1>2. /\ UNCHANGED <<pc, cand, calls, starts, mode, host, fates>>
      /\ queue # <<>> /\ c # 0 /\ queue' = Tail(queue)
      /\ item' = [item EXCEPT ![t] = c]
      /\ tpc[t] = "get" /\ tpc' = [tpc EXCEPT ![t] = "run"]
  BY <1>1 DEF G!GetCandidate, G!Move, G!Payment, G!Host, G!Record
<1>3. /\ queue' \in Seq(0..MaxCalls) /\ InQueue(c)
      /\ \A x : x # 0 => (InQueue(x)' <=> (InQueue(x) /\ x # c))
      /\ \A x : InQueue(x)' => InQueue(x)
      /\ \A i, j \in 1..Len(queue') : queue'[i] = queue'[j] /\ queue'[i] # 0 => i = j
  BY <1>1, <1>2, QueueGet DEF IInv, Places
<1>4. c \in 1..calls
  BY <1>2, <1>3 DEF InQueue, IInv, Places, Shape
<1>5. PICK T : T = G!Threads
  OBVIOUS
<1>6. t \in T /\ \A u \in T : u = t
  BY <1>5
<1>7. /\ tpc' = [u \in T |-> tpc'[u]] /\ item' = [u \in T |-> item'[u]]
      /\ tpc'[t] = "run" /\ item'[t] = c
  <2>1. tpc = [u \in T |-> tpc[u]] /\ item = [u \in T |-> item[u]]
    BY <1>5 DEF IInv, Shape
  <2> QED BY <1>2, <1>6, <2>1
<1>8. starts # 0
  BY <1>2 DEF IInv, Shape
<1>9. Shape'
  BY <1>2, <1>3, <1>5, <1>7, <1>8 DEF IInv, Shape, engine
<1>10. \A x : /\ Hand(x)' <=> Hand(x)
              /\ AtJob(x)' <=> x = c
              /\ ~AtJob(x)
  <2>1. \A x : Hand(x)' <=> Hand(x)
    BY <1>2 DEF Hand
  <2>2. \A x : AtJob(x)' <=> \E u \in T : tpc'[u] = "run" /\ item'[u] = x
    BY <1>5 DEF AtJob
  <2>3. \A x : AtJob(x) <=> \E u \in T : tpc[u] = "run" /\ item[u] = x
    BY <1>5 DEF AtJob
  <2> QED BY <1>2, <1>6, <1>7, <2>1, <2>2, <2>3
<1>11. Places'
  <2>1. \A i \in 1..Len(queue') : queue'[i] \in 0..calls
    <3> SUFFICES ASSUME NEW i \in 1..Len(queue') PROVE queue'[i] \in 0..calls
      OBVIOUS
    <3>1. PICK x : x = queue'[i]
      OBVIOUS
    <3>2. InQueue(x)'
      BY <3>1 DEF InQueue
    <3> QED BY <1>3, <3>1, <3>2 DEF InQueue, IInv, Places
  <2>2. \A u \in G!Threads : tpc'[u] = "run" => item'[u] \in 1..calls
    BY <1>4, <1>5, <1>6, <1>7
  <2>3. \A x : Hand(x)' => ~InQueue(x)' /\ ~AtJob(x)'
    BY <1>3, <1>10 DEF IInv, Places
  <2>4. \A x : AtJob(x)' => ~InQueue(x)'
    BY <1>2, <1>3, <1>10
  <2> QED BY <1>2, <1>3, <2>1, <2>2, <2>3, <2>4 DEF IInv, Places
<1>12. \A x \in 1..calls : /\ Placed(x)' <=> Placed(x)
                           /\ Hand(x)' \/ InQueue(x)' => Hand(x) \/ InQueue(x)
                           /\ AtJob(x) => AtJob(x)'
  BY <1>3, <1>10 DEF Placed, Shape, IInv
<1>13. Ids' /\ Match' /\ Accounted'
  BY <1>2, <1>12, Passed
<1> QED BY <1>9, <1>11, <1>13 DEF IInv

----------------------------------------------------------------------------
(* Steps of the worker in the engine.                                     *)

\* There is one worker.
LEMMA OneWorker ==
  ASSUME IInv, NEW t \in G!Threads, tpc[t] = "run", NEW c, c = item[t]
  PROVE  c \in 1..calls /\ \A x : AtJob(x) <=> x = c
<1>1. \A u \in G!Threads : u = t
  OBVIOUS
<1>2. \A x : AtJob(x) <=> x = c
  BY <1>1 DEF AtJob
<1> QED BY <1>2 DEF IInv, Places

\* The checks are done: what waited is under evaluation.
LEMMA CheckKeeps ==
  ASSUME IInv, NEW t \in G!Threads, Check(t) PROVE IInv'
<1>1. PICK c : c = item[t]
  OBVIOUS
<1>2. tpc[t] = "run"
  BY DEF Check, AtWork
<1>3. c \in 1..calls /\ \A x : AtJob(x) <=> x = c
  BY <1>1, <1>2, OneWorker
<1>4. PICK e : e \in pending[1] /\ e.dec = DecOf(item[t]) /\ E!RunTheChecks(1, e)
  BY DEF Check
<1>5. PICK r : /\ r.dec = e.dec
               /\ running' = [running EXCEPT ![1] = running[1] \cup {r}]
  <2>1. PICK r : /\ r = [dec |-> e.dec, cand |-> e.cand, checks |-> E!ChecksOf(1, e)]
                 /\ running' = [running EXCEPT ![1] = running[1] \cup {r}]
    BY <1>4 DEF E!RunTheChecks
  <2> QED BY <2>1
<1>6. /\ UNCHANGED <<guard, decOf, ledger, epc, held, decs, ehost>>
      /\ pending' = [pending EXCEPT ![1] = pending[1] \ {e}]
  BY <1>4 DEF Check, E!RunTheChecks, E!Take
<1>7. /\ pending'[1] = pending[1] \ {e} /\ pending' = [p \in {1} |-> pending'[1]]
      /\ running'[1] = running[1] \cup {r} /\ running' = [p \in {1} |-> running'[1]]
  BY <1>5, <1>6 DEF IInv, Shape
<1>8. PICK d : d = e.dec
  OBVIOUS
<1>9. d = decOf[c] /\ d \in Waiting
  <2>1. DecOf(c) = decOf[c]
    BY <1>3, DecIs DEF IInv
  <2> QED BY <1>1, <1>4, <1>8, <2>1 DEF Waiting
<1>10. /\ Waiting' = Waiting \ {d} /\ Checked' = Checked \cup {d}
  <2>1. \A f \in pending[1] : f.dec = e.dec => f = e
    BY <1>4 DEF IInv, Match
  <2>2. Waiting' = Waiting \ {d}
    BY <1>4, <1>7, <1>8, <2>1 DEF Waiting
  <2>3. Checked' = Checked \cup {d}
    BY <1>5, <1>7, <1>8 DEF Checked
  <2> QED BY <2>2, <2>3
<1>11. Shape'
  BY <1>6, <1>7 DEF IInv, Shape, guard
<1>12. \A x : /\ Hand(x)' <=> Hand(x)
              /\ InQueue(x)' <=> InQueue(x)
              /\ AtJob(x)' <=> AtJob(x)
  BY <1>6 DEF guard, Hand, InQueue, AtJob
<1>13. Places'
  BY <1>6, <1>12 DEF IInv, Places, guard
<1>14. Ids'
  BY <1>6 DEF IInv, Ids, Inside, guard
<1>15. Match'
  <2>1. \A x \in 1..calls : Hand(x) \/ InQueue(x) => decOf[x] # d
    BY <1>3, <1>9 DEF IInv, Places, Ids, Match, Placed
  <2>2. d \notin Checked
    BY <1>9 DEF IInv, Match
  <2>3. \A f, g \in pending'[1] : f.dec = g.dec => f = g
    BY <1>7 DEF IInv, Match
  <2>4. \A f, g \in running'[1] : f.dec = g.dec => f = g
    BY <1>5, <1>7, <1>8, <2>2 DEF IInv, Match, Checked
  <2>5. \A x : Placed(x)' <=> Placed(x)
    BY <1>12 DEF Placed
  <2>6. calls' = calls /\ decOf' = decOf
    BY <1>6 DEF guard
  <2>7. \A f \in Checked' : \E x \in 1..calls : AtJob(x) /\ decOf[x] = f
    BY <1>3, <1>9, <1>10 DEF IInv, Match
  <2> QED BY <1>10, <1>12, <2>1, <2>2, <2>3, <2>4, <2>5, <2>6, <2>7 DEF IInv, Match
<1>16. Accounted'
  <2>1. \A x : (IsDropped(x) => IsDropped(x)') /\ (IsFailing(x) => IsFailing(x)')
    BY <1>6 DEF guard, IsDropped, IsFailing
  <2> QED BY <1>6, <1>10, <2>1, CoveredStays DEF IInv
<1> QED BY <1>11, <1>13, <1>14, <1>15, <1>16 DEF IInv

\* An evaluation is over: its judgment is in the ledger, or may be.
LEMMA EvaluationEnds ==
  ASSUME IInv, NEW r, r \in running[1], NEW j,
         \/ E!RecordOf(1, r, j)
         \/ E!RecordFailsOf(1, r, j)
  PROVE  /\ UNCHANGED <<epc, held, pending, decs, ehost>>
         /\ running' = [p \in {1} |-> running'[1]]
         /\ \A f, g \in running'[1] : f.dec = g.dec => f = g
         /\ Waiting' = Waiting
         /\ \A d : d = r.dec => Checked' = Checked \ {d}
         /\ \E S : ledger' \in Seq(S)
         /\ \A i \in DOMAIN ledger' : \/ ledger'[i].dec = r.dec
                                      \/ \E k \in DOMAIN ledger : ledger'[i].dec = ledger[k].dec
         /\ \A d : IsNew(d)' <=> IsNew(d)
         /\ \A d : IsJudged(d) => IsJudged(d)'
         /\ E!RecordOf(1, r, j) => \A d : d = r.dec => IsJudged(d)'
<1>1. PICK e : e = E!Evaluated(r, j)
  OBVIOUS
<1>2. e.type = "guard_evaluated" /\ e.dec = r.dec
  BY <1>1 DEF E!Evaluated
<1>3. /\ UNCHANGED <<epc, held, pending, decs, ehost>>
      /\ running' = [running EXCEPT ![1] = running[1] \ {r}]
      /\ ledger' \in {ledger, Append(ledger, e)}
      /\ E!RecordOf(1, r, j) => ledger' = Append(ledger, e)
  <2>1. CASE E!RecordOf(1, r, j)
    BY <1>1, <2>1 DEF E!RecordOf
  <2>2. CASE E!RecordFailsOf(1, r, j)
    <3>1. /\ UNCHANGED <<epc, held, pending, decs, ehost>>
          /\ running' = [running EXCEPT ![1] = running[1] \ {r}]
          /\ ledger' \in {ledger, Append(ledger, e)}
      BY <1>1, <2>2 DEF E!RecordFailsOf
    <3>2. E!RecordOf(1, r, j) => ledger' = Append(ledger, e)
      BY <1>1 DEF E!RecordOf
    <3> QED BY <3>1, <3>2
  <2> QED BY <2>1, <2>2
<1>4. running'[1] = running[1] \ {r} /\ running' = [p \in {1} |-> running'[1]]
  BY <1>3 DEF IInv, Shape
<1>5. \A f, g \in running'[1] : f.dec = g.dec => f = g
  BY <1>4 DEF IInv, Match
<1>6. ASSUME NEW d, d = r.dec PROVE Checked' = Checked \ {d}
  <2>1. \A f \in running[1] : f.dec = d => f = r
    BY <1>6 DEF IInv, Match
  <2> QED BY <1>4, <1>6, <2>1 DEF Checked
<1>7. Waiting' = Waiting
  BY <1>3 DEF Waiting
<1>8. CASE ledger' = ledger
  <2>1. \A d : (IsNew(d)' <=> IsNew(d)) /\ (IsJudged(d)' <=> IsJudged(d))
    BY <1>8 DEF IsNew, IsJudged, E!NoDup
  <2>2. \E S : ledger' \in Seq(S)
    BY <1>8 DEF IInv, Shape
  <2>3. E!RecordOf(1, r, j) => \A d : d = r.dec => IsJudged(d)'
    <3>1. ledger' # Append(ledger, e)
      <4> SUFFICES ASSUME ledger' = Append(ledger, e) PROVE FALSE
        OBVIOUS
      <4>1. PICK n : n \notin DOMAIN ledger /\ n \in DOMAIN ledger'
        BY LedgerGrows DEF IInv
      <4> QED BY <1>8, <4>1
    <3> QED BY <1>3, <3>1
  <2> QED BY <1>3, <1>4, <1>5, <1>6, <1>7, <1>8, <2>1, <2>2, <2>3
<1>9. CASE ledger' = Append(ledger, e)
  <2>1. /\ \A d : IsJudged(d)' <=> (IsJudged(d) \/ (e.type = "guard_evaluated" /\ e.dec = d))
        /\ \A d : IsNew(d)' <=> (IsNew(d) \/ (/\ e.type = "candidate_observed"
                                              /\ e.duplicate_of = E!NoDup /\ e.dec = d))
        /\ \A i \in DOMAIN ledger' : \/ ledger'[i].dec = e.dec
                                     \/ \E k \in DOMAIN ledger : ledger'[i].dec = ledger[k].dec
        /\ \E S : ledger' \in Seq(S)
    BY <1>9, EventAdds DEF IInv
  <2>2. \A d : IsNew(d)' <=> IsNew(d)
    BY <1>2, <2>1
  <2>3. \A d : (IsJudged(d) => IsJudged(d)') /\ (d = r.dec => IsJudged(d)')
    BY <1>2, <2>1
  <2> QED BY <1>2, <1>3, <1>4, <1>5, <1>6, <1>7, <2>1, <2>2, <2>3
<1> QED BY <1>3, <1>8, <1>9

\* What the end of an evaluation leaves of the match.
LEMMA RecordKeeps ==
  ASSUME IInv, NEW t \in G!Threads, Record(t) PROVE IInv'
<1>1. PICK c : c = item[t]
  OBVIOUS
<1>2. tpc[t] = "run" /\ UNCHANGED <<guard, decOf>>
  BY DEF Record, AtWork
<1>3. c \in 1..calls /\ \A x : AtJob(x) <=> x = c
  BY <1>1, <1>2, OneWorker
<1>4. PICK r \in running[1] : r.dec = DecOf(item[t]) /\ E!Record(1, r)
  BY DEF Record
<1>5. PICK j : E!RecordOf(1, r, j)
  BY <1>4 DEF E!Record
<1>6. PICK d : d = r.dec
  OBVIOUS
<1>7. /\ UNCHANGED <<epc, held, pending, decs, ehost>>
      /\ running' = [p \in {1} |-> running'[1]]
      /\ \A f, g \in running'[1] : f.dec = g.dec => f = g
      /\ Waiting' = Waiting /\ Checked' = Checked \ {d}
      /\ \E S : ledger' \in Seq(S)
      /\ \A i \in DOMAIN ledger' : \/ ledger'[i].dec = d
                                   \/ \E k \in DOMAIN ledger : ledger'[i].dec = ledger[k].dec
      /\ \A x : IsNew(x)' <=> IsNew(x)
      /\ \A x : IsJudged(x) => IsJudged(x)'
      /\ IsJudged(d)'
  BY <1>5, <1>6, EvaluationEnds
<1>8. d = decOf[c] /\ d \in Checked
  <2>1. DecOf(c) = decOf[c]
    BY <1>3, DecIs DEF IInv
  <2> QED BY <1>1, <1>4, <1>6, <2>1 DEF Checked
<1>9. Shape'
  BY <1>2, <1>7 DEF IInv, Shape, guard
<1>10. \A x : /\ Hand(x)' <=> Hand(x)
              /\ InQueue(x)' <=> InQueue(x)
              /\ AtJob(x)' <=> AtJob(x)
              /\ Placed(x)' <=> Placed(x)
  BY <1>2 DEF guard, Hand, InQueue, AtJob, Placed
<1>11. Places'
  BY <1>2, <1>10 DEF IInv, Places, guard
<1>12. Ids'
  <2>1. d \in 1..decs
    <3>1. d \in 0..decs /\ d # 0
      BY <1>3, <1>8 DEF IInv, Ids, Match, Placed
    <3> QED BY <3>1 DEF IInv, Shape
  <2>2. \A i \in DOMAIN ledger' : ledger'[i].dec \in 1..decs
    BY <1>7, <2>1 DEF IInv, Ids
  <2> QED BY <1>2, <1>7, <2>2 DEF IInv, Ids, Inside, guard
<1>13. Match'
  <2>1. calls' = calls /\ decOf' = decOf
    BY <1>2 DEF guard
  <2> QED BY <1>7, <1>10, <2>1 DEF IInv, Match
<1>14. Accounted'
  <2>1. \A x : /\ IsDropped(x) => IsDropped(x)'
               /\ IsFailing(x) => IsFailing(x)'
               /\ IsInside(x) => IsInside(x)'
    BY <1>2, <1>7 DEF guard, IsDropped, IsFailing, IsInside, Inside
  <2>2. \A x : Covered(x) => Covered(x)'
    BY <1>7, <2>1 DEF Covered
  <2>3. Inside' = Inside /\ held' = held
    BY <1>7 DEF Inside
  <2> QED BY <1>7, <2>2, <2>3 DEF IInv, Accounted
<1> QED BY <1>9, <1>11, <1>12, <1>13, <1>14 DEF IInv

\* The worker's call of evaluate() is over.
LEMMA JobEnds ==
  ASSUME IInv, NEW t \in G!Threads, tpc[t] = "run", tpc' = [tpc EXCEPT ![t] = "loop"],
         UNCHANGED <<pc, cand, calls, queue, item, starts, mode, host, decOf>>
  PROVE  /\ tpc' = [u \in G!Threads |-> tpc'[u]] /\ starts' # 0
         /\ \A x : /\ Hand(x)' <=> Hand(x)
                   /\ InQueue(x)' <=> InQueue(x)
                   /\ ~AtJob(x)'
         /\ Places'
<1>1. PICK T : T = G!Threads
  OBVIOUS
<1>2. t \in T /\ \A u \in T : u = t
  BY <1>1
<1>3. tpc' = [u \in T |-> tpc'[u]] /\ tpc'[t] = "loop"
  <2>1. tpc = [u \in T |-> tpc[u]]
    BY <1>1 DEF IInv, Shape
  <2> QED BY <1>2, <2>1
<1>4. starts # 0
  BY DEF IInv, Shape
<1>5. \A x : ~AtJob(x)'
  <2>1. \A x : AtJob(x)' <=> \E u \in T : tpc'[u] = "run" /\ item'[u] = x
    BY <1>1 DEF AtJob
  <2> QED BY <1>2, <1>3, <2>1
<1>6. \A x : (Hand(x)' <=> Hand(x)) /\ (InQueue(x)' <=> InQueue(x))
  BY DEF Hand, InQueue
<1>7. \A u \in G!Threads : tpc'[u] # "run"
  BY <1>1, <1>2, <1>3
<1>8. Places'
  BY <1>5, <1>6, <1>7 DEF IInv, Places
<1> QED BY <1>1, <1>3, <1>4, <1>5, <1>6, <1>8

\* It returned, and it is counted.
LEMMA CountKeeps ==
  ASSUME IInv, NEW t \in G!Threads, Count(t) PROVE IInv'
<1> USE DEF engine
<1>1. PICK c : c = item[t]
  OBVIOUS
<1>2. /\ tpc[t] = "run" /\ tpc' = [tpc EXCEPT ![t] = "loop"]
      /\ UNCHANGED <<pc, cand, calls, queue, item, starts, mode, host, engine, decOf>>
      /\ fates' = [fates EXCEPT ![c] = fates[c] \cup {"evaluated"}]
  BY <1>1 DEF Count, G!Run, G!Leave, G!Settle, G!Move, G!Payment, G!Host
<1>3. c \in 1..calls /\ \A x : AtJob(x) <=> x = c
  BY <1>1, <1>2, OneWorker
<1>4. decOf[c] \notin Waiting \cup Checked
  <2>1. DecOf(c) = decOf[c]
    BY <1>3, DecIs DEF IInv
  <2> QED BY <1>1, <2>1 DEF Count, Evaluated
<1>5. /\ fates' = [d \in G!Candidates |-> fates'[d]]
      /\ \A d : IsDropped(d) => IsDropped(d)'
  BY <1>2, <1>3, Drops DEF IInv
<1>6. /\ tpc' = [u \in G!Threads |-> tpc'[u]] /\ starts' # 0
      /\ \A x : /\ Hand(x)' <=> Hand(x)
                /\ InQueue(x)' <=> InQueue(x)
                /\ ~AtJob(x)'
      /\ Places'
  BY <1>2, JobEnds
<1>7. Shape'
  BY <1>2, <1>5, <1>6 DEF IInv, Shape
<1>8. Waiting' = Waiting /\ Checked' = Checked
  BY <1>2 DEF Waiting, Checked
<1>9. Ids'
  BY <1>2 DEF IInv, Ids, Inside
<1>10. Match'
  <2>1. \A d \in Waiting : \E x \in 1..calls : Placed(x) /\ x # c /\ decOf[x] = d
    BY <1>4 DEF IInv, Match
  <2>2. Checked = {}
    BY <1>3, <1>4 DEF IInv, Match
  <2>3. \A x : Placed(x)' <=> (Placed(x) /\ ~AtJob(x))
    BY <1>3, <1>6 DEF Placed, IInv, Places
  <2> QED BY <1>2, <1>3, <1>6, <1>8, <2>1, <2>2, <2>3 DEF IInv, Match
<1>11. Accounted'
  <2>1. \A d : IsFailing(d) => IsFailing(d)'
    BY <1>2 DEF IsFailing
  <2> QED BY <1>2, <1>5, <1>8, <2>1, CoveredStays DEF IInv
<1> QED BY <1>6, <1>7, <1>9, <1>10, <1>11 DEF IInv

\* It raised, and the call is counted as dropped.
LEMMA EvaluateRaisesKeeps ==
  ASSUME IInv, NEW t \in G!Threads, EvaluateRaises(t) PROVE IInv'
<1>1. PICK c : c = item[t]
  OBVIOUS
<1>2. /\ tpc[t] = "run" /\ tpc' = [tpc EXCEPT ![t] = "loop"]
      /\ UNCHANGED <<pc, cand, calls, queue, item, starts, mode, host, decOf>>
      /\ fates' = [fates EXCEPT ![c] = fates[c] \cup {"dropped"}]
  BY <1>1 DEF EvaluateRaises, G!RunFails, G!Leave, G!Settle, G!Move, G!Payment, G!Host,
              G!LogOutcome, G!Loud, IInv, Shape
<1>3. c \in 1..calls /\ \A x : AtJob(x) <=> x = c
  BY <1>1, <1>2, OneWorker
<1>4. PICK r \in running[1] : r.dec = DecOf(item[t]) /\ E!RecordFails(1, r)
  BY DEF EvaluateRaises
<1>5. PICK j : E!RecordFailsOf(1, r, j)
  BY <1>4 DEF E!RecordFails
<1>6. PICK d : d = r.dec
  OBVIOUS
<1>7. /\ UNCHANGED <<epc, held, pending, decs, ehost>>
      /\ running' = [p \in {1} |-> running'[1]]
      /\ \A f, g \in running'[1] : f.dec = g.dec => f = g
      /\ Waiting' = Waiting /\ Checked' = Checked \ {d}
      /\ \E S : ledger' \in Seq(S)
      /\ \A i \in DOMAIN ledger' : \/ ledger'[i].dec = d
                                   \/ \E k \in DOMAIN ledger : ledger'[i].dec = ledger[k].dec
      /\ \A x : IsNew(x)' <=> IsNew(x)
      /\ \A x : IsJudged(x) => IsJudged(x)'
  BY <1>5, <1>6, EvaluationEnds
<1>8. d = decOf[c] /\ d \in Checked
  <2>1. DecOf(c) = decOf[c]
    BY <1>3, DecIs DEF IInv
  <2> QED BY <1>1, <1>4, <1>6, <2>1 DEF Checked
<1>9. /\ fates' = [x \in G!Candidates |-> fates'[x]]
      /\ \A x : IsDropped(x) => IsDropped(x)'
      /\ IsDropped(d)'
  BY <1>2, <1>3, <1>8, Drops DEF IInv
<1>10. /\ tpc' = [u \in G!Threads |-> tpc'[u]] /\ starts' # 0
       /\ \A x : /\ Hand(x)' <=> Hand(x)
                 /\ InQueue(x)' <=> InQueue(x)
                 /\ ~AtJob(x)'
       /\ Places'
  BY <1>2, JobEnds
<1>11. Shape'
  BY <1>2, <1>7, <1>9, <1>10 DEF IInv, Shape
<1>12. Ids'
  <2>1. d \in 1..decs
    <3>1. d \in 0..decs /\ d # 0
      BY <1>3, <1>8 DEF IInv, Ids, Match, Placed
    <3> QED BY <3>1 DEF IInv, Shape
  <2>2. \A i \in DOMAIN ledger' : ledger'[i].dec \in 1..decs
    BY <1>7, <2>1 DEF IInv, Ids
  <2> QED BY <1>2, <1>7, <2>2 DEF IInv, Ids, Inside
<1>13. Match'
  <2>1. \A x \in Waiting : \E y \in 1..calls : Placed(y) /\ y # c /\ decOf[y] = x
    BY <1>8 DEF IInv, Match
  <2>2. \A x \in Checked : x = d
    BY <1>3, <1>8 DEF IInv, Match
  <2>3. \A x : Placed(x)' <=> (Placed(x) /\ ~AtJob(x))
    BY <1>3, <1>10 DEF Placed, IInv, Places
  <2>4. Checked' = {}
    BY <1>7, <2>2
  <2> QED BY <1>2, <1>3, <1>7, <1>10, <2>1, <2>3, <2>4 DEF IInv, Match
<1>14. Accounted'
  <2>1. \A x : /\ IsFailing(x) => IsFailing(x)'
               /\ IsInside(x) => IsInside(x)'
    BY <1>2, <1>7 DEF IsFailing, IsInside, Inside
  <2>2. \A x : Covered(x) => Covered(x)'
    BY <1>7, <1>9, <2>1 DEF Covered
  <2>3. Inside' = Inside /\ held' = held
    BY <1>7 DEF Inside
  <2> QED BY <1>7, <2>2, <2>3 DEF IInv, Accounted
<1> QED BY <1>10, <1>11, <1>12, <1>13, <1>14 DEF IInv

----------------------------------------------------------------------------
(* Steps of a payment thread.                                             *)

\* The queue is full: the engine need not wait for this call any more.
LEMMA EnqueueFullKeeps ==
  ASSUME IInv, NEW p \in Payers, EnqueueFull(p) PROVE IInv'
<1>1. PICK c : c = cand[p]
  OBVIOUS
<1>2. /\ UNCHANGED <<cand, calls, queue, tpc, item, starts, mode, host, decOf>>
      /\ pc[p] = "hand" /\ pc' = [pc EXCEPT ![p] = "idle"]
      /\ fates' = [fates EXCEPT ![c] = fates[c] \cup {"dropped"}]
  BY <1>1 DEF EnqueueFull, G!EnqueueFull, G!Leave, G!Settle, G!Goto, G!LogOutcome, G!Loud,
              G!Queue, G!Drain, G!Host, IInv, Shape
<1>3. c \in 1..calls /\ Hand(c)
  BY <1>1, <1>2 DEF IInv, Places, Hand
<1>4. PICK e \in pending[1] : e.dec = DecOf(cand[p]) /\ E!Drop(1, e)
  BY DEF EnqueueFull
<1>5. /\ UNCHANGED <<ledger, epc, held, running, decs, ehost>>
      /\ pending' = [pending EXCEPT ![1] = pending[1] \ {e}]
  BY <1>4 DEF E!Drop, E!Take
<1>6. pending'[1] = pending[1] \ {e} /\ pending' = [q \in {1} |-> pending'[1]]
  BY <1>5 DEF IInv, Shape
<1>7. PICK d : d = e.dec
  OBVIOUS
<1>8. d = decOf[c] /\ d # 0
  <2>1. DecOf(c) = decOf[c]
    BY <1>3, DecIs DEF IInv
  <2> QED BY <1>1, <1>3, <1>4, <1>7, <2>1 DEF IInv, Match, Placed
<1>9. Waiting' = Waiting \ {d} /\ Checked' = Checked
  <2>1. \A f \in pending[1] : f.dec = e.dec => f = e
    BY <1>4 DEF IInv, Match
  <2> QED BY <1>4, <1>5, <1>6, <1>7, <2>1 DEF Waiting, Checked
<1>10. /\ fates' = [x \in G!Candidates |-> fates'[x]]
       /\ \A x : IsDropped(x) => IsDropped(x)'
       /\ IsDropped(d)'
  BY <1>2, <1>3, <1>8, Drops DEF IInv
<1>11. pc' = [q \in Payers |-> pc'[q]] /\ pc'[p] = "idle" /\ \A q \in Payers : q # p => pc'[q] = pc[q]
  BY <1>2 DEF IInv, Shape
<1>12. Shape'
  BY <1>2, <1>5, <1>6, <1>10, <1>11 DEF IInv, Shape
<1>13. \A x : /\ Hand(x)' <=> (Hand(x) /\ x # c)
              /\ InQueue(x)' <=> InQueue(x)
              /\ AtJob(x)' <=> AtJob(x)
  <2>1. \A x : (AtJob(x)' <=> AtJob(x)) /\ (InQueue(x)' <=> InQueue(x))
    BY <1>2 DEF AtJob, InQueue
  <2>2. \A q \in Payers : pc'[q] = "hand" <=> (pc[q] = "hand" /\ q # p)
    BY <1>11
  <2>3. \A q \in Payers : pc[q] = "hand" /\ cand[q] = c => q = p
    BY <1>1, <1>2 DEF IInv, Places
  <2>4. \A x : Hand(x)' <=> (Hand(x) /\ x # c)
    BY <1>1, <1>2, <2>2, <2>3 DEF Hand
  <2> QED BY <2>1, <2>4
<1>14. Places'
  <2>1. \A q \in Payers : pc'[q] \in {"hand", "handler"} => pc[q] = pc'[q]
    BY <1>11
  <2> QED BY <1>2, <1>13, <2>1 DEF IInv, Places
<1>15. Ids'
  BY <1>2, <1>5 DEF IInv, Ids, Inside
<1>16. Match'
  <2>1. \A x \in 1..calls : Hand(x)' \/ InQueue(x)' => decOf[x] # d
    BY <1>3, <1>8, <1>13 DEF IInv, Places, Ids
  <2>2. \A f \in Waiting' : \E x \in 1..calls : Placed(x) /\ x # c /\ decOf[x] = f
    BY <1>8, <1>9 DEF IInv, Match
  <2>3. \A x : Placed(x)' <=> (Placed(x) /\ x # c)
    BY <1>3, <1>13 DEF Placed, IInv, Places
  <2>4. \A f, g \in pending'[1] : f.dec = g.dec => f = g
    BY <1>6 DEF IInv, Match
  <2> QED BY <1>2, <1>5, <1>9, <1>13, <2>1, <2>2, <2>3, <2>4 DEF IInv, Match
<1>17. Accounted'
  <2>1. \A x : IsFailing(x) => IsFailing(x)'
    BY <1>2, <1>11 DEF IsFailing
  <2> QED BY <1>5, <1>9, <1>10, <2>1, CoveredStays DEF IInv
<1> QED BY <1>12, <1>14, <1>15, <1>16, <1>17 DEF IInv

\* A call of observe() begins: it gets a new decision id.
LEMMA EnterKeeps ==
  ASSUME IInv, NEW p \in Payers, Enter(p) PROVE IInv'
<1>1. PICK raw : E!LookupOf(p, raw)
  BY DEF Enter, E!Lookup
<1>2. PICK c, dup : held' = [held EXCEPT ![p] = [dec |-> decs', cand |-> c, duplicate_of |-> dup]]
  BY <1>1 DEF E!LookupOf
<1>3. /\ pc[p] = "idle" /\ epc[p] = "idle" /\ UNCHANGED <<guard, decOf>>
      /\ decs' = decs + 1 /\ epc' = [epc EXCEPT ![p] = "append"]
      /\ UNCHANGED <<ledger, pending, running, ehost>>
  BY <1>1 DEF Enter, MayEnter, E!LookupOf
<1>4. PICK d : d = decs + 1
  OBVIOUS
<1>5. /\ held' = [q \in Payers |-> held'[q]] /\ epc' = [q \in Payers |-> epc'[q]]
      /\ held'[p].dec = d /\ epc'[p] = "append"
      /\ \A q \in Payers : q # p => held'[q] = held[q] /\ epc'[q] = epc[q]
  BY <1>2, <1>3, <1>4 DEF IInv, Shape
<1>6. Inside' = Inside \cup {p} /\ p \notin Inside
  BY <1>3, <1>5 DEF Inside
<1>7. decs \in Nat /\ d \notin 0..decs /\ d \in 1..decs' /\ 1..decs \subseteq 1..decs'
      /\ 0..decs \subseteq 0..decs'
  BY <1>3, <1>4 DEF IInv, Shape
<1>8. Shape'
  BY <1>3, <1>5, <1>7 DEF IInv, Shape, guard
<1>9. \A x : /\ Hand(x)' <=> Hand(x)
             /\ InQueue(x)' <=> InQueue(x)
             /\ AtJob(x)' <=> AtJob(x)
             /\ Placed(x)' <=> Placed(x)
  BY <1>3 DEF guard, Hand, InQueue, AtJob, Placed
<1>10. Places'
  BY <1>3, <1>9 DEF IInv, Places, guard
<1>11. Ids'
  <2>1. UNCHANGED <<calls, decOf, ledger>>
    BY <1>3 DEF guard
  <2>2. \A q \in Inside : q # p /\ held'[q] = held[q]
    BY <1>5, <1>6 DEF Inside
  <2>3. \A q \in Inside' : held'[q].dec \in 1..decs'
    BY <1>5, <1>6, <1>7, <2>2 DEF IInv, Ids
  <2>4. \A q \in Inside', x \in 1..calls : decOf[x] # held'[q].dec
    BY <1>5, <1>6, <1>7, <2>2 DEF IInv, Ids
  <2>5. \A q, s \in Inside' : held'[q].dec = held'[s].dec => q = s
    <3>1. \A q \in Inside : held'[q].dec # d
      BY <1>7, <2>2 DEF IInv, Ids
    <3> QED BY <1>5, <1>6, <2>2, <3>1 DEF IInv, Ids
  <2> QED BY <1>7, <2>1, <2>3, <2>4, <2>5 DEF IInv, Ids
<1>12. Waiting' = Waiting /\ Checked' = Checked
  BY <1>3 DEF Waiting, Checked
<1>13. Match'
  BY <1>3, <1>9, <1>12 DEF IInv, Match, guard
<1>14. Accounted'
  <2>1. \A q \in Inside : q # p /\ held'[q] = held[q]
    BY <1>5, <1>6 DEF Inside
  <2>2. \A x : /\ IsDropped(x) => IsDropped(x)'
               /\ IsFailing(x) => IsFailing(x)'
    BY <1>3 DEF guard, IsDropped, IsFailing
  <2>3. \A x : IsInside(x) => IsInside(x)'
    BY <1>6, <2>1 DEF IsInside
  <2>4. \A x : (IsNew(x)' <=> IsNew(x)) /\ (IsJudged(x)' <=> IsJudged(x))
    BY <1>3 DEF IsNew, IsJudged, E!NoDup
  <2>5. \A x : Covered(x) => Covered(x)'
    BY <1>12, <2>2, <2>3, <2>4 DEF Covered
  <2>6. ~IsNew(d)
    BY <1>7 DEF IsNew, IInv, Ids
  <2>7. ASSUME NEW x, IsNew(x)', NEW q \in Inside', held'[q].dec = x
        PROVE  held'[q].duplicate_of = E!NoDup
    <3>1. IsNew(x) /\ q # p
      BY <1>5, <2>4, <2>6, <2>7
    <3>2. q \in Inside /\ held'[q] = held[q]
      BY <1>6, <2>1, <3>1
    <3> QED BY <2>7, <3>1, <3>2 DEF IInv, Accounted
  <2> QED BY <2>4, <2>5, <2>7 DEF IInv, Accounted, E!NoDup
<1> QED BY <1>8, <1>10, <1>11, <1>13, <1>14 DEF IInv

LEMMA AppendObservedKeeps ==
  ASSUME IInv, NEW p \in Payers, AppendObserved(p) PROVE IInv'
<1>1. PICK e : e = E!Observed(p)
  OBVIOUS
<1>2. PICK d : d = held[p].dec
  OBVIOUS
<1>3. /\ e.type = "candidate_observed" /\ e.dec = d
      /\ e.duplicate_of = held[p].duplicate_of
  BY <1>1, <1>2 DEF E!Observed
<1>4. /\ epc[p] = "append" /\ epc' = [epc EXCEPT ![p] = "index"]
      /\ ledger' = Append(ledger, e)
      /\ UNCHANGED <<guard, decOf, held, pending, running, decs, ehost>>
  BY <1>1 DEF AppendObserved, E!AppendObserved
<1>5. p \in Inside /\ d \in 1..decs
  BY <1>2, <1>4 DEF Inside, IInv, Ids
<1>6. /\ epc' = [q \in Payers |-> epc'[q]] /\ Inside' = Inside
  BY <1>4 DEF Inside, IInv, Shape
<1>7. /\ \A x : IsJudged(x)' <=> IsJudged(x)
      /\ \A x : IsNew(x)' <=> (IsNew(x) \/ (e.duplicate_of = E!NoDup /\ x = d))
      /\ \A i \in DOMAIN ledger' : ledger'[i].dec \in 1..decs
      /\ \E S : ledger' \in Seq(S)
  <2>1. /\ \A x : IsJudged(x)' <=> (IsJudged(x) \/ (e.type = "guard_evaluated" /\ e.dec = x))
        /\ \A x : IsNew(x)' <=> (IsNew(x) \/ (/\ e.type = "candidate_observed"
                                              /\ e.duplicate_of = E!NoDup /\ e.dec = x))
        /\ \A i \in DOMAIN ledger' : \/ ledger'[i].dec = e.dec
                                     \/ \E j \in DOMAIN ledger : ledger'[i].dec = ledger[j].dec
        /\ \E S : ledger' \in Seq(S)
    BY <1>4, EventAdds DEF IInv
  <2>2. \A i \in DOMAIN ledger' : ledger'[i].dec \in 1..decs
    BY <1>3, <1>5, <2>1 DEF IInv, Ids
  <2> QED BY <1>3, <2>1, <2>2
<1>8. Shape'
  <2>1. \A q \in Payers : epc'[q] # "idle" => pc[q] = "idle"
    BY <1>5, <1>6 DEF IInv, Shape, Inside
  <2> QED BY <1>4, <1>6, <1>7, <2>1 DEF IInv, Shape, guard
<1>9. \A x : /\ Hand(x)' <=> Hand(x)
             /\ InQueue(x)' <=> InQueue(x)
             /\ AtJob(x)' <=> AtJob(x)
             /\ Placed(x)' <=> Placed(x)
  BY <1>4 DEF guard, Hand, InQueue, AtJob, Placed
<1>10. Places'
  BY <1>4, <1>9 DEF IInv, Places, guard
<1>11. Ids'
  BY <1>4, <1>6, <1>7 DEF IInv, Ids, guard
<1>12. Waiting' = Waiting /\ Checked' = Checked
  BY <1>4 DEF Waiting, Checked
<1>13. Match'
  BY <1>4, <1>9, <1>12 DEF IInv, Match, guard
<1>14. Accounted'
  <2>1. \A x : /\ IsDropped(x) => IsDropped(x)'
               /\ IsFailing(x) => IsFailing(x)'
    BY <1>4 DEF guard, IsDropped, IsFailing
  <2>2. \A x : IsInside(x) <=> IsInside(x)'
    BY <1>4, <1>6 DEF IsInside
  <2>3. \A x : Covered(x) => Covered(x)'
    BY <1>7, <1>12, <2>1, <2>2 DEF Covered
  <2>4. Covered(d)'
    BY <1>2, <1>5, <2>2 DEF Covered, IsInside
  <2>5. ASSUME NEW x, IsNew(x)', NEW q \in Inside, held[q].dec = x
        PROVE  held[q].duplicate_of = E!NoDup
    <3>1. CASE IsNew(x)
      BY <2>5, <3>1 DEF IInv, Accounted
    <3>2. CASE e.duplicate_of = E!NoDup /\ x = d
      <4>1. q = p
        BY <1>2, <1>5, <2>5, <3>2 DEF IInv, Ids
      <4> QED BY <1>3, <3>2, <4>1
    <3> QED BY <1>7, <2>5, <3>1, <3>2
  <2>6. \A x : IsNew(x)' => Covered(x)'
    BY <1>7, <2>3, <2>4 DEF IInv, Accounted
  <2> QED BY <1>4, <1>6, <2>5, <2>6 DEF IInv, Accounted, E!NoDup
<1> QED BY <1>8, <1>10, <1>11, <1>13, <1>14 DEF IInv

\* The call that is over gets the next number; where it is now.
LEMMA CallOver ==
  ASSUME IInv, NEW p \in Payers, NEW place, NEW d \in Nat,
         G!Observe(p), pc'[p] = place, decOf' = Append(decOf, d)
  PROVE  /\ \E n : /\ calls' = n /\ n \notin 1..calls /\ n \in 0..MaxCalls
                   /\ \A x : x \in 1..n <=> (x \in 1..calls \/ x = n)
                   /\ decOf'[n] = d /\ \A x \in 1..calls : decOf'[x] = decOf[x]
                   /\ \A x : /\ Hand(x)' <=> (Hand(x) \/ (place = "hand" /\ x = n))
                             /\ InQueue(x)' <=> InQueue(x)
                             /\ AtJob(x)' <=> AtJob(x)
         /\ pc[p] = "idle" /\ UNCHANGED <<queue, tpc, item, starts, mode, host>>
         /\ decOf' \in Seq(Nat) /\ Len(decOf') = calls'
         /\ pc' = [q \in Payers |-> pc'[q]] /\ cand' = [q \in Payers |-> cand'[q]]
         /\ \A q \in Payers : q # p => pc'[q] = pc[q]
         /\ fates' = [c \in G!Candidates |-> fates'[c]]
         /\ Places'
         /\ \A x : IsDropped(x) => IsDropped(x)'
         /\ \A x : IsFailing(x) => IsFailing(x)'
         /\ place = "handler" => IsFailing(d)'
<1>1. PICK n : n = calls + 1
  OBVIOUS
<1>2. /\ calls < MaxCalls /\ calls' = n /\ cand' = [cand EXCEPT ![p] = n]
      /\ pc[p] = "idle" /\ UNCHANGED <<queue, tpc, item, starts, mode, host>>
      /\ \E to \in {"hand", "idle", "handler"} : pc' = [pc EXCEPT ![p] = to]
      /\ fates' = fates \/ fates' = [fates EXCEPT ![n] = fates[n] \cup {"duplicate"}]
  BY <1>1 DEF G!Observe, G!ObserveNew, G!ObserveRepeat, G!ObserveFails, G!Goto, G!Settle,
              G!Queue, G!Drain, G!Host, G!Record
<1>3. /\ calls \in Nat /\ n \in 0..MaxCalls /\ n \notin 1..calls /\ n # 0
      /\ \A x : x \in 1..n <=> (x \in 1..calls \/ x = n)
      /\ \A x : x \in 0..calls => x \in 0..n
      /\ n \in G!Candidates /\ \A x \in 1..calls : x \in G!Candidates
  BY <1>1, <1>2 DEF IInv, Shape
<1>4. /\ decOf' \in Seq(Nat) /\ Len(decOf') = n
      /\ decOf'[n] = d /\ \A x \in 1..calls : decOf'[x] = decOf[x]
  <2>1. decOf \in Seq(Nat) /\ Len(decOf) = calls
    BY DEF IInv, Shape
  <2>2. /\ decOf' \in Seq(Nat) /\ Len(decOf') = Len(decOf) + 1
        /\ \A x \in 1..Len(decOf) : decOf'[x] = decOf[x]
        /\ decOf'[Len(decOf) + 1] = d
    BY <2>1, AppendProperties
  <2> QED BY <1>1, <2>1, <2>2
<1>5. /\ pc' = [q \in Payers |-> pc'[q]] /\ cand' = [q \in Payers |-> cand'[q]]
      /\ cand'[p] = n /\ place \in {"hand", "idle", "handler"}
      /\ \A q \in Payers : q # p => pc'[q] = pc[q] /\ cand'[q] = cand[q]
  BY <1>2 DEF IInv, Shape
<1>6. /\ fates' = [c \in G!Candidates |-> fates'[c]]
      /\ \A x \in 1..calls : fates'[x] = fates[x]
  BY <1>2, <1>3 DEF IInv, Shape
<1>7. \A x : (InQueue(x)' <=> InQueue(x)) /\ (AtJob(x)' <=> AtJob(x))
  BY <1>2 DEF InQueue, AtJob
<1>8. \A x : Hand(x)' <=> (Hand(x) \/ (place = "hand" /\ x = n))
  BY <1>2, <1>5 DEF Hand
<1>9. ~Hand(n) /\ ~InQueue(n) /\ ~AtJob(n)
  <2>1. n \notin 0..calls
    BY <1>1, <1>3
  <2> QED BY <1>3, <2>1 DEF Hand, InQueue, AtJob, IInv, Places
<1>10. Places'
  <2>1. \A q \in Payers : pc'[q] \in {"hand", "handler"} => cand'[q] \in 1..n
    BY <1>3, <1>5 DEF IInv, Places
  <2>2. \A q \in Payers : q # p /\ pc[q] = "hand" => cand[q] # n
    BY <1>9 DEF Hand
  <2>3. \A q, s \in Payers :
          pc'[q] = "hand" /\ pc'[s] = "hand" /\ cand'[q] = cand'[s] => q = s
    BY <1>5, <2>2 DEF IInv, Places
  <2>4. \A x : Hand(x)' => ~InQueue(x)' /\ ~AtJob(x)'
    BY <1>7, <1>8, <1>9 DEF IInv, Places
  <2>5. \A x : AtJob(x)' => ~InQueue(x)'
    BY <1>7 DEF IInv, Places
  <2>6. \A i \in 1..Len(queue') : queue'[i] \in 0..n
    BY <1>2, <1>3 DEF IInv, Places
  <2>7. \A t \in G!Threads : tpc'[t] = "run" => item'[t] \in 1..n
    BY <1>2, <1>3 DEF IInv, Places
  <2>8. \A i, j \in 1..Len(queue') : queue'[i] = queue'[j] /\ queue'[i] # 0 => i = j
    BY <1>2 DEF IInv, Places
  <2> QED BY <1>2, <2>1, <2>3, <2>4, <2>5, <2>6, <2>7, <2>8 DEF Places
<1>11. \A x : IsDropped(x) => IsDropped(x)'
  BY <1>2, <1>3, <1>4, <1>6 DEF IsDropped
<1>12. \A x : IsFailing(x) => IsFailing(x)'
  <2>1. \A q \in Payers : pc[q] = "handler" => q # p /\ cand[q] \in 1..calls
    BY <1>2 DEF IInv, Places
  <2> QED BY <1>4, <1>5, <2>1 DEF IsFailing
<1>13. place = "handler" => IsFailing(d)'
  BY <1>4, <1>5 DEF IsFailing
<1> QED BY <1>2, <1>3, <1>4, <1>5, <1>6, <1>7, <1>8, <1>10, <1>11, <1>12, <1>13

\* The flow is out of the engine.
LEMMA FlowOut ==
  ASSUME IInv, NEW p \in Payers, epc[p] # "idle", epc' = [epc EXCEPT ![p] = "idle"],
         held' = [held EXCEPT ![p] = E!NoLocal]
  PROVE  /\ p \in Inside /\ Inside' = Inside \ {p}
         /\ epc' = [q \in Payers |-> epc'[q]] /\ held' = [q \in Payers |-> held'[q]]
         /\ epc'[p] = "idle" /\ \A q \in Payers : q # p => epc'[q] = epc[q]
         /\ \A q \in Inside' : held'[q] = held[q]
<1>1. /\ epc' = [q \in Payers |-> epc'[q]] /\ held' = [q \in Payers |-> held'[q]]
      /\ epc'[p] = "idle"
      /\ \A q \in Payers : q # p => epc'[q] = epc[q] /\ held'[q] = held[q]
  BY DEF IInv, Shape
<1> QED BY <1>1 DEF Inside

\* observe() raised before the candidate had an id.
LEMMA RaisesEarlyKeeps ==
  ASSUME IInv, NEW p \in Payers, MayEnter(p), Over(p, "handler", 0), UNCHANGED engine
  PROVE  IInv'
<1> USE DEF engine
<1>1. G!Observe(p) /\ pc'[p] = "handler" /\ decOf' = Append(decOf, 0) /\ epc[p] = "idle"
  BY DEF Over, MayEnter
<1>2. PICK n : /\ calls' = n /\ n \notin 1..calls /\ n \in 0..MaxCalls
               /\ \A x : x \in 1..n <=> (x \in 1..calls \/ x = n)
               /\ decOf'[n] = 0 /\ \A x \in 1..calls : decOf'[x] = decOf[x]
               /\ \A x : /\ Hand(x)' <=> Hand(x)
                         /\ InQueue(x)' <=> InQueue(x)
                         /\ AtJob(x)' <=> AtJob(x)
  BY <1>1, CallOver
<1>3. /\ pc[p] = "idle" /\ UNCHANGED <<queue, tpc, item, starts, mode, host>>
      /\ decOf' \in Seq(Nat) /\ Len(decOf') = calls'
      /\ pc' = [q \in Payers |-> pc'[q]] /\ cand' = [q \in Payers |-> cand'[q]]
      /\ \A q \in Payers : q # p => pc'[q] = pc[q]
      /\ fates' = [c \in G!Candidates |-> fates'[c]]
      /\ Places'
      /\ \A x : IsDropped(x) => IsDropped(x)'
      /\ \A x : IsFailing(x) => IsFailing(x)'
  BY <1>1, CallOver
<1>4. Shape'
  BY <1>1, <1>2, <1>3 DEF IInv, Shape
<1>5. Ids'
  <2>1. Inside' = Inside
    BY DEF Inside
  <2>2. 0 \in 0..decs
    BY DEF IInv, Shape
  <2>3. \A q \in Inside : held[q].dec # 0
    BY DEF IInv, Ids
  <2>4. \A c, d \in 1..calls' : decOf'[c] = decOf'[d] /\ decOf'[c] # 0 => c = d
    BY <1>2 DEF IInv, Ids
  <2> QED BY <1>2, <2>1, <2>2, <2>3, <2>4 DEF IInv, Ids
<1>6. Waiting' = Waiting /\ Checked' = Checked
  BY DEF Waiting, Checked
<1>7. ~Placed(n) /\ \A x : Placed(x)' <=> Placed(x)
  <2>1. n \notin 0..calls
    BY <1>2 DEF IInv, Shape
  <2>2. ~Placed(n)
    BY <1>2, <2>1 DEF Placed, Hand, InQueue, AtJob, IInv, Places
  <2> QED BY <1>2, <2>2 DEF Placed
<1>8. Match'
  BY <1>2, <1>6, <1>7 DEF IInv, Match, Placed
<1>9. Accounted'
  BY <1>3, <1>6, CoveredStays DEF IInv
<1> QED BY <1>3, <1>4, <1>5, <1>8, <1>9 DEF IInv

\* The flow of p leaves the engine with the decision id d.
Leaves(p, d) ==
  /\ epc[p] # "idle" /\ epc' = [epc EXCEPT ![p] = "idle"]
  /\ held' = [held EXCEPT ![p] = E!NoLocal] /\ d = held[p].dec
  /\ UNCHANGED <<running, decs>> /\ pending' = [q \in {1} |-> pending'[1]]
  /\ \E S : ledger' \in Seq(S)
  /\ \A i \in DOMAIN ledger' : ledger'[i].dec \in 1..decs

\* n is a call that there was not, with that id and at that place.
NewCall(n, place, d) ==
  /\ \A x : x \in 1..calls' <=> (x \in 1..calls \/ x = n)
  /\ ~Placed(n) /\ n \notin 1..calls
  /\ decOf'[n] = d /\ \A x \in 1..calls : decOf'[x] = decOf[x]
  /\ \A x : /\ Hand(x)' <=> (Hand(x) \/ (place = "hand" /\ x = n))
            /\ InQueue(x)' <=> InQueue(x)
            /\ AtJob(x)' <=> AtJob(x)

\* A call that is over and was inside the engine: the decision id it leaves
\* with is its own.
LEMMA CallOut ==
  ASSUME IInv, NEW p \in Payers, NEW place, NEW d, Leaves(p, d), Over(p, place, d)
  PROVE  /\ Shape' /\ Ids' /\ Places' /\ d \in 1..decs
         /\ \E n : NewCall(n, place, d)
         /\ \A q \in Inside' : q \in Inside /\ held'[q] = held[q] /\ held[q].dec # d
         /\ \A x : IsInside(x) => IsInside(x)' \/ x = d
         /\ \A x : IsDropped(x) => IsDropped(x)'
         /\ \A x : IsFailing(x) => IsFailing(x)'
         /\ place = "handler" => IsFailing(d)'
<1>1. G!Observe(p) /\ pc'[p] = place /\ decOf' = Append(decOf, d)
  BY DEF Over
<1>2. /\ p \in Inside /\ Inside' = Inside \ {p}
      /\ epc' = [q \in Payers |-> epc'[q]] /\ held' = [q \in Payers |-> held'[q]]
      /\ epc'[p] = "idle" /\ \A q \in Payers : q # p => epc'[q] = epc[q]
      /\ \A q \in Inside' : held'[q] = held[q]
  BY FlowOut DEF Leaves
<1>3. d \in 1..decs /\ decs \in Nat
  BY <1>2 DEF IInv, Ids, Shape, Leaves
<1>4. d \in Nat /\ d # 0 /\ d \in 0..decs
  BY <1>3
<1>5. PICK n : /\ calls' = n /\ n \notin 1..calls /\ n \in 0..MaxCalls
               /\ \A x : x \in 1..n <=> (x \in 1..calls \/ x = n)
               /\ decOf'[n] = d /\ \A x \in 1..calls : decOf'[x] = decOf[x]
               /\ \A x : /\ Hand(x)' <=> (Hand(x) \/ (place = "hand" /\ x = n))
                         /\ InQueue(x)' <=> InQueue(x)
                         /\ AtJob(x)' <=> AtJob(x)
  BY <1>1, <1>4, CallOver
<1>6. /\ pc[p] = "idle" /\ UNCHANGED <<queue, tpc, item, starts, mode, host>>
      /\ decOf' \in Seq(Nat) /\ Len(decOf') = calls'
      /\ pc' = [q \in Payers |-> pc'[q]] /\ cand' = [q \in Payers |-> cand'[q]]
      /\ \A q \in Payers : q # p => pc'[q] = pc[q]
      /\ fates' = [c \in G!Candidates |-> fates'[c]]
      /\ Places'
      /\ \A x : IsDropped(x) => IsDropped(x)'
      /\ \A x : IsFailing(x) => IsFailing(x)'
      /\ place = "handler" => IsFailing(d)'
  BY <1>1, <1>4, CallOver
<1>7. running' = [q \in {1} |-> running'[1]]
  BY DEF IInv, Shape, Leaves
<1>8. \A q \in Payers : epc'[q] # "idle" => pc'[q] = "idle"
  BY <1>2, <1>6 DEF IInv, Shape
<1>9. Shape'
  BY <1>2, <1>3, <1>5, <1>6, <1>7, <1>8 DEF IInv, Shape, Leaves
<1>10. \A q \in Inside' : q \in Inside /\ held'[q] = held[q] /\ held[q].dec # d
  BY <1>2 DEF IInv, Ids, Leaves
<1>11. Ids'
  <2>1. \A c \in 1..calls : decOf[c] # d
    BY <1>2 DEF IInv, Ids, Leaves
  <2>2. \A c \in 1..calls' : decOf'[c] \in 0..decs
    BY <1>4, <1>5 DEF IInv, Ids
  <2>3. \A c, e \in 1..calls' : decOf'[c] = decOf'[e] /\ decOf'[c] # 0 => c = e
    BY <1>5, <2>1 DEF IInv, Ids
  <2>4. \A q \in Inside', c \in 1..calls' : decOf'[c] # held'[q].dec
    BY <1>5, <1>10 DEF IInv, Ids
  <2>5. \A q, s \in Inside' : held'[q].dec = held'[s].dec => q = s
    BY <1>10 DEF IInv, Ids
  <2>6. \A q \in Inside' : held'[q].dec \in 1..decs
    BY <1>10 DEF IInv, Ids
  <2> QED BY <2>2, <2>3, <2>4, <2>5, <2>6 DEF Ids, Leaves
<1>12. ~Placed(n)
  <2>1. n \notin 0..calls
    BY <1>5 DEF IInv, Shape
  <2> QED BY <1>5, <2>1 DEF Placed, Hand, InQueue, AtJob, IInv, Places
<1>13. \A x : IsInside(x) => IsInside(x)' \/ x = d
  BY <1>2 DEF IsInside, Leaves
<1>14. NewCall(n, place, d)
  BY <1>5, <1>12 DEF NewCall
<1> QED BY <1>3, <1>6, <1>9, <1>10, <1>11, <1>13, <1>14

\* The append raised: the call is in its handler, with or without its line in
\* the ledger.
LEMMA RaisesLateKeeps ==
  ASSUME IInv, NEW p \in Payers, E!AppendObservedFails(p), Over(p, "handler", held[p].dec)
  PROVE  IInv'
<1>1. PICK d : d = held[p].dec
  OBVIOUS
<1>2. PICK e : e = E!Observed(p)
  OBVIOUS
<1>3. /\ epc[p] = "append" /\ epc' = [epc EXCEPT ![p] = "idle"]
      /\ held' = [held EXCEPT ![p] = E!NoLocal]
      /\ UNCHANGED <<pending, running, decs>>
      /\ ledger' = ledger \/ ledger' = Append(ledger, e)
  BY <1>2 DEF E!AppendObservedFails
<1>4. e.dec = d /\ e.type = "candidate_observed"
  BY <1>1, <1>2 DEF E!Observed
<1>5. d \in 1..decs
  BY <1>1, <1>3 DEF IInv, Ids, Inside
<1>6. /\ \E S : ledger' \in Seq(S)
      /\ \A i \in DOMAIN ledger' : ledger'[i].dec \in 1..decs
      /\ \A x : IsJudged(x)' <=> IsJudged(x)
      /\ \A x : IsNew(x)' => IsNew(x) \/ x = d
  <2>1. CASE ledger' = ledger
    BY <2>1 DEF IInv, Shape, Ids, IsJudged, IsNew, E!NoDup
  <2>2. CASE ledger' = Append(ledger, e)
    <3>1. /\ \A x : IsJudged(x)' <=> (IsJudged(x) \/ (e.type = "guard_evaluated" /\ e.dec = x))
          /\ \A x : IsNew(x)' <=> (IsNew(x) \/ (/\ e.type = "candidate_observed"
                                                /\ e.duplicate_of = E!NoDup /\ e.dec = x))
          /\ \A i \in DOMAIN ledger' : \/ ledger'[i].dec = e.dec
                                       \/ \E j \in DOMAIN ledger : ledger'[i].dec = ledger[j].dec
          /\ \E S : ledger' \in Seq(S)
      BY <2>2, EventAdds DEF IInv
    <3>2. \A i \in DOMAIN ledger' : ledger'[i].dec \in 1..decs
      BY <1>4, <1>5, <3>1 DEF IInv, Ids
    <3> QED BY <1>4, <3>1, <3>2
  <2> QED BY <1>3, <2>1, <2>2
<1>7. Leaves(p, d)
  BY <1>1, <1>3, <1>6 DEF IInv, Shape, Leaves
<1>8. /\ Shape' /\ Ids' /\ Places'
      /\ \E n : NewCall(n, "handler", d)
      /\ \A q \in Inside' : q \in Inside /\ held'[q] = held[q] /\ held[q].dec # d
      /\ \A x : IsInside(x) => IsInside(x)' \/ x = d
      /\ \A x : IsDropped(x) => IsDropped(x)'
      /\ \A x : IsFailing(x) => IsFailing(x)'
      /\ IsFailing(d)'
  BY <1>1, <1>7, CallOut
<1>9. Waiting' = Waiting /\ Checked' = Checked
  BY <1>3 DEF Waiting, Checked
<1>10. Match'
  <2>1. PICK n : NewCall(n, "handler", d)
    BY <1>8
  <2> QED BY <1>3, <1>9, <2>1 DEF IInv, Match, Placed, NewCall
<1>11. Accounted'
  <2>1. \A x : Covered(x) => Covered(x)'
    BY <1>6, <1>8, <1>9 DEF Covered
  <2>2. \A x : IsNew(x)' => Covered(x)'
    BY <1>6, <1>8, <2>1 DEF Covered, IInv, Accounted
  <2>3. ASSUME NEW x, IsNew(x)', NEW q \in Inside', held'[q].dec = x
        PROVE  held'[q].duplicate_of = E!NoDup
    BY <1>6, <1>8, <2>3 DEF IInv, Accounted
  <2> QED BY <2>2, <2>3 DEF Accounted, E!NoDup
<1> QED BY <1>8, <1>10, <1>11 DEF IInv

\* observe() returned.  A repeat goes no further; another is at hand, and the
\* engine waits for it.
LEMMA ObserveReturnsKeeps ==
  ASSUME IInv, NEW p \in Payers, ObserveReturns(p) PROVE IInv'
<1>1. PICK d : d = held[p].dec
  OBVIOUS
<1>2. PICK place : place = IF held[p].duplicate_of # E!NoDup THEN "idle" ELSE "hand"
  OBVIOUS
<1>3. PICK e : e = [dec |-> d, cand |-> held[p].cand]
  OBVIOUS
<1>4. PICK P : P = [q \in Payers |-> 1]
  OBVIOUS
<1>5. /\ epc[p] = "index" /\ epc' = [epc EXCEPT ![p] = "idle"]
      /\ held' = [held EXCEPT ![p] = E!NoLocal]
      /\ UNCHANGED <<ledger, running, decs>> /\ Over(p, place, d)
  BY <1>1, <1>2 DEF ObserveReturns, E!IndexObserved
<1>6. /\ pending' = [q \in {1} |-> pending'[1]]
      /\ pending'[1] = IF place = "hand" THEN pending[1] \cup {e} ELSE pending[1]
  <2>1. P[p] = 1
    BY <1>4
  <2>2. pending' = [pending EXCEPT ![P[p]] = @ \cup E!ToEvaluate(p)]
    BY <1>4 DEF ObserveReturns, E!IndexObserved
  <2>3. E!ToEvaluate(p) = IF place = "hand" THEN {e} ELSE {}
    BY <1>1, <1>2, <1>3 DEF E!ToEvaluate
  <2>4. pending = [q \in {1} |-> pending[1]]
    BY DEF IInv, Shape
  <2> QED BY <2>1, <2>2, <2>3, <2>4
<1>7. Leaves(p, d)
  BY <1>1, <1>5, <1>6 DEF IInv, Shape, Ids, Leaves
<1>8. /\ Shape' /\ Ids' /\ Places' /\ d \in 1..decs
      /\ \E n : NewCall(n, place, d)
      /\ \A q \in Inside' : q \in Inside /\ held'[q] = held[q] /\ held[q].dec # d
      /\ \A x : IsInside(x) => IsInside(x)' \/ x = d
      /\ \A x : IsDropped(x) => IsDropped(x)'
      /\ \A x : IsFailing(x) => IsFailing(x)'
  BY <1>5, <1>7, CallOut
<1>9. PICK n : NewCall(n, place, d)
  BY <1>8
<1>10. e.dec = d /\ d # 0 /\ p \in Inside
  BY <1>3, <1>5, <1>8 DEF Inside
<1>11. /\ Checked' = Checked
       /\ \A x : x \in Waiting' <=> (x \in Waiting \/ (place = "hand" /\ x = d))
  BY <1>5, <1>6, <1>10 DEF Waiting, Checked
<1>12. d \notin Waiting /\ d \notin Checked
  BY <1>1, <1>10 DEF IInv, Ids, Match
<1>13. Match'
  <2>1. \A c \in 1..calls' : Placed(c)' => decOf'[c] # 0
    BY <1>9, <1>10 DEF NewCall, Placed, IInv, Match
  <2>2. \A c \in 1..calls' : Hand(c)' \/ InQueue(c)' => decOf'[c] \in Waiting'
    BY <1>9, <1>11 DEF NewCall, Placed, IInv, Match
  <2>3. \A x \in Waiting' : \E c \in 1..calls' : Placed(c)' /\ decOf'[c] = x
    BY <1>9, <1>11 DEF NewCall, Placed, IInv, Match
  <2>4. \A x \in Checked' : \E c \in 1..calls' : AtJob(c)' /\ decOf'[c] = x
    BY <1>9, <1>11 DEF NewCall, IInv, Match
  <2>5. \A f, g \in pending'[1] : f.dec = g.dec => f = g
    <3>1. \A f \in pending[1] : f.dec # d
      BY <1>12 DEF Waiting
    <3> QED BY <1>6, <1>10, <3>1 DEF IInv, Match
  <2>6. \A f, g \in running'[1] : f.dec = g.dec => f = g
    BY <1>5 DEF IInv, Match
  <2>7. Waiting' \cap Checked' = {}
    BY <1>11, <1>12 DEF IInv, Match
  <2> QED BY <2>1, <2>2, <2>3, <2>4, <2>5, <2>6, <2>7 DEF Match
<1>14. Accounted'
  <2>1. \A x : (IsNew(x)' <=> IsNew(x)) /\ (IsJudged(x)' <=> IsJudged(x))
    BY <1>5 DEF IsNew, IsJudged, E!NoDup
  <2>2. IsNew(d) => place = "hand"
    BY <1>1, <1>2, <1>10 DEF IInv, Accounted
  <2>3. \A x : IsNew(x) => Covered(x)'
    <3>1. \A x : Covered(x) => Covered(x)' \/ x = d
      BY <1>8, <1>11, <2>1 DEF Covered
    <3>2. place = "hand" => Covered(d)'
      BY <1>11 DEF Covered
    <3> QED BY <2>2, <3>1, <3>2 DEF IInv, Accounted
  <2>4. ASSUME NEW x, IsNew(x), NEW q \in Inside', held'[q].dec = x
        PROVE  held'[q].duplicate_of = E!NoDup
    BY <1>8, <2>4 DEF IInv, Accounted
  <2> QED BY <2>1, <2>3, <2>4 DEF Accounted, E!NoDup
<1> QED BY <1>8, <1>13, <1>14 DEF IInv

----------------------------------------------------------------------------
(* The invariant, and what it says.                                       *)

LEMMA Starts == Init => IInv
<1> SUFFICES ASSUME Init PROVE IInv
  OBVIOUS
<1>1. /\ pc = [p \in Payers |-> "idle"] /\ cand = [p \in Payers |-> 0] /\ calls = 0
      /\ queue = <<>> /\ tpc = [t \in G!Threads |-> "none"]
      /\ item = [t \in G!Threads |-> 0] /\ starts = 0
      /\ fates = [c \in G!Candidates |-> {}] /\ mode = "async" /\ host = "quiet"
  BY DEF Init, G!Init
<1>2. /\ ledger = <<>> /\ epc = [p \in Payers |-> "idle"]
      /\ held = [p \in Payers |-> E!NoLocal]
      /\ pending = [q \in {1} |-> {}] /\ running = [q \in {1} |-> {}]
      /\ decs = 0 /\ decOf = <<>>
  BY DEF Init, E!Init
<1>3. /\ \E S : ledger \in Seq(S)
      /\ queue \in Seq(0..MaxCalls) /\ Len(queue) = 0
      /\ decOf \in Seq(Nat) /\ Len(decOf) = 0 /\ DOMAIN ledger = {}
  BY <1>1, <1>2
<1>4. MaxCalls \in Nat /\ calls \in 0..MaxCalls /\ 1..calls = {} /\ 1..Len(queue) = {}
  BY <1>1, <1>3
<1>5. Shape
  <2>1. \A t \in G!Threads : tpc[t] = "none"
    BY <1>1
  <2> QED BY <1>1, <1>2, <1>3, <1>4, <2>1 DEF Shape
<1>6. Inside = {} /\ Waiting = {} /\ Checked = {}
  BY <1>2 DEF Inside, Waiting, Checked
<1>7. \A c : ~Hand(c) /\ ~InQueue(c) /\ ~AtJob(c)
  <2>1. \A t \in G!Threads : tpc[t] # "run"
    BY <1>1
  <2> QED BY <1>1, <1>4, <2>1 DEF Hand, InQueue, AtJob
<1>8. Ids
  BY <1>3, <1>4, <1>6 DEF Ids
<1>9. Places
  <2>1. \A t \in G!Threads : tpc[t] # "run"
    BY <1>1
  <2>2. \A p \in Payers : pc[p] = "idle"
    BY <1>1
  <2> QED BY <1>4, <1>7, <2>1, <2>2 DEF Places
<1>10. Match
  BY <1>2, <1>4, <1>6 DEF Match
<1>11. Accounted
  BY <1>3 DEF Accounted, IsNew
<1> QED BY <1>5, <1>8, <1>9, <1>10, <1>11 DEF IInv

LEMMA Keeps == IInv /\ [Next]_vars => IInv'
<1> SUFFICES ASSUME IInv, [Next]_vars PROVE IInv'
  OBVIOUS
<1>1. ASSUME NEW p \in Payers, Enter(p) PROVE IInv'
  BY <1>1, EnterKeeps
<1>2. ASSUME NEW p \in Payers, Pay(p) PROVE IInv'
  <2>1. CASE ObserveRaises(p)
    BY <2>1, RaisesEarlyKeeps, RaisesLateKeeps DEF ObserveRaises
  <2>2. CASE Handler(p)
    BY <2>2, HandlerKeeps
  <2> QED BY <1>2, <2>1, <2>2, AppendObservedKeeps, ObserveReturnsKeeps, EnqueueKeeps,
             EnqueueFullKeeps DEF Pay
<1>3. ASSUME NEW t \in G!Threads, Work(t) PROVE IInv'
  <2>1. CASE Fetch(t)
    BY <2>1, LoopKeeps, GetPoisonKeeps, GetCandidateKeeps DEF Fetch
  <2> QED BY <1>3, <2>1, CheckKeeps, RecordKeeps, CountKeeps, EvaluateRaisesKeeps DEF Work
<1>4. CASE Start \/ Stop
  BY <1>4, HostKeeps DEF Start, Stop
<1>5. CASE FinishStop
  BY <1>5, HostKeeps, PutPoisonKeeps DEF FinishStop, G!FinishStop
<1>6. CASE UNCHANGED vars
  <2>1. /\ UNCHANGED <<engine, decOf>>
        /\ UNCHANGED <<pc, cand, calls, item, fates, mode, host, queue, tpc, starts>>
    BY <1>6 DEF vars, guard
  <2>2. /\ tpc' = [t \in G!Threads |-> tpc'[t]]
        /\ starts' = 0 => \A t \in G!Threads : tpc'[t] = "none"
    BY <2>1 DEF IInv, Shape
  <2> QED BY <2>1, <2>2, QueueStays, IdleKeeps
<1> QED BY <1>1, <1>2, <1>3, <1>4, <1>5, <1>6 DEF Next

\* What the engine waits for or judges is what the guard's threads and its queue
\* hold, less what has gone through evaluate().
LEMMA EngineWaitsForHeld ==
  ASSUME IInv
  PROVE  /\ Waiting \cup Checked =
              {DecOf(c) : c \in {cand[p] : p \in InHand} \cup G!Queued}
                \cup {DecOf(item[t]) : t \in {u \in AtWork : ~Evaluated(u)}}
         /\ Checked \subseteq {DecOf(item[t]) : t \in AtWork}
<1>1. \A c \in 1..calls : DecOf(c) = decOf[c]
  BY DecIs DEF IInv
<1>2. \A c : Hand(c) \/ (InQueue(c) /\ c # 0) \/ AtJob(c) => c \in 1..calls
  BY DEF Hand, InQueue, AtJob, IInv, Places, Shape
<1>3. \A c : c \in {cand[p] : p \in InHand} \cup G!Queued <=> Hand(c) \/ (InQueue(c) /\ c # 0)
  <2>1. \A c : c \in G!Queued <=> InQueue(c) /\ c # 0
    <3>1. DOMAIN queue = 1..Len(queue)
      BY LenProperties DEF IInv, Shape
    <3> QED BY <3>1 DEF G!Queued, G!Range, InQueue
  <2> QED BY <2>1 DEF InHand, Hand
<1>4. \A t \in AtWork : AtJob(item[t]) /\ DecOf(item[t]) = decOf[item[t]]
  BY <1>1, <1>2 DEF AtWork, AtJob
<1>5. ASSUME NEW d
      PROVE  d \in Waiting \cup Checked <=>
               \/ \E c : (Hand(c) \/ (InQueue(c) /\ c # 0)) /\ DecOf(c) = d
               \/ \E t \in {u \in AtWork : ~Evaluated(u)} : DecOf(item[t]) = d
  <2>1. ASSUME d \in Waiting \cup Checked, NEW c \in 1..calls, AtJob(c), decOf[c] = d
        PROVE  \E t \in {u \in AtWork : ~Evaluated(u)} : DecOf(item[t]) = d
    BY <1>1, <2>1 DEF AtJob, AtWork, Evaluated
  <2>2. ASSUME d \in Waiting \cup Checked
        PROVE  \/ \E c : (Hand(c) \/ (InQueue(c) /\ c # 0)) /\ DecOf(c) = d
               \/ \E t \in {u \in AtWork : ~Evaluated(u)} : DecOf(item[t]) = d
    <3>1. PICK c \in 1..calls : Placed(c) /\ decOf[c] = d
      BY <2>2 DEF IInv, Match, Placed
    <3>2. c # 0 /\ DecOf(c) = d
      BY <1>1, <3>1 DEF IInv, Shape
    <3> QED BY <2>1, <2>2, <3>1, <3>2 DEF Placed
  <2>3. ASSUME NEW c, Hand(c) \/ (InQueue(c) /\ c # 0), DecOf(c) = d
        PROVE  d \in Waiting
    BY <1>1, <1>2, <2>3 DEF IInv, Match
  <2>4. \A t \in {u \in AtWork : ~Evaluated(u)} : DecOf(item[t]) \in Waiting \cup Checked
    BY DEF Evaluated
  <2> QED BY <2>2, <2>3, <2>4
<1>6. \A d \in Checked : \E t \in AtWork : DecOf(item[t]) = d
  BY <1>1, <1>2 DEF IInv, Match, AtJob, AtWork
<1>7. Waiting \cup Checked =
        {DecOf(c) : c \in {cand[p] : p \in InHand} \cup G!Queued}
          \cup {DecOf(item[t]) : t \in {u \in AtWork : ~Evaluated(u)}}
  BY <1>3, <1>5
<1>8. Checked \subseteq {DecOf(item[t]) : t \in AtWork}
  BY <1>6
<1> QED BY <1>7, <1>8

\* A decision in the ledger as new is covered, and by what.
LEMMA NewIsCovered ==
  ASSUME IInv, NEW i \in New
  PROVE  \/ ledger[i].dec \in Judged \cup Dropped \cup Waiting \cup Checked
         \/ \E p \in Inside : held[p].dec = ledger[i].dec
         \/ \E p \in Payers : pc[p] = "handler" /\ DecOf(cand[p]) = ledger[i].dec
<1>1. PICK d : d = ledger[i].dec
  OBVIOUS
<1>2. i \in DOMAIN ledger /\ IsNew(d)
  BY <1>1 DEF New, E!Observations, IsNew, E!NoDup
<1>3. Covered(d) /\ d # 0
  BY <1>1, <1>2 DEF IInv, Accounted, Ids, Shape
<1>4. \A c \in 1..calls : DecOf(c) = decOf[c]
  BY DecIs DEF IInv
<1>5. IsJudged(d) => d \in Judged
  BY DEF IsJudged, Judged, E!Evaluations
<1>6. IsDropped(d) => d \in Dropped
  BY <1>3, <1>4 DEF IsDropped, Dropped
<1>7. IsInside(d) => \E p \in Inside : held[p].dec = d
  BY DEF IsInside
<1>8. IsFailing(d) => \E p \in Payers : pc[p] = "handler" /\ DecOf(cand[p]) = d
  BY <1>4 DEF IsFailing, IInv, Places
<1> QED BY <1>1, <1>3, <1>5, <1>6, <1>7, <1>8 DEF Covered

LEMMA Says == IInv => NothingForgotten
BY EngineWaitsForHeld, NewIsCovered DEF NothingForgotten

\* The hook, its queue and the engine together lose no purchase: the engine
\* waits for exactly what a payment thread, the queue or the worker still holds,
\* and every purchase recorded as new is judged, counted as dropped, among those,
\* or still inside observe() (hook.py, engine.py), whatever the number of payment
\* threads, the size of the queue and the appends that raise.
THEOREM NothingIsForgotten == Spec => []NothingForgotten
<1>1. Init => IInv
  BY Starts
<1>2. IInv /\ [Next]_vars => IInv'
  BY Keeps
<1>3. IInv => NothingForgotten
  BY Says
<1> QED BY <1>1, <1>2, <1>3, PTL DEF Spec

----------------------------------------------------------------------------
(* The promise of Recorder.                                               *)

\* What the guard and the engine owe a decision at each point: what is inside
\* the engine or waits for it has not been judged, what waits is in the ledger
\* and has not been dropped.
Duty ==
  /\ decs \in 0..MaxCalls
  /\ \A c \in G!Candidates : c \notin 1..calls => fates[c] = {}
  /\ \A p \in Payers : epc[p] = "append" => \A i \in DOMAIN ledger : ledger[i].dec # held[p].dec
  /\ \A p \in Payers :
       epc[p] = "index" /\ held[p].duplicate_of = E!NoDup => IsNew(held[p].dec)
  /\ \A d : IsJudged(d) => d \notin Waiting /\ d \notin Checked /\ ~IsInside(d)
  /\ \A d \in Waiting \cup Checked : IsNew(d) /\ ~IsDropped(d) /\ ~IsFailing(d)

\* What Recorder sees of a state.
Seen ==
  /\ \A d : d \in Recorded <=> IsNew(d)
  /\ \A d : d \in Lost <=> IsDropped(d) /\ d # 0 /\ ~IsJudged(d)
  /\ Verdicts = [d \in 1..MaxCalls |-> Verdicts[d]]
  /\ \A d \in 1..MaxCalls : Verdicts[d] \in Nat /\ (Verdicts[d] > 0 <=> IsJudged(d))
  /\ \A d : d \in Promise!Settled =>
       (d \in 1..MaxCalls /\ IsJudged(d)) \/ (IsDropped(d) /\ d # 0 /\ ~IsJudged(d))

\* How many verdicts a decision has.
LEMMA VerdictCount ==
  ASSUME Shape, NEW d
  PROVE  LET V == {i \in E!Evaluations : ledger[i].dec = d}
         IN  IsFiniteSet(V) /\ Cardinality(V) \in Nat /\ (Cardinality(V) > 0 <=> IsJudged(d))
<1> DEFINE V == {i \in E!Evaluations : ledger[i].dec = d}
<1>1. PICK S : ledger \in Seq(S)
  BY DEF Shape
<1>2. DOMAIN ledger = 1..Len(ledger) /\ Len(ledger) \in Nat
  BY <1>1, LenProperties
<1>3. IsFiniteSet(V)
  <2>1. IsFiniteSet(1..Len(ledger))
    BY <1>2, FS_Interval
  <2>2. V \subseteq 1..Len(ledger)
    BY <1>2 DEF E!Evaluations
  <2> QED BY <2>1, <2>2, FS_Subset
<1>4. Cardinality(V) \in Nat /\ (Cardinality(V) = 0 <=> V = {})
  BY <1>3, FS_CardinalityType, FS_EmptySet
<1>5. V # {} <=> IsJudged(d)
  BY DEF E!Evaluations, IsJudged
<1>6. Cardinality(V) > 0 <=> IsJudged(d)
  BY <1>4, <1>5
<1> QED BY <1>3, <1>4, <1>6

LEMMA Sees == IInv => Seen
<1> SUFFICES ASSUME IInv PROVE Seen
  OBVIOUS
<1>1. \A d : d \in Recorded <=> IsNew(d)
  BY DEF Recorded, New, E!Observations, IsNew, E!NoDup
<1>2. \A d : d \in Judged <=> IsJudged(d)
  BY DEF Judged, E!Evaluations, IsJudged
<1>3. \A c \in 1..calls : DecOf(c) = decOf[c]
  BY DecIs DEF IInv
<1>4. \A d : d \in Dropped <=> IsDropped(d) /\ d # 0
  BY <1>3 DEF Dropped, IsDropped
<1>5. \A d : d \in Lost <=> IsDropped(d) /\ d # 0 /\ ~IsJudged(d)
  BY <1>2, <1>4 DEF Lost
<1>6. \A d \in 1..MaxCalls : Verdicts[d] \in Nat /\ (Verdicts[d] > 0 <=> IsJudged(d))
  BY VerdictCount DEF IInv, Verdicts
<1>7. Verdicts = [d \in 1..MaxCalls |-> Verdicts[d]]
  BY DEF Verdicts
<1>8. \A d : d \in Promise!Settled =>
        (d \in 1..MaxCalls /\ IsJudged(d)) \/ (IsDropped(d) /\ d # 0 /\ ~IsJudged(d))
  BY <1>5, <1>6 DEF Promise!Settled
<1> QED BY <1>1, <1>5, <1>6, <1>7, <1>8 DEF Seen

LEMMA SeesNext == ASSUME IInv' PROVE Seen'
BY Sees, PTL

\* The steps of Recorder that the steps of System map to.
LEMMA MapsToStutter ==
  ASSUME Seen, Seen', Verdicts' = Verdicts,
         \A d : IsNew(d)' <=> IsNew(d),
         \A d : IsJudged(d)' <=> IsJudged(d),
         \A d : d # 0 => (IsDropped(d)' <=> IsDropped(d))
  PROVE  UNCHANGED Promise!vars
<1>1. Recorded' = Recorded /\ Lost' = Lost
  BY DEF Seen
<1> QED BY <1>1 DEF Promise!vars

LEMMA MapsToObserve ==
  ASSUME Seen, Seen', Verdicts' = Verdicts, NEW d \in 1..MaxCalls,
         \A x : IsNew(x)' <=> (IsNew(x) \/ x = d),
         \A x : IsJudged(x)' <=> IsJudged(x),
         \A x : x # 0 => (IsDropped(x)' <=> IsDropped(x)),
         ~IsNew(d), ~IsDropped(d)
  PROVE  Promise!Next
<1>1. Recorded' = Recorded \cup {d} /\ Lost' = Lost
  BY DEF Seen
<1>2. d \notin Recorded \cup Lost
  BY DEF Seen
<1>3. Promise!Observe(d)
  BY <1>1, <1>2 DEF Promise!Observe
<1> QED BY <1>3 DEF Promise!Next

LEMMA MapsToLose ==
  ASSUME Seen, Seen', Verdicts' = Verdicts, NEW d \in 0..MaxCalls,
         \A x : IsNew(x)' <=> IsNew(x),
         \A x : IsJudged(x)' <=> IsJudged(x),
         \A x : IsDropped(x)' <=> (IsDropped(x) \/ x = d)
  PROVE  [Promise!Next]_Promise!vars
<1>1. CASE d = 0 \/ IsJudged(d) \/ IsDropped(d)
  <2>1. Recorded' = Recorded /\ Lost' = Lost
    BY <1>1 DEF Seen
  <2> QED BY <2>1 DEF Promise!vars
<1>2. CASE d # 0 /\ ~IsJudged(d) /\ ~IsDropped(d)
  <2>1. Recorded' = Recorded /\ Lost' = Lost \cup {d}
    BY <1>2 DEF Seen
  <2>2. d \in 1..MaxCalls
    BY <1>2
  <2>3. d \notin Promise!Settled
    BY <1>2 DEF Seen
  <2>4. Promise!Lose(d)
    BY <2>1, <2>3 DEF Promise!Lose
  <2> QED BY <2>2, <2>4 DEF Promise!Next
<1> QED BY <1>1, <1>2

LEMMA MapsToJudge ==
  ASSUME Seen, Seen', NEW d \in 1..MaxCalls, Verdicts' = [Verdicts EXCEPT ![d] = @ + 1],
         \A x : IsNew(x)' <=> IsNew(x),
         \A x : IsJudged(x)' <=> (IsJudged(x) \/ x = d),
         \A x : x # 0 /\ x # d => (IsDropped(x)' <=> IsDropped(x)),
         IsNew(d), ~IsJudged(d), ~IsDropped(d)
  PROVE  Promise!Next
<1>1. Recorded' = Recorded /\ Lost' = Lost
  BY ZenonT(60) DEF Seen
<1>2. d \in Recorded /\ d \notin Promise!Settled
  BY DEF Seen
<1>3. Promise!Judge(d)
  BY <1>1, <1>2 DEF Promise!Judge
<1> QED BY <1>3 DEF Promise!Next

\* What an event does to the counts.
LEMMA VerdictAdded ==
  ASSUME Shape, Shape', NEW e, ledger' = Append(ledger, e)
  PROVE  /\ e.type # "guard_evaluated" => Verdicts' = Verdicts
         /\ e.type = "guard_evaluated" =>
              \A d \in 1..MaxCalls : d = e.dec => Verdicts' = [Verdicts EXCEPT ![d] = @ + 1]
<1>1. PICK n : /\ n \notin DOMAIN ledger /\ ledger'[n] = e
               /\ \A i : i \in DOMAIN ledger' <=> (i \in DOMAIN ledger \/ i = n)
               /\ \A i \in DOMAIN ledger : ledger'[i] = ledger[i]
  BY LedgerGrows
<1>2. PICK V : V = [d \in 1..MaxCalls |-> {i \in E!Evaluations : ledger[i].dec = d}]
  OBVIOUS
<1>3. PICK W : W = [d \in 1..MaxCalls |-> {i \in E!Evaluations : ledger[i].dec = d}']
  OBVIOUS
<1>4. /\ Verdicts = [d \in 1..MaxCalls |-> Cardinality(V[d])]
      /\ Verdicts' = [d \in 1..MaxCalls |-> Cardinality(W[d])]
  BY <1>2, <1>3 DEF Verdicts
<1>5. ASSUME NEW d \in 1..MaxCalls
      PROVE  W[d] = IF e.type = "guard_evaluated" /\ e.dec = d THEN V[d] \cup {n} ELSE V[d]
  BY <1>1, <1>2, <1>3 DEF E!Evaluations
<1>6. ASSUME NEW d \in 1..MaxCalls
      PROVE  n \notin V[d] /\ IsFiniteSet(V[d])
  BY <1>1, <1>2, VerdictCount DEF E!Evaluations
<1>7. ASSUME NEW d \in 1..MaxCalls
      PROVE  Cardinality(V[d] \cup {n}) = Cardinality(V[d]) + 1
  BY <1>6, FS_AddElement
<1>8. ASSUME e.type # "guard_evaluated" PROVE Verdicts' = Verdicts
  BY <1>4, <1>5, <1>8
<1>9. ASSUME e.type = "guard_evaluated", NEW d \in 1..MaxCalls, d = e.dec
      PROVE  Verdicts' = [Verdicts EXCEPT ![d] = @ + 1]
  <2>1. \A x \in 1..MaxCalls : W[x] = IF x = d THEN V[x] \cup {n} ELSE V[x]
    BY <1>5, <1>9
  <2> QED BY <1>4, <1>7, <2>1
<1> QED BY <1>8, <1>9

\* A step that records nothing and drops nothing.
LEMMA QuietStep ==
  ASSUME IInv, IInv', Duty,
         UNCHANGED <<ledger, epc, held, pending, running, decs, decOf, calls>>,
         \A c \in G!Candidates : c \notin 1..calls => fates'[c] = fates[c],
         \A x : IsDropped(x)' <=> IsDropped(x),
         \A x : IsFailing(x)' => IsFailing(x)
  PROVE  Duty' /\ [Promise!Next]_Promise!vars
<1>1. /\ \A x : IsNew(x)' <=> IsNew(x)
      /\ \A x : IsJudged(x)' <=> IsJudged(x)
      /\ \A x : IsInside(x)' <=> IsInside(x)
  BY DEF IsNew, IsJudged, IsInside, Inside, E!NoDup
<1>2. Waiting' = Waiting /\ Checked' = Checked
  BY DEF Waiting, Checked
<1>3. Duty'
  BY <1>1, <1>2 DEF Duty, E!NoDup
<1>4. Verdicts' = Verdicts
  BY DEF Verdicts, E!Evaluations
<1>5. UNCHANGED Promise!vars
  BY <1>1, <1>4, Sees, SeesNext, MapsToStutter
<1> QED BY <1>3, <1>5

LEMMA GuardDuty ==
  ASSUME IInv, IInv', Duty, NEW t \in G!Threads, Fetch(t) \/ Start \/ Stop \/ FinishStop
  PROVE  Duty' /\ [Promise!Next]_Promise!vars
<1>1. /\ UNCHANGED <<ledger, epc, held, pending, running, decs, decOf, calls>>
      /\ UNCHANGED <<pc, cand, fates>>
  BY DEF Fetch, Start, Stop, FinishStop, engine, G!CheckStop, G!GetEmpty, G!GetPoison,
         G!GetCandidate, G!Start, G!Stop, G!FinishStop, G!JoinQueue, G!PutPoison,
         G!JoinWorker, G!Payment, G!Record
<1>2. \A x : (IsDropped(x)' <=> IsDropped(x)) /\ (IsFailing(x)' => IsFailing(x))
  BY <1>1 DEF IsDropped, IsFailing
<1> QED BY <1>1, <1>2, QuietStep

LEMMA EnqueueDuty ==
  ASSUME IInv, IInv', Duty, NEW p \in Payers, Enqueue(p)
  PROVE  Duty' /\ [Promise!Next]_Promise!vars
<1>1. /\ UNCHANGED <<ledger, epc, held, pending, running, decs, decOf, calls>>
      /\ UNCHANGED <<cand, fates>> /\ pc' = [pc EXCEPT ![p] = "idle"]
  BY DEF Enqueue, engine, G!Enqueue, G!Goto, G!Record
<1>2. \A x : (IsDropped(x)' <=> IsDropped(x)) /\ (IsFailing(x)' => IsFailing(x))
  BY <1>1 DEF IsDropped, IsFailing, IInv, Shape
<1> QED BY <1>1, <1>2, QuietStep

LEMMA EnterDuty ==
  ASSUME IInv, IInv', Duty, NEW p \in Payers, Enter(p)
  PROVE  Duty' /\ [Promise!Next]_Promise!vars
<1>1. PICK raw : E!LookupOf(p, raw)
  BY DEF Enter, E!Lookup
<1>2. PICK d : d = decs'
  OBVIOUS
<1>3. /\ decs < MaxCalls /\ d = decs + 1 /\ epc[p] = "idle"
      /\ epc' = [epc EXCEPT ![p] = "append"]
      /\ UNCHANGED <<guard, decOf, ledger, pending, running>>
  BY <1>1, <1>2 DEF Enter, E!LookupOf
<1>4. \E h : h.dec = d /\ held' = [held EXCEPT ![p] = h]
  BY <1>1, <1>2 DEF E!LookupOf
<1>5. /\ \A q \in Payers : q # p => epc'[q] = epc[q] /\ held'[q] = held[q]
      /\ epc'[p] = "append" /\ held'[p].dec = d
  BY <1>3, <1>4 DEF IInv, Shape
<1>6. d \in 0..MaxCalls /\ d \notin 1..decs
  BY <1>3 DEF IInv, Shape
<1>7. \A i \in DOMAIN ledger : ledger[i].dec # d
  BY <1>6 DEF IInv, Ids
<1>8. /\ \A x : IsNew(x)' <=> IsNew(x)
      /\ \A x : IsJudged(x)' <=> IsJudged(x)
      /\ \A x : IsDropped(x)' <=> IsDropped(x)
      /\ \A x : IsFailing(x)' <=> IsFailing(x)
      /\ Waiting' = Waiting /\ Checked' = Checked
  BY <1>3 DEF IsNew, IsJudged, IsDropped, IsFailing, guard, E!NoDup, Waiting, Checked
<1>9. ~IsJudged(d) /\ \A x : IsInside(x)' => IsInside(x) \/ x = d
  BY <1>5, <1>7 DEF IsJudged, IsInside, Inside
<1>10. Duty'
  <2>1. \A q \in Payers : epc'[q] = "append" =>
          \A i \in DOMAIN ledger : ledger[i].dec # held'[q].dec
    BY <1>5, <1>7 DEF Duty
  <2>2. \A q \in Payers :
          epc'[q] = "index" /\ held'[q].duplicate_of = E!NoDup => IsNew(held'[q].dec)
    BY <1>5 DEF Duty
  <2>3. \A x : IsJudged(x) => ~IsInside(x)'
    BY <1>9 DEF Duty
  <2> QED BY <1>2, <1>3, <1>6, <1>8, <2>1, <2>2, <2>3 DEF Duty, guard, E!NoDup
<1>11. Verdicts' = Verdicts
  BY <1>3 DEF Verdicts, E!Evaluations
<1>12. UNCHANGED Promise!vars
  BY <1>8, <1>11, Sees, SeesNext, MapsToStutter
<1> QED BY <1>10, <1>12

LEMMA AppendDuty ==
  ASSUME IInv, IInv', Duty, NEW p \in Payers, AppendObserved(p)
  PROVE  Duty' /\ [Promise!Next]_Promise!vars
<1>1. PICK e : e = E!Observed(p)
  OBVIOUS
<1>2. PICK d : d = held[p].dec
  OBVIOUS
<1>3. /\ e.type = "candidate_observed" /\ e.dec = d
      /\ e.duplicate_of = held[p].duplicate_of
  BY <1>1, <1>2 DEF E!Observed
<1>4. /\ epc[p] = "append" /\ epc' = [epc EXCEPT ![p] = "index"]
      /\ ledger' = Append(ledger, e)
      /\ UNCHANGED <<guard, decOf, held, pending, running, decs>>
  BY <1>1 DEF AppendObserved, E!AppendObserved
<1>5. p \in Inside /\ d \in 1..decs /\ d \in 1..MaxCalls
  BY <1>2, <1>4 DEF Inside, IInv, Ids, Duty
<1>6. /\ epc'[p] = "index" /\ \A q \in Payers : q # p => epc'[q] = epc[q]
      /\ Inside' = Inside
  BY <1>4 DEF IInv, Shape, Inside
<1>7. /\ \A x : IsJudged(x)' <=> IsJudged(x)
      /\ \A x : IsNew(x)' <=> (IsNew(x) \/ (e.duplicate_of = E!NoDup /\ x = d))
      /\ \A i \in DOMAIN ledger' : \/ ledger'[i].dec = d
                                   \/ \E j \in DOMAIN ledger : ledger'[i].dec = ledger[j].dec
  BY <1>3, <1>4, EventAdds DEF IInv
<1>8. /\ \A x : IsDropped(x)' <=> IsDropped(x)
      /\ \A x : IsFailing(x)' <=> IsFailing(x)
      /\ \A x : IsInside(x)' <=> IsInside(x)
      /\ Waiting' = Waiting /\ Checked' = Checked
  BY <1>4, <1>6 DEF IsDropped, IsFailing, guard, Waiting, Checked, IsInside
<1>9. ~IsNew(d) /\ ~IsDropped(d)
  BY <1>2, <1>4, <1>5 DEF IsNew, IsDropped, Duty, IInv, Ids
<1>10. Duty'
  <2>1. \A q \in Payers : epc'[q] = "append" =>
          \A i \in DOMAIN ledger' : ledger'[i].dec # held[q].dec
    <3> SUFFICES ASSUME NEW q \in Payers, epc'[q] = "append"
                 PROVE  \A i \in DOMAIN ledger' : ledger'[i].dec # held[q].dec
      OBVIOUS
    <3>1. q # p /\ epc[q] = "append" /\ q \in Inside
      BY <1>6 DEF Inside
    <3>2. held[q].dec # d
      BY <1>2, <1>5, <3>1 DEF IInv, Ids
    <3> QED BY <1>7, <3>1, <3>2 DEF Duty
  <2>2. ASSUME NEW q \in Payers, epc'[q] = "index", held[q].duplicate_of = E!NoDup
        PROVE  IsNew(held[q].dec)'
    <3>1. PICK x : x = held[q].dec
      OBVIOUS
    <3>2. x = held'[q].dec
      BY <1>4, <3>1
    <3>3. IsNew(x)'
      <4>1. CASE q = p
        BY <1>2, <1>3, <1>7, <2>2, <3>1, <4>1
      <4>2. CASE q # p
        BY <1>6, <1>7, <2>2, <3>1, <4>2 DEF Duty
      <4> QED BY <4>1, <4>2
    <3> QED BY <3>2, <3>3
  <2> QED BY <1>4, <1>7, <1>8, <2>1, <2>2 DEF Duty, guard, E!NoDup
<1>11. Verdicts' = Verdicts
  BY <1>3, <1>4, VerdictAdded DEF IInv
<1>12. CASE e.duplicate_of = E!NoDup
  BY <1>5, <1>7, <1>8, <1>9, <1>10, <1>11, <1>12, Sees, SeesNext, MapsToObserve
<1>13. CASE e.duplicate_of # E!NoDup
  BY <1>7, <1>8, <1>10, <1>11, <1>13, Sees, SeesNext, MapsToStutter
<1> QED BY <1>12, <1>13

\* A call that is over has not been dropped.
LEMMA OverDrops ==
  ASSUME IInv, Duty, NEW p \in Payers, NEW place, NEW d \in Nat, Over(p, place, d)
  PROVE  /\ \A x : IsDropped(x)' <=> IsDropped(x)
         /\ \A c \in G!Candidates : c \notin 1..calls' => fates'[c] = {}
         /\ \A x : IsFailing(x)' => IsFailing(x) \/ (place = "handler" /\ x = d)
<1>1. G!Observe(p) /\ pc'[p] = place /\ decOf' = Append(decOf, d)
  BY DEF Over
<1>2. PICK n : /\ calls' = n /\ n \notin 1..calls /\ n \in 0..MaxCalls
               /\ \A x : x \in 1..n <=> (x \in 1..calls \/ x = n)
               /\ decOf'[n] = d /\ \A x \in 1..calls : decOf'[x] = decOf[x]
               /\ \A x : /\ Hand(x)' <=> (Hand(x) \/ (place = "hand" /\ x = n))
                         /\ InQueue(x)' <=> InQueue(x)
                         /\ AtJob(x)' <=> AtJob(x)
  BY <1>1, CallOver
<1>3. n \in G!Candidates /\ fates[n] = {}
  <2>1. calls' = calls + 1 /\ calls \in Nat
    BY <1>1 DEF G!Observe, IInv, Shape
  <2>2. n \in G!Candidates
    BY <1>2, <2>1
  <2> QED BY <1>2, <2>2 DEF Duty
<1>4. fates' = fates \/ fates' = [fates EXCEPT ![n] = fates[n] \cup {"duplicate"}]
  BY <1>1, <1>2 DEF G!Observe, G!ObserveNew, G!ObserveRepeat, G!ObserveFails, G!Settle, G!Record
<1>5. /\ "dropped" \notin fates'[n]
      /\ \A c \in G!Candidates : c # n => fates'[c] = fates[c]
  <2>1. PICK C : C = G!Candidates
    OBVIOUS
  <2>2. fates = [c \in C |-> fates[c]]
    BY <2>1 DEF IInv, Shape
  <2>3. fates'[n] \in {{}, {"duplicate"}} /\ \A c \in C : c # n => fates'[c] = fates[c]
    BY <1>3, <1>4, <2>1, <2>2
  <2> QED BY <2>1, <2>3
<1>6. \A c \in 1..n : c \in G!Candidates
  BY <1>2 DEF IInv, Shape
<1>7. \A x : IsDropped(x)' <=> IsDropped(x)
  BY <1>2, <1>5, <1>6 DEF IsDropped
<1>8. \A c \in G!Candidates : c \notin 1..calls' => fates'[c] = {}
  BY <1>2, <1>3, <1>5 DEF Duty
<1>9. \A x : IsFailing(x)' => IsFailing(x) \/ (place = "handler" /\ x = d)
  <2>1. /\ pc' = [q \in Payers |-> pc'[q]] /\ \A q \in Payers : q # p => pc'[q] = pc[q]
        /\ cand' = [cand EXCEPT ![p] = calls']
    BY <1>1, CallOver DEF G!Observe
  <2>2. cand'[p] = n /\ \A q \in Payers : q # p => cand'[q] = cand[q]
    BY <1>2, <2>1 DEF IInv, Shape
  <2>3. \A q \in Payers : pc[q] = "handler" => cand[q] \in 1..calls
    BY DEF IInv, Places
  <2> QED BY <1>1, <1>2, <2>1, <2>2, <2>3, ZenonT(60) DEF IsFailing
<1> QED BY <1>7, <1>8, <1>9

LEMMA RaisesEarlyDuty ==
  ASSUME IInv, IInv', Duty, NEW p \in Payers, MayEnter(p), Over(p, "handler", 0), UNCHANGED engine
  PROVE  Duty' /\ [Promise!Next]_Promise!vars
<1> USE DEF engine
<1>1. /\ \A x : IsDropped(x)' <=> IsDropped(x)
      /\ \A c \in G!Candidates : c \notin 1..calls' => fates'[c] = {}
      /\ \A x : IsFailing(x)' => IsFailing(x) \/ x = 0
      /\ 0 \notin Waiting /\ 0 \notin Checked
  <2>1. 0 \notin Waiting /\ 0 \notin Checked
    BY DEF IInv, Match, Placed
  <2> QED BY <2>1, OverDrops
<1>2. /\ \A x : IsNew(x)' <=> IsNew(x)
      /\ \A x : IsJudged(x)' <=> IsJudged(x)
      /\ \A x : IsInside(x)' <=> IsInside(x)
      /\ Waiting' = Waiting /\ Checked' = Checked
  BY DEF IsNew, IsJudged, IsInside, Inside, E!NoDup, Waiting, Checked
<1>3. Duty'
  BY <1>1, <1>2 DEF Duty, E!NoDup
<1>4. Verdicts' = Verdicts
  BY DEF Verdicts, E!Evaluations
<1>5. UNCHANGED Promise!vars
  BY <1>1, <1>2, <1>4, Sees, SeesNext, MapsToStutter
<1> QED BY <1>3, <1>5

\* What is inside the engine is not waited for, and its call is not over.
LEMMA OutsideWaits ==
  ASSUME IInv, NEW p \in Payers, epc[p] # "idle", NEW d, d = held[p].dec
  PROVE  d \notin Waiting /\ d \notin Checked /\ ~IsFailing(d)
BY DEF IInv, Ids, Match, Places, Inside, IsFailing

\* A flow that leaves the engine does not disturb what is owed to the others.
LEMMA LeavesDuty ==
  ASSUME IInv, Duty, NEW p \in Payers, epc[p] # "idle", epc' = [epc EXCEPT ![p] = "idle"],
         held' = [held EXCEPT ![p] = E!NoLocal], NEW d, d = held[p].dec,
         \A x : IsNew(x) => IsNew(x)',
         \A i \in DOMAIN ledger' : \/ ledger'[i].dec = d
                                   \/ \E j \in DOMAIN ledger : ledger'[i].dec = ledger[j].dec
  PROVE  /\ \A q \in Payers : epc'[q] = "append" =>
              \A i \in DOMAIN ledger' : ledger'[i].dec # held'[q].dec
         /\ \A q \in Payers :
              epc'[q] = "index" /\ held'[q].duplicate_of = E!NoDup => IsNew(held[q].dec)'
         /\ \A x : IsInside(x)' => IsInside(x)
         /\ d \in Nat /\ d # 0 /\ d \in 1..MaxCalls /\ IsInside(d)
         /\ ~IsDropped(d) /\ ~IsJudged(d)
<1>1. /\ p \in Inside /\ Inside' = Inside \ {p} /\ epc'[p] = "idle"
      /\ \A q \in Payers : q # p => epc'[q] = epc[q]
      /\ \A q \in Inside' : held'[q] = held[q]
  BY FlowOut
<1>2. d \in 1..decs /\ d \in Nat /\ d # 0 /\ d \in 1..MaxCalls
  <2>1. d \in 1..decs
    BY <1>1 DEF IInv, Ids
  <2> QED BY <2>1 DEF Duty
<1>3. IsInside(d) /\ ~IsDropped(d) /\ ~IsJudged(d)
  BY <1>1 DEF IsInside, IsDropped, Duty, IInv, Ids
<1>4. \A x : IsInside(x)' => IsInside(x)
  BY <1>1 DEF IsInside
<1>5. \A q \in Inside' : held[q].dec # d
  BY <1>1 DEF IInv, Ids
<1>6. ASSUME NEW q \in Payers, epc'[q] = "append", NEW i \in DOMAIN ledger'
      PROVE  ledger'[i].dec # held'[q].dec
  <2>1. q # p /\ epc[q] = "append" /\ q \in Inside'
    BY <1>1, <1>6 DEF Inside
  <2>2. held'[q] = held[q] /\ held[q].dec # d
    BY <1>1, <1>5, <2>1
  <2> QED BY <1>6, <2>1, <2>2 DEF Duty
<1>7. ASSUME NEW q \in Payers, epc'[q] = "index", held'[q].duplicate_of = E!NoDup
      PROVE  IsNew(held[q].dec)'
  <2>1. q # p /\ epc[q] = "index" /\ q \in Inside'
    BY <1>1, <1>7 DEF Inside
  <2>2. held'[q] = held[q]
    BY <1>1, <2>1
  <2>3. PICK x : x = held[q].dec
    OBVIOUS
  <2>4. IsNew(x)'
    BY <1>7, <2>1, <2>2, <2>3 DEF Duty
  <2>5. x = held'[q].dec
    BY <2>2, <2>3
  <2> QED BY <2>4, <2>5
<1> QED BY <1>2, <1>3, <1>4, <1>6, <1>7

LEMMA RaisesLateDuty ==
  ASSUME IInv, IInv', Duty, NEW p \in Payers, E!AppendObservedFails(p),
         Over(p, "handler", held[p].dec)
  PROVE  Duty' /\ [Promise!Next]_Promise!vars
<1>1. PICK d : d = held[p].dec
  OBVIOUS
<1>2. PICK e : e = E!Observed(p)
  OBVIOUS
<1>3. /\ epc[p] = "append" /\ epc' = [epc EXCEPT ![p] = "idle"]
      /\ held' = [held EXCEPT ![p] = E!NoLocal]
      /\ UNCHANGED <<pending, running, decs>>
      /\ ledger' = ledger \/ ledger' = Append(ledger, e)
  BY <1>2 DEF E!AppendObservedFails
<1>4. /\ e.dec = d /\ e.type = "candidate_observed"
      /\ e.duplicate_of = held[p].duplicate_of
  BY <1>1, <1>2 DEF E!Observed
<1>5. /\ \A i \in DOMAIN ledger' : \/ ledger'[i].dec = d
                                   \/ \E j \in DOMAIN ledger : ledger'[i].dec = ledger[j].dec
      /\ \A x : IsJudged(x)' <=> IsJudged(x)
      /\ \/ \A x : IsNew(x)' <=> IsNew(x)
         \/ \A x : IsNew(x)' <=> (IsNew(x) \/ x = d)
      /\ Verdicts' = Verdicts
  <2>1. CASE ledger' = ledger
    BY <2>1 DEF IsJudged, IsNew, E!NoDup, Verdicts, E!Evaluations
  <2>2. CASE ledger' = Append(ledger, e)
    <3>1. /\ \A x : IsJudged(x)' <=> (IsJudged(x) \/ (e.type = "guard_evaluated" /\ e.dec = x))
          /\ \A x : IsNew(x)' <=> (IsNew(x) \/ (/\ e.type = "candidate_observed"
                                                /\ e.duplicate_of = E!NoDup /\ e.dec = x))
          /\ \A i \in DOMAIN ledger' : \/ ledger'[i].dec = e.dec
                                       \/ \E j \in DOMAIN ledger : ledger'[i].dec = ledger[j].dec
      BY <2>2, EventAdds DEF IInv
    <3>2. Verdicts' = Verdicts
      BY <1>4, <2>2, VerdictAdded DEF IInv
    <3> QED BY <1>4, <3>1, <3>2
  <2> QED BY <1>3, <2>1, <2>2
<1>6. /\ \A q \in Payers : epc'[q] = "append" =>
           \A i \in DOMAIN ledger' : ledger'[i].dec # held'[q].dec
      /\ \A q \in Payers :
           epc'[q] = "index" /\ held'[q].duplicate_of = E!NoDup => IsNew(held[q].dec)'
      /\ \A x : IsInside(x)' => IsInside(x)
      /\ d \in Nat /\ d # 0 /\ d \in 1..MaxCalls /\ ~IsDropped(d) /\ ~IsJudged(d)
  <2>1. epc[p] # "idle" /\ \A x : IsNew(x) => IsNew(x)'
    BY <1>3, <1>5
  <2> QED BY <1>1, <1>3, <1>5, <2>1, LeavesDuty
<1>7. ~IsNew(d)
  BY <1>1, <1>3 DEF IsNew, Duty
<1>8. /\ \A x : IsDropped(x)' <=> IsDropped(x)
      /\ \A c \in G!Candidates : c \notin 1..calls' => fates'[c] = {}
      /\ \A x : IsFailing(x)' => IsFailing(x) \/ x = d
      /\ d \notin Waiting /\ d \notin Checked
  BY <1>1, <1>3, <1>6, OverDrops, OutsideWaits
<1>9. Waiting' = Waiting /\ Checked' = Checked
  BY <1>3 DEF Waiting, Checked
<1>10. Duty'
  <2>1. \A x : IsNew(x) => IsNew(x)'
    BY <1>5
  <2> QED BY <1>3, <1>5, <1>6, <1>8, <1>9, <2>1 DEF Duty, E!NoDup
<1>11. CASE \A x : IsNew(x)' <=> IsNew(x)
  BY <1>5, <1>8, <1>10, <1>11, Sees, SeesNext, MapsToStutter
<1>12. CASE \A x : IsNew(x)' <=> (IsNew(x) \/ x = d)
  BY <1>5, <1>6, <1>7, <1>8, <1>10, <1>12, Sees, SeesNext, MapsToObserve
<1> QED BY <1>5, <1>11, <1>12

LEMMA ReturnsDuty ==
  ASSUME IInv, IInv', Duty, NEW p \in Payers, ObserveReturns(p)
  PROVE  Duty' /\ [Promise!Next]_Promise!vars
<1>1. PICK d : d = held[p].dec
  OBVIOUS
<1>2. PICK place : place = IF held[p].duplicate_of # E!NoDup THEN "idle" ELSE "hand"
  OBVIOUS
<1>3. PICK e : e = [dec |-> d, cand |-> held[p].cand]
  OBVIOUS
<1>4. PICK P : P = [q \in Payers |-> 1]
  OBVIOUS
<1>5. /\ epc[p] = "index" /\ epc' = [epc EXCEPT ![p] = "idle"]
      /\ held' = [held EXCEPT ![p] = E!NoLocal]
      /\ UNCHANGED <<ledger, running, decs>> /\ Over(p, place, d)
  BY <1>1, <1>2 DEF ObserveReturns, E!IndexObserved
<1>6. pending'[1] = IF place = "hand" THEN pending[1] \cup {e} ELSE pending[1]
  <2>1. P[p] = 1
    BY <1>4
  <2>2. pending' = [pending EXCEPT ![P[p]] = @ \cup E!ToEvaluate(p)]
    BY <1>4 DEF ObserveReturns, E!IndexObserved
  <2>3. E!ToEvaluate(p) = IF place = "hand" THEN {e} ELSE {}
    BY <1>1, <1>2, <1>3 DEF E!ToEvaluate
  <2>4. pending = [q \in {1} |-> pending[1]]
    BY DEF IInv, Shape
  <2> QED BY <2>1, <2>2, <2>3, <2>4
<1>7. /\ Checked' = Checked
      /\ \A x : x \in Waiting' => x \in Waiting \/ (place = "hand" /\ x = d)
  BY <1>3, <1>5, <1>6 DEF Waiting, Checked
<1>8. /\ \A x : IsNew(x)' <=> IsNew(x)
      /\ \A x : IsJudged(x)' <=> IsJudged(x)
      /\ Verdicts' = Verdicts
  BY <1>5 DEF IsNew, IsJudged, E!NoDup, Verdicts, E!Evaluations
<1>9. /\ \A q \in Payers : epc'[q] = "append" =>
           \A i \in DOMAIN ledger' : ledger'[i].dec # held'[q].dec
      /\ \A q \in Payers :
           epc'[q] = "index" /\ held'[q].duplicate_of = E!NoDup => IsNew(held[q].dec)'
      /\ \A x : IsInside(x)' => IsInside(x)
      /\ d \in Nat /\ d # 0 /\ d \in 1..MaxCalls /\ ~IsDropped(d) /\ ~IsJudged(d)
  <2>1. /\ epc[p] # "idle" /\ \A x : IsNew(x) => IsNew(x)'
        /\ \A i \in DOMAIN ledger' : \/ ledger'[i].dec = d
                                     \/ \E j \in DOMAIN ledger : ledger'[i].dec = ledger[j].dec
    BY <1>5, <1>8
  <2> QED BY <1>1, <1>5, <2>1, LeavesDuty
<1>10. place = "hand" => IsNew(d)
  BY <1>1, <1>2, <1>5 DEF Duty
<1>11. /\ \A x : IsDropped(x)' <=> IsDropped(x)
       /\ \A c \in G!Candidates : c \notin 1..calls' => fates'[c] = {}
       /\ \A x : IsFailing(x)' => IsFailing(x) \/ (place = "handler" /\ x = d)
       /\ ~IsFailing(d)
  BY <1>1, <1>5, <1>9, OverDrops, OutsideWaits
<1>12. Duty'
  <2>1. \A x : IsJudged(x)' => x \notin Waiting' /\ x \notin Checked' /\ ~IsInside(x)'
    BY <1>7, <1>8, <1>9 DEF Duty
  <2>2. \A x \in Waiting' \cup Checked' : IsNew(x)' /\ ~IsDropped(x)' /\ ~IsFailing(x)'
    BY <1>2, <1>7, <1>8, <1>9, <1>10, <1>11 DEF Duty
  <2> QED BY <1>5, <1>9, <1>11, <2>1, <2>2 DEF Duty, E!NoDup
<1>13. UNCHANGED Promise!vars
  BY <1>8, <1>11, Sees, SeesNext, MapsToStutter
<1> QED BY <1>12, <1>13

LEMMA HandlerDuty ==
  ASSUME IInv, IInv', Duty, NEW p \in Payers, Handler(p)
  PROVE  Duty' /\ [Promise!Next]_Promise!vars
<1> USE DEF engine
<1>1. PICK c : c = cand[p]
  OBVIOUS
<1>2. /\ UNCHANGED <<cand, calls, queue, tpc, item, engine, decOf>>
      /\ pc[p] = "handler" /\ pc' = [pc EXCEPT ![p] = "idle"]
      /\ fates' = [fates EXCEPT ![c] = fates[c] \cup {"dropped"}]
  BY <1>1 DEF Handler, G!Handler, G!Leave, G!Settle, G!Goto, G!LogOutcome, G!Loud,
              G!Queue, G!Drain, G!Host, IInv, Shape
<1>3. c \in 1..calls /\ c \in G!Candidates
  BY <1>1, <1>2 DEF IInv, Places, Shape
<1>4. PICK d : d = decOf[c]
  OBVIOUS
<1>5. d \in 0..MaxCalls
  BY <1>3, <1>4 DEF IInv, Ids, Duty
<1>6. /\ \A k \in G!Candidates : k # c => fates'[k] = fates[k]
      /\ \A x : IsDropped(x)' <=> (IsDropped(x) \/ x = d)
  BY <1>2, <1>3, <1>4, Drops DEF IInv
<1>7. /\ \A x : IsNew(x)' <=> IsNew(x)
      /\ \A x : IsJudged(x)' <=> IsJudged(x)
      /\ \A x : IsInside(x)' <=> IsInside(x)
      /\ Waiting' = Waiting /\ Checked' = Checked /\ Verdicts' = Verdicts
  BY <1>2 DEF IsNew, IsJudged, IsInside, Inside, E!NoDup, Waiting, Checked, Verdicts, E!Evaluations
<1>8. IsFailing(d) /\ \A x : IsFailing(x)' => IsFailing(x)
  BY <1>1, <1>2, <1>4 DEF IsFailing, IInv, Shape
<1>9. Duty'
  BY <1>2, <1>3, <1>6, <1>7, <1>8 DEF Duty, E!NoDup
<1>10. [Promise!Next]_Promise!vars
  BY <1>5, <1>6, <1>7, Sees, SeesNext, MapsToLose
<1> QED BY <1>9, <1>10

LEMMA EnqueueFullDuty ==
  ASSUME IInv, IInv', Duty, NEW p \in Payers, EnqueueFull(p)
  PROVE  Duty' /\ [Promise!Next]_Promise!vars
<1>1. PICK c : c = cand[p]
  OBVIOUS
<1>2. /\ UNCHANGED <<cand, calls, decOf>>
      /\ pc[p] = "hand" /\ pc' = [pc EXCEPT ![p] = "idle"]
      /\ fates' = [fates EXCEPT ![c] = fates[c] \cup {"dropped"}]
  BY <1>1 DEF EnqueueFull, G!EnqueueFull, G!Leave, G!Settle, G!Goto, G!LogOutcome, G!Loud,
              IInv, Shape
<1>3. c \in 1..calls /\ c \in G!Candidates
  BY <1>1, <1>2 DEF IInv, Places, Shape
<1>4. PICK e \in pending[1] : e.dec = DecOf(cand[p]) /\ E!Drop(1, e)
  BY DEF EnqueueFull
<1>5. /\ UNCHANGED <<ledger, epc, held, running, decs>>
      /\ pending' = [pending EXCEPT ![1] = pending[1] \ {e}]
  BY <1>4 DEF E!Drop, E!Take
<1>6. PICK d : d = e.dec
  OBVIOUS
<1>7. d = decOf[c] /\ d \in Waiting
  <2>1. DecOf(c) = decOf[c]
    BY <1>3, DecIs DEF IInv
  <2> QED BY <1>1, <1>4, <1>6, <2>1 DEF Waiting
<1>8. Waiting' = Waiting \ {d} /\ Checked' = Checked
  <2>1. pending'[1] = pending[1] \ {e}
    BY <1>5 DEF IInv, Shape
  <2>2. \A f \in pending[1] : f.dec = d => f = e
    BY <1>4, <1>6 DEF IInv, Match
  <2> QED BY <1>5, <1>6, <2>1, <2>2 DEF Waiting, Checked
<1>9. d \in 0..MaxCalls /\ d \notin Checked
  BY <1>3, <1>7 DEF IInv, Ids, Duty, Match
<1>10. /\ \A k \in G!Candidates : k # c => fates'[k] = fates[k]
       /\ \A x : IsDropped(x)' <=> (IsDropped(x) \/ x = d)
  BY <1>2, <1>3, <1>7, Drops DEF IInv
<1>11. /\ \A x : IsNew(x)' <=> IsNew(x)
       /\ \A x : IsJudged(x)' <=> IsJudged(x)
       /\ \A x : IsInside(x)' <=> IsInside(x)
       /\ Verdicts' = Verdicts
  BY <1>5 DEF IsNew, IsJudged, IsInside, Inside, E!NoDup, Verdicts, E!Evaluations
<1>12. \A x : IsFailing(x)' => IsFailing(x)
  BY <1>2 DEF IsFailing, IInv, Shape
<1>13. Duty'
  BY <1>2, <1>3, <1>5, <1>8, <1>9, <1>10, <1>11, <1>12 DEF Duty, E!NoDup
<1>14. [Promise!Next]_Promise!vars
  BY <1>9, <1>10, <1>11, Sees, SeesNext, MapsToLose
<1> QED BY <1>13, <1>14

LEMMA CheckDuty ==
  ASSUME IInv, IInv', Duty, NEW t \in G!Threads, Check(t)
  PROVE  Duty' /\ [Promise!Next]_Promise!vars
<1>1. PICK e : e \in pending[1] /\ E!RunTheChecks(1, e)
  BY DEF Check
<1>2. PICK r : /\ r.dec = e.dec
               /\ running' = [running EXCEPT ![1] = running[1] \cup {r}]
  <2>1. PICK r : /\ r = [dec |-> e.dec, cand |-> e.cand, checks |-> E!ChecksOf(1, e)]
                 /\ running' = [running EXCEPT ![1] = running[1] \cup {r}]
    BY <1>1 DEF E!RunTheChecks
  <2> QED BY <2>1
<1>3. /\ UNCHANGED <<guard, decOf, ledger, epc, held, decs>>
      /\ pending' = [pending EXCEPT ![1] = pending[1] \ {e}]
  BY <1>1 DEF Check, E!RunTheChecks, E!Take
<1>4. pending'[1] = pending[1] \ {e} /\ running'[1] = running[1] \cup {r}
  BY <1>2, <1>3 DEF IInv, Shape
<1>5. \A x : x \in Waiting' \cup Checked' => x \in Waiting \cup Checked
  BY <1>1, <1>2, <1>4 DEF Waiting, Checked
<1>6. /\ \A x : IsNew(x)' <=> IsNew(x)
      /\ \A x : IsJudged(x)' <=> IsJudged(x)
      /\ \A x : IsInside(x)' <=> IsInside(x)
      /\ \A x : IsDropped(x)' <=> IsDropped(x)
      /\ \A x : IsFailing(x)' <=> IsFailing(x)
      /\ Verdicts' = Verdicts
  BY <1>3 DEF guard, IsNew, IsJudged, IsInside, IsDropped, IsFailing, Inside, E!NoDup,
              Verdicts, E!Evaluations
<1>7. Duty'
  BY <1>3, <1>5, <1>6 DEF Duty, guard, E!NoDup
<1>8. UNCHANGED Promise!vars
  BY <1>6, Sees, SeesNext, MapsToStutter
<1> QED BY <1>7, <1>8

\* The verdict of an evaluation, or the loss of it.
LEMMA EndDuty ==
  ASSUME IInv, IInv', Duty, NEW r, r \in running[1], NEW j, NEW d, d = r.dec,
         UNCHANGED <<calls, decOf>>,
         E!RecordOf(1, r, j) \/ (E!RecordFailsOf(1, r, j) /\ IsDropped(d)'),
         \A c \in G!Candidates : c \notin 1..calls => fates'[c] = fates[c],
         \A x : IsDropped(x) => IsDropped(x)',
         \A x : x # d => (IsDropped(x)' <=> IsDropped(x)),
         \A x : IsFailing(x)' => IsFailing(x)
  PROVE  Duty' /\ [Promise!Next]_Promise!vars
<1>1. PICK e : e = E!Evaluated(r, j)
  OBVIOUS
<1>2. e.type = "guard_evaluated" /\ e.dec = d
  BY <1>1 DEF E!Evaluated
<1>3. /\ UNCHANGED <<epc, held, decs>>
      /\ Waiting' = Waiting /\ Checked' = Checked \ {d}
      /\ \A i \in DOMAIN ledger' : \/ ledger'[i].dec = d
                                   \/ \E k \in DOMAIN ledger : ledger'[i].dec = ledger[k].dec
      /\ \A x : IsNew(x)' <=> IsNew(x)
  BY EvaluationEnds
<1>4. ledger' = Append(ledger, e) \/ (ledger' = ledger /\ IsDropped(d)')
  BY <1>1 DEF E!RecordOf, E!RecordFailsOf
<1>5. d \in Checked /\ d \notin Waiting
  <2>1. d \in Checked
    BY DEF Checked
  <2> QED BY <2>1 DEF IInv, Match
<1>6. IsNew(d) /\ ~IsDropped(d) /\ ~IsJudged(d) /\ ~IsInside(d)
  <2>1. IsNew(d) /\ ~IsDropped(d) /\ ~IsJudged(d)
    BY <1>5 DEF Duty
  <2>2. ~IsInside(d)
    BY <1>5, OutsideWaits DEF IsInside, Inside
  <2> QED BY <2>1, <2>2
<1>7. d \in 1..MaxCalls /\ d \in 0..MaxCalls
  <2>1. d \in 1..decs
    BY <1>6 DEF IsNew, IInv, Ids
  <2> QED BY <2>1 DEF Duty
<1>8. \A x : IsJudged(x)' => IsJudged(x) \/ x = d
  <2>1. CASE ledger' = Append(ledger, e)
    BY <1>2, <2>1, EventAdds DEF IInv
  <2>2. CASE ledger' = ledger
    BY <2>2 DEF IsJudged
  <2> QED BY <1>4, <2>1, <2>2
<1>9. Duty'
  <2>1. \A x : IsInside(x)' <=> IsInside(x)
    BY <1>3 DEF IsInside, Inside
  <2>2. \A q \in Payers : epc[q] = "append" => held[q].dec # d
    BY <1>6 DEF IsInside, Inside
  <2>3. \A q \in Payers : epc[q] = "append" => \A i \in DOMAIN ledger' : ledger'[i].dec # held[q].dec
    BY <1>3, <2>2 DEF Duty
  <2>4. \A q \in Payers :
          epc'[q] = "index" /\ held'[q].duplicate_of = E!NoDup => IsNew(held[q].dec)'
    <3> SUFFICES ASSUME NEW q \in Payers, epc'[q] = "index", held'[q].duplicate_of = E!NoDup
                 PROVE  IsNew(held[q].dec)'
      OBVIOUS
    <3>1. PICK x : x = held[q].dec
      OBVIOUS
    <3>2. x = held'[q].dec /\ IsNew(x)'
      BY <1>3, <3>1 DEF Duty
    <3> QED BY <3>2
  <2> QED BY <1>3, <1>5, <1>6, <1>8, <2>1, <2>3, <2>4 DEF Duty, E!NoDup
<1>10. CASE ledger' = Append(ledger, e)
  <2>1. \A x : IsJudged(x)' <=> (IsJudged(x) \/ x = d)
    BY <1>2, <1>10, EventAdds DEF IInv
  <2>2. Verdicts' = [Verdicts EXCEPT ![d] = @ + 1]
    BY <1>2, <1>7, <1>10, VerdictAdded DEF IInv
  <2>3. \A x : x # 0 /\ x # d => (IsDropped(x)' <=> IsDropped(x))
    OBVIOUS
  <2> QED BY <1>3, <1>6, <1>7, <1>9, <2>1, <2>2, <2>3, Sees, SeesNext, MapsToJudge
<1>11. CASE ledger' = ledger /\ IsDropped(d)'
  <2>1. /\ \A x : IsJudged(x)' <=> IsJudged(x)
        /\ Verdicts' = Verdicts
    BY <1>11 DEF IsJudged, Verdicts, E!Evaluations
  <2>2. \A x : IsDropped(x)' <=> (IsDropped(x) \/ x = d)
    BY <1>11
  <2> QED BY <1>3, <1>7, <1>9, <2>1, <2>2, Sees, SeesNext, MapsToLose
<1> QED BY <1>4, <1>10, <1>11

LEMMA RecordDuty ==
  ASSUME IInv, IInv', Duty, NEW t \in G!Threads, Record(t)
  PROVE  Duty' /\ [Promise!Next]_Promise!vars
<1>1. PICK r \in running[1] : E!Record(1, r)
  BY DEF Record
<1>2. PICK j : E!RecordOf(1, r, j)
  BY <1>1 DEF E!Record
<1>3. PICK d : d = r.dec
  OBVIOUS
<1>4. UNCHANGED <<pc, cand, calls, fates, decOf>>
  BY DEF Record, guard
<1>5. \A x : (IsDropped(x)' <=> IsDropped(x)) /\ (IsFailing(x)' <=> IsFailing(x))
  BY <1>4 DEF IsDropped, IsFailing
<1> QED BY <1>1, <1>2, <1>3, <1>4, <1>5, EndDuty

LEMMA EvaluateRaisesDuty ==
  ASSUME IInv, IInv', Duty, NEW t \in G!Threads, EvaluateRaises(t)
  PROVE  Duty' /\ [Promise!Next]_Promise!vars
<1>1. PICK c : c = item[t]
  OBVIOUS
<1>2. /\ tpc[t] = "run" /\ UNCHANGED <<pc, cand, calls, decOf>>
      /\ fates' = [fates EXCEPT ![c] = fates[c] \cup {"dropped"}]
  BY <1>1 DEF EvaluateRaises, G!RunFails, G!Leave, G!Settle, G!Move, G!Payment
<1>3. c \in 1..calls
  BY <1>1, <1>2, OneWorker
<1>4. PICK r \in running[1] : r.dec = DecOf(item[t]) /\ E!RecordFails(1, r)
  BY DEF EvaluateRaises
<1>5. PICK j : E!RecordFailsOf(1, r, j)
  BY <1>4 DEF E!RecordFails
<1>6. PICK d : d = r.dec
  OBVIOUS
<1>7. d = decOf[c]
  <2>1. DecOf(c) = decOf[c]
    BY <1>3, DecIs DEF IInv
  <2> QED BY <1>1, <1>4, <1>6, <2>1
<1>8. /\ \A k \in G!Candidates : k # c => fates'[k] = fates[k]
      /\ \A x : IsDropped(x)' <=> (IsDropped(x) \/ x = d)
  BY <1>2, <1>3, <1>7, Drops DEF IInv
<1>9. \A x : IsFailing(x)' <=> IsFailing(x)
  BY <1>2 DEF IsFailing
<1>10. \A k \in G!Candidates : k \notin 1..calls => fates'[k] = fates[k]
  BY <1>3, <1>8
<1> QED BY <1>2, <1>4, <1>5, <1>6, <1>8, <1>9, <1>10, EndDuty

LEMMA CountDuty ==
  ASSUME IInv, IInv', Duty, NEW t \in G!Threads, Count(t)
  PROVE  Duty' /\ [Promise!Next]_Promise!vars
<1>1. PICK c : c = item[t]
  OBVIOUS
<1>2. /\ tpc[t] = "run" /\ UNCHANGED <<pc, cand, calls, decOf>>
      /\ UNCHANGED <<ledger, epc, held, pending, running, decs>>
      /\ fates' = [fates EXCEPT ![c] = fates[c] \cup {"evaluated"}]
  BY <1>1 DEF Count, engine, G!Run, G!Leave, G!Settle, G!Move, G!Payment
<1>3. c \in 1..calls
  BY <1>1, <1>2, OneWorker
<1>4. /\ \A k \in G!Candidates : k # c => fates'[k] = fates[k]
      /\ \A x : IsDropped(x)' <=> IsDropped(x)
  BY <1>2, <1>3, Drops DEF IInv
<1>5. \A x : IsFailing(x)' <=> IsFailing(x)
  BY <1>2 DEF IsFailing
<1>6. \A k \in G!Candidates : k \notin 1..calls => fates'[k] = fates[k]
  BY <1>3, <1>4
<1> QED BY <1>2, <1>4, <1>5, <1>6, QuietStep

LEMMA DutyStarts == Init => Duty /\ Promise!Init
<1> SUFFICES ASSUME Init PROVE Duty /\ Promise!Init
  OBVIOUS
<1>1. IInv
  BY Starts
<1>2. /\ calls = 0 /\ fates = [c \in G!Candidates |-> {}]
      /\ pc = [p \in Payers |-> "idle"]
  BY DEF Init, G!Init
<1>3. /\ ledger = <<>> /\ epc = [p \in Payers |-> "idle"] /\ decs = 0
      /\ pending = [q \in {1} |-> {}] /\ running = [q \in {1} |-> {}]
  BY DEF Init, E!Init
<1>4. Waiting = {} /\ Checked = {} /\ DOMAIN ledger = {}
  BY <1>3 DEF Waiting, Checked
<1>5. \A d : ~IsNew(d) /\ ~IsJudged(d)
  BY <1>4 DEF IsNew, IsJudged
<1>6. Duty
  BY <1>2, <1>3, <1>4, <1>5 DEF Duty
<1>7. \A d : ~IsDropped(d)
  BY <1>2 DEF IsDropped, G!Candidates
<1>8. Recorded = {} /\ Lost = {}
  BY <1>1, <1>5, <1>7, Sees DEF Seen
<1>9. Verdicts = [d \in 1..MaxCalls |-> 0]
  <2>1. \A d \in 1..MaxCalls : Verdicts[d] = 0
    BY <1>1, <1>5, Sees DEF Seen
  <2> QED BY <1>1, <2>1, Sees DEF Seen
<1>10. Promise!Init
  BY <1>8, <1>9 DEF Promise!Init
<1> QED BY <1>6, <1>10

LEMMA DutyKept ==
  IInv /\ IInv' /\ Duty /\ [Next]_vars => Duty' /\ [Promise!Next]_Promise!vars
<1> SUFFICES ASSUME IInv, IInv', Duty, [Next]_vars
             PROVE  Duty' /\ [Promise!Next]_Promise!vars
  OBVIOUS
<1>1. ASSUME NEW p \in Payers, Enter(p) PROVE Duty' /\ [Promise!Next]_Promise!vars
  BY <1>1, EnterDuty
<1>2. ASSUME NEW p \in Payers, Pay(p) PROVE Duty' /\ [Promise!Next]_Promise!vars
  <2>1. CASE ObserveRaises(p)
    BY <2>1, RaisesEarlyDuty, RaisesLateDuty DEF ObserveRaises
  <2> QED BY <1>2, <2>1, AppendDuty, ReturnsDuty, EnqueueDuty, EnqueueFullDuty, HandlerDuty DEF Pay
<1>3. ASSUME NEW t \in G!Threads, Work(t) PROVE Duty' /\ [Promise!Next]_Promise!vars
  BY <1>3, GuardDuty, CheckDuty, RecordDuty, CountDuty, EvaluateRaisesDuty DEF Work
<1>4. CASE Start \/ Stop \/ FinishStop
  <2>1. 1 \in G!Threads
    OBVIOUS
  <2> QED BY <1>4, <2>1, GuardDuty
<1>5. CASE UNCHANGED vars
  <2>1. /\ UNCHANGED <<ledger, epc, held, pending, running, decs, decOf, calls>>
        /\ UNCHANGED <<pc, cand, fates>>
    BY <1>5 DEF vars, guard, engine
  <2>2. \A x : (IsDropped(x)' <=> IsDropped(x)) /\ (IsFailing(x)' => IsFailing(x))
    BY <2>1 DEF IsDropped, IsFailing
  <2> QED BY <2>1, <2>2, QuietStep
<1> QED BY <1>1, <1>2, <1>3, <1>4, <1>5 DEF Next

\* The hook, its queue, the engine and the ledger together implement Recorder:
\* a purchase is recorded, then judged once or counted as lost, never both, and
\* what was lost is not judged later (hook.py, engine.py).
THEOREM Implements == Spec => KeepsPromise
<1>1. Init => IInv /\ Duty /\ Promise!Init
  BY Starts, DutyStarts
<1>2. IInv /\ [Next]_vars => IInv'
  BY Keeps
<1>3. IInv /\ IInv' /\ Duty /\ [Next]_vars => Duty' /\ [Promise!Next]_Promise!vars
  BY DutyKept
<1> QED BY <1>1, <1>2, <1>3, PTL DEF Spec, KeepsPromise, Promise!Spec

----------------------------------------------------------------------------
(* The counters and the ledger.                                           *)

Indexing == {p \in Payers : epc[p] = "index"}
Handling == {p \in Payers : pc[p] = "handler"}

\* The worker is between evaluate() and its counter.
IsDone == \E t \in G!Threads : tpc[t] = "run" /\ decOf[item[t]] \notin Waiting /\ decOf[item[t]] \notin Checked

\* What is in the ledger beyond what was counted, and what was counted, or will
\* be in a handler, as dropped.
MoreObserved  == Cardinality(E!Observations) - Cardinality(Indexing) - counters["observed"]
MoreEvaluated == Cardinality(E!Evaluations) - (IF IsDone THEN 1 ELSE 0) - counters["evaluated"]
Losses        == counters["dropped"] + Cardinality(Handling)

Counted ==
  /\ counters = [k \in G!Counters |-> counters[k]]
  /\ \A k \in G!Counters : counters[k] \in Nat
  /\ IsFiniteSet(Indexing) /\ IsFiniteSet(Handling)
  /\ MoreObserved >= 0 /\ MoreEvaluated >= 0
  /\ IF E!Faulty THEN MoreObserved + MoreEvaluated <= Losses
                 ELSE MoreObserved + MoreEvaluated = 0

\* The number of threads at a place.
LEMMA IndexingMoves ==
  ASSUME IInv, Counted, NEW p \in Payers, NEW to, epc' = [epc EXCEPT ![p] = to]
  PROVE  /\ IsFiniteSet(Indexing')
         /\ epc[p] # "index" /\ to = "index" => Cardinality(Indexing)' = Cardinality(Indexing) + 1
         /\ epc[p] = "index" /\ to # "index" => Cardinality(Indexing)' = Cardinality(Indexing) - 1
<1>1. Indexing' = IF to = "index" THEN Indexing \cup {p} ELSE Indexing \ {p}
  BY DEF Indexing, IInv, Shape
<1>2. IsFiniteSet(Indexing) /\ (p \in Indexing <=> epc[p] = "index")
  BY DEF Indexing, Counted
<1> QED BY <1>1, <1>2, FS_AddElement, FS_RemoveElement

LEMMA HandlingMoves ==
  ASSUME IInv, Counted, NEW p \in Payers, NEW to, pc' = [pc EXCEPT ![p] = to]
  PROVE  /\ IsFiniteSet(Handling')
         /\ pc[p] # "handler" /\ to = "handler" => Cardinality(Handling)' = Cardinality(Handling) + 1
         /\ pc[p] = "handler" /\ to # "handler" => Cardinality(Handling)' = Cardinality(Handling) - 1
         /\ pc[p] # "handler" /\ to # "handler" => Handling' = Handling
<1>1. Handling' = IF to = "handler" THEN Handling \cup {p} ELSE Handling \ {p}
  BY DEF Handling, IInv, Shape
<1>2. IsFiniteSet(Handling) /\ (p \in Handling <=> pc[p] = "handler")
  BY DEF Handling, Counted
<1>3. CASE to = "handler"
  BY <1>1, <1>2, <1>3, FS_AddElement
<1>4. CASE to # "handler"
  BY <1>1, <1>2, <1>4, FS_RemoveElement
<1> QED BY <1>3, <1>4

LEMMA EventsFinite ==
  ASSUME Shape
  PROVE  /\ IsFiniteSet(E!Observations) /\ Cardinality(E!Observations) \in Nat
         /\ IsFiniteSet(E!Evaluations) /\ Cardinality(E!Evaluations) \in Nat
<1>1. PICK S : ledger \in Seq(S)
  BY DEF Shape
<1>2. DOMAIN ledger = 1..Len(ledger) /\ Len(ledger) \in Nat
  BY <1>1, LenProperties
<1>3. IsFiniteSet(1..Len(ledger))
  BY <1>2, FS_Interval
<1>4. E!Observations \subseteq 1..Len(ledger) /\ E!Evaluations \subseteq 1..Len(ledger)
  BY <1>2 DEF E!Observations, E!Evaluations
<1> QED BY <1>3, <1>4, FS_Subset, FS_CardinalityType

\* The number of events of each type.
LEMMA EventCount ==
  ASSUME Shape, NEW e, ledger' = Append(ledger, e)
  PROVE  /\ e.type = "candidate_observed" =>
              /\ Cardinality(E!Observations)' = Cardinality(E!Observations) + 1
              /\ Cardinality(E!Evaluations)' = Cardinality(E!Evaluations)
         /\ e.type = "guard_evaluated" =>
              /\ Cardinality(E!Evaluations)' = Cardinality(E!Evaluations) + 1
              /\ Cardinality(E!Observations)' = Cardinality(E!Observations)
<1>1. PICK n : /\ n \notin DOMAIN ledger /\ ledger'[n] = e
               /\ \A i : i \in DOMAIN ledger' <=> (i \in DOMAIN ledger \/ i = n)
               /\ \A i \in DOMAIN ledger : ledger'[i] = ledger[i]
  BY LedgerGrows
<1>2. PICK O, P, V, W : /\ O = E!Observations /\ P = (E!Observations)'
                        /\ V = E!Evaluations /\ W = (E!Evaluations)'
  OBVIOUS
<1>3. /\ P = IF e.type = "candidate_observed" THEN O \cup {n} ELSE O
      /\ W = IF e.type = "guard_evaluated" THEN V \cup {n} ELSE V
      /\ n \notin O /\ n \notin V
  BY <1>1, <1>2 DEF E!Observations, E!Evaluations
<1>4. IsFiniteSet(O) /\ IsFiniteSet(V)
  BY <1>2, EventsFinite
<1>5. Cardinality(O \cup {n}) = Cardinality(O) + 1 /\ Cardinality(V \cup {n}) = Cardinality(V) + 1
  BY <1>3, <1>4, FS_AddElement
<1> QED BY <1>2, <1>3, <1>5

LEMMA Tally ==
  ASSUME Counted, Shape, Shape', ehost' = ehost,
         counters' = [k \in G!Counters |-> counters'[k]],
         \A k \in G!Counters : counters'[k] \in Nat,
         IsFiniteSet(Indexing'), IsFiniteSet(Handling'),
         NEW a \in 0..1, NEW b \in 0..1, NEW l \in 0..1,
         MoreObserved' = MoreObserved + a, MoreEvaluated' = MoreEvaluated + b,
         Losses' = Losses + l, a + b <= l, a + b # 0 => E!Faulty
  PROVE  Counted'
<1>1. /\ Cardinality(E!Observations) \in Nat /\ Cardinality(E!Evaluations) \in Nat
      /\ Cardinality(Indexing) \in Nat /\ Cardinality(Handling) \in Nat
  BY EventsFinite, FS_CardinalityType DEF Counted
<1>2. counters["observed"] \in Nat /\ counters["evaluated"] \in Nat /\ counters["dropped"] \in Nat
  BY DEF Counted, G!Counters
<1>3. MoreObserved \in Int /\ MoreEvaluated \in Int /\ Losses \in Int
  BY <1>1, <1>2 DEF MoreObserved, MoreEvaluated, Losses
<1>4. MoreObserved' >= 0 /\ MoreEvaluated' >= 0
  BY <1>3 DEF Counted
<1>5. IF E!Faulty THEN MoreObserved' + MoreEvaluated' <= Losses'
                  ELSE MoreObserved' + MoreEvaluated' = 0
  BY <1>3 DEF Counted
<1>6. E!Faulty' <=> E!Faulty
  BY DEF E!Faulty
<1> QED BY <1>4, <1>5, <1>6 DEF Counted

LEMMA NothingCounted ==
  ASSUME Counted, UNCHANGED <<ledger, counters, ehost>>,
         Indexing' = Indexing, Handling' = Handling, IsDone' <=> IsDone
  PROVE  Counted'
<1>1. /\ MoreObserved' = MoreObserved /\ MoreEvaluated' = MoreEvaluated /\ Losses' = Losses
  BY DEF MoreObserved, MoreEvaluated, Losses, E!Observations, E!Evaluations
<1> QED BY <1>1 DEF Counted, E!Faulty

\* The worker is where it was, for the engine too.
LEMMA DoneStays ==
  ASSUME IInv, UNCHANGED <<tpc, item>>, \A x \in 1..calls : decOf'[x] = decOf[x],
         \A x \in 1..calls : AtJob(x) => /\ decOf[x] \in Waiting' => decOf[x] \in Waiting \cup Checked
                                         /\ decOf[x] \in Checked' => decOf[x] \in Waiting \cup Checked
                                         /\ decOf[x] \in Waiting => decOf[x] \in Waiting' \cup Checked'
                                         /\ decOf[x] \in Checked => decOf[x] \in Waiting' \cup Checked'
  PROVE  IsDone' <=> IsDone
<1>1. ASSUME NEW t \in G!Threads, tpc[t] = "run"
      PROVE  /\ decOf'[item[t]] = decOf[item[t]]
             /\ decOf[item[t]] \in Waiting \cup Checked <=> decOf[item[t]] \in Waiting' \cup Checked'
  BY <1>1 DEF IInv, Places, AtJob
<1> QED BY <1>1 DEF IsDone

LEMMA EnterCounts ==
  ASSUME IInv, Counted, NEW p \in Payers, Enter(p) PROVE Counted'
<1>1. PICK raw : E!LookupOf(p, raw)
  BY DEF Enter, E!Lookup
<1>2. /\ UNCHANGED <<guard, decOf, ledger, pending, running, ehost>>
      /\ epc[p] = "idle" /\ epc' = [epc EXCEPT ![p] = "append"]
  BY <1>1 DEF Enter, E!LookupOf
<1>3. Indexing' = Indexing
  BY <1>2 DEF Indexing, IInv, Shape
<1>4. Handling' = Handling /\ counters' = counters
  BY <1>2 DEF Handling, guard
<1>5. IsDone' <=> IsDone
  BY <1>2 DEF IsDone, Waiting, Checked, guard
<1> QED BY <1>2, <1>3, <1>4, <1>5, NothingCounted

LEMMA EnqueueCounts ==
  ASSUME IInv, Counted, NEW p \in Payers, Enqueue(p) PROVE Counted'
<1>1. /\ UNCHANGED <<ledger, counters, ehost, epc, pending, running, decOf, tpc, item>>
      /\ pc[p] = "hand" /\ pc' = [pc EXCEPT ![p] = "idle"]
  BY DEF Enqueue, engine, G!Enqueue, G!Goto, G!Drain, G!Record
<1>2. Indexing' = Indexing /\ (IsDone' <=> IsDone)
  BY <1>1 DEF Indexing, IsDone, Waiting, Checked
<1>3. Handling' = Handling
  BY <1>1 DEF Handling, IInv, Shape
<1> QED BY <1>1, <1>2, <1>3, NothingCounted

LEMMA CheckCounts ==
  ASSUME IInv, Counted, NEW t \in G!Threads, Check(t) PROVE Counted'
<1>1. PICK e : e \in pending[1] /\ E!RunTheChecks(1, e)
  BY DEF Check
<1>2. PICK r : /\ r.dec = e.dec
               /\ running' = [running EXCEPT ![1] = running[1] \cup {r}]
  <2>1. PICK r : /\ r = [dec |-> e.dec, cand |-> e.cand, checks |-> E!ChecksOf(1, e)]
                 /\ running' = [running EXCEPT ![1] = running[1] \cup {r}]
    BY <1>1 DEF E!RunTheChecks
  <2> QED BY <2>1
<1>3. /\ UNCHANGED <<guard, decOf, ledger, epc, ehost>>
      /\ pending' = [pending EXCEPT ![1] = pending[1] \ {e}]
  BY <1>1 DEF Check, E!RunTheChecks, E!Take
<1>4. pending'[1] = pending[1] \ {e} /\ running'[1] = running[1] \cup {r}
  BY <1>2, <1>3 DEF IInv, Shape
<1>5. \A x : x \in Waiting' \cup Checked' <=> x \in Waiting \cup Checked
  BY <1>1, <1>2, <1>4 DEF Waiting, Checked
<1>6. IsDone' <=> IsDone
  BY <1>3, <1>5, DoneStays DEF guard
<1>7. Indexing' = Indexing /\ Handling' = Handling /\ counters' = counters
  BY <1>3 DEF Indexing, Handling, guard
<1> QED BY <1>3, <1>6, <1>7, NothingCounted

\* The steps of the worker's loop and of the host.
LEMMA GuardCounts ==
  ASSUME IInv, Counted, NEW t \in G!Threads, Fetch(t) \/ Start \/ Stop \/ FinishStop
  PROVE  Counted'
<1>1. /\ UNCHANGED <<ledger, counters, ehost, epc, pending, running, decOf, calls, pc>>
  BY DEF Fetch, Start, Stop, FinishStop, engine, G!CheckStop, G!GetEmpty, G!GetPoison,
         G!GetCandidate, G!Start, G!Stop, G!FinishStop, G!JoinQueue, G!PutPoison,
         G!JoinWorker, G!Payment, G!Record
<1>2. Indexing' = Indexing /\ Handling' = Handling
  BY <1>1 DEF Indexing, Handling
<1>3. Waiting' = Waiting /\ Checked' = Checked
  BY <1>1 DEF Waiting, Checked
<1>4. IsDone' <=> IsDone
  <2>1. CASE G!GetCandidate(t)
    <3>1. PICK c : c = Head(queue)
      OBVIOUS
    <3>2. /\ queue # <<>> /\ queue' = Tail(queue) /\ c # 0 /\ tpc[t] = "get"
          /\ item' = [item EXCEPT ![t] = c]
      BY <2>1, <3>1 DEF G!GetCandidate, G!Move
    <3>3. InQueue(c)
      BY <3>1, <3>2, QueueGet DEF IInv, Places
    <3>4. c \in 1..calls
      BY <3>2, <3>3 DEF InQueue, IInv, Places, Shape
    <3>5. decOf[c] \in Waiting
      BY <3>3, <3>4 DEF IInv, Match
    <3>6. \A u \in G!Threads : u = t
      OBVIOUS
    <3>7. item'[t] = c
      BY <3>2 DEF IInv, Shape
    <3>8. ~IsDone
      BY <3>2, <3>6 DEF IsDone
    <3>9. ~IsDone'
      BY <1>1, <1>3, <3>5, <3>6, <3>7 DEF IsDone
    <3> QED BY <3>8, <3>9
  <2>2. CASE /\ item' = item
             /\ \A u \in G!Threads : tpc'[u] = "run" <=> tpc[u] = "run"
    BY <1>1, <1>3, <2>2 DEF IsDone
  <2>3. CASE G!CheckStop(t) \/ G!GetEmpty(t) \/ G!GetPoison(t)
    <3>1. /\ item' = item /\ tpc[t] \in {"loop", "get"}
          /\ \E to \in {"exited", "get", "loop"} : tpc' = [tpc EXCEPT ![t] = to]
      BY <2>3 DEF G!CheckStop, G!GetEmpty, G!GetPoison, G!Move
    <3>2. \A u \in G!Threads : tpc'[u] = "run" <=> tpc[u] = "run"
      BY <3>1 DEF IInv, Shape
    <3> QED BY <2>2, <3>1, <3>2
  <2>4. CASE Start
    <3>1. starts = 0 /\ item' = item /\ tpc' = [tpc EXCEPT ![1] = "loop"]
      <4>1. /\ starts = 0 /\ starts' = starts + 1 /\ item' = item
            /\ tpc' = [tpc EXCEPT ![starts'] = "loop"]
        BY <2>4 DEF Start, G!Start, G!Quiet, IInv, Shape
      <4> QED BY <4>1
    <3>2. \A u \in G!Threads : tpc[u] = "none" /\ u = 1
      BY <3>1 DEF IInv, Shape
    <3>3. \A u \in G!Threads : tpc'[u] # "run"
      <4>1. PICK T : T = G!Threads
        OBVIOUS
      <4>2. tpc = [u \in T |-> tpc[u]]
        BY <4>1 DEF IInv, Shape
      <4> QED BY <3>1, <3>2, <4>1, <4>2
    <3>4. \A u \in G!Threads : tpc'[u] = "run" <=> tpc[u] = "run"
      BY <3>2, <3>3
    <3> QED BY <2>2, <3>1, <3>4
  <2>5. CASE Stop \/ FinishStop
    <3>1. item' = item /\ tpc' = tpc
      BY <2>5 DEF Stop, FinishStop, G!Stop, G!FinishStop, G!JoinQueue, G!PutPoison,
                  G!JoinWorker, G!Drain
    <3> QED BY <2>2, <3>1
  <2> QED BY <2>1, <2>3, <2>4, <2>5 DEF Fetch
<1> QED BY <1>1, <1>2, <1>4, NothingCounted

\* The counter that a step adds to.
LEMMA CounterAdded ==
  ASSUME Counted, NEW k \in G!Counters, counters' = [counters EXCEPT ![k] = @ + 1]
  PROVE  /\ counters' = [j \in G!Counters |-> counters'[j]]
         /\ \A j \in G!Counters : /\ counters'[j] \in Nat
                                  /\ counters'[j] = IF j = k THEN counters[j] + 1 ELSE counters[j]
BY DEF Counted

\* The numbers that are added up.
LEMMA Numbers ==
  ASSUME IInv, Counted
  PROVE  /\ Cardinality(E!Observations) \in Nat /\ Cardinality(E!Evaluations) \in Nat
         /\ Cardinality(Indexing) \in Nat /\ Cardinality(Handling) \in Nat
         /\ counters["observed"] \in Nat /\ counters["evaluated"] \in Nat
         /\ counters["dropped"] \in Nat
BY EventsFinite, FS_CardinalityType DEF IInv, Counted, G!Counters

LEMMA AppendCounts ==
  ASSUME IInv, IInv', Counted, NEW p \in Payers, AppendObserved(p) PROVE Counted'
<1>1. PICK e : e = E!Observed(p)
  OBVIOUS
<1>2. /\ epc[p] = "append" /\ epc' = [epc EXCEPT ![p] = "index"]
      /\ ledger' = Append(ledger, e) /\ e.type = "candidate_observed"
      /\ UNCHANGED <<guard, decOf, pending, running, ehost>>
  BY <1>1 DEF AppendObserved, E!AppendObserved, E!Observed
<1>3. /\ Cardinality(E!Observations)' = Cardinality(E!Observations) + 1
      /\ Cardinality(E!Evaluations)' = Cardinality(E!Evaluations)
  BY <1>2, EventCount DEF IInv
<1>4. IsFiniteSet(Indexing') /\ Cardinality(Indexing)' = Cardinality(Indexing) + 1
  BY <1>2, IndexingMoves
<1>5. Handling' = Handling /\ counters' = counters
  BY <1>2 DEF Handling, guard
<1>6. IsDone' <=> IsDone
  BY <1>2 DEF IsDone, Waiting, Checked, guard
<1>7. /\ MoreObserved' = MoreObserved + 0 /\ MoreEvaluated' = MoreEvaluated + 0
      /\ Losses' = Losses + 0
  BY <1>3, <1>4, <1>5, <1>6, Numbers DEF MoreObserved, MoreEvaluated, Losses
<1> QED BY <1>2, <1>4, <1>5, <1>7, Tally DEF Counted, IInv

\* A call that raises is in its handler.
LEMMA RaiseCounts ==
  ASSUME IInv, Counted, NEW p \in Payers, NEW d \in Nat, Over(p, "handler", d)
  PROVE  /\ IsFiniteSet(Handling') /\ Cardinality(Handling)' = Cardinality(Handling) + 1
         /\ counters' = counters /\ UNCHANGED <<tpc, item>>
         /\ \A x \in 1..calls : decOf'[x] = decOf[x]
<1>1. G!Observe(p) /\ pc'[p] = "handler" /\ decOf' = Append(decOf, d)
  BY DEF Over
<1>2. /\ \E to \in {"hand", "idle", "handler"} : pc' = [pc EXCEPT ![p] = to]
      /\ pc[p] = "idle" /\ UNCHANGED <<tpc, item>>
  BY <1>1 DEF G!Observe, G!ObserveNew, G!ObserveRepeat, G!ObserveFails, G!Goto, G!Drain
<1>3. pc = [q \in Payers |-> pc[q]]
  BY DEF IInv, Shape
<1>4. pc' = [pc EXCEPT ![p] = "handler"]
  BY <1>1, <1>2, <1>3
<1>5. IsFiniteSet(Handling') /\ Cardinality(Handling)' = Cardinality(Handling) + 1
  BY <1>2, <1>4, HandlingMoves
<1>6. counters' = counters
  BY <1>1, <1>3 DEF G!Observe, G!ObserveNew, G!ObserveRepeat, G!ObserveFails, G!Goto, G!Record
<1>7. \A x \in 1..calls : decOf'[x] = decOf[x]
  BY <1>1, CallOver
<1> QED BY <1>2, <1>5, <1>6, <1>7

LEMMA RaisesEarlyCounts ==
  ASSUME IInv, IInv', Counted, NEW p \in Payers, Over(p, "handler", 0), UNCHANGED engine
  PROVE  Counted'
<1>1. /\ IsFiniteSet(Handling') /\ Cardinality(Handling)' = Cardinality(Handling) + 1
      /\ counters' = counters /\ UNCHANGED <<tpc, item>>
      /\ \A x \in 1..calls : decOf'[x] = decOf[x]
  BY RaiseCounts
<1>2. UNCHANGED <<ledger, epc, pending, running, ehost>>
  BY DEF engine
<1>3. IsDone' <=> IsDone
  <2>1. Waiting' = Waiting /\ Checked' = Checked
    BY <1>2 DEF Waiting, Checked
  <2> QED BY <1>1, <2>1, DoneStays
<1>4. Indexing' = Indexing
  BY <1>2 DEF Indexing
<1>5. /\ MoreObserved' = MoreObserved + 0 /\ MoreEvaluated' = MoreEvaluated + 0
      /\ Losses' = Losses + 1
  <2>1. /\ Cardinality(E!Observations)' = Cardinality(E!Observations)
        /\ Cardinality(E!Evaluations)' = Cardinality(E!Evaluations)
    BY <1>2 DEF E!Observations, E!Evaluations
  <2>2. /\ counters'["observed"] = counters["observed"]
        /\ counters'["evaluated"] = counters["evaluated"]
        /\ counters'["dropped"] = counters["dropped"]
    BY <1>1
  <2>3. Cardinality(Indexing)' = Cardinality(Indexing)
    BY <1>4
  <2>4. Cardinality(Handling)' = Cardinality(Handling) + 1
    BY <1>1
  <2>5. /\ Cardinality(E!Observations) \in Nat /\ Cardinality(E!Evaluations) \in Nat
        /\ Cardinality(Indexing) \in Nat /\ Cardinality(Handling) \in Nat
        /\ counters["observed"] \in Nat /\ counters["evaluated"] \in Nat
        /\ counters["dropped"] \in Nat
    BY Numbers
  <2>6. MoreObserved' = MoreObserved + 0
    BY <2>1, <2>2, <2>3, <2>5 DEF MoreObserved
  <2>7. MoreEvaluated' = MoreEvaluated + 0
    BY <1>3, <2>1, <2>2, <2>5 DEF MoreEvaluated
  <2>8. Losses' = Losses + 1
    BY <2>2, <2>4, <2>5 DEF Losses
  <2> QED BY <2>6, <2>7, <2>8
<1> QED BY <1>1, <1>2, <1>4, <1>5, Tally DEF Counted, IInv

LEMMA RaisesLateCounts ==
  ASSUME IInv, IInv', Counted, NEW p \in Payers, E!AppendObservedFails(p),
         Over(p, "handler", held[p].dec)
  PROVE  Counted'
<1>1. PICK e : e = E!Observed(p)
  OBVIOUS
<1>2. /\ epc[p] = "append" /\ epc' = [epc EXCEPT ![p] = "idle"]
      /\ E!Faulty /\ e.type = "candidate_observed"
      /\ ledger' = ledger \/ ledger' = Append(ledger, e)
      /\ UNCHANGED <<pending, running, ehost>>
  BY <1>1 DEF E!AppendObservedFails, E!Faulty, E!Observed
<1>3. held[p].dec \in Nat
  BY <1>2 DEF Inside, IInv, Ids, Shape
<1>4. /\ IsFiniteSet(Handling') /\ Cardinality(Handling)' = Cardinality(Handling) + 1
      /\ counters' = counters /\ UNCHANGED <<tpc, item>>
      /\ \A x \in 1..calls : decOf'[x] = decOf[x]
  BY <1>3, RaiseCounts
<1>5. IsDone' <=> IsDone
  <2>1. Waiting' = Waiting /\ Checked' = Checked
    BY <1>2 DEF Waiting, Checked
  <2> QED BY <1>4, <2>1, DoneStays
<1>6. Indexing' = Indexing
  BY <1>2 DEF Indexing, IInv, Shape
<1>7. PICK a \in 0..1 : /\ Cardinality(E!Observations)' = Cardinality(E!Observations) + a
                        /\ Cardinality(E!Evaluations)' = Cardinality(E!Evaluations)
  <2>1. CASE ledger' = ledger
    <3>1. E!Observations' = E!Observations /\ E!Evaluations' = E!Evaluations
      BY <2>1 DEF E!Observations, E!Evaluations
    <3>2. Cardinality(E!Observations)' = Cardinality(E!Observations) + 0
      BY <3>1, Numbers
    <3> QED BY <3>1, <3>2
  <2>2. CASE ledger' = Append(ledger, e)
    BY <1>2, <2>2, EventCount DEF IInv
  <2> QED BY <1>2, <2>1, <2>2
<1>8. /\ MoreObserved' = MoreObserved + a /\ MoreEvaluated' = MoreEvaluated + 0
      /\ Losses' = Losses + 1
  BY <1>4, <1>5, <1>6, <1>7, Numbers DEF MoreObserved, MoreEvaluated, Losses
<1> QED BY <1>2, <1>4, <1>6, <1>8, Tally DEF Counted, IInv

\* A call that returns is counted as observed.
LEMMA ReturnsCounts ==
  ASSUME IInv, IInv', Counted, NEW p \in Payers, ObserveReturns(p) PROVE Counted'
<1>1. PICK d : d = held[p].dec
  OBVIOUS
<1>2. PICK place \in {"idle", "hand"} :
        place = IF held[p].duplicate_of # E!NoDup THEN "idle" ELSE "hand"
  OBVIOUS
<1>3. /\ epc[p] = "index" /\ epc' = [epc EXCEPT ![p] = "idle"]
      /\ UNCHANGED <<ledger, running, ehost>> /\ Over(p, place, d)
  BY <1>1, <1>2 DEF ObserveReturns, E!IndexObserved
<1>4. /\ d \in Nat /\ \A x \in 1..calls : decOf[x] # d
  BY <1>1, <1>3 DEF Inside, IInv, Ids, Shape
<1>5. /\ G!Observe(p) /\ pc'[p] = place /\ decOf' = Append(decOf, d)
  BY <1>3 DEF Over
<1>6. /\ UNCHANGED <<tpc, item>> /\ pc[p] = "idle"
      /\ \A x \in 1..calls : decOf'[x] = decOf[x]
  BY <1>4, <1>5, CallOver
<1>7. /\ counters' = [counters EXCEPT !["observed"] = @ + 1]
      /\ \E to \in {"hand", "idle"} : pc' = [pc EXCEPT ![p] = to]
  <2>1. CASE G!ObserveNew(p) \/ G!ObserveRepeat(p)
    BY <2>1 DEF G!ObserveNew, G!ObserveRepeat, G!Goto, G!Count
  <2>2. CASE G!ObserveFails(p)
    <3>1. pc' = [pc EXCEPT ![p] = "handler"]
      BY <2>2 DEF G!ObserveFails, G!Goto
    <3>2. pc'[p] = "handler"
      BY <3>1 DEF IInv, Shape
    <3> QED BY <1>2, <1>5, <3>2
  <2> QED BY <1>5, <2>1, <2>2 DEF G!Observe
<1>8. Handling' = Handling
  BY <1>6, <1>7, HandlingMoves
<1>9. /\ counters' = [j \in G!Counters |-> counters'[j]]
      /\ \A j \in G!Counters : counters'[j] \in Nat
      /\ counters'["observed"] = counters["observed"] + 1
      /\ counters'["evaluated"] = counters["evaluated"]
      /\ counters'["dropped"] = counters["dropped"]
  <2>1. "observed" \in G!Counters /\ "evaluated" \in G!Counters /\ "dropped" \in G!Counters
    BY DEF G!Counters
  <2> QED BY <1>7, <2>1, CounterAdded
<1>10. IsFiniteSet(Indexing') /\ Cardinality(Indexing)' = Cardinality(Indexing) - 1
  <2>1. PICK to : to = "idle"
    OBVIOUS
  <2>2. epc' = [epc EXCEPT ![p] = to] /\ to # "index"
    BY <1>3, <2>1
  <2> QED BY <1>3, <2>2, IndexingMoves
<1>11. IsDone' <=> IsDone
  <2>1. Checked' = Checked
    BY <1>3 DEF Checked
  <2>2. \A x : x # d => (x \in Waiting' <=> x \in Waiting)
    <3>1. PICK P : P = [q \in Payers |-> 1]
      OBVIOUS
    <3>2. P[p] = 1 /\ pending' = [pending EXCEPT ![P[p]] = @ \cup E!ToEvaluate(p)]
      BY <3>1 DEF ObserveReturns, E!IndexObserved
    <3>3. pending'[1] = pending[1] \cup E!ToEvaluate(p)
      BY <3>2 DEF IInv, Shape
    <3>4. \A e \in E!ToEvaluate(p) : e.dec = d
      BY <1>1 DEF E!ToEvaluate
    <3> QED BY <3>3, <3>4 DEF Waiting
  <2> QED BY <1>4, <1>6, <2>1, <2>2, DoneStays
<1>12. /\ Cardinality(E!Observations)' = Cardinality(E!Observations)
       /\ Cardinality(E!Evaluations)' = Cardinality(E!Evaluations)
  BY <1>3 DEF E!Observations, E!Evaluations
<1>13. /\ MoreObserved' = MoreObserved + 0 /\ MoreEvaluated' = MoreEvaluated + 0
       /\ Losses' = Losses + 0
  BY <1>8, <1>9, <1>10, <1>11, <1>12, Numbers DEF MoreObserved, MoreEvaluated, Losses
<1> QED BY <1>3, <1>8, <1>9, <1>10, <1>13, Tally DEF Counted, IInv

\* A candidate is dropped in the handler of a call that raised.
LEMMA HandlerCounts ==
  ASSUME IInv, IInv', Counted, NEW p \in Payers, Handler(p) PROVE Counted'
<1>1. /\ UNCHANGED <<ledger, epc, pending, running, ehost, tpc, item, decOf>>
      /\ pc[p] = "handler" /\ pc' = [pc EXCEPT ![p] = "idle"]
      /\ counters' = [counters EXCEPT !["dropped"] = @ + 1]
  BY DEF Handler, engine, G!Handler, G!Leave, G!Count, G!Goto, G!LogOutcome, G!Loud, G!Drain,
         IInv, Shape
<1>2. IsFiniteSet(Handling') /\ Cardinality(Handling)' = Cardinality(Handling) - 1
  <2>1. PICK to : to = "idle"
    OBVIOUS
  <2>2. pc' = [pc EXCEPT ![p] = to] /\ to # "handler"
    BY <1>1, <2>1
  <2> QED BY <1>1, <2>2, HandlingMoves
<1>3. /\ counters' = [j \in G!Counters |-> counters'[j]]
      /\ \A j \in G!Counters : counters'[j] \in Nat
      /\ counters'["observed"] = counters["observed"]
      /\ counters'["evaluated"] = counters["evaluated"]
      /\ counters'["dropped"] = counters["dropped"] + 1
  <2>1. "observed" \in G!Counters /\ "evaluated" \in G!Counters /\ "dropped" \in G!Counters
    BY DEF G!Counters
  <2> QED BY <1>1, <2>1, CounterAdded
<1>4. Indexing' = Indexing /\ (IsDone' <=> IsDone)
  BY <1>1 DEF Indexing, IsDone, Waiting, Checked
<1>5. /\ Cardinality(E!Observations)' = Cardinality(E!Observations)
      /\ Cardinality(E!Evaluations)' = Cardinality(E!Evaluations)
  BY <1>1 DEF E!Observations, E!Evaluations
<1>6. /\ MoreObserved' = MoreObserved + 0 /\ MoreEvaluated' = MoreEvaluated + 0
      /\ Losses' = Losses + 0
  BY <1>2, <1>3, <1>4, <1>5, Numbers DEF MoreObserved, MoreEvaluated, Losses
<1> QED BY <1>1, <1>2, <1>3, <1>4, <1>6, Tally DEF Counted, IInv

\* A candidate is dropped at a full queue.
LEMMA EnqueueFullCounts ==
  ASSUME IInv, IInv', Counted, NEW p \in Payers, EnqueueFull(p) PROVE Counted'
<1>1. PICK c : c = cand[p]
  OBVIOUS
<1>2. /\ UNCHANGED <<tpc, item, decOf, calls>>
      /\ pc[p] = "hand" /\ pc' = [pc EXCEPT ![p] = "idle"]
      /\ counters' = [counters EXCEPT !["dropped"] = @ + 1]
  BY DEF EnqueueFull, G!EnqueueFull, G!Leave, G!Count, G!Goto, G!LogOutcome, G!Loud, G!Drain,
         IInv, Shape
<1>3. c \in 1..calls /\ Hand(c)
  BY <1>1, <1>2 DEF IInv, Places, Hand
<1>4. PICK e \in pending[1] : e.dec = DecOf(cand[p]) /\ E!Drop(1, e)
  BY DEF EnqueueFull
<1>5. /\ UNCHANGED <<ledger, epc, running, ehost>>
      /\ pending' = [pending EXCEPT ![1] = pending[1] \ {e}]
  BY <1>4 DEF E!Drop, E!Take
<1>6. e.dec = decOf[c]
  <2>1. DecOf(c) = decOf[c]
    BY <1>3, DecIs DEF IInv
  <2> QED BY <1>1, <1>4, <2>1
<1>7. IsDone' <=> IsDone
  <2>1. Checked' = Checked /\ \A x : x # e.dec => (x \in Waiting' <=> x \in Waiting)
    <3>1. pending'[1] = pending[1] \ {e}
      BY <1>5 DEF IInv, Shape
    <3> QED BY <1>5, <3>1 DEF Waiting, Checked
  <2>2. \A x \in 1..calls : AtJob(x) => decOf[x] # e.dec
    <3>1. decOf[c] # 0
      BY <1>3 DEF IInv, Match, Placed
    <3> QED BY <1>3, <1>6, <3>1 DEF IInv, Places, Ids
  <2> QED BY <1>2, <2>1, <2>2, DoneStays
<1>8. IsFiniteSet(Handling') /\ Handling' = Handling
  <2>1. PICK to : to = "idle"
    OBVIOUS
  <2>2. pc' = [pc EXCEPT ![p] = to] /\ to # "handler" /\ pc[p] # "handler"
    BY <1>2, <2>1
  <2> QED BY <2>2, HandlingMoves
<1>9. /\ counters' = [j \in G!Counters |-> counters'[j]]
      /\ \A j \in G!Counters : counters'[j] \in Nat
      /\ counters'["observed"] = counters["observed"]
      /\ counters'["evaluated"] = counters["evaluated"]
      /\ counters'["dropped"] = counters["dropped"] + 1
  <2>1. "observed" \in G!Counters /\ "evaluated" \in G!Counters /\ "dropped" \in G!Counters
    BY DEF G!Counters
  <2> QED BY <1>2, <2>1, CounterAdded
<1>10. Indexing' = Indexing
  BY <1>5 DEF Indexing
<1>11. /\ Cardinality(E!Observations)' = Cardinality(E!Observations)
       /\ Cardinality(E!Evaluations)' = Cardinality(E!Evaluations)
  BY <1>5 DEF E!Observations, E!Evaluations
<1>12. /\ MoreObserved' = MoreObserved + 0 /\ MoreEvaluated' = MoreEvaluated + 0
       /\ Losses' = Losses + 1
  BY <1>7, <1>8, <1>9, <1>10, <1>11, Numbers DEF MoreObserved, MoreEvaluated, Losses
<1> QED BY <1>5, <1>8, <1>9, <1>10, <1>12, Tally DEF Counted, IInv

\* The worker has what is under evaluation: it is not done with it.
LEMMA UnderEvaluation ==
  ASSUME IInv, NEW t \in G!Threads, tpc[t] = "run", NEW r \in running[1], r.dec = DecOf(item[t])
  PROVE  /\ ~IsDone /\ decOf[item[t]] = r.dec
         /\ decOf[item[t]] \in Checked /\ decOf[item[t]] \notin Waiting
<1>1. PICK c : c = item[t]
  OBVIOUS
<1>2. c \in 1..calls
  BY <1>1, OneWorker
<1>3. decOf[c] = r.dec
  <2>1. DecOf(c) = decOf[c]
    BY <1>2, DecIs DEF IInv
  <2> QED BY <1>1, <2>1
<1>4. decOf[c] \in Checked /\ decOf[c] \notin Waiting
  <2>1. decOf[c] \in Checked
    BY <1>3 DEF Checked
  <2> QED BY <2>1 DEF IInv, Match
<1>5. \A u \in G!Threads : u = t
  OBVIOUS
<1> QED BY <1>1, <1>3, <1>4, <1>5 DEF IsDone

\* What the end of an evaluation adds to the ledger.
LEMMA EndCounts ==
  ASSUME IInv, NEW r \in running[1], NEW j,
         E!RecordOf(1, r, j) \/ E!RecordFailsOf(1, r, j)
  PROVE  /\ Cardinality(E!Observations)' = Cardinality(E!Observations)
         /\ \E b \in 0..1 : /\ Cardinality(E!Evaluations)' = Cardinality(E!Evaluations) + b
                            /\ E!RecordOf(1, r, j) => b = 1
<1>1. PICK e : e = E!Evaluated(r, j)
  OBVIOUS
<1>2. e.type = "guard_evaluated"
  BY <1>1 DEF E!Evaluated
<1>3. CASE ledger' = Append(ledger, e)
  BY <1>2, <1>3, EventCount DEF IInv
<1>4. CASE ledger' = ledger /\ ledger' # Append(ledger, e)
  <2>1. /\ Cardinality(E!Observations)' = Cardinality(E!Observations)
        /\ Cardinality(E!Evaluations)' = Cardinality(E!Evaluations)
    BY <1>4 DEF E!Observations, E!Evaluations
  <2>2. Cardinality(E!Evaluations)' = Cardinality(E!Evaluations) + 0
    BY <2>1, EventsFinite DEF IInv
  <2>3. ~E!RecordOf(1, r, j)
    BY <1>1, <1>4 DEF E!RecordOf
  <2> QED BY <2>1, <2>2, <2>3
<1>5. ledger' = ledger \/ ledger' = Append(ledger, e)
  BY <1>1 DEF E!RecordOf, E!RecordFailsOf
<1> QED BY <1>3, <1>4, <1>5

\* A judgment is in the ledger, and the worker has still to count it.
LEMMA RecordCounts ==
  ASSUME IInv, IInv', Counted, NEW t \in G!Threads, Record(t) PROVE Counted'
<1>1. PICK r \in running[1] : r.dec = DecOf(item[t]) /\ E!Record(1, r)
  BY DEF Record
<1>2. PICK j : E!RecordOf(1, r, j)
  BY <1>1 DEF E!Record
<1>3. UNCHANGED <<pc, counters, tpc, item, decOf>> /\ tpc[t] = "run"
  BY DEF Record, guard, AtWork
<1>4. UNCHANGED <<epc, ehost>> /\ Waiting' = Waiting /\ \A d : d = r.dec => Checked' = Checked \ {d}
  BY <1>2, EvaluationEnds
<1>5. /\ ~IsDone /\ decOf[item[t]] = r.dec /\ decOf[item[t]] \notin Waiting
  BY <1>1, <1>3, UnderEvaluation
<1>6. IsDone'
  <2>1. decOf'[item'[t]] \notin Waiting' /\ decOf'[item'[t]] \notin Checked'
    BY <1>3, <1>4, <1>5
  <2> QED BY <1>3, <2>1 DEF IsDone
<1>7. /\ Cardinality(E!Observations)' = Cardinality(E!Observations)
      /\ Cardinality(E!Evaluations)' = Cardinality(E!Evaluations) + 1
  BY <1>2, EndCounts
<1>8. Indexing' = Indexing /\ Handling' = Handling
  BY <1>3, <1>4 DEF Indexing, Handling
<1>9. /\ MoreObserved' = MoreObserved + 0 /\ MoreEvaluated' = MoreEvaluated + 0
      /\ Losses' = Losses + 0
  BY <1>3, <1>5, <1>6, <1>7, <1>8, Numbers DEF MoreObserved, MoreEvaluated, Losses
<1> QED BY <1>3, <1>4, <1>8, <1>9, Tally DEF Counted, IInv

\* The worker counts what it has evaluated.
LEMMA CountCounts ==
  ASSUME IInv, IInv', Counted, NEW t \in G!Threads, Count(t) PROVE Counted'
<1>1. /\ UNCHANGED <<ledger, epc, pending, running, ehost, pc>>
      /\ tpc[t] = "run" /\ tpc' = [tpc EXCEPT ![t] = "loop"]
      /\ counters' = [counters EXCEPT !["evaluated"] = @ + 1]
  BY DEF Count, engine, G!Run, G!Leave, G!Count, G!Move, G!Payment
<1>2. PICK c : c = item[t]
  OBVIOUS
<1>3. c \in 1..calls
  BY <1>1, <1>2, OneWorker
<1>4. IsDone
  <2>1. DecOf(c) = decOf[c]
    BY <1>3, DecIs DEF IInv
  <2>2. DecOf(c) \notin Waiting \cup Checked
    BY <1>2 DEF Count, Evaluated
  <2> QED BY <1>1, <1>2, <2>1, <2>2 DEF IsDone
<1>5. ~IsDone'
  <2>1. \A u \in G!Threads : u = t
    OBVIOUS
  <2>2. tpc'[t] = "loop"
    BY <1>1 DEF IInv, Shape
  <2> QED BY <2>1, <2>2 DEF IsDone
<1>6. /\ counters' = [j \in G!Counters |-> counters'[j]]
      /\ \A j \in G!Counters : counters'[j] \in Nat
      /\ counters'["observed"] = counters["observed"]
      /\ counters'["evaluated"] = counters["evaluated"] + 1
      /\ counters'["dropped"] = counters["dropped"]
  <2>1. "observed" \in G!Counters /\ "evaluated" \in G!Counters /\ "dropped" \in G!Counters
    BY DEF G!Counters
  <2> QED BY <1>1, <2>1, CounterAdded
<1>7. Indexing' = Indexing /\ Handling' = Handling
  BY <1>1 DEF Indexing, Handling
<1>8. /\ Cardinality(E!Observations)' = Cardinality(E!Observations)
      /\ Cardinality(E!Evaluations)' = Cardinality(E!Evaluations)
  BY <1>1 DEF E!Observations, E!Evaluations
<1>9. /\ MoreObserved' = MoreObserved + 0 /\ MoreEvaluated' = MoreEvaluated + 0
      /\ Losses' = Losses + 0
  BY <1>4, <1>5, <1>6, <1>7, <1>8, Numbers DEF MoreObserved, MoreEvaluated, Losses
<1> QED BY <1>1, <1>6, <1>7, <1>9, Tally DEF Counted, IInv

\* An evaluation whose append raises is dropped, whether its line was written
\* or not.
LEMMA EvaluateRaisesCounts ==
  ASSUME IInv, IInv', Counted, NEW t \in G!Threads, EvaluateRaises(t) PROVE Counted'
<1>1. /\ pc' = pc /\ tpc[t] = "run" /\ tpc' = [tpc EXCEPT ![t] = "loop"]
      /\ counters' = [counters EXCEPT !["dropped"] = @ + 1]
  BY DEF EvaluateRaises, G!RunFails, G!Leave, G!Count, G!Move, G!Payment, G!LogOutcome, G!Loud,
         IInv, Shape
<1>2. PICK r \in running[1] : r.dec = DecOf(item[t]) /\ E!RecordFails(1, r)
  BY DEF EvaluateRaises
<1>3. PICK j : E!RecordFailsOf(1, r, j)
  BY <1>2 DEF E!RecordFails
<1>4. UNCHANGED <<epc, ehost>> /\ E!Faulty
  BY <1>3 DEF E!RecordFailsOf, E!Faulty
<1>5. ~IsDone
  BY <1>1, <1>2, UnderEvaluation
<1>6. ~IsDone'
  <2>1. \A u \in G!Threads : u = t
    OBVIOUS
  <2>2. tpc'[t] = "loop"
    BY <1>1 DEF IInv, Shape
  <2> QED BY <2>1, <2>2 DEF IsDone
<1>7. PICK b \in 0..1 : /\ Cardinality(E!Observations)' = Cardinality(E!Observations)
                        /\ Cardinality(E!Evaluations)' = Cardinality(E!Evaluations) + b
  BY <1>3, EndCounts
<1>8. /\ counters' = [k \in G!Counters |-> counters'[k]]
      /\ \A k \in G!Counters : counters'[k] \in Nat
      /\ counters'["observed"] = counters["observed"]
      /\ counters'["evaluated"] = counters["evaluated"]
      /\ counters'["dropped"] = counters["dropped"] + 1
  <2>1. "observed" \in G!Counters /\ "evaluated" \in G!Counters /\ "dropped" \in G!Counters
    BY DEF G!Counters
  <2> QED BY <1>1, <2>1, CounterAdded
<1>9. Indexing' = Indexing /\ Handling' = Handling
  BY <1>1, <1>4 DEF Indexing, Handling
<1>10. /\ MoreObserved' = MoreObserved + 0 /\ MoreEvaluated' = MoreEvaluated + b
       /\ Losses' = Losses + 1
  BY <1>5, <1>6, <1>7, <1>8, <1>9, Numbers DEF MoreObserved, MoreEvaluated, Losses
<1> QED BY <1>4, <1>8, <1>9, <1>10, Tally DEF Counted, IInv

LEMMA CountsStart == Init => Counted
<1> SUFFICES ASSUME Init PROVE Counted
  OBVIOUS
<1>1. /\ counters = [c \in G!Counters |-> 0] /\ pc = [p \in Payers |-> "idle"]
      /\ tpc = [t \in G!Threads |-> "none"]
  BY DEF Init, G!Init
<1>2. ledger = <<>> /\ epc = [p \in Payers |-> "idle"]
  BY DEF Init, E!Init
<1>3. E!Observations = {} /\ E!Evaluations = {} /\ Indexing = {} /\ Handling = {}
  BY <1>1, <1>2 DEF E!Observations, E!Evaluations, Indexing, Handling
<1>4. IsFiniteSet({}) /\ Cardinality({}) = 0
  BY FS_EmptySet
<1>5. ~IsDone
  BY <1>1 DEF IsDone
<1>6. counters["observed"] = 0 /\ counters["evaluated"] = 0 /\ counters["dropped"] = 0
  BY <1>1 DEF G!Counters
<1>7. MoreObserved = 0 /\ MoreEvaluated = 0 /\ Losses = 0
  BY <1>3, <1>4, <1>5, <1>6 DEF MoreObserved, MoreEvaluated, Losses
<1> QED BY <1>1, <1>3, <1>4, <1>7 DEF Counted

LEMMA CountsKept ==
  IInv /\ IInv' /\ Counted /\ [Next]_vars => Counted'
<1> SUFFICES ASSUME IInv, IInv', Counted, [Next]_vars PROVE Counted'
  OBVIOUS
<1>1. ASSUME NEW p \in Payers, Enter(p) PROVE Counted'
  BY <1>1, EnterCounts
<1>2. ASSUME NEW p \in Payers, Pay(p) PROVE Counted'
  <2>1. CASE ObserveRaises(p)
    BY <2>1, RaisesEarlyCounts, RaisesLateCounts DEF ObserveRaises
  <2> QED BY <1>2, <2>1, AppendCounts, ReturnsCounts, EnqueueCounts, EnqueueFullCounts,
             HandlerCounts DEF Pay
<1>3. ASSUME NEW t \in G!Threads, Work(t) PROVE Counted'
  BY <1>3, GuardCounts, CheckCounts, RecordCounts, CountCounts, EvaluateRaisesCounts DEF Work
<1>4. CASE Start \/ Stop \/ FinishStop
  <2>1. 1 \in G!Threads
    OBVIOUS
  <2> QED BY <1>4, <2>1, GuardCounts
<1>5. CASE UNCHANGED vars
  BY <1>5, NothingCounted DEF vars, guard, engine, Indexing, Handling, IsDone, Waiting, Checked
<1> QED BY <1>1, <1>2, <1>3, <1>4, <1>5 DEF Next

LEMMA CountsSay == IInv /\ Counted => CountersTellLedger
<1> SUFFICES ASSUME IInv, Counted PROVE CountersTellLedger
  OBVIOUS
<1>1. Cardinality({t \in AtWork : Evaluated(t)}) = IF IsDone THEN 1 ELSE 0
  <2> DEFINE D == {t \in AtWork : Evaluated(t)}
  <2>1. \A t \in G!Threads : t = 1
    OBVIOUS
  <2>2. 1 \in D <=> IsDone
    <3>1. ASSUME tpc[1] = "run" PROVE DecOf(item[1]) = decOf[item[1]]
      BY <3>1, DecIs DEF IInv, Places
    <3> QED BY <2>1, <3>1 DEF AtWork, Evaluated, IsDone
  <2>3. D \subseteq {1}
    BY <2>1 DEF AtWork
  <2>4. CASE IsDone
    <3>1. D = {1}
      BY <2>2, <2>3, <2>4
    <3>2. Cardinality(D) = 1
      BY <3>1, FS_Singleton
    <3> QED BY <2>4, <3>2
  <2>5. CASE ~IsDone
    <3>1. D = {}
      BY <2>2, <2>3, <2>5
    <3>2. Cardinality(D) = 0
      BY <3>1, FS_EmptySet
    <3> QED BY <2>5, <3>2
  <2> QED BY <2>4, <2>5
<1> QED BY <1>1, Numbers
        DEF CountersTellLedger, Counted, MoreObserved, MoreEvaluated, Losses, Indexing, Handling

\* What the operator reads agrees with what was recorded: the counters observed
\* and evaluated are what the ledger holds but for a call that is not over and
\* an append that raised, which is among the dropped (hook.py, _drain() and the
\* handlers of observe()).
THEOREM CountersAreTrue == Spec => []CountersTellLedger
<1>1. Init => IInv /\ Counted
  BY Starts, CountsStart
<1>2. IInv /\ [Next]_vars => IInv'
  BY Keeps
<1>3. IInv /\ IInv' /\ Counted /\ [Next]_vars => Counted'
  BY CountsKept
<1>4. IInv /\ Counted => CountersTellLedger
  BY CountsSay
<1> QED BY <1>1, <1>2, <1>3, <1>4, PTL DEF Spec
=============================================================================
