---------------------------- MODULE Guard_proofs ----------------------------
(***************************************************************************)
(* Guard's safety for any number of payment threads, any queue size, any   *)
(* number of calls and of restarts of the worker.                          *)
(***************************************************************************)
EXTENDS Guard, SequenceTheorems, FiniteSetTheorems, TLAPS

\* Where a candidate can be while it has not left the guard.
Busy(p)      == pc[p] \in {"hand", "handler"}
IsHeld(c)    == \E p \in Payers : Busy(p) /\ cand[p] = c
IsQueued(c)  == \E i \in 1..Len(queue) : queue[i] = c
IsRunning(c) == \E t \in Threads : tpc[t] = "run" /\ item[t] = c
Placed(c)    == IsHeld(c) \/ IsQueued(c) \/ IsRunning(c)

\* Each place holds a candidate observe() was called with, and no candidate is
\* in two places, or twice in one.
Places ==
  /\ \A p \in Payers : Busy(p) => cand[p] \in 1..calls
  /\ \A i \in 1..Len(queue) : queue[i] # Poison => queue[i] \in 1..calls
  /\ \A t \in Threads : tpc[t] = "run" => item[t] \in 1..calls
  /\ \A p, q \in Payers : Busy(p) /\ Busy(q) /\ cand[p] = cand[q] => p = q
  /\ \A i, j \in 1..Len(queue) : queue[i] = queue[j] /\ queue[i] # Poison => i = j
  /\ \A t, u \in Threads :
       tpc[t] = "run" /\ tpc[u] = "run" /\ item[t] = item[u] => t = u
  /\ \A p \in Payers, i \in 1..Len(queue) : Busy(p) => queue[i] # cand[p]
  /\ \A t \in Threads, i \in 1..Len(queue) : tpc[t] = "run" => queue[i] # item[t]
  /\ \A p \in Payers, t \in Threads : Busy(p) /\ tpc[t] = "run" => item[t] # cand[p]

Exits == {"evaluated", "dropped", "timed_out", "duplicate"}

\* A candidate has no fate while it is in a place, and one afterwards.
FateFacts ==
  /\ \A c \in Candidates : c > calls => fates[c] = {}
  /\ ~Loud => \A c \in 1..calls :
       IF Placed(c) THEN fates[c] = {} ELSE \E f \in Exits : fates[c] = {f}

\* start() and stop() alternate, and a thread that was not created does not run.
HostFacts ==
  /\ IF worker = 0 THEN starts = stops ELSE worker = starts /\ starts = stops + 1
  /\ ctl # "idle" => worker # 0
  /\ starts > 0 => mode = "async"
  /\ \A t \in Threads : t > starts => tpc[t] = "none"
  /\ Quiet => starts <= 1

\* A quiet host stops only when no payment thread is inside observe(), and
\* join() waited until nothing was queued or under evaluation.
Drained ==
  Quiet /\ ctl # "idle" => \A p \in Payers : pc[p] = "idle"

Stopped ==
  Quiet /\ (ctl \in {"put", "joinWorker"} \/ stops > 0) =>
    /\ \A p \in Payers : pc[p] = "idle"
    /\ \A i \in 1..Len(queue) : queue[i] = Poison
    /\ \A t \in Threads : tpc[t] # "run"

IInv == /\ TypeOK /\ Places /\ FateFacts /\ HostFacts /\ Drained /\ Stopped
        /\ UnfinishedExact /\ CountersExact

----------------------------------------------------------------------------
(* Lemmas about the queue, the threads under evaluation and the fates.     *)

USE GuardAssumption DEF Candidates, Poison, Threads, Counters, Busy, Exits

AtRun     == {t \in Threads : tpc[t] = "run"}
Left(exit) == {c \in 1..calls : exit \in fates[c]}

\* get() takes the first item and keeps the order of the others.
LEMMA TakeFirst ==
  ASSUME TypeOK, queue # <<>>, queue' = Tail(queue)
  PROVE  /\ Len(queue) \in Nat /\ 1 \in 1..Len(queue) /\ Head(queue) = queue[1]
         /\ queue' \in Seq({Poison} \cup Candidates)
         /\ Len(queue') = Len(queue) - 1
         /\ \A i \in 1..Len(queue') : queue'[i] = queue[i + 1]
<1>1. Len(queue) \in Nat \ {0}
  BY EmptySeq DEF TypeOK
<1>2. Head(queue) = queue[1]
  BY DEF TypeOK
<1> QED BY <1>1, <1>2, HeadTailProperties DEF TypeOK

\* put() adds at the end and needs room.
LEMMA AddLast ==
  ASSUME TypeOK, NEW x \in {Poison} \cup Candidates, Put(x)
  PROVE  /\ Len(queue) \in Nat
         /\ queue' \in Seq({Poison} \cup Candidates)
         /\ Len(queue') = Len(queue) + 1 /\ Len(queue') <= QueueSize
         /\ \A i \in 1..Len(queue) : queue'[i] = queue[i]
         /\ queue'[Len(queue) + 1] = x
         /\ unfinished' = unfinished + 1
<1>1. Len(queue) \in Nat
  BY LenProperties DEF TypeOK
<1> QED BY <1>1, AppendProperties DEF TypeOK, Put, Full

LEMMA RunningIsFinite ==
  IsFiniteSet(AtRun) /\ Cardinality(AtRun) \in Nat
<1>1. IsFiniteSet(Threads)
  BY FS_Interval
<1>2. IsFiniteSet(AtRun)
  BY <1>1, FS_Subset DEF AtRun
<1> QED BY <1>2, FS_CardinalityType

\* A worker begins an evaluation, ends one, or does something else.
LEMMA BeginsRun ==
  ASSUME TypeOK, NEW t \in Threads, Move(t, "get", "run")
  PROVE  Cardinality(AtRun)' = Cardinality(AtRun) + 1
<1>1. AtRun' = AtRun \cup {t} /\ t \notin AtRun
  BY DEF AtRun, Move, TypeOK
<1> QED BY <1>1, RunningIsFinite, FS_AddElement

LEMMA EndsRun ==
  ASSUME TypeOK, NEW t \in Threads, NEW to, to # "run", Move(t, "run", to)
  PROVE  /\ Cardinality(AtRun)' = Cardinality(AtRun) - 1
         /\ Cardinality(AtRun) >= 1
<1>1. AtRun' = AtRun \ {t} /\ t \in AtRun
  BY DEF AtRun, Move, TypeOK
<1>2. Cardinality(AtRun)' = Cardinality(AtRun) - 1
  BY <1>1, RunningIsFinite, FS_RemoveElement
<1>3. AtRun # {}
  BY <1>1
<1>4. Cardinality(AtRun) # 0
  BY <1>3, RunningIsFinite, FS_EmptySet
<1> QED BY <1>2, <1>4, RunningIsFinite

LEMMA OtherMove ==
  ASSUME TypeOK, NEW t \in Threads, NEW to, to # "run", tpc[t] # "run",
         tpc' = [tpc EXCEPT ![t] = to]
  PROVE  Cardinality(AtRun)' = Cardinality(AtRun)
<1>1. AtRun' = AtRun
  BY DEF AtRun, TypeOK
<1> QED BY <1>1

LEMMA LeftIsFinite ==
  ASSUME TypeOK, NEW exit
  PROVE  IsFiniteSet(Left(exit)) /\ Cardinality(Left(exit)) \in Nat
<1>1. IsFiniteSet(1..calls)
  BY FS_Interval DEF TypeOK
<1>2. IsFiniteSet(Left(exit))
  BY <1>1, FS_Subset DEF Left
<1> QED BY <1>2, FS_CardinalityType

\* A fate is recorded for one candidate that did not have it.
LEMMA Settled ==
  ASSUME TypeOK, NEW c \in 1..calls, NEW fate \in Exits, fate \notin fates[c],
         Settle(c, fate), calls' = calls
  PROVE  \A exit : Cardinality(Left(exit))' =
                     Cardinality(Left(exit)) + (IF exit = fate THEN 1 ELSE 0)
<1> SUFFICES ASSUME NEW exit
             PROVE  Cardinality(Left(exit))' =
                      Cardinality(Left(exit)) + (IF exit = fate THEN 1 ELSE 0)
  OBVIOUS
<1>1. Cardinality(Left(exit)) \in Nat /\ IsFiniteSet(Left(exit))
  BY LeftIsFinite
<1>2. CASE exit = fate
  <2>1. Left(exit)' = Left(exit) \cup {c} /\ c \notin Left(exit)
    BY <1>2 DEF Left, Settle, TypeOK
  <2> QED BY <1>1, <1>2, <2>1, FS_AddElement
<1>3. CASE exit # fate
  <2>1. Left(exit)' = Left(exit)
    BY <1>3 DEF Left, Settle, TypeOK
  <2> QED BY <1>1, <1>3, <2>1
<1> QED BY <1>2, <1>3

----------------------------------------------------------------------------
(* The invariant is inductive: first the steps that move no candidate.     *)

USE DEF Payment, Queue, Drain, Host, Record, vars

LEMMA InitEstablishes == ASSUME Init PROVE IInv
<1>1. TypeOK
  <2>1. queue \in Seq({Poison} \cup Candidates) /\ Len(queue) = 0
    BY EmptySeq DEF Init
  <2>2. /\ pc \in [Payers -> {"idle", "hand", "handler", "raised"}]
        /\ cand \in [Payers -> 0..MaxCalls] /\ calls \in 0..MaxCalls
        /\ tpc \in [Threads -> {"none", "loop", "get", "run", "exited", "died"}]
        /\ item \in [Threads -> {Poison} \cup Candidates]
    BY DEF Init
  <2>3. /\ counters \in [Counters -> Nat]
        /\ fates \in [Candidates -> SUBSET {"evaluated", "dropped", "timed_out", "duplicate"}]
    BY DEF Init
  <2>4. /\ worker \in 0..MaxStarts /\ starts \in 0..MaxStarts /\ stops \in 0..MaxStarts
        /\ Len(queue) <= QueueSize /\ unfinished \in Nat
    BY <2>1 DEF Init
  <2>5. /\ stopping \in BOOLEAN /\ ctl \in {"idle", "join", "put", "joinWorker"}
    BY DEF Init
  <2>6. /\ mode \in {"async", "sync"} /\ host \in {"quiet", "free", "loud"}
    BY DEF Init
  <2> QED BY <2>1, <2>2, <2>3, <2>4, <2>5, <2>6 DEF TypeOK
<1>2. Places /\ FateFacts
  BY EmptySeq DEF Init, Places, FateFacts, Placed, IsHeld, IsQueued, IsRunning
<1>3. HostFacts /\ Drained /\ Stopped
  BY DEF Init, HostFacts, Drained, Stopped
<1>4. UnfinishedExact
  <2>1. {t \in Threads : tpc[t] = "run"} = {}
    BY DEF Init
  <2>2. Len(queue) = 0 /\ unfinished = 0
    BY EmptySeq DEF Init
  <2>3. Cardinality({t \in Threads : tpc[t] = "run"}) = 0
    BY <2>1, FS_EmptySet
  <2> QED BY <2>2, <2>3 DEF UnfinishedExact
<1>5. CountersExact
  <2>1. \A exit \in {"evaluated", "dropped"} : {c \in 1..calls : exit \in fates[c]} = {}
    BY DEF Init
  <2> QED BY <2>1, FS_EmptySet DEF Init, CountersExact
<1> QED BY <1>1, <1>2, <1>3, <1>4, <1>5 DEF IInv

\* Where the candidates are and what became of them stays.
LEMMA PlacesUntouched ==
  ASSUME TypeOK, Places, FateFacts, CountersExact,
         UNCHANGED <<cand, calls, queue, item, host, counters, fates>>,
         \A p \in Payers : Busy(p)' = Busy(p),
         \A t \in Threads : (tpc[t] = "run") = (tpc'[t] = "run")
  PROVE  Places' /\ FateFacts' /\ CountersExact'
<1>1. Places'
  BY DEF Places, IsQueued, IsRunning
<1>2. FateFacts'
  BY DEF FateFacts, Placed, IsHeld, IsQueued, IsRunning, Loud
<1>3. CountersExact'
  BY DEF CountersExact, Loud
<1> QED BY <1>1, <1>2, <1>3

LEMMA CheckStopPreserves == ASSUME IInv, NEW t \in Threads, CheckStop(t) PROVE IInv'
<1> USE DEF IInv, CheckStop, Move
<1>1. TypeOK'
  BY DEF TypeOK
<1>2. Places' /\ FateFacts' /\ CountersExact'
  BY PlacesUntouched DEF TypeOK
<1>3. HostFacts' /\ Drained' /\ Stopped'
  BY DEF TypeOK, HostFacts, Drained, Stopped, Quiet
<1>4. UnfinishedExact'
  BY OtherMove DEF UnfinishedExact, AtRun, TypeOK
<1> QED BY <1>1, <1>2, <1>3, <1>4

LEMMA GetEmptyPreserves == ASSUME IInv, NEW t \in Threads, GetEmpty(t) PROVE IInv'
<1> USE DEF IInv, GetEmpty, Move
<1>1. TypeOK'
  BY DEF TypeOK
<1>2. Places' /\ FateFacts' /\ CountersExact'
  BY PlacesUntouched DEF TypeOK
<1>3. HostFacts' /\ Drained' /\ Stopped'
  BY DEF TypeOK, HostFacts, Drained, Stopped, Quiet
<1>4. UnfinishedExact'
  BY OtherMove DEF UnfinishedExact, AtRun, TypeOK
<1> QED BY <1>1, <1>2, <1>3, <1>4

\* The thread start() creates is a new one.
LEMMA StartPreserves == ASSUME IInv, Start PROVE IInv'
<1> USE DEF IInv, Start
<1>1. starts' \in Threads /\ tpc[starts'] = "none" /\ starts' = starts + 1
  BY DEF TypeOK, HostFacts
<1>2. TypeOK'
  BY <1>1 DEF TypeOK
<1>3. Places' /\ FateFacts' /\ CountersExact'
  BY <1>1, PlacesUntouched DEF TypeOK
<1>4. HostFacts'
  BY <1>1 DEF TypeOK, HostFacts, Quiet
<1>5. Drained' /\ Stopped'
  BY <1>1 DEF TypeOK, HostFacts, Drained, Stopped, Quiet
<1>6. UnfinishedExact'
  BY <1>1, OtherMove DEF UnfinishedExact, AtRun
<1> QED BY <1>2, <1>3, <1>4, <1>5, <1>6

\* A quiet host calls stop() between two calls of observe().
LEMMA StopPreserves == ASSUME IInv, Stop PROVE IInv'
<1> USE DEF IInv, Stop
<1>1. TypeOK' /\ HostFacts' /\ UnfinishedExact'
  BY DEF TypeOK, HostFacts, Quiet, UnfinishedExact
<1>2. Places' /\ FateFacts' /\ CountersExact'
  BY PlacesUntouched
<1>3. Drained' /\ Stopped'
  BY DEF Drained, Stopped, Quiet
<1> QED BY <1>1, <1>2, <1>3

\* When nothing is unfinished, nothing is queued or under evaluation.
LEMMA JoinQueuePreserves == ASSUME IInv, JoinQueue PROVE IInv'
<1> USE DEF IInv, JoinQueue
<1>1. TypeOK' /\ HostFacts' /\ UnfinishedExact' /\ Drained'
  BY DEF TypeOK, HostFacts, Quiet, UnfinishedExact, Drained
<1>2. Places' /\ FateFacts' /\ CountersExact'
  BY PlacesUntouched
<1>3. Len(queue) = 0 /\ AtRun = {}
  <2>1. Len(queue) \in Nat /\ Len(queue) + Cardinality(AtRun) = 0
    BY LenProperties DEF TypeOK, UnfinishedExact, AtRun
  <2> QED BY <2>1, RunningIsFinite, FS_EmptySet
<1>4. Stopped'
  BY <1>3 DEF Stopped, Drained, Quiet, AtRun
<1> QED BY <1>1, <1>2, <1>4

LEMMA JoinWorkerPreserves == ASSUME IInv, JoinWorker PROVE IInv'
<1> USE DEF IInv, JoinWorker
<1>1. TypeOK' /\ HostFacts' /\ UnfinishedExact'
  BY DEF TypeOK, HostFacts, Quiet, UnfinishedExact
<1>2. Places' /\ FateFacts' /\ CountersExact'
  BY PlacesUntouched
<1>3. Drained' /\ Stopped'
  BY DEF Drained, Stopped, Quiet
<1> QED BY <1>1, <1>2, <1>3

----------------------------------------------------------------------------
(* The steps of a worker and of stop() on the queue.                      *)

\* The poison is no candidate, so nothing but the queue's length changes.
LEMMA PutPoisonPreserves == ASSUME IInv, PutPoison PROVE IInv'
<1> USE DEF IInv, PutPoison
<1>1. /\ Len(queue) \in Nat
      /\ queue' \in Seq({Poison} \cup Candidates)
      /\ Len(queue') = Len(queue) + 1 /\ Len(queue') <= QueueSize
      /\ \A i \in 1..Len(queue) : queue'[i] = queue[i]
      /\ queue'[Len(queue) + 1] = Poison
      /\ unfinished' = unfinished + 1
  BY AddLast
<1>2. TypeOK'
  BY <1>1 DEF TypeOK
<1>3. \A c \in Candidates : /\ IsQueued(c)' <=> IsQueued(c)
                            /\ IsHeld(c)' <=> IsHeld(c)
                            /\ IsRunning(c)' <=> IsRunning(c)
  BY <1>1 DEF IsQueued, IsHeld, IsRunning
<1>4. Places'
  <2>1. \A p \in Payers : Busy(p) => cand[p] # Poison
    BY DEF Places, TypeOK
  <2>2. \A t \in Threads : tpc[t] = "run" => item[t] # Poison
    BY DEF Places, TypeOK
  <2>3. \A i \in 1..Len(queue') : queue'[i] # Poison => i \in 1..Len(queue)
    BY <1>1
  <2> QED BY <1>1, <2>1, <2>2, <2>3 DEF Places
<1>5. FateFacts'
  <2>1. \A c \in 1..calls : Placed(c)' <=> Placed(c)
    BY <1>3 DEF Placed, TypeOK
  <2> QED BY <2>1 DEF FateFacts, Loud
<1>6. HostFacts' /\ Drained' /\ CountersExact'
  BY DEF HostFacts, Drained, Quiet, Loud, CountersExact
<1>7. Stopped'
  BY <1>1 DEF Stopped, Quiet
<1>8. UnfinishedExact'
  BY <1>1, RunningIsFinite DEF UnfinishedExact, AtRun
<1> QED BY <1>2, <1>4, <1>5, <1>6, <1>7, <1>8

LEMMA GetPoisonPreserves == ASSUME IInv, NEW t \in Threads, GetPoison(t) PROVE IInv'
<1> USE DEF IInv, GetPoison, TaskDone
<1>1. /\ Len(queue) \in Nat /\ 1 \in 1..Len(queue) /\ queue[1] = Poison
      /\ queue' \in Seq({Poison} \cup Candidates)
      /\ Len(queue') = Len(queue) - 1
      /\ \A i \in 1..Len(queue') : queue'[i] = queue[i + 1]
  BY TakeFirst
<1>2. Cardinality(AtRun)' = Cardinality(AtRun) /\ Cardinality(AtRun) \in Nat
  BY OtherMove, RunningIsFinite DEF Move
<1>3. UnfinishedExact' /\ unfinished' \in Nat
  BY <1>1, <1>2 DEF UnfinishedExact, AtRun
<1>4. TypeOK'
  BY <1>1, <1>3 DEF TypeOK, Move
<1>5. \A c \in Candidates : /\ IsQueued(c)' <=> IsQueued(c)
                            /\ IsHeld(c)' <=> IsHeld(c)
                            /\ IsRunning(c)' <=> IsRunning(c)
  <2>1. ASSUME NEW c \in Candidates, IsQueued(c) PROVE IsQueued(c)'
    <3>1. PICK i \in 1..Len(queue) : queue[i] = c
      BY <2>1 DEF IsQueued
    <3>2. i # 1 /\ i - 1 \in 1..Len(queue') /\ (i - 1) + 1 = i
      BY <1>1, <3>1
    <3> QED BY <1>1, <3>1, <3>2 DEF IsQueued
  <2>2. ASSUME NEW c \in Candidates, IsQueued(c)' PROVE IsQueued(c)
    <3>1. PICK i \in 1..Len(queue') : queue'[i] = c
      BY <2>2 DEF IsQueued
    <3>2. i + 1 \in 1..Len(queue)
      BY <1>1
    <3> QED BY <1>1, <3>1, <3>2 DEF IsQueued
  <2>3. \A u \in Threads : (tpc'[u] = "run") = (tpc[u] = "run")
    BY DEF Move, TypeOK
  <2> QED BY <2>1, <2>2, <2>3 DEF IsHeld, IsRunning
<1>6. Places'
  <2>1. \A i \in 1..Len(queue') : i + 1 \in 1..Len(queue)
    BY <1>1
  <2>2. \A u \in Threads : tpc'[u] = "run" => tpc[u] = "run"
    BY DEF Move, TypeOK
  <2> QED BY <1>1, <2>1, <2>2 DEF Places
<1>7. FateFacts'
  <2>1. \A c \in 1..calls : Placed(c)' <=> Placed(c)
    BY <1>5 DEF Placed, TypeOK
  <2> QED BY <2>1 DEF FateFacts, Loud
<1>8. HostFacts' /\ Drained' /\ CountersExact'
  BY DEF HostFacts, Drained, Quiet, Loud, CountersExact, Move, TypeOK
<1>9. Stopped'
  BY <1>1 DEF Stopped, Quiet, Move, TypeOK
<1> QED BY <1>3, <1>4, <1>6, <1>7, <1>8, <1>9

\* The candidate goes from the head of the queue to the worker.
LEMMA GetCandidatePreserves ==
  ASSUME IInv, NEW t \in Threads, GetCandidate(t) PROVE IInv'
<1> USE DEF IInv, GetCandidate
<1>1. /\ Len(queue) \in Nat /\ 1 \in 1..Len(queue) /\ queue[1] # Poison
      /\ queue' \in Seq({Poison} \cup Candidates)
      /\ Len(queue') = Len(queue) - 1
      /\ \A i \in 1..Len(queue') : queue'[i] = queue[i + 1]
      /\ item' = [item EXCEPT ![t] = queue[1]]
  BY TakeFirst
<1>2. queue[1] \in 1..calls /\ queue[1] \in Candidates
  BY <1>1 DEF Places, TypeOK
<1>3. Cardinality(AtRun)' = Cardinality(AtRun) + 1 /\ Cardinality(AtRun) \in Nat
  BY BeginsRun, RunningIsFinite
<1>4. UnfinishedExact'
  BY <1>1, <1>3 DEF UnfinishedExact, AtRun
<1>5. TypeOK'
  BY <1>1, <1>2 DEF TypeOK, Move
<1>6. /\ \A u \in Threads : u # t => item'[u] = item[u] /\ tpc'[u] = tpc[u]
      /\ item'[t] = queue[1] /\ tpc'[t] = "run" /\ tpc[t] # "run"
  BY <1>1 DEF TypeOK, Move
<1>7. \A c \in Candidates : /\ IsQueued(c)' <=> IsQueued(c) /\ c # queue[1]
                            /\ IsRunning(c)' <=> IsRunning(c) \/ c = queue[1]
                            /\ IsHeld(c)' <=> IsHeld(c)
  <2>1. ASSUME NEW c \in Candidates, IsQueued(c), c # queue[1] PROVE IsQueued(c)'
    <3>1. PICK i \in 1..Len(queue) : queue[i] = c
      BY <2>1 DEF IsQueued
    <3>2. i # 1 /\ i - 1 \in 1..Len(queue') /\ (i - 1) + 1 = i
      BY <1>1, <2>1, <3>1
    <3> QED BY <1>1, <3>1, <3>2 DEF IsQueued
  <2>2. ASSUME NEW c \in Candidates, IsQueued(c)' PROVE IsQueued(c) /\ c # queue[1]
    <3>1. PICK i \in 1..Len(queue') : queue'[i] = c
      BY <2>2 DEF IsQueued
    <3>2. i + 1 \in 1..Len(queue) /\ i + 1 # 1 /\ queue[i + 1] = c
      BY <1>1, <3>1
    <3> QED BY <1>1, <3>2 DEF IsQueued, Places
  <2>3. \A c \in Candidates : IsRunning(c)' <=> IsRunning(c) \/ c = queue[1]
    BY <1>6 DEF IsRunning
  <2> QED BY <2>1, <2>2, <2>3 DEF IsHeld
<1>8. IsQueued(queue[1])
  BY <1>1 DEF IsQueued
<1>9. Places'
  <2>1. \A i \in 1..Len(queue') : i + 1 \in 1..Len(queue) /\ i + 1 # 1
    BY <1>1
  <2>2. /\ \A p \in Payers : Busy(p) => cand[p] # queue[1]
        /\ \A u \in Threads : tpc[u] = "run" => item[u] # queue[1]
        /\ \A i \in 1..Len(queue') : queue'[i] # queue[1]
    BY <1>1, <2>1 DEF Places
  <2>3. \A u, v \in Threads :
          tpc'[u] = "run" /\ tpc'[v] = "run" /\ item'[u] = item'[v] => u = v
    BY <1>6, <2>2 DEF Places
  <2>4. /\ \A u \in Threads : tpc'[u] = "run" => item'[u] \in 1..calls
        /\ \A p \in Payers, u \in Threads : Busy(p) /\ tpc'[u] = "run" => item'[u] # cand[p]
        /\ \A u \in Threads, i \in 1..Len(queue') : tpc'[u] = "run" => queue'[i] # item'[u]
    BY <1>1, <1>2, <1>6, <2>1, <2>2, SMTT(30) DEF Places
  <2>5. /\ \A i \in 1..Len(queue') : queue'[i] # Poison => queue'[i] \in 1..calls
        /\ \A i, j \in 1..Len(queue') :
             queue'[i] = queue'[j] /\ queue'[i] # Poison => i = j
    BY <1>1, <2>1, SMTT(30) DEF Places
  <2>6. \A p \in Payers, i \in 1..Len(queue') : Busy(p) => queue'[i] # cand[p]
    BY <1>1, <2>1 DEF Places
  <2> QED BY <2>3, <2>4, <2>5, <2>6 DEF Places
<1>10. FateFacts'
  <2>1. \A c \in 1..calls : Placed(c)' <=> Placed(c)
    BY <1>7, <1>8 DEF Placed, TypeOK
  <2> QED BY <2>1 DEF FateFacts, Loud
<1>11. HostFacts' /\ Drained' /\ CountersExact'
  BY DEF HostFacts, Drained, Quiet, Loud, CountersExact, Move, TypeOK
<1>12. Stopped'
  BY <1>1 DEF Stopped, Quiet
<1> QED BY <1>4, <1>5, <1>9, <1>10, <1>11, <1>12

----------------------------------------------------------------------------
(* The steps by which a candidate leaves.                                  *)

\* A worker ends an evaluation: the candidate leaves by one exit, the one that
\* is counted, and the item is done.
LEMMA LeavesWorker ==
  ASSUME IInv, NEW t \in Threads, NEW exit \in {"evaluated", "dropped"},
         NEW to \in {"loop", "died"},
         Leave(item[t], exit), TaskDone, Move(t, "run", to),
         UNCHANGED <<Payment, queue, item, Host>>
  PROVE  IInv'
<1> USE DEF IInv, Leave, TaskDone
<1>1. item[t] \in 1..calls /\ item[t] \in Candidates /\ tpc[t] = "run"
  BY DEF Places, TypeOK, Move
<1>2. /\ \A u \in Threads : u # t => tpc'[u] = tpc[u]
      /\ tpc'[t] # "run"
  BY DEF TypeOK, Move
<1>3. UnfinishedExact' /\ unfinished' \in Nat
  <2>1. /\ Cardinality(AtRun)' = Cardinality(AtRun) - 1
        /\ Cardinality(AtRun) \in Nat /\ Cardinality(AtRun) >= 1
    BY EndsRun, RunningIsFinite
  <2>2. Len(queue) \in Nat
    BY LenProperties DEF TypeOK
  <2> QED BY <2>1, <2>2 DEF UnfinishedExact, AtRun
<1>4. TypeOK'
  <2>1. counters' \in [Counters -> Nat]
    BY DEF TypeOK, Count
  <2>2. fates' \in [Candidates -> SUBSET Exits]
    BY <1>1 DEF TypeOK, Settle
  <2>3. tpc' \in [Threads -> {"none", "loop", "get", "run", "exited", "died"}]
    BY DEF TypeOK, Move
  <2> QED BY <1>3, <2>1, <2>2, <2>3 DEF TypeOK
<1>5. Places'
  BY <1>2 DEF Places
<1>6. /\ \A c \in 1..calls : c # item[t] => (Placed(c)' <=> Placed(c))
      /\ Placed(item[t]) /\ ~Placed(item[t])'
  <2>1. \A c \in 1..calls : c # item[t] => (IsRunning(c)' <=> IsRunning(c))
    BY <1>2 DEF IsRunning
  <2>2. IsRunning(item[t]) /\ ~IsRunning(item[t])'
    BY <1>1, <1>2 DEF IsRunning, Places
  <2>3. ~IsHeld(item[t])' /\ ~IsQueued(item[t])'
    BY <1>1 DEF IsHeld, IsQueued, Places
  <2> QED BY <2>1, <2>2, <2>3 DEF Placed, IsHeld, IsQueued
<1>7. FateFacts'
  <2>1. \A c \in Candidates :
          fates'[c] = IF c = item[t] THEN fates[c] \cup {exit} ELSE fates[c]
    BY <1>1 DEF TypeOK, Settle
  <2>2. \A c \in Candidates : c > calls => c # item[t]
    BY <1>1 DEF TypeOK
  <2>3. ASSUME ~Loud, NEW c \in 1..calls
        PROVE  IF Placed(c)' THEN fates'[c] = {} ELSE \E f \in Exits : fates'[c] = {f}
    <3>1. c \in Candidates
      BY DEF TypeOK
    <3>2. CASE c = item[t]
      BY <1>6, <2>1, <2>3, <3>1, <3>2 DEF FateFacts
    <3>3. CASE c # item[t]
      BY <1>6, <2>1, <2>3, <3>1, <3>3 DEF FateFacts
    <3> QED BY <3>2, <3>3
  <2>4. \A c \in Candidates : c > calls' => fates'[c] = {}
    BY <2>1, <2>2 DEF FateFacts
  <2> QED BY <2>3, <2>4 DEF FateFacts, Loud
<1>8. CountersExact'
  <2>1. ASSUME ~Loud PROVE fates[item[t]] = {}
    BY <1>1, <1>6, <2>1 DEF FateFacts
  <2>2. ASSUME ~Loud, NEW e \in {"evaluated", "dropped"}
        PROVE  counters'[e] = Cardinality(Left(e))'
    <3>1. Cardinality(Left(e))' = Cardinality(Left(e)) + (IF e = exit THEN 1 ELSE 0)
      BY <1>1, <2>1, <2>2, Settled
    <3>2. counters[e] = Cardinality(Left(e))
      BY <2>2 DEF CountersExact, Left
    <3>3. counters'[e] = counters[e] + (IF e = exit THEN 1 ELSE 0)
      BY DEF TypeOK, Count
    <3> QED BY <3>1, <3>2, <3>3
  <2> QED BY <2>2 DEF CountersExact, Left, Loud
<1>9. HostFacts' /\ Drained'
  BY DEF HostFacts, Drained, Quiet, Move, TypeOK
<1>10. Stopped'
  BY <1>2 DEF Stopped, Quiet
<1> QED BY <1>3, <1>4, <1>5, <1>7, <1>8, <1>9, <1>10

LEMMA RunPreserves == ASSUME IInv, NEW t \in Threads, Run(t) PROVE IInv'
BY LeavesWorker DEF Run

LEMMA RunFailsPreserves == ASSUME IInv, NEW t \in Threads, RunFails(t) PROVE IInv'
<1>1. PICK raises \in LogOutcome : Move(t, "run", IF raises THEN "died" ELSE "loop")
  BY DEF RunFails
<1>2. /\ Leave(item[t], "dropped") /\ TaskDone
      /\ UNCHANGED <<Payment, queue, item, Host>>
  BY DEF RunFails
<1>3. CASE raises
  BY <1>1, <1>2, <1>3, LeavesWorker
<1>4. CASE ~raises
  BY <1>1, <1>2, <1>4, LeavesWorker
<1> QED BY <1>3, <1>4

\* A payment thread lets its candidate go by one exit, with what it counts.
\* Only a log that raises makes it go anywhere but out of observe().
LEMMA LeavesPayer ==
  ASSUME IInv, NEW p \in Payers, Busy(p),
         NEW exit \in Exits, NEW to \in {"idle", "handler", "raised"},
         ~Loud => to = "idle",
         pc' = [pc EXCEPT ![p] = to], Settle(cand[p], exit),
         counters' \in [Counters -> Nat],
         \A e \in {"evaluated", "dropped"} :
           counters'[e] = counters[e] + (IF e = exit THEN 1 ELSE 0),
         UNCHANGED <<cand, calls, Queue, Drain, Host>>
  PROVE  IInv'
<1> USE DEF IInv
<1>1. cand[p] \in 1..calls /\ cand[p] \in Candidates
  BY DEF Places, TypeOK
<1>2. /\ \A q \in Payers : q # p => pc'[q] = pc[q]
      /\ pc'[p] = to
  BY DEF TypeOK
<1>3. TypeOK'
  <2>1. fates' \in [Candidates -> SUBSET Exits]
    BY <1>1 DEF TypeOK, Settle
  <2>2. pc' \in [Payers -> {"idle", "hand", "handler", "raised"}]
    BY DEF TypeOK
  <2> QED BY <2>1, <2>2 DEF TypeOK
<1>4. Places'
  <2>1. \A q \in Payers : Busy(q)' => Busy(q)
    BY <1>2
  <2> QED BY <2>1 DEF Places
<1>5. ASSUME ~Loud
      PROVE  /\ \A c \in 1..calls : c # cand[p] => (Placed(c)' <=> Placed(c))
             /\ Placed(cand[p]) /\ ~Placed(cand[p])'
  <2>1. \A c \in 1..calls : c # cand[p] => (IsHeld(c)' <=> IsHeld(c))
    BY <1>2, <1>5 DEF IsHeld
  <2>2. IsHeld(cand[p]) /\ ~IsHeld(cand[p])'
    BY <1>1, <1>2, <1>5 DEF IsHeld, Places
  <2>3. ~IsRunning(cand[p])' /\ ~IsQueued(cand[p])'
    BY <1>1 DEF IsRunning, IsQueued, Places
  <2> QED BY <2>1, <2>2, <2>3 DEF Placed, IsRunning, IsQueued
<1>6. FateFacts'
  <2>1. \A c \in Candidates :
          fates'[c] = IF c = cand[p] THEN fates[c] \cup {exit} ELSE fates[c]
    BY <1>1 DEF TypeOK, Settle
  <2>2. \A c \in Candidates : c > calls => c # cand[p]
    BY <1>1 DEF TypeOK
  <2>3. ASSUME ~Loud, NEW c \in 1..calls
        PROVE  IF Placed(c)' THEN fates'[c] = {} ELSE \E f \in Exits : fates'[c] = {f}
    <3>1. c \in Candidates
      BY DEF TypeOK
    <3>2. CASE c = cand[p]
      BY <1>5, <2>1, <2>3, <3>1, <3>2 DEF FateFacts
    <3>3. CASE c # cand[p]
      BY <1>5, <2>1, <2>3, <3>1, <3>3 DEF FateFacts
    <3> QED BY <3>2, <3>3
  <2>4. \A c \in Candidates : c > calls' => fates'[c] = {}
    BY <2>1, <2>2 DEF FateFacts
  <2> QED BY <2>3, <2>4 DEF FateFacts, Loud
<1>7. CountersExact'
  <2>1. ASSUME ~Loud PROVE fates[cand[p]] = {}
    BY <1>1, <1>5, <2>1 DEF FateFacts
  <2>2. ASSUME ~Loud, NEW e \in {"evaluated", "dropped"}
        PROVE  counters'[e] = Cardinality(Left(e))'
    <3>1. Cardinality(Left(e))' = Cardinality(Left(e)) + (IF e = exit THEN 1 ELSE 0)
      BY <1>1, <2>1, <2>2, Settled
    <3>2. counters[e] = Cardinality(Left(e))
      BY <2>2 DEF CountersExact, Left
    <3> QED BY <3>1, <3>2
  <2> QED BY <2>2 DEF CountersExact, Left, Loud
<1>8. HostFacts' /\ UnfinishedExact'
  BY DEF HostFacts, UnfinishedExact, Quiet
<1>9. Drained' /\ Stopped'
  BY DEF Drained, Stopped, Quiet
<1> QED BY <1>3, <1>4, <1>6, <1>7, <1>8, <1>9

LEMMA EnqueueFullPreserves ==
  ASSUME IInv, NEW p \in Payers, EnqueueFull(p) PROVE IInv'
<1>1. PICK raises \in LogOutcome :
        Goto(p, "hand", IF raises THEN "handler" ELSE "idle")
  BY DEF EnqueueFull
<1>2. ~Loud => raises = FALSE
  BY DEF LogOutcome
<1>3. /\ Busy(p) /\ Settle(cand[p], "dropped")
      /\ pc' = [pc EXCEPT ![p] = IF raises THEN "handler" ELSE "idle"]
      /\ UNCHANGED <<cand, calls, Queue, Drain, Host>>
  BY <1>1 DEF EnqueueFull, Leave, Goto
<1>4. /\ counters' \in [Counters -> Nat]
      /\ \A e \in {"evaluated", "dropped"} :
           counters'[e] = counters[e] + (IF e = "dropped" THEN 1 ELSE 0)
  BY DEF EnqueueFull, Leave, Count, IInv, TypeOK
<1>5. CASE raises
  BY <1>2, <1>3, <1>4, <1>5, LeavesPayer
<1>6. CASE ~raises
  BY <1>3, <1>4, <1>6, LeavesPayer
<1> QED BY <1>5, <1>6

LEMMA HandlerPreserves ==
  ASSUME IInv, NEW p \in Payers, Handler(p) PROVE IInv'
<1>1. PICK raises \in LogOutcome :
        Goto(p, "handler", IF raises THEN "raised" ELSE "idle")
  BY DEF Handler
<1>2. ~Loud => raises = FALSE
  BY DEF LogOutcome
<1>3. /\ Busy(p) /\ Settle(cand[p], "dropped")
      /\ pc' = [pc EXCEPT ![p] = IF raises THEN "raised" ELSE "idle"]
      /\ UNCHANGED <<cand, calls, Queue, Drain, Host>>
  BY <1>1 DEF Handler, Leave, Goto
<1>4. /\ counters' \in [Counters -> Nat]
      /\ \A e \in {"evaluated", "dropped"} :
           counters'[e] = counters[e] + (IF e = "dropped" THEN 1 ELSE 0)
  BY DEF Handler, Leave, Count, IInv, TypeOK
<1>5. CASE raises
  BY <1>2, <1>3, <1>4, <1>5, LeavesPayer
<1>6. CASE ~raises
  BY <1>3, <1>4, <1>6, LeavesPayer
<1> QED BY <1>5, <1>6

LEMMA EvaluateSyncPreserves ==
  ASSUME IInv, NEW p \in Payers, EvaluateSync(p) PROVE IInv'
<1>1. PICK raises \in BOOLEAN :
        /\ ~Loud => ~raises
        /\ Goto(p, "hand", IF raises THEN "handler" ELSE "idle")
  BY DEF EvaluateSync, LogOutcome
<1>2. /\ Busy(p) /\ UNCHANGED <<cand, calls, Queue, Drain, Host>>
      /\ pc' = [pc EXCEPT ![p] = IF raises THEN "handler" ELSE "idle"]
  BY <1>1 DEF EvaluateSync, Goto
<1>3. PICK exit \in {"evaluated", "dropped", "timed_out"} :
        /\ Settle(cand[p], exit)
        /\ \/ Count(exit)
           \/ /\ exit = "evaluated"
              /\ counters' = [counters EXCEPT !["evaluated"] = @ + 1, !["timed_out"] = @ + 1]
  BY DEF EvaluateSync, Leave
<1>4. /\ counters' \in [Counters -> Nat]
      /\ \A e \in {"evaluated", "dropped"} :
           counters'[e] = counters[e] + (IF e = exit THEN 1 ELSE 0)
  BY <1>3 DEF Count, IInv, TypeOK
<1>5. CASE raises
  BY <1>1, <1>2, <1>3, <1>4, <1>5, LeavesPayer
<1>6. CASE ~raises
  BY <1>2, <1>3, <1>4, <1>6, LeavesPayer
<1> QED BY <1>5, <1>6

----------------------------------------------------------------------------
(* The steps that bring a candidate in.                                    *)

\* put_nowait(): the candidate goes from the payment thread to the queue.
LEMMA EnqueuePreserves == ASSUME IInv, NEW p \in Payers, Enqueue(p) PROVE IInv'
<1> USE DEF IInv, Enqueue
<1> DEFINE c0 == cand[p]
<1>1. c0 \in 1..calls /\ c0 \in Candidates /\ Busy(p) /\ c0 # Poison
  BY DEF Places, TypeOK, Goto
<1>2. /\ Len(queue) \in Nat
      /\ queue' \in Seq({Poison} \cup Candidates)
      /\ Len(queue') = Len(queue) + 1 /\ Len(queue') <= QueueSize
      /\ \A i \in 1..Len(queue) : queue'[i] = queue[i]
      /\ queue'[Len(queue) + 1] = c0
      /\ unfinished' = unfinished + 1
  BY <1>1, AddLast
<1>3. /\ \A q \in Payers : q # p => pc'[q] = pc[q]
      /\ pc'[p] = "idle" /\ cand' = cand
  BY DEF TypeOK, Goto
<1> HIDE DEF c0
<1>4. TypeOK'
  BY <1>2 DEF TypeOK, Goto
<1>5. \A c \in 1..calls : /\ IsQueued(c)' <=> IsQueued(c) \/ c = c0
                          /\ c # c0 => (IsHeld(c)' <=> IsHeld(c))
                          /\ IsRunning(c)' <=> IsRunning(c)
  <2>1. \A c \in 1..calls : IsQueued(c)' <=> IsQueued(c) \/ c = c0
    BY <1>2 DEF IsQueued
  <2>2. \A c \in 1..calls : c # c0 => (IsHeld(c)' <=> IsHeld(c))
    BY <1>3 DEF IsHeld, c0
  <2> QED BY <2>1, <2>2 DEF IsRunning
<1>6. IsHeld(c0)
  BY <1>1 DEF IsHeld, c0
<1>7. Places'
  <2>1. \A i \in 1..Len(queue') :
          i \in 1..Len(queue) \/ i = Len(queue) + 1
    BY <1>2
  <2>2. /\ \A i \in 1..Len(queue) : queue[i] # c0
        /\ \A t \in Threads : tpc[t] = "run" => item[t] # c0
        /\ \A q \in Payers : q # p /\ Busy(q) => cand[q] # c0
    BY <1>1 DEF Places, c0
  <2>3. /\ \A i \in 1..Len(queue') : queue'[i] # Poison => queue'[i] \in 1..calls
        /\ \A i, j \in 1..Len(queue') :
             queue'[i] = queue'[j] /\ queue'[i] # Poison => i = j
    BY <1>1, <1>2, <2>1, <2>2 DEF Places
  <2>4. /\ \A q \in Payers, i \in 1..Len(queue') : Busy(q)' => queue'[i] # cand'[q]
        /\ \A t \in Threads, i \in 1..Len(queue') : tpc[t] = "run" => queue'[i] # item[t]
    BY <1>2, <1>3, <2>1, <2>2, SMTT(30) DEF Places
  <2>5. \A q \in Payers : Busy(q)' => Busy(q)
    BY <1>3
  <2> QED BY <2>3, <2>4, <2>5 DEF Places
<1>8. FateFacts'
  <2>1. \A c \in 1..calls : Placed(c)' <=> Placed(c)
    BY <1>5, <1>6 DEF Placed
  <2> QED BY <2>1 DEF FateFacts, Loud
<1>9. HostFacts' /\ CountersExact'
  BY DEF HostFacts, Quiet, Loud, CountersExact
<1>10. Drained' /\ Stopped'
  BY <1>1 DEF Drained, Stopped, Quiet
<1>11. UnfinishedExact'
  BY <1>2, RunningIsFinite DEF UnfinishedExact, AtRun
<1> QED BY <1>4, <1>7, <1>8, <1>9, <1>10, <1>11

\* A call of observe() makes a candidate that is nowhere yet; a repeat leaves
\* at once.
LEMMA ObservePreserves == ASSUME IInv, NEW p \in Payers, Observe(p) PROVE IInv'
<1> USE DEF IInv, Observe
<1>1. PICK c0 \in Candidates :
      /\ c0 = calls + 1 /\ calls' = c0 /\ c0 \notin 1..calls /\ fates[c0] = {}
      /\ 1..c0 = (1..calls) \cup {c0} /\ c0 # Poison /\ pc[p] = "idle"
      /\ 1..calls \subseteq Candidates
  BY DEF TypeOK, FateFacts, Goto, ObserveNew, ObserveRepeat, ObserveFails
<1>2. /\ \A q \in Payers : q # p => pc'[q] = pc[q] /\ cand'[q] = cand[q]
      /\ cand'[p] = c0 /\ pc'[p] \in {"hand", "handler", "idle"}
      /\ cand' \in [Payers -> 0..MaxCalls]
      /\ pc' \in [Payers -> {"idle", "hand", "handler", "raised"}]
  <2>1. PICK to \in {"hand", "handler", "idle"} : pc' = [pc EXCEPT ![p] = to]
    BY DEF Goto, ObserveNew, ObserveRepeat, ObserveFails
  <2>2. /\ \A q \in Payers : q # p => pc'[q] = pc[q]
        /\ pc'[p] = to /\ pc' \in [Payers -> {"idle", "hand", "handler", "raised"}]
    BY <2>1 DEF TypeOK
  <2>3. /\ \A q \in Payers : q # p => cand'[q] = cand[q]
        /\ cand'[p] = c0 /\ cand' \in [Payers -> 0..MaxCalls]
    BY <1>1 DEF TypeOK
  <2> QED BY <2>2, <2>3
<1>3. /\ fates' \in [Candidates -> SUBSET Exits]
      /\ \A c \in Candidates : c # c0 => fates'[c] = fates[c]
      /\ fates'[c0] = IF Busy(p)' THEN {} ELSE {"duplicate"}
  <2>1. CASE ObserveNew(p)
    BY <1>1, <1>2, <2>1 DEF TypeOK, ObserveNew, Goto
  <2>2. CASE ObserveRepeat(p)
    BY <1>1, <1>2, <2>2 DEF TypeOK, ObserveRepeat, Goto, Settle
  <2>3. CASE ObserveFails(p)
    BY <1>1, <1>2, <2>3 DEF TypeOK, ObserveFails, Goto
  <2> QED BY <2>1, <2>2, <2>3
<1>4. /\ counters' \in [Counters -> Nat]
      /\ \A e \in {"evaluated", "dropped"} : counters'[e] = counters[e]
  BY DEF TypeOK, ObserveNew, ObserveRepeat, ObserveFails, Count
<1>5. TypeOK'
  BY <1>1, <1>2, <1>3, <1>4 DEF TypeOK
<1>6. Places'
  <2>1. \A q \in Payers : q # p /\ Busy(q)' => Busy(q) /\ cand'[q] = cand[q] /\ cand[q] # c0
    BY <1>1, <1>2 DEF Places
  <2>2. /\ \A i \in 1..Len(queue) : queue[i] # c0
        /\ \A t \in Threads : tpc[t] = "run" => item[t] # c0
    BY <1>1 DEF Places
  <2>3. \A q, r \in Payers : Busy(q)' /\ Busy(r)' /\ cand'[q] = cand'[r] => q = r
    BY <1>2, <2>1 DEF Places
  <2>4. /\ \A q \in Payers : Busy(q)' => cand'[q] \in 1..c0
        /\ \A q \in Payers, i \in 1..Len(queue) : Busy(q)' => queue[i] # cand'[q]
        /\ \A q \in Payers, t \in Threads : Busy(q)' /\ tpc[t] = "run" => item[t] # cand'[q]
    BY <1>1, <1>2, <2>1, <2>2 DEF Places
  <2>5. /\ \A i \in 1..Len(queue) : queue[i] # Poison => queue[i] \in 1..c0
        /\ \A t \in Threads : tpc[t] = "run" => item[t] \in 1..c0
    BY <1>1 DEF Places
  <2> QED BY <1>1, <2>3, <2>4, <2>5 DEF Places
<1>7. FateFacts'
  <2>1. \A c \in 1..calls : Placed(c)' <=> Placed(c)
    BY <1>1, <1>2 DEF Placed, IsHeld, IsQueued, IsRunning
  <2>2. Placed(c0)' <=> Busy(p)'
    BY <1>1, <1>2 DEF Placed, IsHeld, IsQueued, IsRunning, Places
  <2>3. \A c \in Candidates : c > calls' => fates'[c] = {}
    BY <1>1, <1>3 DEF FateFacts, TypeOK
  <2>4. ASSUME ~Loud, NEW c \in 1..calls'
        PROVE  IF Placed(c)' THEN fates'[c] = {} ELSE \E f \in Exits : fates'[c] = {f}
    <3>1. CASE c = c0
      BY <1>3, <2>2, <3>1
    <3>2. CASE c # c0
      BY <1>1, <1>3, <2>1, <2>4, <3>2 DEF FateFacts
    <3> QED BY <3>1, <3>2
  <2> QED BY <2>3, <2>4 DEF FateFacts, Loud
<1>8. CountersExact'
  <2>1. \A e \in {"evaluated", "dropped"} : Left(e)' = Left(e)
    BY <1>1, <1>3 DEF Left
  <2> QED BY <1>4, <2>1 DEF CountersExact, Left, Loud
<1>9. HostFacts' /\ UnfinishedExact'
  BY DEF HostFacts, Quiet, UnfinishedExact
<1>10. Drained' /\ Stopped'
  <2>1. Quiet => ctl = "idle" /\ stops = 0
    BY DEF HostFacts, TypeOK
  <2> QED BY <2>1 DEF Drained, Stopped, Quiet
<1> QED BY <1>5, <1>6, <1>7, <1>8, <1>9, <1>10

----------------------------------------------------------------------------
LEMMA Inductive == ASSUME IInv, [Next]_vars PROVE IInv'
<1>1. ASSUME NEW p \in Payers, Observe(p) \/ Finish(p) PROVE IInv'
  BY <1>1, ObservePreserves, EnqueuePreserves, EnqueueFullPreserves,
     EvaluateSyncPreserves, HandlerPreserves DEF Finish
<1>2. ASSUME NEW t \in Threads, Work(t) PROVE IInv'
  BY <1>2, CheckStopPreserves, GetEmptyPreserves, GetPoisonPreserves,
     GetCandidatePreserves, RunPreserves, RunFailsPreserves DEF Work
<1>3. ASSUME Start \/ Stop \/ FinishStop PROVE IInv'
  BY <1>3, StartPreserves, StopPreserves, JoinQueuePreserves, PutPoisonPreserves,
     JoinWorkerPreserves DEF FinishStop
<1>4. ASSUME UNCHANGED vars PROVE IInv'
  <2>1. Places' /\ FateFacts' /\ CountersExact'
    BY <1>4, PlacesUntouched DEF IInv
  <2> QED BY <1>4, <2>1 DEF IInv, TypeOK, HostFacts, Drained, Stopped, Quiet, UnfinishedExact
<1> QED BY <1>1, <1>2, <1>3, <1>4 DEF Next

LEMMA Invariance == Spec => []IInv
<1>1. Init => IInv
  BY InitEstablishes
<1>2. IInv /\ [Next]_vars => IInv'
  BY Inductive
<1> QED BY <1>1, <1>2, PTL DEF Spec

----------------------------------------------------------------------------
(* The theorems.                                                           *)

\* Every variable keeps its type; the queue never grows past queue_size and
\* task_done() is never called once too often.
THEOREM TypeCorrect == Spec => []TypeOK
<1>1. IInv => TypeOK
  BY DEF IInv
<1> QED BY <1>1, Invariance, PTL

\* join() waits for what is queued or under evaluation, and for nothing else,
\* whatever the log does.
THEOREM JoinWaits == Spec => []UnfinishedExact
<1>1. IInv => UnfinishedExact
  BY DEF IInv
<1> QED BY <1>1, Invariance, PTL

\* The two counters are the numbers of candidates evaluated and dropped.
THEOREM CountersTellTheTruth == Spec => []CountersExact
<1>1. IInv => CountersExact
  BY DEF IInv
<1> QED BY <1>1, Invariance, PTL

\* No candidate is lost, held in two places, evaluated twice, or evaluated and
\* dropped.
THEOREM OneFate == Spec => []OnePlaceOneFate
<1>1. ASSUME IInv, ~Loud, NEW c \in 1..calls
      PROVE  Cardinality(fates[c])
               + Cardinality({i \in 1..3 : c \in <<Held, Queued, Running>>[i]}) = 1
  <2> DEFINE In == {i \in 1..3 : c \in <<Held, Queued, Running>>[i]}
  <2>1. c # Poison /\ queue \in Seq({Poison} \cup Candidates)
    BY <1>1 DEF IInv, TypeOK
  <2>2. /\ c \in Held <=> IsHeld(c)
        /\ c \in Queued <=> IsQueued(c)
        /\ c \in Running <=> IsRunning(c)
    <3>1. c \in Held <=> IsHeld(c)
      BY DEF Held, IsHeld
    <3>2. c \in Running <=> IsRunning(c)
      BY DEF Running, IsRunning
    <3>3. DOMAIN queue = 1..Len(queue)
      BY <2>1, LenProperties
    <3>4. c \in Queued <=> IsQueued(c)
      BY <2>1, <3>3 DEF Queued, IsQueued, Range
    <3> QED BY <3>1, <3>2, <3>4
  <2>3. /\ In \subseteq {1, 2, 3}
        /\ 1 \in In <=> IsHeld(c)
        /\ 2 \in In <=> IsQueued(c)
        /\ 3 \in In <=> IsRunning(c)
    BY <2>2
  <2> HIDE DEF In
  <2>4. /\ ~(IsHeld(c) /\ IsQueued(c)) /\ ~(IsHeld(c) /\ IsRunning(c))
        /\ ~(IsQueued(c) /\ IsRunning(c))
    BY <1>1 DEF IInv, Places, IsHeld, IsQueued, IsRunning
  <2>5. ASSUME Placed(c) PROVE Cardinality(fates[c]) + Cardinality(In) = 1
    <3>1. PICK i \in 1..3 : In = {i}
      <4>1. CASE IsHeld(c)
        <5>1. In = {1}
          BY <2>3, <2>4, <4>1
        <5> QED BY <5>1
      <4>2. CASE IsQueued(c)
        <5>1. In = {2}
          BY <2>3, <2>4, <4>2
        <5> QED BY <5>1
      <4>3. CASE IsRunning(c)
        <5>1. In = {3}
          BY <2>3, <2>4, <4>3
        <5> QED BY <5>1
      <4> QED BY <2>5, <4>1, <4>2, <4>3 DEF Placed
    <3>2. fates[c] = {}
      BY <1>1, <2>5 DEF IInv, FateFacts
    <3>3. Cardinality(In) = 1
      BY <3>1, FS_Singleton
    <3>4. Cardinality(fates[c]) = 0
      BY <3>2, FS_EmptySet
    <3> QED BY <3>3, <3>4
  <2>6. ASSUME ~Placed(c) PROVE Cardinality(fates[c]) + Cardinality(In) = 1
    <3>1. In = {}
      BY <2>3, <2>6 DEF Placed
    <3>2. PICK f \in Exits : fates[c] = {f}
      BY <1>1, <2>6 DEF IInv, FateFacts
    <3>3. Cardinality(In) = 0
      BY <3>1, FS_EmptySet
    <3>4. Cardinality(fates[c]) = 1
      BY <3>2, FS_Singleton
    <3> QED BY <3>3, <3>4
  <2> QED BY <2>5, <2>6 DEF In
<1>2. IInv => OnePlaceOneFate
  BY <1>1 DEF OnePlaceOneFate
<1> QED BY <1>2, Invariance, PTL

\* After a quiet host stopped the guard nothing is left behind unaccounted.
THEOREM NothingLeftBehind == Spec => []LossCounted
<1>1. ASSUME IInv, Quiet, stops > 0, NEW c \in 1..calls PROVE fates[c] # {}
  <2>1. ~Loud
    BY <1>1 DEF Quiet, Loud
  <2>2. c # Poison
    BY <1>1 DEF IInv, TypeOK
  <2>3. ~Placed(c)
    BY <1>1, <2>2 DEF IInv, Stopped, Placed, IsHeld, IsQueued, IsRunning
  <2> QED BY <1>1, <2>1, <2>3 DEF IInv, FateFacts
<1>2. IInv => LossCounted
  BY <1>1 DEF LossCounted
<1> QED BY <1>2, Invariance, PTL
=============================================================================
