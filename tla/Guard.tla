------------------------------- MODULE Guard -------------------------------
(***************************************************************************)
(* hook.py, class ShadowGuard: payment threads that call observe(), the    *)
(* bounded queue, the worker threads start() creates, and the host that    *)
(* calls start() and stop().  The engine is what its two calls can do:     *)
(* return, find a repeat, or raise.                                        *)
(***************************************************************************)
EXTENDS Naturals, Sequences, FiniteSets, SequencesExt

CONSTANTS Payers,     \* threads of the payment path
          QueueSize,  \* queue_size
          MaxCalls,   \* bound: calls of observe()
          MaxStarts   \* bound: calls of start() that create a thread

ASSUME GuardAssumption ==
  /\ QueueSize \in Nat \ {0} /\ MaxCalls \in Nat /\ MaxStarts \in Nat

VARIABLES pc, cand, calls,       \* payment threads: place in observe(), candidate
          queue, unfinished,     \* _queue, and its items without task_done()
          tpc, item,             \* worker threads: place in _drain(), candidate
          worker, starts,        \* _worker (0 is None), threads created
          stopping, ctl, stops,  \* _stop, place in stop(), workers stopped
          mode,                  \* mode, chosen when the guard is made
          host,                  \* how the host behaves: see Quiet and Loud
          counters,              \* counters
          fates                  \* history: what has become of each candidate

Payment == <<pc, cand, calls>>
Queue   == <<queue, unfinished>>
Drain   == <<tpc, item>>
Host    == <<worker, starts, stopping, ctl, stops, mode, host>>
Record  == <<counters, fates>>
vars    == <<Payment, Queue, Drain, Host, Record>>

\* A quiet host starts the guard once, calls observe() only while it runs and
\* lets every thread run; a loud one has a log callable that may raise; a free
\* one does neither, and its worker may sit in a Jev call for ever.
Quiet == host = "quiet"
Loud  == host = "loud"

Candidates == 1..MaxCalls
Poison     == 0               \* the None that stop() puts
Threads    == 1..MaxStarts
Counters   == {"observed", "evaluated", "dropped", "timed_out"}
LogOutcome == IF Loud THEN BOOLEAN ELSE {FALSE}

TypeOK ==
  /\ pc \in [Payers -> {"idle", "hand", "handler", "raised"}]
  /\ cand \in [Payers -> 0..MaxCalls] /\ calls \in 0..MaxCalls
  /\ queue \in Seq({Poison} \cup Candidates) /\ Len(queue) <= QueueSize
  /\ unfinished \in Nat
  /\ tpc \in [Threads -> {"none", "loop", "get", "run", "exited", "died"}]
  /\ item \in [Threads -> {Poison} \cup Candidates]
  /\ worker \in 0..MaxStarts /\ starts \in 0..MaxStarts /\ stops \in 0..MaxStarts
  /\ stopping \in BOOLEAN /\ ctl \in {"idle", "join", "put", "joinWorker"}
  /\ mode \in {"async", "sync"} /\ host \in {"quiet", "free", "loud"}
  /\ counters \in [Counters -> Nat]
  /\ fates \in [Candidates -> SUBSET {"evaluated", "dropped", "timed_out", "duplicate"}]

Init ==
  /\ pc = [p \in Payers |-> "idle"] /\ cand = [p \in Payers |-> 0] /\ calls = 0
  /\ queue = <<>> /\ unfinished = 0
  /\ tpc = [t \in Threads |-> "none"] /\ item = [t \in Threads |-> Poison]
  /\ worker = 0 /\ starts = 0 /\ stopping = FALSE /\ ctl = "idle" /\ stops = 0
  /\ mode \in {"async", "sync"} /\ host \in {"quiet", "free", "loud"}
  /\ counters = [c \in Counters |-> 0]
  /\ fates = [c \in Candidates |-> {}]

Goto(p, from, to) == pc[p] = from /\ pc' = [pc EXCEPT ![p] = to]
Move(t, from, to) == tpc[t] = from /\ tpc' = [tpc EXCEPT ![t] = to]
Count(counter)    == counters' = [counters EXCEPT ![counter] = @ + 1]
Settle(c, fate)   == fates' = [fates EXCEPT ![c] = @ \cup {fate}]
Leave(c, exit)    == Count(exit) /\ Settle(c, exit)

\* The queue's methods (queue.Queue).
Unbounded  == FALSE
Full       == Len(queue) = QueueSize
Put(x)     == ~Full /\ queue' = Append(queue, x) /\ unfinished' = unfinished + 1
NoTaskDone == UNCHANGED unfinished
TaskDone   == unfinished' = unfinished - 1

----------------------------------------------------------------------------
(* observe(), on a payment thread.                                        *)

\* engine.observe records a new candidate, finds a repeat, or raises.
ObserveNew(p) ==
  Goto(p, "idle", "hand") /\ Count("observed") /\ UNCHANGED fates

ObserveRepeat_GoesOn(p) ==
  Goto(p, "idle", "hand") /\ Count("observed") /\ Settle(calls', "duplicate")

ObserveRepeat_Uncounted(p) ==
  Goto(p, "idle", "idle") /\ UNCHANGED counters /\ Settle(calls', "duplicate")

ObserveRepeat(p) ==
  Goto(p, "idle", "idle") /\ Count("observed") /\ Settle(calls', "duplicate")

ObserveFails(p) ==
  Goto(p, "idle", "handler") /\ UNCHANGED Record

Observe(p) ==
  /\ calls < MaxCalls
  /\ Quiet => ctl = "idle" /\ (mode = "async" => worker # 0)
  /\ calls' = calls + 1 /\ cand' = [cand EXCEPT ![p] = calls']
  /\ ObserveNew(p) \/ ObserveRepeat(p) \/ ObserveFails(p)
  /\ UNCHANGED <<Queue, Drain, Host>>

\* _enqueue: put_nowait, or Full.  A log that raises reaches observe()'s own
\* handler, where the candidate is dropped once more.
Enqueue(p) ==
  /\ mode = "async"
  /\ Put(cand[p]) /\ Goto(p, "hand", "idle")
  /\ UNCHANGED <<cand, calls, Drain, Host, Record>>

EnqueueFull_Waits(p) == FALSE

EnqueueFull_Reraises(p) ==
  /\ mode = "async" /\ Full
  /\ Leave(cand[p], "dropped") /\ Goto(p, "hand", "handler")
  /\ UNCHANGED <<cand, calls, Queue, Drain, Host>>

EnqueueFull(p) ==
  /\ mode = "async" /\ Full
  /\ Leave(cand[p], "dropped")
  /\ \E raises \in LogOutcome : Goto(p, "hand", IF raises THEN "handler" ELSE "idle")
  /\ UNCHANGED <<cand, calls, Queue, Drain, Host>>

\* _evaluate_sync: the budget is spent before the evaluation, or the
\* evaluation raises, or it succeeds, in time or not.
EvaluateSync(p) ==
  /\ mode = "sync"
  /\ \/ /\ \/ Leave(cand[p], "timed_out")
           \/ Leave(cand[p], "dropped")
           \/ /\ Settle(cand[p], "evaluated")
              /\ counters' = [counters EXCEPT !["evaluated"] = @ + 1, !["timed_out"] = @ + 1]
        /\ \E raises \in LogOutcome : Goto(p, "hand", IF raises THEN "handler" ELSE "idle")
     \/ Leave(cand[p], "evaluated") /\ Goto(p, "hand", "idle")
  /\ UNCHANGED <<cand, calls, Queue, Drain, Host>>

\* The handler drops the candidate; nothing catches a log that raises there.
Handler(p) ==
  /\ Leave(cand[p], "dropped")
  /\ \E raises \in LogOutcome : Goto(p, "handler", IF raises THEN "raised" ELSE "idle")
  /\ UNCHANGED <<cand, calls, Queue, Drain, Host>>

----------------------------------------------------------------------------
(* _drain(), on a worker thread.                                          *)

CheckStop(t) ==
  /\ Move(t, "loop", IF stopping THEN "exited" ELSE "get")
  /\ UNCHANGED <<Payment, Queue, item, Host, Record>>

\* get(timeout=0.1) returns nothing, the None that ends the thread, or a
\* candidate.
GetEmpty(t) ==
  /\ queue = <<>> /\ Move(t, "get", "loop")
  /\ UNCHANGED <<Payment, Queue, item, Host, Record>>

GetPoison(t) ==
  /\ queue # <<>> /\ Head(queue) = Poison /\ queue' = Tail(queue)
  /\ TaskDone /\ Move(t, "get", "exited")
  /\ UNCHANGED <<Payment, item, Host, Record>>

GetCandidate(t) ==
  /\ queue # <<>> /\ Head(queue) # Poison /\ queue' = Tail(queue)
  /\ item' = [item EXCEPT ![t] = Head(queue)] /\ Move(t, "get", "run")
  /\ UNCHANGED <<Payment, unfinished, Host, Record>>

\* _run: engine.evaluate returns, or raises; task_done() in either case.  A
\* log that raises ends the thread.
Run(t) ==
  /\ Leave(item[t], "evaluated") /\ TaskDone /\ Move(t, "run", "loop")
  /\ UNCHANGED <<Payment, queue, item, Host>>

RunFails_NotCaught(t) ==
  /\ TaskDone /\ Move(t, "run", "died")
  /\ UNCHANGED <<Payment, queue, item, Host, Record>>

RunFails(t) ==
  /\ Leave(item[t], "dropped") /\ TaskDone
  /\ \E raises \in LogOutcome : Move(t, "run", IF raises THEN "died" ELSE "loop")
  /\ UNCHANGED <<Payment, queue, item, Host>>

----------------------------------------------------------------------------
(* start() and stop(), on the host's thread.                              *)

Start ==
  /\ mode = "async" /\ worker = 0 /\ ctl = "idle" /\ starts < MaxStarts
  /\ Quiet => starts = 0
  /\ starts' = starts + 1 /\ worker' = starts'
  /\ tpc' = [tpc EXCEPT ![starts'] = "loop"]
  /\ UNCHANGED <<Payment, Queue, item, stopping, ctl, stops, mode, host, Record>>

Stop ==
  /\ worker # 0 /\ ctl = "idle"
  /\ Quiet => \A p \in Payers : pc[p] = "idle"
  /\ ctl' = "join"
  /\ UNCHANGED <<Payment, Queue, Drain, worker, starts, stopping, stops, mode, host, Record>>

JoinQueue_NoWait ==
  /\ ctl = "join" /\ ctl' = "put" /\ stopping' = TRUE
  /\ UNCHANGED <<Payment, Queue, Drain, worker, starts, stops, mode, host, Record>>

\* _queue.join(), then _stop.set(), which nothing clears.
JoinQueue ==
  /\ unfinished = 0
  /\ ctl = "join" /\ ctl' = "put" /\ stopping' = TRUE
  /\ UNCHANGED <<Payment, Queue, Drain, worker, starts, stops, mode, host, Record>>

\* _queue.put(None) waits for room.
PutPoison ==
  /\ ctl = "put" /\ Put(Poison) /\ ctl' = "joinWorker"
  /\ UNCHANGED <<Payment, Drain, worker, starts, stopping, stops, mode, host, Record>>

\* _worker.join(timeout) gives up after the timeout.
JoinWorker ==
  /\ ctl = "joinWorker" /\ ctl' = "idle" /\ worker' = 0 /\ stops' = stops + 1
  /\ UNCHANGED <<Payment, Queue, Drain, starts, stopping, mode, host, Record>>

----------------------------------------------------------------------------

Finish(p)  == Enqueue(p) \/ EnqueueFull(p) \/ EvaluateSync(p) \/ Handler(p)
Work(t)    == \/ CheckStop(t) \/ GetEmpty(t) \/ GetPoison(t) \/ GetCandidate(t)
              \/ Run(t) \/ RunFails(t)
FinishStop == JoinQueue \/ PutPoison \/ JoinWorker

Next == \/ \E p \in Payers : Observe(p) \/ Finish(p)
        \/ \E t \in Threads : Work(t)
        \/ Start \/ Stop \/ FinishStop

Spec == Init /\ [][Next]_vars

\* A payment thread is sure to run, whatever the worker does.  The other
\* threads of a quiet host run too, every engine call ends (the Jev adapter has
\* a timeout), and it starts the guard it created.
FairSpec == /\ Spec
            /\ \A p \in Payers : WF_vars(Finish(p))
            /\ \A t \in Threads : WF_vars(Quiet /\ Work(t))
            /\ WF_vars(Quiet /\ FinishStop) /\ WF_vars(Quiet /\ Start)

----------------------------------------------------------------------------
(* Properties.                                                            *)

Held    == {cand[p] : p \in {q \in Payers : pc[q] \in {"hand", "handler"}}}
Queued  == Range(queue) \ {Poison}
Running == {item[t] : t \in {u \in Threads : tpc[u] = "run"}}

\* Every candidate is in one place, in a payment thread's hands, in the queue
\* or under evaluation, or it has left, once and by one exit: none is lost on
\* the way, evaluated twice, or evaluated and dropped, unless the log raises.
OnePlaceOneFate ==
  ~Loud => \A c \in 1..calls :
    Cardinality(fates[c])
      + Cardinality({i \in 1..3 : c \in <<Held, Queued, Running>>[i]}) = 1

\* The counters the operator reads say how many candidates were evaluated and
\* how many lost ("the loss is counted in `dropped`").
CountersExact ==
  ~Loud => \A exit \in {"evaluated", "dropped"} :
    counters[exit] = Cardinality({c \in 1..calls : exit \in fates[c]})

\* join() waits for the right thing: an item is unfinished while it is queued
\* or under evaluation.
UnfinishedExact ==
  unfinished = Len(queue) + Cardinality({t \in Threads : tpc[t] = "run"})

\* "Stop the worker after the queue drains", "the loss is counted": once the
\* guard of a quiet host is stopped and still, every candidate was evaluated
\* or counted.
LossCounted ==
  (/\ Quiet /\ stops > 0 /\ worker = 0
   /\ \A p \in Payers : pc[p] = "idle"
   /\ \A t \in Threads : tpc[t] \in {"none", "exited", "died"})
  => \A c \in 1..calls : fates[c] # {}

\* A payment thread gets out of observe() whatever the worker does, with an
\* exception only when the log raised: "back pressure must not become latency
\* on the payment path".
ObserveReturns ==
  \A p \in Payers :
    pc[p] = "hand" ~> (pc[p] = "idle" \/ (Loud /\ pc[p] = "raised"))

\* stop() comes back.
StopReturns == Quiet /\ ctl = "join" ~> ctl = "idle"
=============================================================================
