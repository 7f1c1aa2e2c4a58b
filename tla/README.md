# TLA+ models of the x402 Spend Guard

The guard watches a payment flow. It records every purchase a flow is about to
make, has a judge (Jev) score it, and writes to a ledger what it *would* have
decided: PAY, HOLD or REVIEW. It never decides whether a payment happens. This
directory models the parts whose correctness depends on interleaving, failure
and order, checks the models with TLC on small instances, and proves most of
what is checked with TLAPS, for every value of the constants. Paths below are
relative to `src/src/spend_guard/`.

## The system

| Part | State | Operations | Interacts with |
|---|---|---|---|
| Ledger, `ledger.py` | a JSONL file, its `flock`, write buffers of open handles | `append`, `iter_events`, `verify_chain` | every other part; several processes share one file |
| Ledger index, `ledger.py` | `first_by_request`, `evaluated`, in memory, one per process | `observe_event`, `prior_request`, `evaluated_decision` | built from the ledger once, then fed by the engine |
| Engine, `engine.py` | none of its own | `observe`, `evaluate`, `process` | index, ledger, checks, judge, aggregation |
| Hook, `hook.py` | bounded queue, worker thread, stop event, counters | `observe`, `start`, `stop`, worker loop | called by payment threads, calls the engine and the host's log |
| Checks, `checks.py` | none | `run`: required fields, reappearing request id, exact repurchase | the index, the policy |
| Aggregation, `aggregate.py` | none | `aggregate`: the ordered rules | checks, judgment, policy |
| Replay and report, `report.py` | none | `replay`, `report`, `score_distribution` | read the ledger |
| Outcome recorder, `outcome.py` | none | `purchase_attempted`, `purchase_result`, `delivery_observed`, `link_by_decision_id` | reads and appends to the ledger |
| Jev adapter, `judges/jev.py`; fixture judge, `judges/fixture.py` | none | `evaluate`: retries, back-off, response checks; recorded answers | network; called by the engine |
| Normalisation, `normalize.py` | none | `normalize`: the record the checks read, what is missing in it | called by the engine |
| Command line, `cli.py` | the locals of one command | `guard evaluate`, `replay`, `report`, `feedback`; exit codes | all of the above; a shell that kills and repeats it |
| Canonical JSON, policy, models | none | conversions, parsing | |

What makes each part correct, and what is hard about it:

* **Ledger.** One hash chain however many processes append; what `append()`
  returned survives a power failure; nothing rewrites a line; a torn tail stops
  the ledger. Hard: every write, flush, sync, unlock and close can fail or be
  cut by a crash, and Python's buffered file writes again when it is closed.
* **Hook.** Every candidate is evaluated or counted as lost, once; `observe()`
  neither waits nor raises; `stop()` comes back. Hard: payment threads, worker,
  and the thread that calls `stop()` interleave at every step.
* **Engine and index.** A second purchase under one request id is never paid
  silently; a repeat points at the decision that was made; evaluating later
  changes nothing; a restart changes nothing. Hard: lookup, append and index
  update are three steps; the index is private to a process; candidates are
  lost after they were observed.
* **Checks, aggregation, replay.** The first rule that matches decides, at
  every boundary; an outage is never a low score; replay agrees with what was
  recorded. Hard: the order of the rules, edges, lost fields.
* **Outcome, report.** A result belongs to the decision it is about; the report
  counts what happened, and what the operator said last. Hard: results and
  labels come before, between and after judgments, and share request ids.
* **Jev adapter.** Attempts and total wait are bounded, a failure becomes a
  status, only a full reply becomes a score. Hard: kinds of failure, and what
  a reply may lack.
* **Command line.** What it prints and how it exits agree with the ledger, and
  repeating it judges nothing twice. Hard: it can stop at any line and step.
* **Hook and engine together.** Each purchase is recorded and judged, or
  counted as lost. Hard: each of the two keeps its own state about the same
  candidate, and both change it in the middle of the other's steps.

## Modules

| Module | Models | How |
|---|---|---|
| `AppendLog` | the promise of a ledger | an atomic log and the set of acknowledged events; an add is atomic, an acknowledged event is never lost |
| `Ledger` | `Ledger.append` | `Begin` (open, r+b), `Acquire` (flock), `Seal`/`TailUnreadable` (`_last_hash`, `build_event`, write), `Flush`/`FlushFails`, `Fsync`/`FsyncFails`, `Unlock` (finally), `Close` (the `with` statement, which flushes what is left and gives up a flock that is still held), `Kill`, `PowerLoss`. A line has a form: whole, cut (`torn`), or without its newline. |
| `Guard` | `ShadowGuard` | payment threads (`Observe`, `Enqueue`, `EnqueueFull`, `EvaluateSync`, `Handler`), worker threads (`CheckStop`, `Get...`, `Run`, `RunFails`), the host (`Start`, `Stop`, `JoinQueue`, `PutPoison`, `JoinWorker`). An engine call returns, finds a repeat, or raises. |
| `Checks` | `checks.run` | `RunChecks` and the operators under it |
| `Normalize` | `normalize` | `Normalized`: the time a candidate gets, what is recorded as missing |
| `Aggregate` | `aggregate` | `Decide`: the list of matches in the order the code settles them; the first decides, all are reasons |
| `Index` | `LedgerIndex` | `ObserveEvent`, `Rebuild` (one pass over the ledger), `PriorRequest`, `EvaluatedDecision` |
| `Engine` | `ShadowEngine` | payment flows (`Lookup`, `AppendObserved`, `IndexObserved`), evaluations (`RunTheChecks`, `Record`), losses (`Drop`, `AppendObservedFails`, `RecordFails`), `Restart`. Uses `Normalize`, `Checks`, `Index` and `Aggregate` as they are. |
| `Recorder` | the promise of the guard | purchases recorded, the number of verdicts of each, losses: judged once or lost, never both |
| `System` | hook, engine, index and ledger | `Guard` and `Engine` under one `Next`: a step of one, or of both where a call returns or raises. A payment thread is a flow, the worker calls `evaluate()`, and `decOf` ties a call of `observe()` to its decision. |
| `Jev` | `JevProcurementJudge.evaluate`, `parse_response` | `Ask`, `Retry`, `GiveUp`, `Refused`, `Answered`, `Return`, in ticks of the first back-off; a reply is the answers it holds |
| `Fixture` | `FixtureProcurementJudge.evaluate` | `Answer`: an entry in, a judgment or a failure out |
| `Cli` | `guard evaluate`, `main` | one command over a file of lines, with `Engine` and `Jev` (or `Fixture`) as instances; errors end it with their exit code, `Kill` at any step, `Rerun` with the index read from the ledger |
| `Replay` | `evaluate` for one candidate, `report.replay` | `Evaluate` stores checks and judgment as `as_dict` does, `ReplayUnder` loads them as `from_dict` does and decides again |
| `Outcome` | `OutcomeRecorder`, `guard feedback`, `report` | the engine reduced to its events (`Observe`, `Judge`, `Drop`); `Report` looks the decision up and `AppendOutcome` appends, in two steps; `Feedback`; `report` joins evaluations, labels and results |
| `MC*` | | instances for TLC |
| `*_proofs` | | the theorems about the module of that name |
| `Lemmas` | | what `Normalized`, `Decide`, `ObserveEvent` and `Rebuild` give for every input; cited by the proofs of `Engine`, `Replay` and `Cli` |

Abstractions. An event is its number; `prev` is the event it chains to, so a
hash never collides. Candidates are records of the fields the checks and the
hash read; the hash of a candidate is the candidate. Time is an integer, and a
candidate without one gets any reading of a clock in seconds: the same as the
last candidate's, a later one, or an earlier one.
Scores and thresholds are integers, since only comparisons matter. In `Engine`
an append is one step, which is what `Ledger` shows; the two ways it fails that
matter to its caller (no line, or a line and an exception) are kept. In `Guard`
the lock around each counter makes an increment one step, and a counter moves
together with the step that leads to it. In `Jev` a call of the transport takes
any time up to `CallTime`, which may exceed `Timeout`: a socket timeout bounds
one operation, not the call. Fields a property does not tell apart (texts,
amounts, usage) are left out.

## Runs

| Run | Expect | Question and answer |
|---|---|---|
| `ledger` | pass | Two appenders, three appends, a reboot; failing, cut and late writes, failing fsyncs, kills and power failures. One chain, durable, append-only, torn tails final, implements `AppendLog`, and under fairness every append ends. |
| `ledger_overwrite` | violation | `AppendOnly`: a flush that wrote nothing is repeated by `close()` after unlock and overwrites another appender's line. |
| `guard` | pass | Two payment threads, three calls, two starts, both modes, three hosts: one place and one fate per candidate, exact counters and join count, `observe()` returns; with a quiet host nothing is lost at stop and `stop()` returns. |
| `system` | pass | `Guard` over `Engine`: implements `Recorder`, no purchase is forgotten, each is settled, and counters and ledger agree whatever appends fail. |
| `engine_threads` | pass | One process, two threads, failing appends, three observations, a restart, mixed candidates: no second silent PAY, waiting changes nothing, repeats point back; for a serial host also one judgment per purchase, checks explained by the ledger, invisible restarts. |
| `engine_processes` | violation | `NoSecondPay` with two processes: an index never sees what the other process appended. |
| `replay` | pass | Raw candidates, answers and policies around each threshold and window edge: first rule wins, replay reproduces, outages are not scores, stricter policies never pay more. |
| `outcome` | pass | Two purchases under one or two request ids, results and labels in any order: a fact never reaches another request's decision; a careful host's facts reach their own decision; the report counts how its purchases ended, and compares the operator's last word with the guard's decision. |
| `cli` | pass | Files with good and bad lines, either input mode, Jev or fixture, a kill at any step, a second run: the output is what was recorded, the exit code the worst decision, nothing timed is judged twice, only a full answer pays, the wait is bounded, the command ends. |
| `jev_wait` | violation | `TimeoutBoundsWait`: a per-request timeout under the hook's budget does not bound the wait, because of the retries. |
| `cli_exit` | violation | `OutageHasItsOwnCode`: a stream on which Jev failed exits like an ordinary REVIEW. |
| `cli_skip` | violation | `SkippedWasEvaluated`: after a kill between observing and judging, the repeated command calls the candidate already evaluated. |

**Bounds.** `ledger`: `MaxEvents` = 3 lets both writers append and one come
back after a failure; a defect of the append protocol needs a fault of one
writer, a step of the other and a reader of the result. `MaxBoots` = 1: a
reboot empties all volatile state, so a second one starts from a file the first
could leave. `guard`: `QueueSize` = 2 with three calls fills the queue and has
a candidate wait behind another, and `MaxStarts` = 2 has the guard stopped and
started again. `system`: a queue of one and two payment threads make it full
with the worker busy; three calls are a purchase, another, and a repeat. One
judgment is enough there, since no property reads its scores. `engine_threads`:
`MaxObserved` = 3 and `MaxRestarts` = 1 are a purchase, a reappearance, and one
more after the restart; the processes of `engine_processes` need one observation
each. `outcome`: two purchases share a request id or do not; four calls
(`MaxCalls`) take a careful host's purchase to its delivery, or both to their
results; a free host gets three (`MaxFreeCalls`), which is a purchase reported
and labelled in any order. `cli`: files of one or two lines, each pair with a
decision before an error, a blank line or a second judgment; `MaxRuns` = 2,
since a third run starts from a ledger the second could start from; a timeout of
two ticks, two retries and calls of up to three ticks reach every back-off and
a call that outlasts its timeout. Runs allow deadlock where bounded hosts stop;
`replay` and `jev_wait` have none.

**Host behaviours in `Guard`.** A `quiet` host starts the guard once, observes
only while it runs, stops it when its payment threads are idle, and schedules
all threads; a `free` host calls anything at any time and its worker may hang
in the judge for ever; a `loud` one is free and its log callable may raise.
Safety of the fates and `ObserveReturns` are asked of all, `LossCounted` and
`StopReturns` of the quiet one: they say nothing of a candidate that is enqueued
while `stop()` runs, nor of a guard that is started again, both of which go
wrong (see the divergences). `System` is driven by a quiet host in the
asynchronous mode.

**Host behaviours in `Engine`.** `Hosts` holds what the host may do, chosen at
the start: `serial` observes one candidate at a time and no append fails,
`threads` overlaps payment threads, `faulty` has appends that raise before or
after their line is in the file, `rough` has both. `NoSecondPay`,
`RepeatPointsBack` and `WaitingChangesNothing` hold for all of them in one
process; the properties that need a serial host say so. The engine's runs have
the serial and the rough host, whose behaviours include those of the other two.
`system` has `threads` and `faulty`, since its state space with both at once is
too large for a run; its theorems hold for every host.

**Host behaviours in `Outcome`.** A `careful` host uses a request id for one
purchase at a time, reports only when the decision was recorded or dropped, and
does not hand the same candidate over twice. For a `free` host `AttributedToOwn`
fails, as it must with a correlation by request id: a result that comes before
the worker recorded the decision is attached to an earlier decision of the
request. What remains true is `OneRequestPerDecision`, and `ReportTellsOperator`,
since labels are given by decision id.

**Fairness.** `ledger`: weak fairness of a running writer, and strong
fairness of acquiring the flock, which the kernel hands to waiters in turn. The
flock is freed in the `finally` clause, and closing the descriptor would free it
too; what `AppendEnds` rests on is that no way through `append()` goes back.
`guard`: a payment thread keeps running, whatever the worker does, because that
is the promise: a Jev call that hangs costs the payment path nothing. Only a
quiet host adds its worker and its own thread; an engine call ends because the
adapter bounds its attempts (`WaitBounded`). `system` has the same: threads
inside `observe()` and the worker go on, and nothing makes the host call.
`cli`: a process that is not killed runs; there is no fairness between its
steps, because it has one thread, and none that favours good answers.

**Divergences.** Each finding in `PROJECT.json` quotes the line it contradicts.
These were seen while modelling and have no run of their own:

* `hook.py:33` says that nothing the guard does can raise; a `log` callable that
  raises escapes `observe()` (`hook.py:177`), and in the worker ends its thread.
  `ObserveReturns` shows that nothing else does.
* A candidate enqueued after `join()` returned and before the worker left is
  neither evaluated nor counted (`hook.py:68-75`), and `_queue.put(None)` may
  then wait for ever. `_stop` is never cleared, so a guard that was stopped and
  started again has a worker that leaves at once, and its `stop()` waits for ever
  in `join()`. Hence the quiet host.
* `hook.py:118` calls an overrun in synchronous mode "recorded as a TIMEOUT
  review"; it is only counted in `timed_out`.
* `errors.py:26` says of an `InputError` that Jev was not called and the command
  exits with 2; one raised by the fixture judge is taken by `ShadowEngine._judge`
  for a provider error, recorded as REVIEW, and exits with 4.
* `observed_at` is among the fields whose absence is tracked (`normalize.py:33`),
  but it is filled in before, so it is never listed.
* `redact()` matches "token" anywhere in a key, so `usage.input_tokens` and
  `usage.output_tokens` are stored as "[redacted]" and the report has no totals.
* A field of an unexpected type, such as a number for `prior_acquisitions`, ends
  the command with a traceback (the line kind `malformed` of `Cli`).
* With the fault `unterminated` (a crash cuts off the newline and nothing else)
  the next event is glued to one that had been readable.

## Proofs

Each theorem is about the specification of its module for every value of the
constants the named assumption admits: any number of writers, threads, flows,
purchases, files and runs. None of the properties is inductive as it stands;
each module states what has to be added, and has one lemma per action or group
of actions with one step per conjunct the action can disturb. The strengthened
invariants were run through TLC before they were proved.

| Module | Theorems | Assumes |
|---|---|---|
| `Ledger_proofs` | `TypeCorrect`, `OneChain`, `Durability`, `NeverRewrites`, `FailStop`, `Refines` | `SafeFaults` |
| `Guard_proofs` | `TypeCorrect`, `JoinWaits`, `CountersTellTheTruth`, `OneFate`, `NothingLeftBehind` | `GuardAssumption` |
| `Engine_proofs` | `TypeCorrect`, `RepeatsAreExplained`, `WaitingIsHarmless`; `OnePayment`, `NoSecondJudgment`, `RestartChangesNothing`, `SignalsAreExplained` | `EngineAssumption`; the last four also `SingleProcess` |
| `System_proofs` | `NothingIsForgotten`, `Implements`, `CountersAreTrue` | `SystemAssumption` |
| `Replay_proofs` | `TheFirstRuleDecides`, `ReplayIsFaithful`, `OutagesStay`, `StricterIsSafer` | `ReplayAssumption` |
| `Outcome_proofs` | `NamesOneRequest`, `Attributes`, `TellsOutcome`, `TellsOperator` | `OutcomeAssumption` |
| `Cli_proofs` | `WaitIsBounded`, `FullAnswerPays`, `ExitCodeIsTrue`, `AskedOnce`, `TypeCorrect`, `PrintedIsRecorded` | `CliAssumption` |

**Ledger.** `SafeFaults` excludes two faults: the newline is never the only part
of a line that is missing (`unterminated`), and a buffer of which nothing was
written is not flushed after the lock is gone (`rewrite`). Both exclusions are
necessary: the first is described above, the second is the run
`ledger_overwrite`. A cut line that `close()` completes late (`late`) is
covered. `TypeOK` includes `Exclusion` (exactly the holder of the flock is in the
critical section); `IInv` adds `FileShape` (only the last line may be cut, every line points
at the one before), `WriterFacts` (what a writer has read, written and synced at
each point of `append()`) and `BufferFacts` (a buffer that still holds bytes
belongs to a writer on its way out; its fragment, if any, is the last line and
nobody else's). The last one carries the argument for late flushes: while a
fragment is the last line every other writer fails in `TailUnreadable`, so the
line that `close()` completes is still the last one.

`Refines` shows that `Ledger` implements `AppendLog`. It needs one fact more,
`Fresh`: an event number that was not given out is nowhere in the file or in a
writer. Two lemmas then say what a step can do to the readable log: it grows by
one line of an event that was not in it, or loses a suffix nobody was told
about. Every step maps to the step of `AppendLog` that does that, or to a
stutter.

**Guard.** `IInv` locates each candidate (`Places`: in the hands of one payment
thread, at one place of the queue, or with one worker), ties its fate to that
place (`FateFacts`), and follows the host through `stop()` (`HostFacts`,
`Drained`, `Stopped`: what is empty at each point). The counts of `queue.join()`
and of the counters are cardinalities of those sets. `OneFate` and
`CountersTellTheTruth` except a log callable that raises, as the properties do.

**Engine.** `Ids` gives each decision id one owner: a flow, a waiting or running
evaluation, or the ledger. `Points` says what each index holds: decisions that
are in the ledger, or about to be. `PaysClean` says that a PAY without retry
evidence is the first decision of its request. `Serial` is `RestartInvisible`
with its exceptions spelled out. The proofs read the one pass of
`LedgerIndex.from_events` through a lemma about its recursive function
(`RebuildAppend`, in `Lemmas`), proved by a smallest counterexample (finite sets under inclusion are well founded), since
the library's induction theorems cannot be used here. `SingleProcess` is
necessary: `engine_processes` is the counterexample without it. `IsRaw`, which
`EngineAssumption` asks of the offers, says which fields a candidate has.

**Hook and engine.** A theorem of a module that is instantiated cannot be used,
so `System_proofs` has an invariant of its own. Its parts are `Ids` (a decision
id belongs to one call of `observe()`: one that is over, or one still inside the
engine), `Places` (a call is in the hands of one thread, at one place of the
queue or with the worker), `Match` (what the engine waits for or checks is
what those places hold, less what the worker is done with) and `Accounted` (what
the ledger has as new is judged, dropped, at a place or on the way out).
`NothingIsForgotten` is these four read together. For `Implements`, the
refinement of `Recorder`, `Duty` says what has *not* happened yet: an id that is
about to be appended is not in the ledger, what is inside `observe()` or waits has
no verdict, what waits has not been dropped. Each step then maps to `Observe`,
`Judge` or `Lose` of `Recorder`, or to a stutter; the append that raises after its
line was written is an `Observe` or a `Judge` whose loss no longer counts. For
`CountersAreTrue`, `Counted` compares the sizes: events in the ledger, less
calls not yet counted, less the counters. The difference grows only with a
failed append, and then a handler or the worker drops. `SystemAssumption` is the
assumptions of `Guard` and `Engine` for the instances, nothing more.

**Replay.** The state is one evaluation and its replays, so `IInv` only says what
they are; the work is in the lemmas about the operators: the verdict of the
list of matches equals that of the ordered rules (`DecideVerdict`), what
`as_dict` and `from_dict` lose does not change a decision, and raising
thresholds only adds matches. `ReplayAssumption` asks that an answer is one the
adapter can give (`IsJudgment`) and thresholds are integers.

**Outcome.** `Owned`, `Named`, `Judged` and `Labeled` relate the ledger to what
happened: whose decision each event is about, its request id, and the newest
verdict and label of each. For a careful host `InOrder` (a purchase is observed
and judged before the next of its request id), `About` (each fact is recorded
with the decision of its own purchase) and `Told` (the newest status in the
ledger is the newest one the host reported) are added. `TellsOutcome` and `TellsOperator`
then compute `report` from the ledger and find what happened. The assumption
that `"none"` is neither a verdict nor a label is about the model's marker, not
about the code.

**Command line.** `WaitInv` follows a call through its attempts: before attempt
*n* it has waited at most for *n* calls of the transport and for back-offs that add up to
`2^n - 1`. `JudgeInv` says that a judgment that is
not a failure is what `parse_response` makes of the reply; with the lemma that a
PAY needs every rule to pass, `FullAnswerPays` follows. `ExitInv` says, while the
command runs, that `worst` is the code of the worst decision recorded since
it began, and that one candidate has one result, which tells whether its
judgment failed. `OnceInv` is about the index and the ledger: the index knows
every purchase that was judged, and nothing the ledger does not tell (`Told`);
a candidate that is not a repeat has not been judged, and the ledger tells of it
before the index does (`Holds`); what is under evaluation is known and was not
judged (`Evaluates`). A rebuilt index knows at least what the lost one knew, so a
kill or a failed append between any two steps cannot make a purchase new again.
`TypeInv` adds to these what `TypeOK` says of the decision ids under way and of
the loop's place in the file. `OutInv` says, while the command runs, that the loop
has kept one item for each candidate before its line, and that some increasing
map takes its decisions onto those this run recorded (`Lined`); a new decision
extends the map by the end of the ledger, and it is told from a skipped repeat
because its id was given out, which is `TypeInv`'s. A clean exit prints that list.
`CliAssumption` asks that a file is a sequence of lines, that candidates have the
fields `IsRaw` lists, that fixture entries keep integer scores by question, that
thresholds are integers, and that there is a longest file: the engine's bound on
calls of `observe()` is that length times the number of runs, which no run of the
command reaches before its file ends.

**Only model-checked.**

* Liveness (`AppendEnds`, `ObserveReturns`, `StopReturns`, `EachSettles` and
  `CommandEnds`) needs `ENABLED`, which the prover does not have.
* The runs of violated properties (`ledger_overwrite`, `engine_processes`,
  `jev_wait`, `cli_exit`, `cli_skip`) are counterexamples of small instances; there
  is nothing to prove about them.

## Not modelled

Canonical JSON, redaction, text and amount coercion, duration and policy
parsing, argument parsing, credentials files and the text of the request are
conversions without state; the models take hashes as injective and parsed
values as given. The backward block scan of `_last_hash` is abstracted to the
last line it finds. `report`'s latencies, costs, token totals, review reasons
and score distributions are sums and percentiles for display; its share of
labelled REVIEWs and the hook's `timed_out` counter have no property. `System` leaves
out the synchronous mode, which has no queue (`Guard` has it), restarts (`Engine`
and `Cli` have them) and a second process.

## Plan

Modelled and checked: all modules above. Proved: every safety and action
property that the passing runs check, and the refinements of `AppendLog` and
`Recorder`. What is left:

1. `TailScan`: the backward block scan against the last line of the file.
