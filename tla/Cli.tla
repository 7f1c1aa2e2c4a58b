-------------------------------- MODULE Cli --------------------------------
(***************************************************************************)
(* cli.py, `guard evaluate`: the engine and the judge of one command, run  *)
(* over a file of candidates, interrupted, and run again on the same file  *)
(* and ledger.  The process has one thread, so the engine's steps and the  *)
(* judge's are the command's own.                                          *)
(***************************************************************************)
EXTENDS Fixture, FiniteSets, SequencesExt

CONSTANTS Inputs,                                \* files, as sequences of lines
          Policy,
          Timeout, Setting, CallTime, Replies,   \* see Jev
          MaxRuns                                \* bound: runs of the command

VARIABLES ledger, index, epc, held, pending, running, decs, restarts, host,  \* Engine
          jpc, attempt, waited, reply, judgment,                             \* Jev
          mode, judge, input,       \* the command line
          cpc, at, results, worst,  \* cmd_evaluate: place, next line, its locals
          exit, printed,            \* what the shell gets
          before                    \* history: the ledger's length when the run began

engine   == <<ledger, index, epc, held, pending, running, decs, restarts, host>>
jev      == <<jpc, attempt, waited, reply, judgment>>
args     == <<mode, judge, input>>
progress == <<at, results, worst>>
shell    == <<exit, printed>>
vars     == <<engine, jev, args, cpc, progress, shell, before>>

Command == "guard"

E == INSTANCE Engine WITH
       Processes <- {1}, Flows <- {Command}, ProcOf <- [f \in {Command} |-> 1], pc <- epc,
       Offers <- {}, Judgments <- {}, Hosts <- {"serial", "faulty"},
       MaxRestarts <- MaxRuns - 1,
       MaxObserved <- MaxRuns * Max({Len(file) : file \in Inputs})
J == INSTANCE Jev

ASSUME CliAssumption ==
  /\ J!JevAssumption /\ E!EngineAssumption /\ MaxRuns \in Nat \ {0}
  /\ \A file \in Inputs :
       /\ Len(file) \in Nat
       /\ DOMAIN file = 1..Len(file)
       /\ \A i \in 1..Len(file) :
            file[i].kind = "candidate" => E!IsRaw(file[i].raw) /\ IsEntry(file[i].entry)
  /\ Policy.thresholds \in [{"task_fit_min", "incremental_value_min", "duplication_risk_max",
                             "evidence_sufficiency_min", "confidence_min"} -> Int]

\* errors.py; a Python traceback ends with 1.
ExitInputError    == 2
ExitProviderError == 4
ExitLedgerError   == 5
Traceback         == 1
ExitCode(verdict) == CASE verdict = "PAY"    -> 0
                       [] verdict = "HOLD"   -> 10
                       [] verdict = "REVIEW" -> 20
NotYet  == -1
Skip    == [dec |-> 0, verdict |-> "PAY", status |-> "SKIPPED"]   \* {"skipped": ...}

TypeOK ==
  /\ E!TypeOK /\ J!TypeOK
  /\ mode \in {"single", "jsonl"} /\ judge \in {"jev", "fixture"} /\ input \in Inputs
  /\ cpc \in {"open", "read", "observe", "check", "judge", "ended", "killed"}
  /\ cpc # "killed" => (cpc = "judge" <=> running[1] # {})
  /\ at \in 1..Len(input) + 1 /\ worst \in {0, 10, 20}
  /\ exit # NotYet <=> cpc = "ended"

Init ==
  /\ E!Init /\ J!Init
  /\ mode \in {"single", "jsonl"} /\ judge \in {"jev", "fixture"} /\ input \in Inputs
  /\ mode = "single" => Len(input) = 1 /\ input[1].kind # "blank"
  /\ cpc = "open" /\ at = 1 /\ results = <<>> /\ worst = 0
  /\ exit = NotYet /\ printed = <<>> /\ before = 0

Goto(from, to) == cpc = from /\ cpc' = to

FailShowing(from, code) ==
  /\ Goto(from, "ended") /\ exit' = code /\ printed' = results
  /\ UNCHANGED <<args, progress, before>>

\* An exception reaches main(): what was decided so far is not printed.
Fail(from, code) ==
  /\ Goto(from, "ended") /\ exit' = code
  /\ UNCHANGED <<args, progress, printed, before>>

----------------------------------------------------------------------------
(* cmd_evaluate().                                                        *)

\* _engine(): the policy, the fixture and the ledger are read.
Open ==
  /\ Goto("open", "read")
  /\ UNCHANGED <<engine, jev, args, progress, shell, before>>

\* One of them, or the input file, cannot be.
OpenFails ==
  /\ Fail("open", ExitInputError) \/ Fail("open", ExitLedgerError)
  /\ UNCHANGED <<engine, jev>>

\* A line of the file, while there is one.
At(kind) == at <= Len(input) /\ input[at].kind = kind

Blank ==
  /\ At("blank") /\ Goto("read", "read") /\ at' = at + 1
  /\ UNCHANGED <<engine, jev, args, results, worst, shell, before>>

\* Not JSON, or no candidate: an InputError, or the TypeError of a field
\* normalize() does not expect.
BadLine ==
  /\ \/ (At("not_json") \/ At("unusable")) /\ Fail("read", ExitInputError)
     \/ At("malformed") /\ Fail("read", Traceback)
  /\ UNCHANGED <<engine, jev>>

Lookup ==
  /\ At("candidate") /\ Goto("read", "observe") /\ E!LookupOf(Command, input[at].raw)
  /\ UNCHANGED <<jev, args, progress, shell, before>>

AppendObserved ==
  /\ cpc = "observe" /\ E!AppendObserved(Command)
  /\ UNCHANGED <<jev, args, cpc, progress, shell, before>>

AppendFails ==
  /\ E!AppendObservedFails(Command) /\ Fail("observe", ExitLedgerError)
  /\ UNCHANGED jev

KeepLast(item, code) ==
  /\ at' = at + 1 /\ results' = Append(results, item)
  /\ worst' = code

\* What the loop keeps of a line, and goes on to the next one.
Keep(item, code) ==
  /\ at' = at + 1 /\ results' = Append(results, item)
  /\ worst' = Max({worst, code})

\* A repeat is skipped, and counts as nothing to worry about.
SkipRepeat ==
  /\ Goto("observe", "read") /\ E!IndexObserved(Command) /\ E!ToEvaluate(Command) = {}
  /\ Keep(Skip, 0)
  /\ UNCHANGED <<jev, args, shell, before>>

ObservedNew ==
  /\ Goto("observe", "check") /\ E!IndexObserved(Command) /\ E!ToEvaluate(Command) # {}
  /\ UNCHANGED <<jev, args, progress, shell, before>>

Check ==
  /\ Goto("check", "judge") /\ \E e \in pending[1] : E!RunTheChecks(1, e)
  /\ UNCHANGED <<jev, args, progress, shell, before>>

Asked(r) == judge = "jev" /\ r.checks.status = "PASS"

CallJev ==
  /\ cpc = "judge" /\ \E r \in running[1] : Asked(r)
  /\ J!Ask \/ J!CannotAsk \/ \E d \in 0..CallTime : J!Wait(d)
  /\ UNCHANGED <<engine, args, cpc, progress, shell, before>>

\* _judge(): no call for a candidate that failed the checks.
Judged(r) == IF Asked(r) THEN J!Return ELSE UNCHANGED jev
Judgment(r) ==
  IF r.checks.status # "PASS" THEN Skipped
  ELSE IF judge = "jev" THEN judgment ELSE Answer(input[at].entry)

Record ==
  /\ Goto("judge", "read")
  /\ \E r \in running[1] :
       LET verdict == E!Evaluated(r, Judgment(r)).decision.verdict
       IN  /\ Judged(r) /\ E!RecordOf(1, r, Judgment(r))
           /\ Keep([dec |-> r.dec, verdict |-> verdict, status |-> Judgment(r).status],
                   ExitCode(verdict))
  /\ UNCHANGED <<args, shell, before>>

RecordFails ==
  /\ Fail("judge", ExitLedgerError)
  /\ \E r \in running[1] : Judged(r) /\ E!RecordFailsOf(1, r, Judgment(r))

\* The end of the file: everything is printed now.  A provider failure has a
\* code of its own when there is one candidate.
Code ==
  IF mode = "single" /\ results[1].status \notin {"OK", "SKIPPED"}
  THEN ExitProviderError ELSE worst

Emit ==
  /\ at > Len(input) /\ Goto("read", "ended")
  /\ printed' = results /\ exit' = Code
  /\ UNCHANGED <<engine, jev, args, progress, before>>

----------------------------------------------------------------------------
(* The shell.                                                             *)

\* The process is killed between any two steps.
Kill ==
  /\ cpc \notin {"ended", "killed"} /\ cpc' = "killed"
  /\ UNCHANGED <<engine, jev, args, progress, shell, before>>

\* The same command again: the index is built from the ledger.
Rerun ==
  /\ cpc \in {"ended", "killed"} /\ cpc' = "open"
  /\ E!Restart(1)
  /\ J!Forget
  /\ at' = 1 /\ results' = <<>> /\ worst' = 0
  /\ exit' = NotYet /\ printed' = <<>> /\ before' = Len(ledger)
  /\ UNCHANGED args

Step == \/ Open \/ OpenFails \/ Blank \/ BadLine
        \/ Lookup \/ AppendObserved \/ AppendFails \/ SkipRepeat \/ ObservedNew
        \/ Check \/ CallJev \/ Record \/ RecordFails \/ Emit

Next == Step \/ Kill \/ Rerun

Spec == Init /\ [][Next]_vars

\* A process that is not killed runs.
FairSpec == Spec /\ WF_vars(Step)

----------------------------------------------------------------------------
(* Properties.                                                            *)

Ended      == cpc = "ended"
Clean      == Ended /\ exit \notin {Traceback, ExitInputError, ExitLedgerError}
ThisRun    == {i \in DOMAIN ledger : i > before /\ ledger[i].type = "guard_evaluated"}

\* Which items are decisions, and line[k] is where item k is in the ledger.
Shown(items) == {k \in DOMAIN items : items[k] # Skip}

StandsFor(items, line) ==
  /\ \A i \in ThisRun : \E k \in Shown(items) : line[k] = i
  /\ \A k, l \in Shown(items) : k < l => line[k] < line[l]
  /\ \A k \in Shown(items) : /\ items[k].dec = ledger[line[k]].dec
                             /\ items[k].verdict = ledger[line[k]].decision.verdict

\* What one command prints is what it wrote: after a clean exit there is one item
\* for each candidate of the file, and those that are decisions stand for the
\* ones this run added to the ledger, each for one and in that order; after an
\* error nothing is printed, although the ledger may hold decisions of this run.
OutputIsLedger ==
  /\ Clean =>
       /\ Len(printed) = Cardinality({n \in DOMAIN input : input[n].kind = "candidate"})
       /\ \E line \in [Shown(printed) -> ThisRun] : StandsFor(printed, line)
  /\ ~Clean => printed = <<>>

\* A script can trust the exit code: 0 means that every decision of this run
\* says PAY, 10 that one says HOLD and none REVIEW, 20 that one says REVIEW; 4
\* is a single candidate that Jev failed to judge.
ExitMeansWorst ==
  Clean =>
    LET said == {ledger[i].decision.verdict : i \in ThisRun}
        lost == {ledger[i].judgment : i \in ThisRun} \cap SemanticFailures
    IN  CASE exit = 0  -> said \subseteq {"PAY"}
          [] exit = 10 -> "HOLD" \in said /\ "REVIEW" \notin said
          [] exit = 20 -> "REVIEW" \in said /\ (mode = "single" => lost = {})
          [] exit = 4  -> mode = "single" /\ lost # {}
          [] OTHER     -> FALSE

\* Running a command again, after a crash, a failed append or for no reason,
\* asks about no purchase twice, provided the file gives the request id and
\* the time: without observed_at every run sees another purchase.
JudgedOnceAcrossRuns ==
  \A n \in DOMAIN input :
    LET line == input[n]
    IN  (/\ line.kind = "candidate"
         /\ line.raw.request # E!NoRequest /\ line.raw.observed_at # E!Absent)
        => Cardinality({i \in E!Evaluations : ledger[i].cand = E!Normalized(line.raw, 0)}) <= 1

\* Only a full answer pays: when a PAY is recorded, the reply held a usable
\* probability and confidence for every question, over its threshold, and
\* for duplication it is the probability of "duplicate" that is under it; a
\* fixture has at least every score.
PaysOnlyOnFullAnswer ==
  [][(Len(ledger') > Len(ledger) /\ Last(ledger').type = "guard_evaluated"
        /\ Last(ledger').decision.verdict = "PAY")
      => LET t == Policy.thresholds
             says(q, option, range) == reply.answers[q].probabilities[option] \in range
         IN  IF judge = "fixture"
             THEN /\ input[at].entry.scores["duplication_risk"] < t.duplication_risk_max
                  /\ DOMAIN input[at].entry.scores = Questions
             ELSE /\ says("task_fit", "fits", t.task_fit_min..100)
                  /\ says("incremental_value", "adds_value", t.incremental_value_min..100)
                  /\ says("duplication_risk", "duplicate", 0..(t.duplication_risk_max - 1))
                  /\ says("evidence_sufficiency", "sufficient", t.evidence_sufficiency_min..100)
                  /\ DOMAIN reply.answers = Questions
                  /\ \A q \in Questions : reply.answers[q].confidence \in t.confidence_min..100]_vars

\* The command waits for Jev no longer than its attempts and back-offs last.
WaitBounded == J!WaitBounded

\* A command that is not killed ends: no line, no failing append and no Jev
\* that stays silent can keep it.
CommandEnds == cpc = "open" ~> cpc \in {"ended", "killed"}

\* "Semantic uncertainty and system failure never share an exit code".
OutageHasItsOwnCode ==
  Clean /\ exit = ExitCode("REVIEW") =>
    \A i \in ThisRun : ledger[i].judgment \notin SemanticFailures

\* {"skipped": "already_evaluated"} says that the candidate was evaluated.
SkippedWasEvaluated ==
  Clean =>
    \A k \in DOMAIN printed : printed[k] = Skip =>
      \E i \in E!Observations, j \in E!Evaluations :
        ledger[i].duplicate_of = ledger[j].dec
=============================================================================
