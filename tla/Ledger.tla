------------------------------- MODULE Ledger -------------------------------
(***************************************************************************)
(* ledger.py, class Ledger: concurrent appenders, each with its own open   *)
(* file and buffer, one append a sequence of steps under flock, the ways   *)
(* the operating system can make a step fail, and crashes.                 *)
(*                                                                         *)
(* The file is a sequence of lines.  An event's hash covers everything but *)
(* itself and every event is new, so a hash is the event's number.  Bytes  *)
(* matter only in how a line can be damaged, which is its "form".          *)
(***************************************************************************)
EXTENDS Naturals, FiniteSets, SequencesExt

CONSTANTS Writers,    \* threads or processes that append
          NoWriter,   \* the flock is free
          MaxEvents,  \* bound: appends ever begun
          MaxBoots,   \* bound: power failures
          Faults      \* what may go wrong, a subset of FaultKinds

FaultKinds ==
  { "write",          \* flush() raises, no byte reached the file (ENOSPC)
    "torn",           \* flush() raises, the file has a first part of the line
    "unterminated",   \* as "torn", and only the newline is missing
    "late",           \* close() writes the rest of a line flush() began
    "rewrite",        \* close() writes a line flush() had not begun
    "fsync",          \* fsync() raises, the line is in the page cache
    "kill",           \* the appending process dies
    "power" }         \* the machine dies; unsynced data may be lost or cut

ASSUME LedgerAssumption ==
  /\ NoWriter \notin Writers
  /\ MaxEvents \in Nat /\ MaxBoots \in Nat
  /\ Faults \subseteq FaultKinds
  \* Not modelled together.
  /\ "unterminated" \in Faults => "late" \notin Faults /\ "rewrite" \notin Faults

VARIABLES file,     \* the JSONL file
          synced,   \* how many of its lines survive a power failure
          lock,     \* who holds the flock
          pc,       \* where each writer is in append()
          line,     \* the event each writer is appending
          pend,     \* what its buffer still holds after a failed flush()
          result,   \* whether append() will return rather than raise
          acked,    \* events whose append() returned
          begun,    \* appends begun, also the source of new event ids
          boots     \* power failures so far

local == <<line, pend, result>>
vars  == <<file, synced, lock, pc, local, acked, begun, boots>>

Genesis == 0
Hashes  == 0..MaxEvents
Line    == [id : Hashes, prev : Hashes, form : {"whole", "unterminated", "torn"}]
Garbage == [id |-> Genesis, prev |-> Genesis, form |-> "torn"]
NoBytes == [at |-> 0, rest |-> FALSE]   \* the buffer is empty

\* The writers between flock(LOCK_EX) and the finally clause.
Critical == {"reading", "writing", "syncing", "unlocking"}

\* The flock is held by the writer in the critical section, and by no other.
Exclusion == \A w \in Writers : lock = w <=> pc[w] \in Critical

TypeOK ==
  /\ file \in Seq(Line)
  /\ synced \in Nat
  /\ lock \in Writers \cup {NoWriter}
  /\ pc \in [Writers -> {"idle", "waiting", "reading", "writing", "syncing",
                         "unlocking", "closing"}]
  /\ line \in [Writers -> Line]
  /\ pend \in [Writers -> [at : Nat, rest : BOOLEAN]]
  /\ result \in [Writers -> BOOLEAN]
  /\ acked \subseteq Hashes
  /\ begun \in Hashes
  /\ boots \in 0..MaxBoots
  /\ Exclusion

Init ==
  /\ file = <<>> /\ synced = 0 /\ lock = NoWriter
  /\ pc = [w \in Writers |-> "idle"]
  /\ line = [w \in Writers |-> Garbage]
  /\ pend = [w \in Writers |-> NoBytes]
  /\ result = [w \in Writers |-> FALSE]
  /\ acked = {} /\ begun = 0 /\ boots = 0

----------------------------------------------------------------------------
(* The file.                                                              *)

\* A line a reader can parse.
Readable(l) == l.form # "torn"

\* What _last_hash returns, when it can parse the last line.
TailUnchecked(f) == TRUE
TailReadable(f) == f # <<>> => Readable(Last(f))
LastHash(f) == IF f = <<>> THEN Genesis ELSE Last(f).id

PutWithoutSeek(f, l) == IF f = <<>> THEN <<l>> ELSE [f EXCEPT ![Len(f)] = l]

\* Bytes written at the end.  After a line without newline they are part of
\* that line, and what was two events is no JSON at all.
Put(f, l) ==
  IF f = <<>> \/ Last(f).form = "whole" THEN Append(f, l)
                                        ELSE Append(Front(f), Garbage)

\* The whole line l written over the line at k: the old line was as long,
\* longer (its end remains), or shorter (the next line loses its beginning).
Overwrite(f, k, l) ==
  { [f EXCEPT ![k] = l],
    SubSeq(f, 1, k - 1) \o <<l, Garbage>> \o SubSeq(f, k + 1, Len(f)),
    [i \in DOMAIN f |-> IF i = k THEN l ELSE IF i = k + 1 THEN Garbage ELSE f[i]] }

\* The files that close() can leave when it flushes buffer p of line l.  The
\* bytes go to the offset the failed flush() had reached: the file is not
\* opened with O_APPEND.
LateFlush(f, p, l) ==
  IF p.rest
  THEN {[f EXCEPT ![p.at] = IF f[p.at] = [l EXCEPT !.form = "torn"] THEN l ELSE Garbage]}
  ELSE IF p.at = Len(f) + 1 THEN {Append(f, l)} ELSE Overwrite(f, p.at, l)

\* iter_events raises on the first bad line; verify_chain lists the events
\* that do not point at the one before them.
VerifyChain(f) ==
  { i \in DOMAIN f : f[i].prev # (IF i = 1 THEN Genesis ELSE f[i - 1].id) }

----------------------------------------------------------------------------
(* append().                                                              *)

Goto(w, from, to) == pc[w] = from /\ pc' = [pc EXCEPT ![w] = to]

NotExclusive == TRUE
Free         == lock = NoWriter     \* LOCK_EX can be granted
NotSynced    == synced
OnDisk       == Len(file)           \* fsync covers the whole file
SkipsFinally == "closing"
Finally      == "unlocking"         \* where a return and every exception lead

Begin(w) ==
  /\ begun < MaxEvents
  /\ Goto(w, "idle", "waiting")
  /\ begun' = begun + 1
  /\ line' = [line EXCEPT ![w] = [id |-> begun', prev |-> Genesis, form |-> "whole"]]
  /\ result' = [result EXCEPT ![w] = FALSE]
  /\ UNCHANGED <<file, synced, lock, pend, acked, boots>>

\* flock(LOCK_EX).
Acquire(w) ==
  /\ Goto(w, "waiting", "reading")
  /\ Free
  /\ lock' = w
  /\ UNCHANGED <<file, synced, local, acked, begun, boots>>

\* _last_hash and build_event: the event points at the last line.
Seal(w) ==
  /\ Goto(w, "reading", "writing")
  /\ TailReadable(file)
  /\ line' = [line EXCEPT ![w].prev = LastHash(file)]
  /\ UNCHANGED <<file, synced, lock, pend, result, acked, begun, boots>>

TailRetried(w) ==
  /\ Goto(w, "reading", "waiting")
  /\ ~TailReadable(file)
  /\ lock' = NoWriter
  /\ UNCHANGED <<file, synced, local, acked, begun, boots>>

\* "ledger tail is not valid JSON": nothing is written.
TailUnreadable(w) ==
  /\ Goto(w, "reading", Finally)
  /\ ~TailReadable(file)
  /\ UNCHANGED <<file, synced, lock, local, acked, begun, boots>>

\* seek to the end, write, flush.
Flush(w) ==
  /\ Goto(w, "writing", "syncing")
  /\ file' = Put(file, line[w])
  /\ UNCHANGED <<synced, lock, local, acked, begun, boots>>

\* The flush raises; what was not written stays in the buffer.
FlushFails(w) ==
  /\ Goto(w, "writing", Finally)
  /\ \/ /\ "write" \in Faults
        /\ pend' = [pend EXCEPT ![w] = [at |-> Len(file) + 1, rest |-> FALSE]]
        /\ UNCHANGED file
     \/ \E form \in {"torn", "unterminated"} \cap Faults :
          /\ file' = Put(file, [line[w] EXCEPT !.form = form])
          /\ pend' = [pend EXCEPT ![w] = [at |-> Len(file'), rest |-> TRUE]]
  /\ UNCHANGED <<synced, lock, line, result, acked, begun, boots>>

Fsync(w) ==
  /\ Goto(w, "syncing", Finally)
  /\ synced' = OnDisk
  /\ result' = [result EXCEPT ![w] = TRUE]
  /\ UNCHANGED <<file, lock, line, pend, acked, begun, boots>>

FsyncFails(w) ==
  /\ "fsync" \in Faults
  /\ Goto(w, "syncing", Finally)
  /\ UNCHANGED <<file, synced, lock, local, acked, begun, boots>>

\* The finally clause.
Unlock(w) ==
  /\ Goto(w, "unlocking", "closing")
  /\ lock' = NoWriter
  /\ UNCHANGED <<file, synced, local, acked, begun, boots>>

\* The end of the with statement, after the lock is gone: close() flushes
\* once more what the buffer still holds, or drops it, and with the
\* descriptor goes a flock it might still hold; append() is over.
Close(w) ==
  /\ Goto(w, "closing", "idle")
  /\ \/ UNCHANGED <<file, synced>>
     \/ /\ pend[w] # NoBytes
        /\ (IF pend[w].rest THEN "late" ELSE "rewrite") \in Faults
        /\ file' \in LateFlush(file, pend[w], line[w])
        /\ synced' = IF synced < pend[w].at THEN synced ELSE pend[w].at - 1
  /\ lock' = IF lock = w THEN NoWriter ELSE lock
  /\ pend' = [pend EXCEPT ![w] = NoBytes]
  /\ acked' = IF result[w] THEN acked \cup {line[w].id} ELSE acked
  /\ UNCHANGED <<line, result, begun, boots>>

----------------------------------------------------------------------------
(* Crashes.                                                               *)

\* The process dies: its buffer is gone and the kernel releases its flock.
Kill(w) ==
  /\ "kill" \in Faults
  /\ pc[w] # "idle"
  /\ pc' = [pc EXCEPT ![w] = "idle"]
  /\ lock' = IF lock = w THEN NoWriter ELSE lock
  /\ pend' = [pend EXCEPT ![w] = NoBytes]
  /\ UNCHANGED <<file, synced, line, result, acked, begun, boots>>

\* The machine dies: of the unsynced lines some survive, the next one in part.
PowerLoss ==
  /\ "power" \in Faults /\ boots < MaxBoots
  /\ boots' = boots + 1
  /\ \E k \in synced..Len(file) :
       \/ file' = SubSeq(file, 1, k)
       \/ \E form \in {"torn"} \cup ({"unterminated"} \cap Faults) :
            /\ k < Len(file)
            /\ Readable(file[k + 1]) \/ form = "torn"
            /\ file' = Append(SubSeq(file, 1, k), [file[k + 1] EXCEPT !.form = form])
  /\ synced' = Len(file')
  /\ lock' = NoWriter
  /\ pc' = [w \in Writers |-> "idle"]
  /\ pend' = [w \in Writers |-> NoBytes]
  /\ UNCHANGED <<line, result, acked, begun>>

----------------------------------------------------------------------------

Proceed(w) == \/ Seal(w) \/ TailUnreadable(w)
              \/ Flush(w) \/ FlushFails(w)
              \/ Fsync(w) \/ FsyncFails(w)
              \/ Unlock(w) \/ Close(w)

Next == \/ \E w \in Writers : Begin(w) \/ Acquire(w) \/ Proceed(w) \/ Kill(w)
        \/ PowerLoss

Spec == Init /\ [][Next]_vars

\* A running writer keeps running; flock serves the writers that wait for it.
FairSpec == Spec /\ \A w \in Writers : WF_vars(Proceed(w)) /\ SF_vars(Acquire(w))

----------------------------------------------------------------------------
(* Properties.                                                            *)

\* Every line but the last is whole and every line points at the one before
\* it: what verify_chain reports, however appenders interleave and crash.
ChainIntact ==
  /\ \A i \in DOMAIN file : i < Len(file) => file[i].form = "whole"
  /\ VerifyChain(file) = {}

\* An event whose append() returned can be read back, before and after any
\* crash: fsync comes before the return and no later writer damages the line.
AckedDurable ==
  \A e \in acked : \E i \in 1..synced : file[i].id = e /\ file[i].form = "whole"

\* "Append-only; nothing here rewrites a line": only a power failure takes a
\* complete line away, and no step of the code changes one.
AppendOnly ==
  [][boots' = boots =>
       \A i \in DOMAIN file : file[i].form = "whole" =>
         i \in DOMAIN file' /\ file'[i] = file[i]]_vars

Torn == file # <<>> /\ ~Readable(Last(file))

\* A cut last line that no writer is still completing is final: every later
\* append is refused (fail-stop), none is glued to the fragment.
TornTailIsFinal ==
  [][Torn /\ (\A w \in Writers : pend[w] = NoBytes) /\ boots' = boots
       => file' = file]_vars

\* No append waits or runs for ever: every way out of append() gives the lock
\* back, and one that meets a cut tail ends with an error instead of waiting
\* for a tail that nobody will repair.
AppendEnds == \A w \in Writers : pc[w] = "waiting" ~> pc[w] = "idle"

\* The ledger implements the log it promises: its readable lines, in order.
Lines == IF Torn THEN Len(file) - 1 ELSE Len(file)
Promise == INSTANCE AppendLog WITH Events <- 1..MaxEvents,
                                   log <- [i \in 1..Lines |-> file[i].id],
                                   acked <- acked
ImplementsAppendLog == Promise!Spec
=============================================================================
