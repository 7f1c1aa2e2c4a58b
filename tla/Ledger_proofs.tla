---------------------------- MODULE Ledger_proofs ----------------------------
(***************************************************************************)
(* Ledger's safety for any number of writers, events and power failures,   *)
(* under the faults the append protocol withstands.                        *)
(***************************************************************************)
EXTENDS Ledger, SequenceTheorems, TLAPS

\* The newline is never the only part missing, and a buffer whose first byte
\* was never written is not flushed after the lock is gone.
SafeFaults == "unterminated" \notin Faults /\ "rewrite" \notin Faults

\* Only the last line may be cut, and every line points at the one before.
FileShape ==
  /\ synced <= Len(file)
  /\ \A i \in 1..Len(file) :
       /\ file[i].form = "whole" \/ (i = Len(file) /\ file[i].form = "torn")
       /\ file[i].prev = IF i = 1 THEN Genesis ELSE file[i - 1].id

\* What a writer knows at each point of append().
WriterFacts ==
  \A w \in Writers :
    /\ pc[w] # "idle" => line[w].form = "whole"
    /\ pc[w] \in {"waiting", "reading", "writing", "syncing"} => ~result[w]
    /\ pc[w] = "writing" => /\ TailReadable(file)
                            /\ line[w].prev = LastHash(file)
    /\ pc[w] = "syncing" => file # <<>> /\ file[Len(file)] = line[w]
    /\ pc[w] \in {"unlocking", "closing"} /\ result[w] =>
         \E i \in 1..synced : file[i] = line[w]

\* A buffer that still holds bytes belongs to a writer on its way out.  When
\* the file has their beginning, that fragment is the last line, and only one
\* writer can complete it.
BufferFacts ==
  \A w \in Writers :
    /\ pend[w] # NoBytes => pc[w] \in {"unlocking", "closing"}
    /\ pend[w].rest => /\ file # <<>> /\ pend[w].at = Len(file)
                       /\ file[Len(file)] = [line[w] EXCEPT !.form = "torn"]
                       /\ \A v \in Writers : pend[v].rest => v = w

IInv == TypeOK /\ FileShape /\ WriterFacts /\ BufferFacts /\ AckedDurable

----------------------------------------------------------------------------
(* Lemmas about the file.                                                 *)

USE DEF Goto, local, Readable, NoBytes, Garbage, Free, OnDisk, Finally

\* Under SafeFaults a readable tail is a whole line, so Put appends.
LEMMA PutAppends ==
  ASSUME SafeFaults, TypeOK, FileShape, TailReadable(file), NEW l \in Line
  PROVE  Put(file, l) = Append(file, l)
<1>1. CASE file = <<>>
  BY <1>1 DEF Put
<1>2. CASE file # <<>>
  <2>1. Len(file) \in 1..Len(file)
    BY <1>2, EmptySeq DEF TypeOK
  <2>2. file[Len(file)].form = "whole"
    BY <1>2, <2>1 DEF FileShape, TailReadable, Last
  <2> QED BY <2>2 DEF Put, Last
<1> QED BY <1>1, <1>2

\* The last hash is that of the line an appended line will follow.
LEMMA LastHashIsPrevious ==
  ASSUME TypeOK
  PROVE  /\ LastHash(file) = IF Len(file) = 0 THEN Genesis ELSE file[Len(file)].id
         /\ LastHash(file) \in Hashes
<1>0. Genesis \in Hashes
  BY LedgerAssumption DEF Genesis, Hashes
<1>1. CASE file = <<>>
  BY <1>0, <1>1 DEF LastHash
<1>2. CASE file # <<>>
  <2>1. Len(file) \in 1..Len(file)
    BY <1>2, EmptySeq DEF TypeOK
  <2>2. file[Len(file)] \in Line
    BY <2>1, ElementOfSeq DEF TypeOK
  <2> QED BY <1>2, <2>1, <2>2 DEF LastHash, Last, Line
<1> QED BY <1>1, <1>2

\* Appending a sealed line, whole or cut, keeps the shape of the file.
LEMMA AppendKeepsShape ==
  ASSUME TypeOK, FileShape, NEW l \in Line, TailReadable(file),
         l.prev = LastHash(file), l.form \in {"whole", "torn"},
         file' = Append(file, l), synced' = synced
  PROVE  /\ file' \in Seq(Line) /\ Len(file') = Len(file) + 1
         /\ \A i \in 1..Len(file) : file'[i] = file[i] /\ file[i].form = "whole"
         /\ file'[Len(file')] = l
         /\ FileShape'
<1>1. /\ Len(file) \in Nat
      /\ file' \in Seq(Line) /\ Len(file') = Len(file) + 1
      /\ \A i \in 1..Len(file) : file'[i] = file[i]
      /\ file'[Len(file) + 1] = l
  BY AppendProperties, LenProperties DEF TypeOK
<1>2. \A i \in 1..Len(file) : file[i].form = "whole"
  <2>1. CASE file = <<>>
    BY <2>1
  <2>2. CASE file # <<>>
    BY <1>1, <2>2 DEF FileShape, TailReadable, Last
  <2> QED BY <2>1, <2>2
<1>3. FileShape'
  BY <1>1, <1>2, LastHashIsPrevious DEF FileShape, TypeOK
<1> QED BY <1>1, <1>2, <1>3

----------------------------------------------------------------------------
(* The invariant is inductive.                                            *)

LEMMA InitEstablishes == ASSUME SafeFaults, Init PROVE IInv
<1>1. Exclusion
  BY LedgerAssumption DEF Init, Exclusion, Critical
<1>2. TypeOK
  BY <1>1, LedgerAssumption, EmptySeq DEF Init, TypeOK, Line, Hashes, Genesis
<1>3. FileShape /\ AckedDurable /\ WriterFacts /\ BufferFacts
  BY EmptySeq DEF Init, FileShape, AckedDurable, WriterFacts, BufferFacts
<1> QED BY <1>1, <1>2, <1>3 DEF IInv

\* While a writer may still complete its line, nobody can read the tail.
LEMMA PendingTearsTail ==
  ASSUME TypeOK, BufferFacts, NEW w \in Writers, pend[w].rest
  PROVE  ~TailReadable(file)
<1>1. line[w] \in Line
  BY DEF TypeOK
<1>2. [line[w] EXCEPT !.form = "torn"].form = "torn"
  BY <1>1 DEF Line
<1>3. file # <<>> /\ file[Len(file)].form = "torn"
  BY <1>2 DEF BufferFacts
<1> QED BY <1>3 DEF TailReadable, Last

\* Steps that leave the file alone disturb neither its shape nor what was
\* acknowledged.
LEMMA FileUntouched ==
  ASSUME FileShape, AckedDurable, UNCHANGED <<file, synced, acked>>
  PROVE  FileShape' /\ AckedDurable'
BY DEF FileShape, AckedDurable

\* A writer with an empty buffer may take another event without disturbing
\* those that still hold bytes.
LEMMA OthersUntouched ==
  ASSUME TypeOK, BufferFacts, NEW w \in Writers, NEW l, NEW to,
         pc[w] \notin {"unlocking", "closing"},
         pc' = [pc EXCEPT ![w] = to], line' = [line EXCEPT ![w] = l],
         UNCHANGED <<file, pend>>
  PROVE  BufferFacts'
<1>1. pend[w] = NoBytes
  BY DEF BufferFacts
<1>2. ~pend[w].rest
  BY <1>1
<1>3. \A v \in Writers : v # w => line'[v] = line[v] /\ pc'[v] = pc[v]
  BY DEF TypeOK
<1>4. ASSUME NEW v \in Writers, pend[v].rest
      PROVE  /\ file # <<>> /\ pend[v].at = Len(file)
             /\ file[Len(file)] = [line'[v] EXCEPT !.form = "torn"]
             /\ \A u \in Writers : pend[u].rest => u = v
  <2>1. v # w
    BY <1>2, <1>4
  <2> QED BY <1>3, <1>4, <2>1 DEF BufferFacts
<1>5. ASSUME NEW v \in Writers, pend[v] # NoBytes
      PROVE  pc'[v] \in {"unlocking", "closing"}
  <2>1. v # w
    BY <1>1, <1>5
  <2> QED BY <1>3, <1>5, <2>1 DEF BufferFacts
<1> QED BY <1>4, <1>5 DEF BufferFacts

LEMMA BeginPreserves ==
  ASSUME IInv, NEW w \in Writers, Begin(w) PROVE IInv'
<1> USE DEF IInv, Begin
<1>1. Exclusion'
  BY DEF TypeOK, Exclusion, Critical
<1>2. TypeOK'
  BY <1>1, LedgerAssumption DEF TypeOK, Line, Hashes, Genesis
<1>3. FileShape' /\ AckedDurable'
  BY FileUntouched
<1>4. WriterFacts'
  BY DEF TypeOK, WriterFacts, TailReadable, LastHash
<1>5. BufferFacts'
  BY <1>2, OthersUntouched DEF TypeOK, BufferFacts
<1> QED BY <1>2, <1>3, <1>4, <1>5

LEMMA AcquirePreserves ==
  ASSUME IInv, NEW w \in Writers, Acquire(w) PROVE IInv'
<1> USE DEF IInv, Acquire
<1>1. Exclusion'
  BY LedgerAssumption DEF TypeOK, Exclusion, Critical
<1>2. TypeOK'
  BY <1>1 DEF TypeOK
<1>3. FileShape' /\ AckedDurable'
  BY FileUntouched
<1>4. WriterFacts'
  BY DEF TypeOK, WriterFacts, TailReadable, LastHash
<1>5. BufferFacts'
  BY DEF TypeOK, BufferFacts
<1> QED BY <1>2, <1>3, <1>4, <1>5

LEMMA SealPreserves ==
  ASSUME IInv, NEW w \in Writers, Seal(w) PROVE IInv'
<1> USE DEF IInv, Seal
<1>1. Exclusion'
  BY DEF TypeOK, Exclusion, Critical
<1>2. TypeOK'
  BY <1>1, LastHashIsPrevious DEF TypeOK, Line
<1>3. FileShape' /\ AckedDurable'
  BY FileUntouched
<1>4. WriterFacts'
  BY DEF TypeOK, WriterFacts, TailReadable, LastHash, Line
<1>5. BufferFacts'
  BY <1>2, OthersUntouched DEF TypeOK, BufferFacts
<1> QED BY <1>2, <1>3, <1>4, <1>5

LEMMA TailUnreadablePreserves ==
  ASSUME IInv, NEW w \in Writers, TailUnreadable(w) PROVE IInv'
<1> USE DEF IInv, TailUnreadable
<1>1. Exclusion'
  BY DEF TypeOK, Exclusion, Critical
<1>2. TypeOK'
  BY <1>1 DEF TypeOK
<1>3. FileShape' /\ AckedDurable'
  BY FileUntouched
<1>4. WriterFacts'
  BY DEF TypeOK, WriterFacts, TailReadable, LastHash
<1>5. BufferFacts'
  BY DEF TypeOK, BufferFacts
<1> QED BY <1>2, <1>3, <1>4, <1>5

\* The holder is alone, so no other writer has a sealed event or a line just
\* written that this line could come between.
LEMMA FlushPreserves ==
  ASSUME SafeFaults, IInv, NEW w \in Writers, Flush(w) PROVE IInv'
<1> USE DEF IInv, Flush
<1>1. /\ line[w] \in Line /\ line[w].form = "whole" /\ TailReadable(file)
      /\ line[w].prev = LastHash(file)
  BY DEF TypeOK, WriterFacts
<1>2. file' = Append(file, line[w])
  BY <1>1, PutAppends
<1>3. /\ file' \in Seq(Line) /\ Len(file') = Len(file) + 1
      /\ \A i \in 1..Len(file) : file'[i] = file[i] /\ file[i].form = "whole"
      /\ file'[Len(file')] = line[w]
      /\ FileShape'
  BY <1>1, <1>2, AppendKeepsShape
<1>4. Exclusion'
  BY DEF TypeOK, Exclusion, Critical
<1>5. TypeOK'
  BY <1>4, <1>3 DEF TypeOK
<1>6. AckedDurable'
  BY <1>3, LenProperties DEF TypeOK, AckedDurable, FileShape
<1>7. \A v \in Writers : v # w => pc[v] \notin Critical
  BY DEF TypeOK, Exclusion, Critical
<1>8. WriterFacts'
  <2>1. pc'[w] = "syncing" /\ \A v \in Writers : v # w => pc'[v] = pc[v]
    BY DEF TypeOK
  <2>2. Len(file) \in Nat /\ synced <= Len(file) /\ synced \in Nat /\ file' # <<>>
    BY <1>3, LenProperties, EmptySeq DEF TypeOK, FileShape
  <2>3. UNCHANGED <<line, result, synced>>
    OBVIOUS
  <2> QED BY <1>3, <1>7, <2>1, <2>2, <2>3 DEF WriterFacts, Critical
<1>9. \A v \in Writers : ~pend[v].rest
  BY <1>1, PendingTearsTail
<1>10. BufferFacts'
  BY <1>9 DEF TypeOK, BufferFacts
<1> QED BY <1>10, <1>3, <1>5, <1>6, <1>4, <1>8, <1>9

\* The file keeps every line; it may gain the beginning of this one.
LEMMA FlushFailsPreserves ==
  ASSUME SafeFaults, IInv, NEW w \in Writers, FlushFails(w) PROVE IInv'
<1> USE DEF IInv
<1>1. /\ line[w] \in Line /\ line[w].form = "whole" /\ TailReadable(file)
      /\ line[w].prev = LastHash(file) /\ pc[w] = "writing" /\ ~result[w]
  BY DEF FlushFails, TypeOK, WriterFacts
<1>2. \A v \in Writers : ~pend[v].rest
  BY <1>1, PendingTearsTail
<1>3. \A v \in Writers : v # w => pc[v] \notin Critical
  BY <1>1 DEF TypeOK, Exclusion, Critical
<1>4. Exclusion'
  BY DEF FlushFails, TypeOK, Exclusion, Critical
<1>5. CASE /\ "write" \in Faults
           /\ pend' = [pend EXCEPT ![w] = [at |-> Len(file) + 1, rest |-> FALSE]]
           /\ UNCHANGED file
  <2>1. TypeOK'
    BY <1>4, <1>5, LenProperties DEF FlushFails, TypeOK
  <2>2. FileShape' /\ AckedDurable'
    BY <1>5, FileUntouched DEF FlushFails
  <2>3. WriterFacts'
    BY <1>1, <1>5 DEF FlushFails, TypeOK, WriterFacts, TailReadable, LastHash
  <2>4. BufferFacts'
    BY <1>2, <1>5 DEF FlushFails, TypeOK, BufferFacts
  <2> QED BY <1>4, <2>1, <2>2, <2>3, <2>4
<1>6. ASSUME NEW form \in {"torn", "unterminated"} \cap Faults,
             file' = Put(file, [line[w] EXCEPT !.form = form]),
             pend' = [pend EXCEPT ![w] = [at |-> Len(file'), rest |-> TRUE]]
      PROVE  IInv'
  <2> DEFINE cut == [line[w] EXCEPT !.form = "torn"]
  <2>1. /\ cut \in Line /\ cut.form = "torn" /\ cut.prev = line[w].prev
        /\ form = "torn"
    BY <1>1, <1>6 DEF Line, SafeFaults
  <2>2. file' = Append(file, cut) /\ synced' = synced
    BY <1>1, <1>6, <2>1, PutAppends DEF FlushFails
  <2> HIDE DEF cut
  <2>3. /\ file' \in Seq(Line) /\ Len(file') = Len(file) + 1
        /\ \A i \in 1..Len(file) : file'[i] = file[i] /\ file[i].form = "whole"
        /\ file'[Len(file')] = cut
        /\ FileShape'
    BY <1>1, <2>1, <2>2, AppendKeepsShape
  <2>4. Len(file) \in Nat /\ file' # <<>>
    BY <2>3, LenProperties, EmptySeq DEF TypeOK
  <2>5. TypeOK'
    BY <1>4, <1>6, <2>3, <2>4 DEF FlushFails, TypeOK
  <2>6. AckedDurable'
    BY <2>2, <2>3, <2>4 DEF FlushFails, TypeOK, AckedDurable, FileShape
  <2>7. WriterFacts'
    BY <1>1, <1>3, <2>2, <2>3, <2>4
    DEF FlushFails, TypeOK, WriterFacts, FileShape, Critical
  <2>8. BufferFacts'
    <3>1. line' = line /\ pc' = [pc EXCEPT ![w] = "unlocking"]
      BY DEF FlushFails
    <3>2. /\ pend'[w].rest /\ pend'[w].at = Len(file') /\ pend'[w] # NoBytes
          /\ pc'[w] = "unlocking"
      BY <1>6, <3>1 DEF TypeOK
    <3>3. \A v \in Writers : v # w => pend'[v] = pend[v] /\ pc'[v] = pc[v]
      BY <1>6, <3>1 DEF TypeOK
    <3>4. \A v \in Writers : pend'[v].rest <=> v = w
      BY <1>2, <3>2, <3>3
    <3>5. file'[Len(file')] = [line'[w] EXCEPT !.form = "torn"]
      BY <2>3, <3>1 DEF cut
    <3>6. \A v \in Writers : pend'[v] # NoBytes => pc'[v] \in {"unlocking", "closing"}
      BY <3>2, <3>3 DEF BufferFacts
    <3> QED BY <2>4, <3>2, <3>4, <3>5, <3>6 DEF BufferFacts
  <2> QED BY <1>4, <2>3, <2>5, <2>6, <2>7, <2>8
<1> QED BY <1>5, <1>6 DEF FlushFails

LEMMA FsyncPreserves ==
  ASSUME IInv, NEW w \in Writers, Fsync(w) PROVE IInv'
<1> USE DEF IInv, Fsync
<1>1. Len(file) \in Nat /\ file # <<>> /\ file[Len(file)] = line[w]
  BY LenProperties DEF TypeOK, WriterFacts
<1>2. Len(file) \in 1..Len(file)
  BY <1>1, EmptySeq DEF TypeOK
<1>3. Exclusion'
  BY DEF TypeOK, Exclusion, Critical
<1>4. TypeOK'
  BY <1>3, <1>1 DEF TypeOK
<1>5. FileShape'
  BY <1>1 DEF FileShape
<1>6. AckedDurable'
  BY <1>1 DEF TypeOK, FileShape, AckedDurable
<1>7. WriterFacts'
  BY <1>1, <1>2 DEF TypeOK, WriterFacts, FileShape, TailReadable, LastHash
<1>8. BufferFacts'
  BY DEF TypeOK, BufferFacts
<1> QED BY <1>4, <1>5, <1>6, <1>3, <1>7, <1>8

LEMMA FsyncFailsPreserves ==
  ASSUME IInv, NEW w \in Writers, FsyncFails(w) PROVE IInv'
<1> USE DEF IInv, FsyncFails
<1>1. Exclusion'
  BY DEF TypeOK, Exclusion, Critical
<1>2. TypeOK'
  BY <1>1 DEF TypeOK
<1>3. FileShape' /\ AckedDurable'
  BY FileUntouched
<1>4. WriterFacts'
  BY DEF TypeOK, WriterFacts, TailReadable, LastHash
<1>5. BufferFacts'
  BY DEF TypeOK, BufferFacts
<1> QED BY <1>2, <1>3, <1>4, <1>5

LEMMA UnlockPreserves ==
  ASSUME IInv, NEW w \in Writers, Unlock(w) PROVE IInv'
<1> USE DEF IInv, Unlock
<1>1. Exclusion'
  BY LedgerAssumption DEF TypeOK, Exclusion, Critical
<1>2. TypeOK'
  BY <1>1 DEF TypeOK
<1>3. FileShape' /\ AckedDurable'
  BY FileUntouched
<1>4. WriterFacts'
  BY DEF TypeOK, WriterFacts, TailReadable, LastHash
<1>5. BufferFacts'
  BY DEF TypeOK, BufferFacts
<1> QED BY <1>2, <1>3, <1>4, <1>5

\* close() either leaves the file alone or completes this writer's own cut
\* line, which nobody could append to meanwhile.
LEMMA ClosePreserves ==
  ASSUME SafeFaults, IInv, NEW w \in Writers, Close(w) PROVE IInv'
<1> USE DEF IInv
<1>1. /\ line[w] \in Line /\ line[w].form = "whole" /\ pc[w] = "closing"
      /\ pc' = [pc EXCEPT ![w] = "idle"] /\ pend' = [pend EXCEPT ![w] = NoBytes]
      /\ acked' = IF result[w] THEN acked \cup {line[w].id} ELSE acked
      /\ UNCHANGED <<line, result, begun, boots>>
  BY DEF Close, TypeOK, WriterFacts
<1>2. Exclusion' /\ UNCHANGED lock
  <2>1. lock # w
    BY <1>1 DEF TypeOK, Exclusion, Critical
  <2>2. UNCHANGED lock
    BY <2>1 DEF Close
  <2> QED BY <1>1, <2>2 DEF TypeOK, Exclusion, Critical
<1>3. acked' \subseteq Hashes
  BY <1>1 DEF TypeOK, Line
<1>4. result[w] => \E i \in 1..synced : file[i] = line[w]
  BY <1>1 DEF WriterFacts
<1>5. CASE UNCHANGED <<file, synced>>
  <2>1. TypeOK'
    BY <1>1, <1>2, <1>3, <1>5 DEF TypeOK
  <2>2. FileShape'
    BY <1>5 DEF FileShape
  <2>3. AckedDurable'
    BY <1>1, <1>4, <1>5 DEF AckedDurable
  <2>4. WriterFacts'
    BY <1>1, <1>5 DEF TypeOK, WriterFacts, TailReadable, LastHash
  <2>5. BufferFacts'
    BY <1>1, <1>5 DEF TypeOK, BufferFacts
  <2> QED BY <1>2, <2>1, <2>2, <2>3, <2>4, <2>5
<1>6. CASE /\ pend[w] # NoBytes
           /\ (IF pend[w].rest THEN "late" ELSE "rewrite") \in Faults
           /\ file' \in LateFlush(file, pend[w], line[w])
           /\ synced' = IF synced < pend[w].at THEN synced ELSE pend[w].at - 1
  <2>1. /\ pend[w].rest /\ pend[w].at = Len(file) /\ file # <<>>
        /\ file[Len(file)] = [line[w] EXCEPT !.form = "torn"]
        /\ \A v \in Writers : pend[v].rest => v = w
    BY <1>6 DEF BufferFacts, SafeFaults, TypeOK
  <2>2. Len(file) \in 1..Len(file) /\ Len(file) \in Nat /\ synced \in Nat
    BY <2>1, EmptySeq, LenProperties DEF TypeOK
  <2>3. file' = [file EXCEPT ![Len(file)] = line[w]]
    BY <1>6, <2>1 DEF LateFlush
  <2>4. /\ file' \in Seq(Line) /\ Len(file') = Len(file)
        /\ \A i \in 1..Len(file) :
             file'[i] = IF i = Len(file) THEN line[w] ELSE file[i]
    BY <1>1, <2>2, <2>3, ExceptSeq DEF TypeOK
  <2>5. /\ file[Len(file)].form = "torn" /\ file[Len(file)].prev = line[w].prev
        /\ file[Len(file)].id = line[w].id
    BY <1>1, <2>1 DEF Line
  <2>6. synced' \in Nat /\ synced' <= Len(file')
        /\ \A i \in 1..synced : i # Len(file) => i \in 1..synced'
    BY <1>6, <2>1, <2>2, <2>4 DEF FileShape
  <2>7. TypeOK'
    BY <1>1, <1>2, <1>3, <2>4, <2>6 DEF TypeOK
  <2>8. FileShape'
    <3>1. ASSUME NEW i \in 1..Len(file)
          PROVE  /\ file'[i].form = "whole" \/ (i = Len(file) /\ file'[i].form = "torn")
                 /\ file'[i].prev = file[i].prev /\ file'[i].id = file[i].id
      BY <1>1, <2>2, <2>4, <2>5, <3>1 DEF FileShape
    <3>2. \A i \in 1..Len(file) : i # 1 => i - 1 \in 1..Len(file)
      BY <2>2
    <3>3. \A i \in 1..Len(file) :
            file'[i].prev = IF i = 1 THEN Genesis ELSE file'[i - 1].id
      BY <3>1, <3>2 DEF FileShape
    <3> QED BY <2>4, <2>6, <3>1, <3>3 DEF FileShape
  <2>9. \A i \in 1..synced :
          file[i].form = "whole" => i \in 1..synced' /\ file'[i] = file[i]
    BY <2>2, <2>4, <2>5, <2>6 DEF FileShape
  <2>10. AckedDurable'
    BY <1>1, <1>4, <2>9 DEF AckedDurable
  <2>11. \A v \in Writers : pc[v] \notin {"writing", "syncing"}
    <3>1. ~TailReadable(file)
      BY <2>1, <2>5 DEF TailReadable, Last
    <3>2. \A v \in Writers : pc[v] = "syncing" => file[Len(file)].form = "whole"
      BY DEF WriterFacts
    <3> QED BY <2>5, <3>1, <3>2 DEF WriterFacts
  <2>12. WriterFacts'
    BY <1>1, <2>9, <2>11, SMTT(30) DEF TypeOK, WriterFacts
  <2>13. BufferFacts'
    BY <1>1, <2>1 DEF TypeOK, BufferFacts
  <2> QED BY <1>2, <2>7, <2>8, <2>10, <2>12, <2>13
<1> QED BY <1>5, <1>6 DEF Close

LEMMA KillPreserves ==
  ASSUME IInv, NEW w \in Writers, Kill(w) PROVE IInv'
<1> USE DEF IInv, Kill
<1>1. Exclusion'
  BY LedgerAssumption DEF TypeOK, Exclusion, Critical
<1>2. TypeOK'
  BY <1>1 DEF TypeOK
<1>3. FileShape' /\ AckedDurable'
  BY FileUntouched
<1>4. WriterFacts'
  BY DEF TypeOK, WriterFacts, TailReadable, LastHash
<1>5. BufferFacts'
  BY DEF TypeOK, BufferFacts
<1> QED BY <1>2, <1>3, <1>4, <1>5

\* The synced lines, among them every acknowledged one, survive.
LEMMA PowerLossPreserves ==
  ASSUME SafeFaults, IInv, PowerLoss PROVE IInv'
<1> USE DEF IInv
<1>1. PICK k \in synced..Len(file) :
        \/ file' = SubSeq(file, 1, k)
        \/ /\ k < Len(file)
           /\ file' = Append(SubSeq(file, 1, k), [file[k + 1] EXCEPT !.form = "torn"])
  BY DEF PowerLoss, SafeFaults
<1>2. Len(file) \in Nat /\ k \in Nat /\ k <= Len(file) /\ synced \in Nat /\ synced <= k
      /\ \A i \in 1..Len(file) : file[i] \in Line
  BY LenProperties, ElementOfSeq DEF TypeOK
<1>3. /\ SubSeq(file, 1, k) \in Seq(Line) /\ Len(SubSeq(file, 1, k)) = k
      /\ \A i \in 1..k : SubSeq(file, 1, k)[i] = file[i]
  BY <1>2, SubSeqProperties
<1>4. /\ file' \in Seq(Line) /\ Len(file') \in Nat /\ k <= Len(file')
      /\ \A i \in 1..k : file'[i] = file[i]
      /\ Len(file') # k =>
           /\ k < Len(file) /\ Len(file') = k + 1
           /\ file'[k + 1] = [file[k + 1] EXCEPT !.form = "torn"]
  <2>1. CASE file' = SubSeq(file, 1, k)
    BY <1>2, <1>3, <2>1
  <2>2. CASE /\ k < Len(file)
             /\ file' = Append(SubSeq(file, 1, k), [file[k + 1] EXCEPT !.form = "torn"])
    <3>1. [file[k + 1] EXCEPT !.form = "torn"] \in Line
      <4>1. file[k + 1] \in Line
        BY <1>2, <2>2
      <4> QED BY <4>1 DEF Line
    <3> QED BY <1>2, <1>3, <2>2, <3>1, AppendProperties
  <2> QED BY <1>1, <2>1, <2>2
<1>5. Len(file') # k => /\ file'[k + 1].form = "torn"
                        /\ file'[k + 1].prev = file[k + 1].prev
  <2>1. k < Len(file) => file[k + 1] \in Line
    BY <1>2
  <2> QED BY <1>4, <2>1 DEF Line
<1>6. /\ synced' = Len(file') /\ lock' = NoWriter
      /\ pc' = [w \in Writers |-> "idle"] /\ pend' = [w \in Writers |-> NoBytes]
      /\ boots' = boots + 1 /\ boots < MaxBoots
      /\ UNCHANGED <<line, result, acked, begun>>
  BY DEF PowerLoss
<1>7. TypeOK'
  <2>1. Exclusion'
    BY <1>6, LedgerAssumption DEF Exclusion, Critical
  <2> QED BY <1>4, <1>6, <2>1, LedgerAssumption DEF TypeOK
<1>8. FileShape'
  BY <1>2, <1>4, <1>5, <1>6 DEF FileShape
<1>9. AckedDurable'
  BY <1>2, <1>4, <1>6 DEF AckedDurable
<1>10. WriterFacts' /\ BufferFacts'
  BY <1>6 DEF WriterFacts, BufferFacts
<1> QED BY <1>7, <1>8, <1>9, <1>10

LEMMA Inductive == ASSUME SafeFaults, IInv, [Next]_vars PROVE IInv'
<1>1. ASSUME NEW w \in Writers, Begin(w) \/ Acquire(w) \/ Proceed(w) \/ Kill(w)
      PROVE  IInv'
  BY <1>1, BeginPreserves, AcquirePreserves, SealPreserves, TailUnreadablePreserves,
     FlushPreserves, FlushFailsPreserves, FsyncPreserves, FsyncFailsPreserves,
     UnlockPreserves, ClosePreserves, KillPreserves DEF Proceed
<1>2. ASSUME PowerLoss PROVE IInv'
  BY <1>2, PowerLossPreserves
<1>3. ASSUME UNCHANGED vars PROVE IInv'
  <2> USE <1>3 DEF vars, IInv
  <2>1. TypeOK'
    BY DEF TypeOK, Exclusion
  <2>2. FileShape' /\ AckedDurable'
    BY FileUntouched
  <2>3. WriterFacts' /\ BufferFacts'
    BY DEF WriterFacts, BufferFacts, TailReadable, LastHash
  <2> QED BY <2>1, <2>2, <2>3
<1> QED BY <1>1, <1>2, <1>3 DEF Next

----------------------------------------------------------------------------
(* The theorems.                                                          *)

\* IInv holds in every state of every execution.
THEOREM Invariance == ASSUME SafeFaults PROVE Spec => []IInv
<1>1. Init => IInv
  BY InitEstablishes
<1>2. IInv /\ [Next]_vars => IInv'
  BY Inductive
<1> QED BY <1>1, <1>2, PTL DEF Spec

\* Every variable keeps its type: Ledger.append has no state outside it.
THEOREM TypeCorrect == ASSUME SafeFaults PROVE Spec => []TypeOK
<1>1. IInv => TypeOK
  BY DEF IInv
<1> QED BY <1>1, Invariance, PTL

\* The lines form one hash chain and only the last can be cut, for any number
\* of concurrent appenders and any number of crashes ("one chain rather than
\* a fork").
THEOREM OneChain == ASSUME SafeFaults PROVE Spec => []ChainIntact
<1>1. IInv => ChainIntact
  <2> SUFFICES ASSUME IInv PROVE ChainIntact
    OBVIOUS
  <2>1. Len(file) \in Nat /\ DOMAIN file = 1..Len(file)
    BY LenProperties DEF IInv, TypeOK
  <2>2. \A i \in DOMAIN file : i < Len(file) => file[i].form = "whole"
    <3>1. \A i \in 1..Len(file) : i < Len(file) => file[i].form = "whole"
      BY DEF IInv, FileShape
    <3> QED BY <2>1, <3>1
  <2>3. \A i \in DOMAIN file : file[i].prev = IF i = 1 THEN Genesis ELSE file[i - 1].id
    BY <2>1 DEF IInv, FileShape
  <2>4. VerifyChain(file) = {}
    BY <2>3 DEF VerifyChain
  <2> QED BY <2>2, <2>4 DEF ChainIntact
<1> QED BY <1>1, Invariance, PTL

\* An event whose append() returned is on disk and readable for ever after.
THEOREM Durability == ASSUME SafeFaults PROVE Spec => []AckedDurable
<1>1. IInv => AckedDurable
  BY DEF IInv
<1> QED BY <1>1, Invariance, PTL

\* What one step can do to the file while the machine stays up: nothing, add
\* a line after a readable one, or complete the cut last line.
LEMMA FileEffects ==
  ASSUME SafeFaults, IInv, [Next]_vars, boots' = boots
  PROVE  \/ file' = file
         \/ TailReadable(file) /\ \E l \in Line : file' = Append(file, l)
         \/ \E w \in Writers : /\ pend[w].rest
                               /\ file' = [file EXCEPT ![Len(file)] = line[w]]
<1> USE DEF IInv
<1>1. ASSUME NEW w \in Writers, Flush(w)
      PROVE  TailReadable(file) /\ \E l \in Line : file' = Append(file, l)
  <2>1. TailReadable(file) /\ line[w] \in Line
    BY <1>1 DEF Flush, TypeOK, WriterFacts
  <2> QED BY <1>1, <2>1, PutAppends DEF Flush
<1>2. ASSUME NEW w \in Writers, FlushFails(w)
      PROVE  \/ file' = file
             \/ TailReadable(file) /\ \E l \in Line : file' = Append(file, l)
  <2>1. TailReadable(file) /\ line[w] \in Line
    BY <1>2 DEF FlushFails, TypeOK, WriterFacts
  <2>2. \A form \in {"torn", "unterminated"} \cap Faults :
          [line[w] EXCEPT !.form = form] \in Line
    BY <2>1 DEF Line
  <2> QED BY <1>2, <2>1, <2>2, PutAppends DEF FlushFails
<1>3. ASSUME NEW w \in Writers, Close(w)
      PROVE  \/ file' = file
             \/ pend[w].rest /\ file' = [file EXCEPT ![Len(file)] = line[w]]
  <2>1. CASE file' = file
    BY <2>1
  <2>2. CASE /\ pend[w] # NoBytes
             /\ (IF pend[w].rest THEN "late" ELSE "rewrite") \in Faults
             /\ file' \in LateFlush(file, pend[w], line[w])
    <3>1. /\ pend[w].rest /\ pend[w].at = Len(file)
          /\ file[Len(file)] = [line[w] EXCEPT !.form = "torn"]
      BY <2>2 DEF BufferFacts, SafeFaults, TypeOK
    <3> QED BY <2>2, <3>1 DEF LateFlush
  <2> QED BY <1>3, <2>1, <2>2 DEF Close
<1>4. ~PowerLoss
  BY DEF PowerLoss, TypeOK
<1>5. ASSUME NEW w \in Writers,
             \/ Begin(w) \/ Acquire(w) \/ Seal(w) \/ TailUnreadable(w) \/ Fsync(w)
             \/ FsyncFails(w) \/ Unlock(w) \/ Kill(w)
      PROVE  file' = file
  BY <1>5 DEF Begin, Acquire, Seal, TailUnreadable, Fsync, FsyncFails, Unlock, Kill
<1>6. UNCHANGED vars => file' = file
  BY DEF vars
<1> QED BY <1>1, <1>2, <1>3, <1>4, <1>5, <1>6 DEF Next, Proceed

\* "Nothing here rewrites a line": no step of any appender changes or removes
\* a complete line.
THEOREM NeverRewrites == ASSUME SafeFaults PROVE Spec => AppendOnly
<1> DEFINE Keeps == \A i \in DOMAIN file : file[i].form = "whole" =>
                      i \in DOMAIN file' /\ file'[i] = file[i]
<1>1. ASSUME IInv, [Next]_vars, boots' = boots PROVE Keeps
  <2>0. /\ Len(file) \in Nat /\ DOMAIN file = 1..Len(file) /\ file \in Seq(Line)
    BY <1>1, LenProperties DEF IInv, TypeOK
  <2>1. CASE file' = file
    BY <2>1
  <2>2. ASSUME NEW l \in Line, file' = Append(file, l) PROVE Keeps
    <3>1. /\ file' \in Seq(Line) /\ Len(file') = Len(file) + 1
          /\ \A i \in 1..Len(file) : file'[i] = file[i]
      BY <2>0, <2>2, AppendProperties
    <3>2. DOMAIN file' = 1..Len(file')
      BY <3>1, LenProperties
    <3> QED BY <2>0, <3>1, <3>2
  <2>3. ASSUME NEW w \in Writers, pend[w].rest,
               file' = [file EXCEPT ![Len(file)] = line[w]]
        PROVE  Keeps
    <3>1. ~TailReadable(file)
      BY <1>1, <2>3, PendingTearsTail DEF IInv
    <3> QED BY <2>0, <2>3, <3>1 DEF TailReadable, Last
  <2> QED BY <1>1, <2>1, <2>2, <2>3, FileEffects
<1>2. IInv /\ [Next]_vars => [boots' = boots => Keeps]_vars
  BY <1>1
<1> QED BY <1>2, Invariance, PTL DEF Spec, AppendOnly

\* A torn tail that no writer is completing ends the ledger: every later
\* append is refused, none is glued to the fragment.
THEOREM FailStop == ASSUME SafeFaults PROVE Spec => TornTailIsFinal
<1>1. ASSUME IInv, [Next]_vars, Torn,
             \A w \in Writers : pend[w] = NoBytes, boots' = boots
      PROVE  file' = file
  <2>1. \A w \in Writers : ~pend[w].rest
    BY <1>1
  <2>2. ~TailReadable(file)
    BY <1>1 DEF Torn, TailReadable
  <2> QED BY <1>1, <2>1, <2>2, FileEffects
<1> QED BY <1>1, Invariance, PTL DEF Spec, TornTailIsFinal

----------------------------------------------------------------------------
(* Every event is written once.                                           *)

\* Events are numbered by the appends begun; no two lines and no two writers
\* have the same one, and until its line is flushed no line has it.
Fresh ==
  /\ \A i \in 1..Len(file) : file[i].id \in 1..begun
  /\ \A i, j \in 1..Len(file) : file[i].id = file[j].id => i = j
  /\ \A w \in Writers : pc[w] # "idle" => line[w].id \in 1..begun
  /\ \A v, w \in Writers :
       pc[v] # "idle" /\ pc[w] # "idle" /\ line[v].id = line[w].id => v = w
  /\ \A w \in Writers : pc[w] \in {"waiting", "reading", "writing"} =>
       \A i \in 1..Len(file) : file[i].id # line[w].id
  /\ \A w \in Writers : pend[w].rest => ~result[w]

LEMMA InitFresh == ASSUME SafeFaults, Init PROVE Fresh
BY EmptySeq DEF Init, Fresh

\* A step by which no line changes its event and no append begins.
LEMMA FreshKept ==
  ASSUME TypeOK, Fresh, begun' = begun, Len(file') \in Nat, Len(file') <= Len(file),
         \A i \in 1..Len(file') : file'[i].id = file[i].id,
         \A w \in Writers : /\ line'[w].id = line[w].id
                            /\ pc'[w] # "idle" => pc[w] # "idle"
                            /\ pc'[w] \in {"waiting", "reading", "writing"}
                                 => pc[w] \in {"waiting", "reading", "writing"}
                            /\ pend'[w].rest => ~result'[w]
  PROVE  Fresh'
<1>0. Len(file) \in Nat /\ 1..Len(file') \subseteq 1..Len(file)
  BY LenProperties DEF TypeOK
<1>1. \A i \in 1..Len(file') : file'[i].id \in 1..begun'
  BY <1>0 DEF Fresh
<1>2. \A i, j \in 1..Len(file') : file'[i].id = file'[j].id => i = j
  BY <1>0 DEF Fresh
<1>3. \A w \in Writers : pc'[w] # "idle" => line'[w].id \in 1..begun'
  BY DEF Fresh
<1>4. \A v, w \in Writers :
       pc'[v] # "idle" /\ pc'[w] # "idle" /\ line'[v].id = line'[w].id => v = w
  BY DEF Fresh
<1>5. \A w \in Writers : pc'[w] \in {"waiting", "reading", "writing"} =>
       \A i \in 1..Len(file') : file'[i].id # line'[w].id
  BY <1>0 DEF Fresh
<1> QED BY <1>1, <1>2, <1>3, <1>4, <1>5 DEF Fresh

\* The writer in the critical section adds its own event, whole or cut.
LEMMA FreshAppended ==
  ASSUME TypeOK, Fresh, NEW w \in Writers, NEW to, NEW l \in Line,
         pc[w] = "writing", l.id = line[w].id, file' = Append(file, l),
         pc' = [pc EXCEPT ![w] = to], to \in {"syncing", "unlocking"},
         UNCHANGED <<line, begun>>,
         \A v \in Writers : pend'[v].rest => ~result'[v]
  PROVE  Fresh'
<1>0. /\ Len(file) \in Nat /\ Len(file') = Len(file) + 1
      /\ \A i \in 1..Len(file) : file'[i] = file[i]
      /\ file'[Len(file) + 1] = l
  BY AppendProperties, LenProperties DEF TypeOK
<1>1. /\ l.id \in 1..begun /\ \A i \in 1..Len(file) : file[i].id # l.id
  BY DEF Fresh
<1>2. pc'[w] = to /\ \A v \in Writers : v # w => pc'[v] = pc[v]
  BY DEF TypeOK
<1>3. \A i \in 1..Len(file') : file'[i].id \in 1..begun'
  BY <1>0, <1>1 DEF Fresh
<1>4. \A i, j \in 1..Len(file') : file'[i].id = file'[j].id => i = j
  BY <1>0, <1>1 DEF Fresh
<1>5. \A v \in Writers : pc'[v] # "idle" => line'[v].id \in 1..begun'
  BY <1>2 DEF Fresh
<1>6. \A u, v \in Writers :
       pc'[u] # "idle" /\ pc'[v] # "idle" /\ line'[u].id = line'[v].id => u = v
  BY <1>2 DEF Fresh
<1>7. \A v \in Writers : pc'[v] \in {"waiting", "reading", "writing"} =>
       \A i \in 1..Len(file') : file'[i].id # line'[v].id
  <2> SUFFICES ASSUME NEW v \in Writers, pc'[v] \in {"waiting", "reading", "writing"},
                      NEW i \in 1..Len(file')
               PROVE  file'[i].id # line'[v].id
    OBVIOUS
  <2>1. v # w /\ pc[v] \in {"waiting", "reading", "writing"}
    BY <1>2
  <2>2. line[v].id # line[w].id
    BY <2>1 DEF Fresh
  <2> QED BY <1>0, <2>1, <2>2 DEF Fresh
<1> QED BY <1>3, <1>4, <1>5, <1>6, <1>7 DEF Fresh

LEMMA BeginFresh ==
  ASSUME IInv, Fresh, NEW w \in Writers, Begin(w) PROVE Fresh'
<1>0. /\ begun \in Nat /\ begun' = begun + 1 /\ pc[w] = "idle"
      /\ line'[w].id = begun + 1 /\ pc'[w] = "waiting" /\ ~result'[w]
      /\ \A v \in Writers : v # w => /\ line'[v] = line[v] /\ pc'[v] = pc[v]
                                     /\ result'[v] = result[v]
      /\ UNCHANGED <<file, pend>>
  BY LedgerAssumption DEF IInv, Begin, TypeOK, Hashes
<1>1. \A i \in 1..Len(file') : file'[i].id \in 1..begun'
  BY <1>0 DEF Fresh
<1>2. \A i, j \in 1..Len(file') : file'[i].id = file'[j].id => i = j
  BY <1>0 DEF Fresh
<1>3. \A v \in Writers : pc'[v] # "idle" => line'[v].id \in 1..begun'
  BY <1>0 DEF Fresh
<1>4. \A u, v \in Writers :
       pc'[u] # "idle" /\ pc'[v] # "idle" /\ line'[u].id = line'[v].id => u = v
  BY <1>0 DEF Fresh
<1>5. \A v \in Writers : pc'[v] \in {"waiting", "reading", "writing"} =>
       \A i \in 1..Len(file') : file'[i].id # line'[v].id
  BY <1>0 DEF Fresh
<1>6. \A v \in Writers : pend'[v].rest => ~result'[v]
  BY <1>0 DEF Fresh
<1> QED BY <1>1, <1>2, <1>3, <1>4, <1>5, <1>6 DEF Fresh

LEMMA FlushFresh ==
  ASSUME SafeFaults, IInv, Fresh, NEW w \in Writers, Flush(w) PROVE Fresh'
<1>1. /\ line[w] \in Line /\ TailReadable(file) /\ pc[w] = "writing"
      /\ pc' = [pc EXCEPT ![w] = "syncing"]
      /\ file' = Put(file, line[w]) /\ UNCHANGED <<line, pend, result, begun>>
  BY DEF IInv, Flush, TypeOK, WriterFacts
<1>2. file' = Append(file, line[w])
  BY <1>1, PutAppends DEF IInv
<1>3. \A v \in Writers : pend'[v].rest => ~result'[v]
  BY <1>1 DEF Fresh
<1> QED BY <1>1, <1>2, <1>3, FreshAppended DEF IInv

LEMMA FlushFailsFresh ==
  ASSUME SafeFaults, IInv, Fresh, NEW w \in Writers, FlushFails(w) PROVE Fresh'
<1>1. /\ line[w] \in Line /\ TailReadable(file) /\ pc[w] = "writing"
      /\ pc' = [pc EXCEPT ![w] = "unlocking"] /\ ~result[w]
      /\ UNCHANGED <<line, result, begun>>
  BY DEF IInv, FlushFails, TypeOK, WriterFacts
<1>2. \A v \in Writers : pend'[v].rest => ~result'[v]
  BY <1>1 DEF IInv, TypeOK, FlushFails, Fresh
<1>3. CASE UNCHANGED file
  <2>1. Len(file') \in Nat /\ Len(file') <= Len(file)
    BY <1>3, LenProperties DEF IInv, TypeOK
  <2>2. \A v \in Writers : /\ pc'[v] # "idle" => pc[v] # "idle"
                           /\ pc'[v] \in {"waiting", "reading", "writing"}
                                => pc[v] \in {"waiting", "reading", "writing"}
    BY <1>1 DEF IInv, TypeOK
  <2> QED BY <1>1, <1>2, <1>3, <2>1, <2>2, FreshKept DEF IInv
<1>4. ASSUME NEW form \in {"torn", "unterminated"} \cap Faults,
             file' = Put(file, [line[w] EXCEPT !.form = form])
      PROVE  Fresh'
  <2> DEFINE cut == [line[w] EXCEPT !.form = form]
  <2>1. cut \in Line /\ cut.id = line[w].id
    BY <1>1 DEF Line
  <2>2. file' = Append(file, cut)
    BY <1>1, <1>4, <2>1, PutAppends DEF IInv
  <2> HIDE DEF cut
  <2> QED BY <1>1, <1>2, <2>1, <2>2, FreshAppended DEF IInv
<1> QED BY <1>3, <1>4 DEF FlushFails

LEMMA CloseFresh ==
  ASSUME SafeFaults, IInv, Fresh, NEW w \in Writers, Close(w) PROVE Fresh'
<1>1. /\ UNCHANGED <<line, result, begun>> /\ pc' = [pc EXCEPT ![w] = "idle"]
      /\ pend' = [pend EXCEPT ![w] = NoBytes]
  BY DEF Close
<1>2. \A v \in Writers : /\ line'[v].id = line[v].id
                         /\ pc'[v] # "idle" => pc[v] # "idle"
                         /\ pc'[v] \in {"waiting", "reading", "writing"}
                              => pc[v] \in {"waiting", "reading", "writing"}
                         /\ pend'[v].rest => ~result'[v]
  BY <1>1 DEF IInv, TypeOK, Fresh
<1>3. Len(file) \in Nat /\ file \in Seq(Line)
  BY LenProperties DEF IInv, TypeOK
<1>4. \/ file' = file
      \/ pend[w].rest /\ file' = [file EXCEPT ![Len(file)] = line[w]]
  <2>1. CASE /\ pend[w] # NoBytes
             /\ (IF pend[w].rest THEN "late" ELSE "rewrite") \in Faults
             /\ file' \in LateFlush(file, pend[w], line[w])
    <3>1. /\ pend[w].rest /\ pend[w].at = Len(file)
          /\ file[Len(file)] = [line[w] EXCEPT !.form = "torn"]
      BY <2>1 DEF IInv, BufferFacts, SafeFaults, TypeOK
    <3> QED BY <2>1, <3>1 DEF LateFlush
  <2> QED BY <2>1 DEF Close
<1>5. Len(file') = Len(file) /\ \A i \in 1..Len(file') : file'[i].id = file[i].id
  <2>1. CASE file' = file
    BY <2>1
  <2>2. CASE pend[w].rest /\ file' = [file EXCEPT ![Len(file)] = line[w]]
    <3>1. /\ file # <<>> /\ file[Len(file)] = [line[w] EXCEPT !.form = "torn"]
          /\ line[w] \in Line
      BY <2>2 DEF IInv, BufferFacts, TypeOK
    <3>2. file[Len(file)].id = line[w].id
      BY <3>1 DEF Line
    <3>3. Len(file) \in 1..Len(file)
      BY <1>3, <3>1, EmptySeq
    <3>4. /\ Len(file') = Len(file)
          /\ \A i \in 1..Len(file) :
               file'[i] = IF i = Len(file) THEN line[w] ELSE file[i]
      BY <1>3, <2>2, <3>1, <3>3, ExceptSeq
    <3> QED BY <3>2, <3>4
  <2> QED BY <1>4, <2>1, <2>2
<1> QED BY <1>2, <1>3, <1>5, <1>1, FreshKept DEF IInv

LEMMA PowerLossFresh ==
  ASSUME SafeFaults, IInv, Fresh, PowerLoss PROVE Fresh'
<1>1. PICK k \in synced..Len(file) :
        \/ file' = SubSeq(file, 1, k)
        \/ /\ k < Len(file)
           /\ file' = Append(SubSeq(file, 1, k), [file[k + 1] EXCEPT !.form = "torn"])
  BY DEF PowerLoss, SafeFaults
<1>2. Len(file) \in Nat /\ k \in Nat /\ k <= Len(file)
      /\ \A i \in 1..Len(file) : file[i] \in Line
  BY LenProperties, ElementOfSeq DEF IInv, TypeOK
<1>3. /\ SubSeq(file, 1, k) \in Seq(Line) /\ Len(SubSeq(file, 1, k)) = k
      /\ \A i \in 1..k : SubSeq(file, 1, k)[i] = file[i]
  BY <1>2, SubSeqProperties DEF IInv, TypeOK
<1>4. /\ Len(file') \in Nat /\ Len(file') <= Len(file)
      /\ \A i \in 1..Len(file') : file'[i].id = file[i].id
  <2>1. CASE file' = SubSeq(file, 1, k)
    BY <1>2, <1>3, <2>1
  <2>2. CASE /\ k < Len(file)
             /\ file' = Append(SubSeq(file, 1, k), [file[k + 1] EXCEPT !.form = "torn"])
    <3>1. file[k + 1] \in Line
      BY <1>2, <2>2
    <3>2. /\ [file[k + 1] EXCEPT !.form = "torn"] \in Line
          /\ [file[k + 1] EXCEPT !.form = "torn"].id = file[k + 1].id
      BY <3>1 DEF Line
    <3> QED BY <1>2, <1>3, <2>2, <3>2, AppendProperties
  <2> QED BY <1>1, <2>1, <2>2
<1>5. \A w \in Writers : line'[w].id = line[w].id /\ pc'[w] = "idle" /\ ~pend'[w].rest
  BY DEF PowerLoss
<1> QED BY <1>4, <1>5, FreshKept DEF PowerLoss, IInv

LEMMA InductiveFresh ==
  ASSUME SafeFaults, IInv, Fresh, [Next]_vars PROVE Fresh'
<1>0. Len(file) \in Nat
  BY LenProperties DEF IInv, TypeOK
<1>1. ASSUME NEW w \in Writers,
             \/ Acquire(w) \/ Seal(w) \/ TailUnreadable(w) \/ Fsync(w)
             \/ FsyncFails(w) \/ Unlock(w) \/ Kill(w)
      PROVE  Fresh'
  <2>1. UNCHANGED <<file, begun>>
    BY <1>1 DEF Acquire, Seal, TailUnreadable, Fsync, FsyncFails, Unlock, Kill
  <2>2. \A v \in Writers : /\ pc'[v] # "idle" => pc[v] # "idle"
                           /\ pc'[v] \in {"waiting", "reading", "writing"}
                                => pc[v] \in {"waiting", "reading", "writing"}
    BY <1>1 DEF Acquire, Seal, TailUnreadable, Fsync, FsyncFails, Unlock, Kill,
                IInv, TypeOK
  <2>3. \A v \in Writers : line'[v].id = line[v].id
    <3>1. CASE Seal(w)
      BY <3>1 DEF Seal, IInv, TypeOK, Line
    <3>2. CASE ~Seal(w)
      BY <1>1, <3>2 DEF Acquire, TailUnreadable, Fsync, FsyncFails, Unlock, Kill
    <3> QED BY <3>1, <3>2
  <2>4. \A v \in Writers : pend'[v].rest => ~result'[v]
    <3>1. CASE Fsync(w)
      <4>1. pc[w] = "syncing" /\ pend' = pend /\ result' = [result EXCEPT ![w] = TRUE]
        BY <3>1 DEF Fsync
      <4>2. pend[w] = NoBytes
        BY <4>1 DEF IInv, BufferFacts
      <4>3. ~pend[w].rest
        BY <4>2
      <4> QED BY <4>1, <4>3 DEF Fresh, IInv, TypeOK
    <3>2. CASE Kill(w)
      BY <3>2 DEF Kill, IInv, TypeOK, Fresh
    <3>3. CASE ~Fsync(w) /\ ~Kill(w)
      BY <1>1, <3>3 DEF Acquire, Seal, TailUnreadable, FsyncFails, Unlock, Fresh
    <3> QED BY <3>1, <3>2, <3>3
  <2> QED BY <1>0, <2>1, <2>2, <2>3, <2>4, FreshKept DEF IInv
<1>2. CASE UNCHANGED vars
  BY <1>2 DEF vars, Fresh
<1> QED BY <1>1, <1>2, BeginFresh, FlushFresh, FlushFailsFresh, CloseFresh, PowerLossFresh
        DEF Next, Proceed

----------------------------------------------------------------------------
(* The ledger implements the log it promises.                             *)

\* A log that gains the event of one more line.
LEMMA LogGrows ==
  ASSUME NEW f \in Seq(Line), NEW g \in Seq(Line), NEW n \in Nat,
         n <= Len(f), n + 1 <= Len(g), \A i \in 1..n : g[i].id = f[i].id
  PROVE  [i \in 1..n + 1 |-> g[i].id] = Append([i \in 1..n |-> f[i].id], g[n + 1].id)
<1> DEFINE old == [i \in 1..n |-> f[i].id]
           new == [i \in 1..n + 1 |-> g[i].id]
<1>1. /\ \A i \in 1..n : f[i].id \in Hashes
      /\ \A i \in 1..n + 1 : g[i].id \in Hashes
  <2>1. Len(f) \in Nat /\ Len(g) \in Nat
    BY LenProperties
  <2>2. \A i \in 1..n : f[i] \in Line
    BY <2>1, ElementOfSeq
  <2>3. \A i \in 1..n + 1 : g[i] \in Line
    BY <2>1, ElementOfSeq
  <2> QED BY <2>2, <2>3 DEF Line
<1>2. /\ old \in Seq(Hashes) /\ Len(old) = n
      /\ new \in Seq(Hashes) /\ Len(new) = n + 1
  BY <1>1, IsASeq
<1>3. /\ \A i \in 1..n : old[i] = f[i].id
      /\ \A i \in 1..n + 1 : new[i] = g[i].id
  OBVIOUS
<1>4. g[n + 1].id \in Hashes
  BY <1>1
<1> HIDE DEF old, new
<1>5. /\ Append(old, g[n + 1].id) \in Seq(Hashes)
      /\ Len(Append(old, g[n + 1].id)) = n + 1
      /\ \A i \in 1..n + 1 : Append(old, g[n + 1].id)[i] = new[i]
  BY <1>2, <1>3, <1>4, AppendProperties
<1>6. new = Append(old, g[n + 1].id)
  BY <1>2, <1>5, SeqEqual
<1> QED BY <1>6 DEF old, new

\* A log cut back to its first m events.
LEMMA LogShrinks ==
  ASSUME NEW f \in Seq(Line), NEW g \in Seq(Line), NEW n \in Nat, NEW m \in 0..n,
         n <= Len(f), m <= Len(g), \A i \in 1..m : g[i].id = f[i].id
  PROVE  [i \in 1..m |-> g[i].id] = SubSeq([i \in 1..n |-> f[i].id], 1, m)
<1> DEFINE old == [i \in 1..n |-> f[i].id]
           new == [i \in 1..m |-> g[i].id]
<1>1. /\ \A i \in 1..n : f[i].id \in Hashes
      /\ \A i \in 1..m : g[i].id \in Hashes
  <2>1. Len(f) \in Nat /\ Len(g) \in Nat
    BY LenProperties
  <2>2. \A i \in 1..n : f[i] \in Line
    BY <2>1, ElementOfSeq
  <2>3. \A i \in 1..m : g[i] \in Line
    BY <2>1, ElementOfSeq
  <2> QED BY <2>2, <2>3 DEF Line
<1>2. /\ old \in Seq(Hashes) /\ Len(old) = n
      /\ new \in Seq(Hashes) /\ Len(new) = m
  BY <1>1, IsASeq
<1>3. /\ \A i \in 1..n : old[i] = f[i].id
      /\ \A i \in 1..m : new[i] = g[i].id
  OBVIOUS
<1> HIDE DEF old, new
<1>5. /\ SubSeq(old, 1, m) \in Seq(Hashes)
      /\ Len(SubSeq(old, 1, m)) = m
      /\ \A i \in 1..m : SubSeq(old, 1, m)[i] = new[i]
  BY <1>2, <1>3, SubSeqProperties
<1>6. new = SubSeq(old, 1, m)
  BY <1>2, <1>5, SeqEqual
<1> QED BY <1>6 DEF old, new

\* The readable lines of a file, and the log they are: Lines and the
\* refinement mapping, for any file.
LinesOf(f)  == IF f # <<>> /\ ~Readable(Last(f)) THEN Len(f) - 1 ELSE Len(f)
EventLog(f) == [i \in 1..LinesOf(f) |-> f[i].id]

LEMMA LinesOfFile ==
  ASSUME NEW f \in Seq(Line)
  PROVE  /\ Len(f) \in Nat /\ LinesOf(f) \in Nat /\ LinesOf(f) <= Len(f)
         /\ f # <<>> => Len(f) \in 1..Len(f)
         /\ TailReadable(f) => LinesOf(f) = Len(f)
         /\ ~TailReadable(f) => LinesOf(f) = Len(f) - 1
         /\ \A i \in 1..Len(f) : f[i].form = "whole" => i <= LinesOf(f)
         /\ DOMAIN EventLog(f) = 1..LinesOf(f) /\ Len(EventLog(f)) = LinesOf(f)
         /\ \A i \in 1..LinesOf(f) : EventLog(f)[i] = f[i].id
<1>1. Len(f) \in Nat /\ (f # <<>> => Len(f) \in 1..Len(f))
  BY LenProperties, EmptySeq
<1>2. /\ LinesOf(f) \in Nat /\ LinesOf(f) <= Len(f)
      /\ TailReadable(f) => LinesOf(f) = Len(f)
      /\ ~TailReadable(f) => LinesOf(f) = Len(f) - 1
      /\ \A i \in 1..Len(f) : f[i].form = "whole" => i <= LinesOf(f)
  BY <1>1 DEF LinesOf, TailReadable, Last
<1>3. DOMAIN EventLog(f) = 1..LinesOf(f) /\ Len(EventLog(f)) = LinesOf(f)
  <2>1. EventLog(f) \in Seq(Hashes)
    <3>1. \A i \in 1..LinesOf(f) : f[i].id \in Hashes
      <4>1. \A i \in 1..LinesOf(f) : f[i] \in Line
        BY <1>1, <1>2, ElementOfSeq
      <4> QED BY <4>1 DEF Line
    <3> QED BY <1>2, <3>1, IsASeq DEF EventLog
  <2>2. DOMAIN EventLog(f) = 1..LinesOf(f)
    BY DEF EventLog
  <2>3. /\ Len(EventLog(f)) \in Nat /\ DOMAIN EventLog(f) = 1..Len(EventLog(f))
    BY <2>1, LenProperties
  <2> QED BY <1>2, <2>2, <2>3
<1>4. \A i \in 1..LinesOf(f) : EventLog(f)[i] = f[i].id
  BY DEF EventLog
<1> QED BY <1>1, <1>2, <1>3, <1>4

\* One more readable line of a new event is an Add of that event.
LEMMA LineIsAdd ==
  ASSUME NEW f \in Seq(Line), NEW g \in Seq(Line), LinesOf(g) = LinesOf(f) + 1,
         \A i \in 1..LinesOf(f) : g[i].id = f[i].id,
         \A i \in 1..LinesOf(f) : f[i].id # g[LinesOf(g)].id
  PROVE  /\ EventLog(g) = Append(EventLog(f), g[LinesOf(g)].id)
         /\ g[LinesOf(g)].id \notin Range(EventLog(f))
<1>1. /\ LinesOf(f) \in Nat /\ LinesOf(f) <= Len(f)
      /\ LinesOf(f) + 1 <= Len(g)
  BY LinesOfFile
<1>2. EventLog(g) = Append(EventLog(f), g[LinesOf(g)].id)
  BY <1>1, LogGrows DEF EventLog
<1>3. g[LinesOf(g)].id \notin Range(EventLog(f))
  <2>1. /\ DOMAIN EventLog(f) = 1..LinesOf(f)
        /\ \A i \in 1..LinesOf(f) : EventLog(f)[i] = f[i].id
    BY LinesOfFile
  <2> QED BY <2>1 DEF Range
<1> QED BY <1>2, <1>3

\* The mapping in terms of the file.
LEMMA MappedLog ==
  /\ [i \in 1..Lines |-> file[i].id] = EventLog(file)
  /\ ([i \in 1..Lines |-> file[i].id])' = EventLog(file')
BY DEF Lines, Torn, LinesOf, EventLog

LEMMA InitMaps == ASSUME Init PROVE Promise!Init
<1>1. LinesOf(file) = 0
  BY LinesOfFile, EmptySeq DEF Init, TailReadable
<1>2. EventLog(file) \in Seq(Hashes) /\ Len(EventLog(file)) = 0
  BY <1>1, LinesOfFile, EmptySeq, IsASeq DEF Init, EventLog
<1>3. EventLog(file) = <<>>
  BY <1>2, EmptySeq
<1> QED BY <1>3, MappedLog DEF Init, Promise!Init

\* A whole line appended, or completed, is its event added; a cut one is not
\* yet visible.
LEMMA FlushMaps ==
  ASSUME SafeFaults, IInv, Fresh, NEW w \in Writers, Flush(w)
  PROVE  Promise!Next
<1>1. /\ line[w] \in Line /\ line[w].form = "whole" /\ TailReadable(file)
      /\ pc[w] = "writing" /\ file' = Put(file, line[w]) /\ acked' = acked
      /\ file \in Seq(Line)
  BY DEF IInv, Flush, TypeOK, WriterFacts
<1>2. file' = Append(file, line[w])
  BY <1>1, PutAppends DEF IInv
<1>3. /\ file' \in Seq(Line) /\ Len(file') = Len(file) + 1
      /\ \A i \in 1..Len(file) : file'[i] = file[i]
      /\ file'[Len(file')] = line[w] /\ Len(file) \in Nat
  BY <1>1, <1>2, AppendProperties, LenProperties
<1>4. LinesOf(file) = Len(file) /\ LinesOf(file') = Len(file')
  <2>1. TailReadable(file')
    BY <1>1, <1>3 DEF TailReadable, Last
  <2> QED BY <1>1, <1>3, <2>1, LinesOfFile
<1>5. \A i \in 1..Len(file) : file[i].id # line[w].id
  BY <1>1 DEF Fresh
<1>6. /\ EventLog(file') = Append(EventLog(file), line[w].id)
      /\ line[w].id \notin Range(EventLog(file))
  BY <1>1, <1>3, <1>4, <1>5, LineIsAdd
<1>7. PICK e \in 1..MaxEvents : e = line[w].id
  <2>1. line[w].id \in 1..begun
    BY <1>1 DEF Fresh
  <2>2. begun \in 0..MaxEvents /\ MaxEvents \in Nat
    BY LedgerAssumption DEF IInv, TypeOK, Hashes
  <2> QED BY <2>1, <2>2
<1>8. Promise!Add(e)
  <2>1. e \notin Promise!Range([i \in 1..Lines |-> file[i].id])
    BY <1>6, <1>7, MappedLog DEF Promise!Range, Range
  <2>2. [i \in 1..Lines |-> file[i].id]' = Append([i \in 1..Lines |-> file[i].id], e)
    BY <1>6, <1>7, MappedLog
  <2> QED BY <1>1, <2>1, <2>2 DEF Promise!Add
<1> QED BY <1>8 DEF Promise!Next

LEMMA FlushFailsMaps ==
  ASSUME SafeFaults, IInv, NEW w \in Writers, FlushFails(w)
  PROVE  UNCHANGED Promise!vars
<1>1. /\ line[w] \in Line /\ TailReadable(file) /\ acked' = acked
      /\ file \in Seq(Line)
  BY DEF IInv, FlushFails, TypeOK, WriterFacts
<1>2. EventLog(file') = EventLog(file)
  <2>1. CASE UNCHANGED file
    BY <2>1
  <2>2. ASSUME NEW form \in {"torn", "unterminated"} \cap Faults,
               file' = Put(file, [line[w] EXCEPT !.form = form])
        PROVE  EventLog(file') = EventLog(file)
    <3> DEFINE cut == [line[w] EXCEPT !.form = form]
    <3>1. cut \in Line /\ cut.form = "torn"
      BY <1>1, <2>2 DEF Line, SafeFaults
    <3>2. file' = Append(file, cut)
      BY <1>1, <2>2, <3>1, PutAppends DEF IInv
    <3> HIDE DEF cut
    <3>3. /\ file' \in Seq(Line) /\ Len(file') = Len(file) + 1
          /\ \A i \in 1..Len(file) : file'[i] = file[i]
          /\ file'[Len(file')] = cut /\ Len(file) \in Nat /\ file' # <<>>
      BY <1>1, <3>1, <3>2, AppendProperties, LenProperties
    <3>4. ~TailReadable(file')
      BY <3>1, <3>3 DEF TailReadable, Last
    <3>5. LinesOf(file) = Len(file) /\ LinesOf(file') = Len(file)
      BY <1>1, <3>3, <3>4, LinesOfFile
    <3> QED BY <3>3, <3>5 DEF EventLog
  <2> QED BY <2>1, <2>2 DEF FlushFails
<1> QED BY <1>1, <1>2, MappedLog DEF Promise!vars

\* The end of append() is its acknowledgement, or the completion of a line
\* its caller was told has failed; never both.
LEMMA CloseMaps ==
  ASSUME SafeFaults, IInv, Fresh, NEW w \in Writers, Close(w)
  PROVE  Promise!Next \/ UNCHANGED Promise!vars
<1>1. /\ line[w] \in Line /\ line[w].form = "whole" /\ pc[w] = "closing"
      /\ acked' = IF result[w] THEN acked \cup {line[w].id} ELSE acked
      /\ file \in Seq(Line) /\ synced \in Nat /\ synced <= Len(file)
      /\ result[w] => \E i \in 1..synced : file[i] = line[w]
  BY DEF IInv, Close, TypeOK, WriterFacts, FileShape
<1>2. PICK e \in 1..MaxEvents : e = line[w].id
  <2>1. line[w].id \in 1..begun
    BY <1>1 DEF Fresh
  <2>2. begun \in 0..MaxEvents /\ MaxEvents \in Nat
    BY LedgerAssumption DEF IInv, TypeOK, Hashes
  <2> QED BY <2>1, <2>2
<1>3. CASE file' = file /\ ~result[w]
  BY <1>1, <1>3, MappedLog DEF Promise!vars
<1>4. CASE file' = file /\ result[w]
  <2>1. PICK i \in 1..synced : file[i] = line[w]
    BY <1>1, <1>4
  <2>2. i \in 1..LinesOf(file)
    BY <1>1, <2>1, LinesOfFile
  <2>3. line[w].id \in Range(EventLog(file))
    BY <1>1, <2>1, <2>2, LinesOfFile DEF Range
  <2>4. Promise!Acknowledge(e)
    BY <1>1, <1>2, <1>4, <2>3, MappedLog DEF Promise!Acknowledge, Promise!Range, Range
  <2> QED BY <2>4 DEF Promise!Next
<1>5. CASE /\ pend[w] # NoBytes
           /\ (IF pend[w].rest THEN "late" ELSE "rewrite") \in Faults
           /\ file' \in LateFlush(file, pend[w], line[w])
  <2>1. /\ pend[w].rest /\ pend[w].at = Len(file) /\ file # <<>>
        /\ file[Len(file)] = [line[w] EXCEPT !.form = "torn"]
    BY <1>5 DEF BufferFacts, SafeFaults, TypeOK, IInv
  <2>2. ~TailReadable(file)
    BY <2>1, PendingTearsTail DEF IInv
  <2>3. file' = [file EXCEPT ![Len(file)] = line[w]]
    BY <1>5, <2>1 DEF LateFlush
  <2>4. Len(file) \in 1..Len(file) /\ Len(file) \in Nat
    BY <1>1, <2>1, LinesOfFile
  <2>5. /\ file' \in Seq(Line) /\ Len(file') = Len(file)
        /\ \A i \in 1..Len(file) :
             file'[i] = IF i = Len(file) THEN line[w] ELSE file[i]
    BY <1>1, <2>3, <2>4, ExceptSeq
  <2>6. TailReadable(file')
    BY <1>1, <2>4, <2>5 DEF TailReadable, Last
  <2>7. LinesOf(file) = Len(file) - 1 /\ LinesOf(file') = Len(file)
    BY <1>1, <2>2, <2>5, <2>6, LinesOfFile
  <2>8. file[Len(file)].id = line[w].id
    BY <1>1, <2>1 DEF Line
  <2>9. \A i \in 1..LinesOf(file) : file[i].id # line[w].id
    BY <2>4, <2>7, <2>8 DEF Fresh
  <2>10. /\ EventLog(file') = Append(EventLog(file), line[w].id)
         /\ line[w].id \notin Range(EventLog(file))
    <3>1. /\ LinesOf(file') = LinesOf(file) + 1 /\ file'[LinesOf(file')] = line[w]
          /\ \A i \in 1..LinesOf(file) : file'[i] = file[i]
      BY <2>4, <2>5, <2>7
    <3> QED BY <1>1, <2>5, <2>9, <3>1, LineIsAdd
  <2>11. acked' = acked
    BY <1>1, <2>1 DEF Fresh
  <2>12. Promise!Add(e)
    BY <1>2, <2>10, <2>11, MappedLog DEF Promise!Add, Promise!Range, Range
  <2> QED BY <2>12 DEF Promise!Next
<1> QED BY <1>3, <1>4, <1>5 DEF Close

\* What a power failure takes is a suffix that nobody was told about.
LEMMA PowerLossMaps ==
  ASSUME SafeFaults, IInv, IInv', PowerLoss
  PROVE  Promise!Next
<1>1. PICK k \in synced..Len(file) :
        \/ file' = SubSeq(file, 1, k)
        \/ /\ k < Len(file)
           /\ file' = Append(SubSeq(file, 1, k), [file[k + 1] EXCEPT !.form = "torn"])
  BY DEF PowerLoss, SafeFaults
<1>2. /\ Len(file) \in Nat /\ k \in Nat /\ k <= Len(file)
      /\ \A i \in 1..Len(file) : file[i] \in Line
      /\ file \in Seq(Line) /\ file' \in Seq(Line)
  BY LenProperties, ElementOfSeq DEF IInv, TypeOK
<1>3. /\ SubSeq(file, 1, k) \in Seq(Line) /\ Len(SubSeq(file, 1, k)) = k
      /\ \A i \in 1..k : SubSeq(file, 1, k)[i] = file[i]
  BY <1>2, SubSeqProperties
<1>4. /\ LinesOf(file') \in 0..LinesOf(file)
      /\ \A i \in 1..LinesOf(file') : file'[i].id = file[i].id
  <2>1. CASE file' = SubSeq(file, 1, k) /\ k = Len(file)
    <3>1. file' = file
      BY <1>2, <1>3, <2>1, SeqEqual
    <3> QED BY <1>2, <3>1, LinesOfFile
  <2>2. CASE file' = SubSeq(file, 1, k) /\ k < Len(file)
    <3>1. LinesOf(file') \in Nat /\ LinesOf(file') <= k
      BY <1>2, <1>3, <2>2, LinesOfFile
    <3>2. LinesOf(file) \in Nat /\ k <= LinesOf(file)
      BY <1>2, <2>2, LinesOfFile
    <3> QED BY <1>2, <1>3, <2>2, <3>1, <3>2
  <2>3. CASE /\ k < Len(file)
             /\ file' = Append(SubSeq(file, 1, k), [file[k + 1] EXCEPT !.form = "torn"])
    <3>1. file[k + 1] \in Line
      BY <1>2, <2>3
    <3> DEFINE cut == [file[k + 1] EXCEPT !.form = "torn"]
    <3>2. cut \in Line /\ cut.form = "torn"
      BY <3>1 DEF Line
    <3>3. file' = Append(SubSeq(file, 1, k), cut)
      BY <2>3
    <3> HIDE DEF cut
    <3>4. /\ Len(file') = k + 1 /\ file'[k + 1] = cut /\ file' # <<>>
          /\ \A i \in 1..k : file'[i] = file[i]
      BY <1>2, <1>3, <3>2, <3>3, AppendProperties
    <3>5. ~TailReadable(file')
      BY <3>2, <3>4 DEF TailReadable, Last
    <3>6. LinesOf(file') = k
      BY <1>2, <3>4, <3>5, LinesOfFile
    <3> QED BY <1>2, <2>3, <3>4, <3>6, LinesOfFile, SMTT(30)
  <2> QED BY <1>1, <1>2, <2>1, <2>2, <2>3
<1>5. EventLog(file') = SubSeq(EventLog(file), 1, LinesOf(file'))
  BY <1>2, <1>4, LinesOfFile, LogShrinks DEF EventLog
<1>6. acked' = acked
  BY DEF PowerLoss
<1>7. acked \subseteq Range(EventLog(file'))
  <2> SUFFICES ASSUME NEW e \in acked' PROVE e \in Range(EventLog(file'))
    BY <1>6
  <2>1. PICK i \in 1..synced' : file'[i].id = e /\ file'[i].form = "whole"
    BY DEF IInv, AckedDurable
  <2>2. i \in 1..LinesOf(file')
    BY <1>2, <2>1, LinesOfFile DEF IInv, FileShape, TypeOK
  <2> QED BY <1>2, <2>1, <2>2, LinesOfFile DEF Range
<1>8. PICK n \in 0..Len(EventLog(file)) : n = LinesOf(file')
  BY <1>2, <1>4, LinesOfFile
<1>9. Promise!Lose(n)
  <2>1. [i \in 1..Lines |-> file[i].id]' = SubSeq([i \in 1..Lines |-> file[i].id], 1, n)
    BY <1>5, <1>8, MappedLog
  <2>2. acked \subseteq Promise!Range([i \in 1..Lines |-> file[i].id]')
    BY <1>7, MappedLog DEF Promise!Range, Range
  <2> QED BY <1>6, <2>1, <2>2 DEF Promise!Lose
<1> QED BY <1>9, MappedLog DEF Promise!Next

LEMMA StepMaps ==
  ASSUME SafeFaults, IInv, IInv', Fresh, [Next]_vars
  PROVE  [Promise!Next]_Promise!vars
<1>1. ASSUME NEW w \in Writers,
             \/ Begin(w) \/ Acquire(w) \/ Seal(w) \/ TailUnreadable(w) \/ Fsync(w)
             \/ FsyncFails(w) \/ Unlock(w) \/ Kill(w)
      PROVE  UNCHANGED <<file, acked>>
  BY <1>1 DEF Begin, Acquire, Seal, TailUnreadable, Fsync, FsyncFails, Unlock, Kill
<1>2. UNCHANGED vars => UNCHANGED <<file, acked>>
  BY DEF vars
<1>3. UNCHANGED <<file, acked>> => UNCHANGED Promise!vars
  BY MappedLog DEF Promise!vars
<1> QED BY <1>1, <1>2, <1>3, FlushMaps, FlushFailsMaps, CloseMaps, PowerLossMaps
        DEF Next, Proceed

\* The file behind flock, fsync, failing flushes and crashes is, to those who
\* read it, one log that only grows and keeps what was acknowledged.
THEOREM Refines == ASSUME SafeFaults PROVE Spec => ImplementsAppendLog
<1>1. Init => Promise!Init
  BY InitMaps
<1>2. Init => IInv /\ Fresh
  BY InitEstablishes, InitFresh
<1>3. IInv /\ Fresh /\ [Next]_vars => IInv' /\ Fresh'
  BY Inductive, InductiveFresh
<1>4. IInv /\ IInv' /\ Fresh /\ [Next]_vars => [Promise!Next]_Promise!vars
  BY StepMaps
<1> QED BY <1>1, <1>2, <1>3, <1>4, PTL DEF Spec, ImplementsAppendLog, Promise!Spec
=============================================================================
