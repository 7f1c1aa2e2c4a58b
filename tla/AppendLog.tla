----------------------------- MODULE AppendLog -----------------------------
(***************************************************************************)
(* What the ledger promises its callers, with no file, lock or buffer: one *)
(* totally ordered log that only grows, in which an event whose append was *)
(* acknowledged stays for ever, whatever the machine does afterwards.      *)
(***************************************************************************)
EXTENDS Naturals, Sequences, Functions

CONSTANT Events

VARIABLES log, acked

vars == <<log, acked>>

TypeOK == /\ log \in Seq(Events)
          /\ acked \subseteq Events

Init == log = <<>> /\ acked = {}

\* An event becomes part of the log, once and at its end.
Add(e) == /\ e \notin Range(log)
          /\ log' = Append(log, e)
          /\ UNCHANGED acked

\* Its append returns to the caller.
Acknowledge(e) == /\ e \in Range(log)
                  /\ acked' = acked \cup {e}
                  /\ UNCHANGED log

\* The machine loses a suffix nobody was told about.
Lose(n) == /\ log' = SubSeq(log, 1, n)
           /\ acked \subseteq Range(log')
           /\ UNCHANGED acked

Next == \/ \E e \in Events : Add(e) \/ Acknowledge(e)
        \/ \E n \in 0..Len(log) : Lose(n)

Spec == Init /\ [][Next]_vars
=============================================================================
