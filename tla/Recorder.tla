------------------------------ MODULE Recorder ------------------------------
(***************************************************************************)
(* What the guard promises an operator, with no queue, thread or index: a  *)
(* purchase is recorded; afterwards it is judged, once, or counted as      *)
(* lost; what was lost is never judged and what was not recorded neither.  *)
(***************************************************************************)
EXTENDS Naturals

CONSTANT Decisions

VARIABLES recorded,  \* purchases in the ledger, repeats of one left out
          verdicts,  \* how many verdicts each got
          lost       \* those counted as dropped instead

vars == <<recorded, verdicts, lost>>

Settled == {d \in Decisions : verdicts[d] > 0} \cup lost

Init == recorded = {} /\ verdicts = [d \in Decisions |-> 0] /\ lost = {}

Observe(d) == /\ d \notin recorded \cup lost
              /\ recorded' = recorded \cup {d}
              /\ UNCHANGED <<verdicts, lost>>

Judge(d) == /\ d \in recorded \ Settled
            /\ verdicts' = [verdicts EXCEPT ![d] = @ + 1]
            /\ UNCHANGED <<recorded, lost>>

\* Nothing is sure to be recorded: the ledger itself may refuse it.
Lose(d) == /\ d \notin Settled
           /\ lost' = lost \cup {d}
           /\ UNCHANGED <<recorded, verdicts>>

Next == \E d \in Decisions : Observe(d) \/ Judge(d) \/ Lose(d)

Spec == Init /\ [][Next]_vars

\* No recorded purchase is forgotten.
Settles == \A d \in Decisions : d \in recorded ~> d \in Settled
=============================================================================
