------------------------------ MODULE MCGuard ------------------------------
(* Instances of Guard for TLC. *)
EXTENDS Guard

CONSTANTS p1, p2

TwoPayers == {p1, p2}
=============================================================================
