------------------------------ MODULE MCLedger ------------------------------
(* Instances of Ledger for TLC. *)
EXTENDS Ledger

CONSTANTS w1, w2

TwoWriters == {w1, w2}

Withstood == {"write", "torn", "late", "fsync", "kill", "power"}
Rewritten == {"write", "rewrite"}
=============================================================================
