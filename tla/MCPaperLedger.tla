----------------------------- MODULE MCPaperLedger -----------------------------
(* An instance of PaperLedger for TLC. *)
EXTENDS PaperLedger, TLC

CONSTANTS i1, i2, f1, f2

QuantityTwo == [i \in Intents |-> 2]

Interchangeable == Permutations(Intents) \cup Permutations(FillIds)
================================================================================
