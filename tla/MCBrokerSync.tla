----------------------------- MODULE MCBrokerSync -----------------------------
(* Instances of BrokerSync for TLC. *)
EXTENDS BrokerSync, TLC

CONSTANTS i1, i2, f1, f2

\* Intents differ only in whether they are approved.
Interchangeable ==
    Permutations(Approved) \cup Permutations(Intents \ Approved)
    \cup Permutations(FillIds)

QuantityTwo == [i \in Intents |-> 2]
================================================================================
