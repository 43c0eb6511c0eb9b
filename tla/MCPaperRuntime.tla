---------------------------- MODULE MCPaperRuntime ----------------------------
(* PaperRuntime for TLC: two intents of one account that do not fit the daily *)
(* limit together; one of them on its own does.                               *)
EXTENDS PaperRuntime, TLC

CONSTANTS i1, i2, account1

OneAccount == (i1 :> account1) @@ (i2 :> account1)

TwoAndTwo == (i1 :> 2) @@ (i2 :> 2)
===============================================================================
