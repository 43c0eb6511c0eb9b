--------------------------- MODULE MCCaptureOffsite ---------------------------
(* CaptureOffsite for TLC: two partitions, one twice as large as the other. *)
EXTENDS CaptureOffsite, FiniteSetsExt

TwoPartitions == {1, 2}
TheLarger == {2}
SumOfSizes == [S \in SUBSET TwoPartitions |-> MapThenSumSet(LAMBDA p : p, S)]
================================================================================
