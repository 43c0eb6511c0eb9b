--------------------------- MODULE MCCaptureRecorder ---------------------------
(* CaptureRecorder for TLC: a clock that an operator sets back. *)
EXTENDS CaptureRecorder

BackByOne == {-1}
================================================================================
