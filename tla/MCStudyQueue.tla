------------------------------ MODULE MCStudyQueue ------------------------------
(* A small instance of StudyQueue. *)
EXTENDS StudyQueue, TLC

CONSTANTS w1, w2
================================================================================
