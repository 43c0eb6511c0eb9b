----------------------------- MODULE MCJobScheduler -----------------------------
(* Small instances of JobScheduler: job 1 is the monitor, job 2 an ordinary job. *)
EXTENDS JobScheduler, TLC

CONSTANTS w1, w2

\* Two versions of the policy of job 2: the second is slower.
VersionsJobOf == (1 :> 2) @@ (2 :> 2)
VersionsInterval == (1 :> 1) @@ (2 :> 2)

\* The monitor and one other job.
MonitorJobOf == (1 :> 1) @@ (2 :> 2)
MonitorInterval == (1 :> 1) @@ (2 :> 1)

NoGrace == [p \in Policies |-> 0]
AllEnabled == [p \in Policies |-> TRUE]

WorkerSymmetry == Permutations(Workers)
================================================================================
