--------------------------- MODULE MCExecutionLease ---------------------------
(***************************************************************************)
(* TLC instances of ExecutionLease.                                        *)
(***************************************************************************)
EXTENDS ExecutionLease, TLC

CONSTANTS e1, e2, c1, c2, c3, w1, w2

\* One context per process, the documented deployment.
ProcessSpecificIds == (c1 :> w1) @@ (c2 :> w2)

\* A leased worker beside an executor without a WorkerID.
MixedIds == (c1 :> w1) @@ (c2 :> NoWorker) @@ (c3 :> w2)
===============================================================================
