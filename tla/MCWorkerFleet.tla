--------------------------- MODULE MCWorkerFleet ---------------------------
(***************************************************************************)
(* Instances of WorkerFleet for TLC.  Every job may be tried twice, so     *)
(* that a retry by the same and by another process, and exhaustion, occur. *)
(***************************************************************************)
EXTENDS WorkerFleet, TLC

MCMaxAttempts == [j \in Jobs |-> 2]
WorkerSymmetry == Permutations(Workers)
=============================================================================
