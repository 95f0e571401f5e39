----------------------------- MODULE MCDashboard -----------------------------
(***************************************************************************)
(* Instance of Dashboard for TLC: one job that may be tried twice and two  *)
(* processes, so that one can crash and be recovered while a report is     *)
(* made.                                                                   *)
(***************************************************************************)
EXTENDS Dashboard, TLC

MCMaxAttempts == [j \in Jobs |-> 2]
WorkerSymmetry == Permutations(Workers)
=============================================================================
