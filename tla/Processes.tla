------------------------------ MODULE Processes ------------------------------
(***************************************************************************)
(* The two kinds of process of the system, a worker process and an API     *)
(* process, side by side.  They share the database and nothing else, so    *)
(* their steps interleave freely, and the end of each must not depend on   *)
(* how the other is scheduled.                                             *)
(***************************************************************************)
EXTENDS WorkerProcess, ApiServer

processVars == <<vars, serverVars>>

ProcessesInit == Init /\ ServerInit

ProcessesNext ==
  \/ Next /\ UNCHANGED serverVars
  \/ ServerNext /\ UNCHANGED vars

ProcessesSpec ==
  /\ ProcessesInit /\ [][ProcessesNext]_processVars
  /\ ProcessFairness /\ ServerFairness
=============================================================================
