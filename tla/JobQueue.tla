------------------------------ MODULE JobQueue ------------------------------
(***************************************************************************)
(* What the job queue promises to a client who submits jobs, with nothing  *)
(* of how it keeps the promise: a job waits, is leased to one worker at a  *)
(* time, and ends.  A lease that ends without success gives the job back   *)
(* while tries are left and exhausts it when none is.  This is the at-     *)
(* least-once execution model of the schema's header, with its bound: a    *)
(* job is tried at most Budget[j] times, never by two workers at once, and *)
(* never again after it succeeded.  JobStore implements this module.       *)
(***************************************************************************)
EXTENDS Naturals

CONSTANTS Jobs, Workers, Budget, Nobody

VARIABLES phase, holder, tries

queueVars == <<phase, holder, tries>>

QueueInit ==
  /\ phase = [j \in Jobs |-> "absent"]
  /\ holder = [j \in Jobs |-> Nobody]
  /\ tries = [j \in Jobs |-> 0]

Move(j, from, to) == phase[j] = from /\ phase' = [phase EXCEPT ![j] = to]

Submit(j) == Move(j, "absent", "waiting") /\ UNCHANGED <<holder, tries>>

Withdraw(j) == Move(j, "waiting", "withdrawn") /\ UNCHANGED <<holder, tries>>

Lease(w, j) ==
  /\ Move(j, "waiting", "leased")
  /\ tries[j] < Budget[j]
  /\ tries' = [tries EXCEPT ![j] = @ + 1]
  /\ holder' = [holder EXCEPT ![j] = w]

EndLease(j, to) ==
  /\ Move(j, "leased", to)
  /\ holder' = [holder EXCEPT ![j] = Nobody]
  /\ UNCHANGED tries

Succeed(j) == EndLease(j, "succeeded")
GiveBack(j) == tries[j] < Budget[j] /\ EndLease(j, "waiting")
Exhaust(j) == tries[j] = Budget[j] /\ EndLease(j, "exhausted")

QueueNext ==
  \E j \in Jobs :
    \/ Submit(j) \/ Withdraw(j) \/ Succeed(j) \/ GiveBack(j) \/ Exhaust(j)
    \/ \E w \in Workers : Lease(w, j)

QueueSpec == QueueInit /\ [][QueueNext]_queueVars
=============================================================================
