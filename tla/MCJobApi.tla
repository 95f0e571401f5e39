------------------------------ MODULE MCJobApi ------------------------------
(***************************************************************************)
(* Instance of JobApi for TLC: three requests on two jobs and one key, so  *)
(* that two submissions of the key overlap, a cancellation races a worker, *)
(* and two cancellations race each other; two workers present any attempt  *)
(* of any job.  AttemptBound exceeds the budgets by one, so that a claim   *)
(* beyond the budget would be an ordinary state of the model.              *)
(***************************************************************************)
EXTENDS JobApi, TLC

MCMaxAttempts == [j \in Jobs |-> 2]
ApiSymmetry == Permutations(Requests) \cup Permutations(Jobs) \cup Permutations(Workers)
=============================================================================
