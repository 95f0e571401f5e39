---------------------------- MODULE MCClaimQueue ----------------------------
(***************************************************************************)
(* Instance of ClaimQueue for TLC: two jobs of any priorities, one of      *)
(* which may be retried, so that a claim can find the better job locked    *)
(* and the other one claimed and released again while it looks.            *)
(***************************************************************************)
EXTENDS ClaimQueue, TLC

CONSTANTS j1, j2

MCMaxAttempts == (j1 :> 1) @@ (j2 :> 2)
WorkerSymmetry == Permutations(Workers)
=============================================================================
