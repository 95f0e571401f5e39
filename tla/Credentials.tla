----------------------------- MODULE Credentials -----------------------------
(***************************************************************************)
(* The two ways of the API to tell who is calling, sessions and API keys,  *)
(* as one system.  Their tables and requests have nothing in common and    *)
(* every property is about one of them, so a behaviour of both is as good  *)
(* as its two parts: once one of them has moved the other does not.        *)
(***************************************************************************)
EXTENDS Sessions, ApiKeys, TLC

CredentialsInit == Init /\ KeyInit

CredentialsNext ==
  \/ KeyInit /\ Next /\ UNCHANGED keyVars
  \/ Init /\ KeyNext /\ UNCHANGED vars

CredentialsSpec == CredentialsInit /\ [][CredentialsNext]_<<vars, keyVars>>

CredentialSymmetry == Permutations(Requests) \cup Permutations(Tokens)
=============================================================================
