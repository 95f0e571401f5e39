------------------------------- MODULE ApiKeys -------------------------------
(***************************************************************************)
(* API keys: requests that authenticate with a key, and requests of its    *)
(* owner that revoke it.  Both look the row up first and then update it on *)
(* the condition that it is not revoked.  The times they write are taken   *)
(* from the clock of the API process before the update, so the order of    *)
(* the times and the order of the updates may differ.                      *)
(***************************************************************************)
EXTENDS Naturals

CONSTANTS
  Keys,       \* the api_keys rows that may be created
  Calls,      \* HTTP requests with a key or about one, each received once
  MaxTime,    \* bound of the clock; 0 stands for SQL NULL
  NoKey

ASSUME ApiKeyAssumption == MaxTime \in Nat \ {0} /\ NoKey \notin Keys

VARIABLES
  keys,     \* the rows: whether created, lastUsedAt and revokedAt
  call,     \* what each call does, and the time it will write
  clock

keyVars == <<keys, call, clock>>

Time == 0 .. MaxTime
NoKeyRow == [exists |-> FALSE, lastUsedAt |-> 0, revokedAt |-> 0]
KeyRow == {NoKeyRow} \cup [exists : {TRUE}, lastUsedAt : Time, revokedAt : Time]

\* "in" passes the call on to its route; "refused" is 401 or 404.
CallStep == {"new", "lookup", "touching", "revoking", "in", "revoked", "refused"}
Call == [op : {"none", "authenticate", "revoke"}, key : Keys \cup {NoKey},
            time : Time, step : CallStep]
NewCall == [op |-> "none", key |-> NoKey, time |-> 0, step |-> "new"]

KeyInit ==
  /\ keys = [k \in Keys |-> NoKeyRow]
  /\ call = [r \in Calls |-> NewCall]
  /\ clock = 1

Active(k) == keys[k].exists /\ keys[k].revokedAt = 0
CallGoesTo(r, step) == call' = [call EXCEPT ![r].step = step]

Tick ==
  /\ clock < MaxTime
  /\ clock' = clock + 1
  /\ UNCHANGED <<keys, call>>

\* createApiKey: the raw key leaves the server once, in this answer.
CreateApiKey(k) ==
  /\ ~keys[k].exists
  /\ keys' = [keys EXCEPT ![k].exists = TRUE]
  /\ UNCHANGED <<call, clock>>

\* A call with a key that was handed out, or one to revoke it; revokeApiKey
\* takes its time stamp as a default parameter, before its first query.
Receive(r, k, op) ==
  /\ call[r].step = "new"
  /\ keys[k].exists
  /\ call' = [call EXCEPT ![r] = [op |-> op, key |-> k, step |-> "lookup",
                                        time |-> IF op = "revoke" THEN clock ELSE 0]]
  /\ UNCHANGED <<keys, clock>>

(***************************************************************************)
(* authenticateApiKey                                                      *)
(***************************************************************************)
\* findApiKeyByHash answers; usedAt is the time after the lookup.
FindKeyByHash(r) ==
  LET k == call[r].key IN
  /\ call[r].op = "authenticate"
  /\ call[r].step = "lookup"
  /\ call' = [call EXCEPT ![r].step = IF Active(k) THEN "touching" ELSE "refused",
                                ![r].time = clock]
  /\ UNCHANGED <<keys, clock>>

\* Mutants: the update without its condition, and its count not looked at.
TouchAnyKey(r) ==
  /\ call[r].step = "touching"
  /\ keys' = [keys EXCEPT ![call[r].key].lastUsedAt = call[r].time]
  /\ CallGoesTo(r, IF Active(call[r].key) THEN "in" ELSE "refused")
  /\ UNCHANGED clock

TouchUnchecked(r) ==
  LET k == call[r].key IN
  /\ call[r].step = "touching"
  /\ CallGoesTo(r, "in")
  /\ keys' = [keys EXCEPT ![k].lastUsedAt = IF Active(k) THEN call[r].time ELSE @]
  /\ UNCHANGED clock

\* touchApiKeyLastUsed; the call is let in when it updated one row.
TouchApiKeyLastUsed(r) ==
  LET k == call[r].key IN
  /\ call[r].step = "touching"
  /\ CallGoesTo(r, IF Active(k) THEN "in" ELSE "refused")
  /\ keys' = [keys EXCEPT ![k].lastUsedAt = IF Active(k) THEN call[r].time ELSE @]
  /\ UNCHANGED clock

(***************************************************************************)
(* revokeApiKey                                                            *)
(***************************************************************************)
FindKeyForUser(r) ==
  /\ call[r].op = "revoke"
  /\ call[r].step = "lookup"
  /\ CallGoesTo(r, IF Active(call[r].key) THEN "revoking" ELSE "refused")
  /\ UNCHANGED <<keys, clock>>

\* Mutant: the lookup is trusted and the update is unconditional.
RevokeAgain(r) ==
  /\ call[r].step = "revoking"
  /\ CallGoesTo(r, "revoked")
  /\ keys' = [keys EXCEPT ![call[r].key].revokedAt = call[r].time]
  /\ UNCHANGED clock

RevokeApiKey(r) ==
  LET k == call[r].key IN
  /\ call[r].step = "revoking"
  /\ CallGoesTo(r, IF Active(k) THEN "revoked" ELSE "refused")
  /\ keys' = [keys EXCEPT ![k].revokedAt = IF Active(k) THEN call[r].time ELSE @]
  /\ UNCHANGED clock

KeyNext ==
  \/ Tick
  \/ \E k \in Keys : CreateApiKey(k)
  \/ \E r \in Calls :
       \/ \E k \in Keys, op \in {"authenticate", "revoke"} : Receive(r, k, op)
       \/ FindKeyByHash(r) \/ TouchApiKeyLastUsed(r)
       \/ FindKeyForUser(r) \/ RevokeApiKey(r)

KeySpec == KeyInit /\ [][KeyNext]_keyVars

-----------------------------------------------------------------------------
(***************************************************************************)
(* Properties                                                              *)
(***************************************************************************)
\* Rows and requests are well formed: nothing is written with a null time.
ApiKeyTypeOK ==
  /\ keys \in [Keys -> KeyRow]
  /\ call \in [Calls -> Call]
  /\ \A r \in Calls : call[r].step \in {"touching", "revoking"} => call[r].time # 0
  /\ clock \in Time

\* "prevents a concurrently revoked key from being accepted by a stale
\* request": once a revocation has taken effect no call is let in with the
\* key, however long ago it looked the key up.
RevocationIsImmediate ==
  [][\A r \in Calls :
       call[r].step # "in" /\ call'[r].step = "in" =>
         keys'[call[r].key].revokedAt = 0]_keyVars

\* A revoked row is never written again: no late use moves lastUsedAt and no
\* second revocation moves revokedAt.
RevokedRowIsFrozen ==
  [][\A k \in Keys : keys[k].revokedAt # 0 => keys'[k] = keys[k]]_keyVars

\* Of concurrent revocations of one key exactly the one that took effect is
\* confirmed, and its time is the one recorded.
OneRevocation ==
  \A r \in Calls :
    call[r].step = "revoked" =>
      /\ keys[call[r].key].revokedAt = call[r].time
      /\ \A q \in Calls \ {r} :
           ~(call[q].step = "revoked" /\ call[q].key = call[r].key)
=============================================================================
