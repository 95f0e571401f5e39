------------------------------ MODULE Sessions ------------------------------
(***************************************************************************)
(* Accounts and refresh tokens: the tables users and refresh_tokens, and   *)
(* the requests register, login, refresh and logout, each a sequence of    *)
(* database calls that other requests interleave with.  A request that     *)
(* looks a row up decides on what it read; only the conditional updates    *)
(* look at the row again.                                                  *)
(***************************************************************************)
EXTENDS Naturals

CONSTANTS
  Emails,     \* normalised email addresses; one identifies its account
  Tokens,     \* the random refresh tokens that may be generated
  Requests,   \* HTTP requests, each received once
  MaxFaults,  \* bound: how many database calls may fail towards the caller
  None        \* no token

ASSUME SessionAssumption == MaxFaults \in Nat /\ None \notin Tokens

VARIABLES
  users,    \* the emails with a User row
  token,    \* the RefreshToken rows, with the token each replaced (a history)
  request,  \* what each request does and has read
  held,     \* the raw tokens that were handed to clients
  faults

vars == <<users, token, request, held, faults>>

NoRow == [state |-> "NONE", user |-> None, expired |-> FALSE, origin |-> None]
Row == {NoRow} \cup [state : {"ACTIVE", "REVOKED"}, user : Emails,
                    expired : BOOLEAN, origin : Tokens \cup {None}]
NewRow(e, t) == [state |-> "ACTIVE", user |-> e, expired |-> FALSE, origin |-> t]

\* The answers: success, 409, 401, and 500 for everything unexpected.
Answers == {"ok", "conflict", "unauthorized", "error"}
Operation == {"register", "login", "refresh", "logout"}
Step == {"new", "lookup", "creating", "storing", "rotating", "revoking"} \cup Answers
Request == [op : Operation \cup {"none"}, email : Emails \cup {None},
            token : Tokens \cup {None}, step : Step]
NewRequest == [op |-> "none", email |-> None, token |-> None, step |-> "new"]

Init ==
  /\ users = {}
  /\ token = [t \in Tokens |-> NoRow]
  /\ request = [r \in Requests |-> NewRequest]
  /\ held = {}
  /\ faults = 0

(***************************************************************************)
(* Helpers                                                                 *)
(***************************************************************************)
GoTo(r, step) == request' = [request EXCEPT ![r].step = step]

\* A committed call whose answer is lost shows its caller an error.
Answer(r, ok, error) ==
  \/ (GoTo(r, ok) /\ UNCHANGED faults)
  \/ (GoTo(r, error) /\ faults < MaxFaults /\ faults' = faults + 1)

Live(t) == token[t].state = "ACTIVE" /\ ~token[t].expired

(***************************************************************************)
(* Requests arrive; time passes                                            *)
(***************************************************************************)
ReceiveCredentials(r) ==
  /\ request[r].step = "new"
  /\ \E e \in Emails, op \in {"register", "login"} :
       request' = [request EXCEPT ![r] = [@ EXCEPT !.op = op, !.email = e, !.step = "lookup"]]
  /\ UNCHANGED <<users, token, held, faults>>

ReceiveToken(r) ==
  /\ request[r].step = "new"
  /\ \E t \in held, op \in {"refresh", "logout"} :
       request' = [request EXCEPT ![r] =
                     [@ EXCEPT !.op = op, !.token = t,
                               !.step = IF op = "refresh" THEN "lookup" ELSE "revoking"]]
  /\ UNCHANGED <<users, token, held, faults>>

Expire(t) ==
  /\ Live(t)
  /\ token' = [token EXCEPT ![t].expired = TRUE]
  /\ UNCHANGED <<users, request, held, faults>>

\* A database call of the request fails before it commits.  refresh answers
\* 401 to any failure of its rotation.
CallFails(r) ==
  /\ request[r].step \in {"lookup", "creating", "storing", "rotating", "revoking"}
  /\ faults < MaxFaults
  /\ faults' = faults + 1
  /\ GoTo(r, IF request[r].step = "rotating" THEN "unauthorized" ELSE "error")
  /\ UNCHANGED <<users, token, held>>

(***************************************************************************)
(* Registration and login                                                  *)
(***************************************************************************)
\* findUserByEmail of register and of login, which also compares passwords.
FindUserToRegister(r) ==
  /\ request[r].op = "register"
  /\ request[r].step = "lookup"
  /\ GoTo(r, IF request[r].email \in users THEN "conflict" ELSE "creating")
  /\ UNCHANGED <<users, token, held, faults>>

FindUserToLogIn(r) ==
  /\ request[r].op = "login"
  /\ request[r].step = "lookup"
  /\ \E passwordMatches \in BOOLEAN :
       GoTo(r, IF request[r].email \in users /\ passwordMatches
               THEN "storing" ELSE "unauthorized")
  /\ UNCHANGED <<users, token, held, faults>>

\* Mutant: no unique index on users.email.
CreateAnotherUser(r) ==
  /\ request[r].step = "creating"
  /\ users' = users \cup {request[r].email}
  /\ Answer(r, "storing", "error")
  /\ UNCHANGED <<token, held>>

\* createUser.  A row that appeared since the lookup violates the unique
\* index; nothing maps that error, so it is answered as unexpected.
CreateUser(r) ==
  /\ request[r].step = "creating"
  /\ \/ /\ request[r].email \notin users
        /\ users' = users \cup {request[r].email}
        /\ Answer(r, "storing", "error")
     \/ /\ request[r].email \in users
        /\ GoTo(r, "error")
        /\ UNCHANGED <<users, faults>>
  /\ UNCHANGED <<token, held>>

\* A new row; the raw token reaches the client only with the answer ok.
Issue(r, t, row, error) ==
  /\ token[t] = NoRow
  /\ Answer(r, "ok", error)
  /\ held' = held \cup (IF request'[r].step = "ok" THEN {t} ELSE {})
  /\ token' = [row EXCEPT ![t] = NewRow(request[r].email, request[r].token)]

StoreRefreshToken(r) ==
  /\ request[r].step = "storing"
  /\ \E t \in Tokens : Issue(r, t, token, "error")
  /\ UNCHANGED users

(***************************************************************************)
(* Refresh and logout                                                      *)
(***************************************************************************)
\* findRefreshToken, and the owner it returns with the row.
FindRefreshToken(r) ==
  LET t == request[r].token IN
  /\ request[r].op = "refresh"
  /\ request[r].step = "lookup"
  /\ request' = [request EXCEPT ![r].step = IF Live(t) THEN "rotating" ELSE "unauthorized",
                                ![r].email = token[t].user]
  /\ UNCHANGED <<users, token, held, faults>>

\* Mutant: the conditional update without revokedAt.
RotatableOnceMore(t) == token[t].state # "NONE"

\* Mutant: the comparison with expiresAt is swapped.
RotatableWhenExpired(t) == token[t].state = "ACTIVE" /\ token[t].expired

\* The condition of the update in rotateRefreshToken.  Its expiresAt part
\* compares with a time taken right after the lookup answered, when the token
\* was found unexpired: what expires after that is still exchanged.
Rotatable(t) == token[t].state = "ACTIVE"

\* Mutant: the replacement is stored and the old token is left active.
RotateWithoutRevoking(r) ==
  LET t == request[r].token IN
  /\ request[r].step = "rotating"
  /\ \/ /\ Rotatable(t)
        /\ \E s \in Tokens : Issue(r, s, token, "unauthorized")
     \/ /\ ~Rotatable(t)
        /\ GoTo(r, "unauthorized")
        /\ UNCHANGED <<token, held, faults>>
  /\ UNCHANGED users

\* rotateRefreshToken: one transaction revokes the token and stores its
\* replacement; any error is answered 401.
RotateRefreshToken(r) ==
  LET t == request[r].token IN
  /\ request[r].step = "rotating"
  /\ \/ /\ Rotatable(t)
        /\ \E s \in Tokens : Issue(r, s, [token EXCEPT ![t].state = "REVOKED"], "unauthorized")
     \/ /\ ~Rotatable(t)
        /\ GoTo(r, "unauthorized")
        /\ UNCHANGED <<token, held, faults>>
  /\ UNCHANGED users

\* Mutant: the number of updated rows is demanded to be one.
RevokeActiveOnly(r) ==
  LET t == request[r].token IN
  /\ request[r].step = "revoking"
  /\ GoTo(r, IF token[t].state = "ACTIVE" THEN "ok" ELSE "error")
  /\ token' = [token EXCEPT ![t].state = IF @ = "ACTIVE" THEN "REVOKED" ELSE @]
  /\ UNCHANGED <<users, held, faults>>

\* revokeRefreshToken: an unknown or revoked token is answered the same.
RevokeRefreshToken(r) ==
  LET t == request[r].token IN
  /\ request[r].step = "revoking"
  /\ Answer(r, "ok", "error")
  /\ token' = [token EXCEPT ![t].state = IF @ = "ACTIVE" THEN "REVOKED" ELSE @]
  /\ UNCHANGED <<users, held>>

Next ==
  \/ \E r \in Requests :
       \/ ReceiveCredentials(r) \/ ReceiveToken(r) \/ CallFails(r)
       \/ FindUserToRegister(r) \/ FindUserToLogIn(r) \/ CreateUser(r) \/ StoreRefreshToken(r)
       \/ FindRefreshToken(r) \/ RotateRefreshToken(r) \/ RevokeRefreshToken(r)
  \/ \E t \in Tokens : Expire(t)

Spec == Init /\ [][Next]_vars

-----------------------------------------------------------------------------
(***************************************************************************)
(* Properties                                                              *)
(***************************************************************************)
\* Rows and requests are well formed.
SessionTypeOK ==
  /\ users \subseteq Emails
  /\ token \in [Tokens -> Row]
  /\ request \in [Requests -> Request]
  /\ held \subseteq Tokens
  /\ faults \in Nat

\* A token is exchanged at most once, however many requests present it at the
\* same time, and is revoked from then on: a session never forks into two
\* chains of valid tokens.
RotatedOnce ==
  \A s \in Tokens :
    token[s].origin # None =>
      /\ token[token[s].origin].state = "REVOKED"
      /\ token[token[s].origin].user = token[s].user
      /\ \A t \in Tokens \ {s} : token[t].origin # token[s].origin

\* Whatever a request read before, a token that a logout or another refresh
\* has revoked meanwhile is never exchanged, and an exchange revokes it.
OnlyActiveTokensRotate ==
  [][\A s, t \in Tokens :
       token[s].state = "NONE" /\ token'[s].origin = t =>
         token[t].state = "ACTIVE" /\ token'[t].state = "REVOKED"]_vars

\* Of several registrations of one address at most one is told it succeeded.
OneRegistration ==
  \A q, r \in Requests :
    /\ request[q].op = "register" /\ request[q].step = "ok"
    /\ request[r].op = "register" /\ request[r].step = "ok"
    /\ request[q].email = request[r].email
    => q = r

\* While no database call fails, the only request that ends in an unexpected
\* error is a registration whose address another one took after the lookup;
\* logout in particular is idempotent.
OnlyLostRegistrationsFail ==
  faults = 0 =>
    \A r \in Requests :
      request[r].step = "error" =>
        /\ request[r].op = "register"
        /\ \E q \in Requests \ {r} :
             /\ request[q].op = "register" /\ request[q].email = request[r].email
             /\ request[q].step \in {"storing", "ok"}

\* refresh throws "When the refresh token is unknown, revoked, or expired":
\* while no database call fails, a client whose token is refused has lost
\* nothing, because the token is dead and stays dead.
RefusedTokenIsDead ==
  faults = 0 =>
    \A r \in Requests :
      request[r].op = "refresh" /\ request[r].step = "unauthorized" => ~Live(request[r].token)
=============================================================================
