-------------------------- MODULE CredentialsProofs --------------------------
(***************************************************************************)
(* What sessions and API keys promise for any number of addresses, tokens, *)
(* keys, requests, clock ticks and failing calls: first of each of the two *)
(* alone, then of the system that consists of both.                        *)
(***************************************************************************)
EXTENDS Credentials, TLAPS

-----------------------------------------------------------------------------
(***************************************************************************)
(* The inductive invariant                                                 *)
(***************************************************************************)
\* What a request holds fits what it does: the token of a refresh or a logout
\* is a row that was handed out, and a rotation knows the owner of its row.
RequestsHoldTokens ==
  /\ \A t \in held : token[t].state # "NONE"
  /\ \A r \in Requests :
       /\ request[r].op \in Operation \cup {"none"}
       /\ request[r].step = "new" <=> request[r].op = "none"
       /\ request[r].step = "creating" => request[r].op = "register"
       /\ request[r].step = "storing" => request[r].op \in {"register", "login"}
       /\ request[r].step = "rotating" =>
            /\ request[r].op = "refresh"
            /\ request[r].email = token[request[r].token].user
       /\ request[r].step = "revoking" => request[r].op = "logout"
       /\ request[r].op = "none" => request[r].token = None
       /\ request[r].op \in {"register", "login"} =>
            request[r].email \in Emails /\ request[r].token = None
       /\ request[r].op \in {"refresh", "logout"} =>
            request[r].token \in Tokens /\ token[request[r].token].state # "NONE"

\* One registration of an address at most gets past its insert, and while no
\* call has failed it is still there for every account.
OneCreator ==
  /\ \A q, r \in Requests :
       /\ request[q].op = "register" /\ request[q].step \in {"storing", "ok"}
       /\ request[r].op = "register" /\ request[r].step \in {"storing", "ok"}
       /\ request[q].email = request[r].email
       => q = r
  /\ \A r \in Requests :
       request[r].op = "register" /\ request[r].step \in {"storing", "ok"} =>
         request[r].email \in users
  /\ faults = 0 =>
       \A e \in users : \E r \in Requests :
         request[r].op = "register" /\ request[r].step \in {"storing", "ok"}
         /\ request[r].email = e

SessionInv ==
  /\ SessionTypeOK /\ RequestsHoldTokens /\ OneCreator
  /\ RotatedOnce /\ OnlyLostRegistrationsFail /\ RefusedTokenIsDead

-----------------------------------------------------------------------------
(***************************************************************************)
(* How a step moves the tokens                                             *)
(***************************************************************************)
\* Rows expire, are revoked, are stored fresh, or replace one active row.
Expires(t) == Live(t) /\ token' = [token EXCEPT ![t].expired = TRUE]
Revokes(t) == token[t].state = "ACTIVE" /\ token' = [token EXCEPT ![t].state = "REVOKED"]
Stores(s, e) == token[s] = NoRow /\ token' = [token EXCEPT ![s] = NewRow(e, None)]
Replaces(s, t) ==
  /\ token[s] = NoRow
  /\ token[t].state = "ACTIVE"
  /\ token' = [[token EXCEPT ![t].state = "REVOKED"] EXCEPT ![s] = NewRow(token[t].user, t)]

TokensMove ==
  \/ token' = token
  \/ \E t \in Tokens : Expires(t) \/ Revokes(t)
  \/ \E s \in Tokens, e \in Emails : Stores(s, e)
  \/ \E s, t \in Tokens : Replaces(s, t)

\* No request writes the tokens in another way.
LEMMA StepsMoveTokens ==
  ASSUME SessionInv, [Next]_vars
  PROVE  TokensMove
<1> USE DEF TokensMove
<1>0. token \in [Tokens -> Row] /\ request \in [Requests -> Request]
  BY DEF SessionInv, SessionTypeOK
<1>1. ASSUME NEW t \in Tokens, Expire(t) PROVE TokensMove
  BY <1>1 DEF Expire, Expires
<1>2. ASSUME NEW r \in Requests, StoreRefreshToken(r) PROVE TokensMove
  <2>1. request[r].email \in Emails /\ request[r].token = None
    BY <1>2 DEF StoreRefreshToken, SessionInv, RequestsHoldTokens
  <2> QED
    BY <1>2, <2>1 DEF StoreRefreshToken, Issue, Stores
<1>3. ASSUME NEW r \in Requests, RotateRefreshToken(r) PROVE TokensMove
  <2>1. request[r].token \in Tokens /\ request[r].email = token[request[r].token].user
    BY <1>3 DEF RotateRefreshToken, SessionInv, RequestsHoldTokens
  <2> QED
    BY <1>3, <2>1 DEF RotateRefreshToken, Issue, Rotatable, Replaces
<1>4. ASSUME NEW r \in Requests, RevokeRefreshToken(r) PROVE TokensMove
  <2>1. request[r].token \in Tokens
    BY <1>4 DEF RevokeRefreshToken, SessionInv, RequestsHoldTokens
  <2>2. CASE token[request[r].token].state = "ACTIVE"
    BY <1>4, <2>1, <2>2 DEF RevokeRefreshToken, Revokes
  <2>3. CASE token[request[r].token].state # "ACTIVE"
    <3>1. token' = [token EXCEPT ![request[r].token].state = @]
      BY <1>4, <2>3 DEF RevokeRefreshToken
    <3>2. token' = token
      BY <1>0, <2>1, <3>1 DEF Row, NoRow
    <3> QED
      BY <3>2
  <2> QED
    BY <2>2, <2>3
<1>5. CASE UNCHANGED vars
  BY <1>5 DEF vars
<1> QED
  BY <1>1, <1>2, <1>3, <1>4, <1>5
  DEF Next, ReceiveCredentials, ReceiveToken, CallFails, FindUserToRegister, FindUserToLogIn,
      CreateUser, FindRefreshToken

\* Rows stay rows, keep their owner, and once dead stay dead.
RowsOnlyAge ==
  \A t \in Tokens :
    /\ token[t].state # "NONE" => token'[t].state # "NONE" /\ token'[t].user = token[t].user
    /\ token[t].state # "NONE" /\ ~Live(t) => ~Live(t)'
    /\ token[t].state # "NONE" => token'[t].origin = token[t].origin
    /\ token[t].state = "REVOKED" => token'[t].state = "REVOKED"

\* What the moves of the tokens keep.
LEMMA TokensStaySound ==
  ASSUME SessionInv, TokensMove
  PROVE  token' \in [Tokens -> Row] /\ RowsOnlyAge /\ RotatedOnce'
<1>0. token \in [Tokens -> Row] /\ RotatedOnce
  BY DEF SessionInv, SessionTypeOK
<1> DEFINE Old == [state : {"ACTIVE", "REVOKED"}, user : Emails, expired : BOOLEAN,
                   origin : Tokens \cup {None}]
<1>1. \A t \in Tokens : /\ token[t].state # "NONE" => token[t] \in Old
                        /\ token[t].state = "NONE" => token[t] = NoRow
  BY <1>0 DEF Row, NoRow
<1>2. NoRow.state = "NONE" /\ NoRow.origin = None
  BY DEF NoRow
<1>3. CASE token' = token
  BY <1>0, <1>3 DEF RowsOnlyAge, Live, RotatedOnce
<1>4. ASSUME NEW t \in Tokens, Expires(t) \/ Revokes(t)
      PROVE  token' \in [Tokens -> Row] /\ RowsOnlyAge /\ RotatedOnce'
  <2>1. token[t].state = "ACTIVE" /\ token[t] \in Old
    BY <1>1, <1>4 DEF Expires, Revokes, Live
  <2>2. /\ token'[t] \in Old
        /\ token'[t].user = token[t].user /\ token'[t].origin = token[t].origin
        /\ \A x \in Tokens \ {t} : token'[x] = token[x]
        /\ token' \in [Tokens -> Row]
        /\ ~Live(t)'
    <3>1. CASE Expires(t)
      <4>1. [token[t] EXCEPT !.expired = TRUE] \in Old
        BY <2>1
      <4> QED
        BY <1>0, <3>1, <4>1 DEF Expires, Row, Live
    <3>2. CASE Revokes(t)
      <4>1. [token[t] EXCEPT !.state = "REVOKED"] \in Old
        BY <2>1
      <4> QED
        BY <1>0, <3>2, <4>1 DEF Revokes, Row, Live
    <3> QED
      BY <1>4, <3>1, <3>2
  <2>3. RowsOnlyAge
    <3>1. ASSUME NEW x \in Tokens, token[x].state # "NONE", ~Live(x)
          PROVE  ~Live(x)'
      BY <2>2, <3>1 DEF Live
    <3> QED
      BY <2>1, <2>2, <3>1 DEF RowsOnlyAge
  <2>4. \A x \in Tokens : /\ token'[x].origin = token[x].origin
                          /\ token'[x].user = token[x].user
                          /\ token[x].state = "REVOKED" => token'[x].state = "REVOKED"
    BY <2>1, <2>2
  <2>5. \A x \in Tokens : token[x].origin # None => token[x].origin \in Tokens
    BY <1>1, <1>2
  <2>6. RotatedOnce'
    BY <1>0, <2>4, <2>5 DEF RotatedOnce
  <2> QED
    BY <2>2, <2>3, <2>6
<1>5. ASSUME NEW s \in Tokens, NEW to \in Old, token[s] = NoRow, to.state = "ACTIVE",
             NEW base \in [Tokens -> Row], token' = [base EXCEPT ![s] = to],
             \A x \in Tokens \ {s} :
               \/ base[x] = token[x]
               \/ /\ token[x].state = "ACTIVE" /\ base[x].state = "REVOKED"
                  /\ base[x].user = token[x].user /\ base[x].origin = token[x].origin,
             to.origin # None =>
               /\ token[to.origin].state = "ACTIVE" /\ base[to.origin].state = "REVOKED"
               /\ token[to.origin].user = to.user
      PROVE  token' \in [Tokens -> Row] /\ RowsOnlyAge /\ RotatedOnce'
  <2>1. token' \in [Tokens -> Row] /\ token'[s] = to
    BY <1>5 DEF Row
  <2>2. token[s].state = "NONE" /\ token[s].origin = None
    BY <1>2, <1>5
  <2>3. \A x \in Tokens \ {s} :
          /\ token'[x].user = token[x].user /\ token'[x].origin = token[x].origin
          /\ token[x].state # "NONE" => token'[x].state # "NONE"
          /\ token[x].state = "REVOKED" => token'[x].state = "REVOKED"
          /\ token'[x] = token[x] \/ token'[x].state = "REVOKED"
    BY <1>5
  <2>4. RowsOnlyAge
    <3>1. ASSUME NEW x \in Tokens, token[x].state # "NONE", ~Live(x)
          PROVE  ~Live(x)'
      BY <2>2, <2>3, <3>1 DEF Live
    <3> QED
      BY <2>2, <2>3, <3>1 DEF RowsOnlyAge
  <2>5. \A x \in Tokens : token[x].origin # None => token[x].origin \in Tokens
    BY <1>1, <1>2
  <2>6. to.origin # None => to.origin \in Tokens /\ to.origin # s
    BY <1>2, <1>5
  <2>7. ASSUME NEW x \in Tokens, token'[x].origin # None
        PROVE  /\ token'[token'[x].origin].state = "REVOKED"
               /\ token'[token'[x].origin].user = token'[x].user
               /\ \A y \in Tokens \ {x} : token'[y].origin # token'[x].origin
    <3>1. CASE x = s
      BY <1>0, <1>5, <2>1, <2>3, <2>5, <2>6, <2>7, <3>1 DEF RotatedOnce
    <3>2. CASE x # s
      <4>1. /\ token[x].origin # None /\ token[x].origin \in Tokens
            /\ token[token[x].origin].state = "REVOKED"
            /\ token[token[x].origin].user = token[x].user
            /\ \A y \in Tokens \ {x} : token[y].origin # token[x].origin
        BY <1>0, <2>3, <2>5, <2>7, <3>2 DEF RotatedOnce
      <4>2. token[x].origin # s /\ to.origin # token[x].origin
        BY <1>5, <2>2, <4>1
      <4> QED
        BY <2>1, <2>3, <3>2, <4>1, <4>2
    <3> QED
      BY <3>1, <3>2
  <2> QED
    BY <2>1, <2>4, <2>7 DEF RotatedOnce
<1>6. ASSUME NEW s \in Tokens, NEW e \in Emails, Stores(s, e)
      PROVE  token' \in [Tokens -> Row] /\ RowsOnlyAge /\ RotatedOnce'
  <2>1. NewRow(e, None) \in Old /\ NewRow(e, None).state = "ACTIVE" /\ NewRow(e, None).origin = None
    BY DEF NewRow
  <2> QED
    BY <1>0, <1>5, <1>6, <2>1 DEF Stores
<1>7. ASSUME NEW s \in Tokens, NEW t \in Tokens, Replaces(s, t)
      PROVE  token' \in [Tokens -> Row] /\ RowsOnlyAge /\ RotatedOnce'
  <2> DEFINE base == [token EXCEPT ![t].state = "REVOKED"]
  <2>1. token[t] \in Old /\ token[t].state = "ACTIVE"
    BY <1>1, <1>7 DEF Replaces
  <2>2. [token[t] EXCEPT !.state = "REVOKED"] \in Old
    BY <2>1
  <2>3. /\ base \in [Tokens -> Row] /\ base[t].state = "REVOKED"
        /\ base[t].user = token[t].user /\ base[t].origin = token[t].origin
        /\ \A x \in Tokens \ {t} : base[x] = token[x]
    BY <1>0, <2>1, <2>2 DEF Row
  <2>4. /\ NewRow(token[t].user, t) \in Old /\ NewRow(token[t].user, t).state = "ACTIVE"
        /\ NewRow(token[t].user, t).origin = t /\ NewRow(token[t].user, t).user = token[t].user
    BY <2>1 DEF NewRow
  <2>5. token[s] = NoRow /\ token' = [base EXCEPT ![s] = NewRow(token[t].user, t)]
    BY <1>7 DEF Replaces
  <2> HIDE DEF base
  <2> QED
    BY <1>5, <2>1, <2>3, <2>4, <2>5
<1> QED
  BY <1>3, <1>4, <1>6, <1>7 DEF TokensMove

-----------------------------------------------------------------------------
(***************************************************************************)
(* How a step moves a request                                              *)
(***************************************************************************)
\* A request arrives with credentials or with a token that was handed out.
Arrives(r) ==
  /\ request[r].step = "new" /\ users' = users /\ faults' = faults
  /\ \/ /\ request'[r].op \in {"register", "login"} /\ request'[r].email \in Emails
        /\ request'[r].token = request[r].token /\ request'[r].step = "lookup"
     \/ /\ request'[r].op = "refresh" /\ request'[r].token \in held
        /\ request'[r].step = "lookup"
     \/ /\ request'[r].op = "logout" /\ request'[r].token \in held
        /\ request'[r].step = "revoking"

\* A call fails or its answer is lost.
Fails(r) ==
  /\ users' = users /\ faults' = faults + 1 /\ request'[r].email = request[r].email
  /\ request'[r].step \in {"error", "unauthorized"}

\* What a lookup or an update without a fault answers.
Proceeds(r) ==
  /\ users' = users /\ faults' = faults /\ request'[r].email = request[r].email
  /\ \/ /\ request[r].op = "register" /\ request[r].step = "lookup"
        /\ request'[r].step \in {"conflict", "creating"}
     \/ /\ request[r].op = "register" /\ request[r].step = "creating"
        /\ request[r].email \in users /\ request'[r].step = "error"
     \/ /\ request[r].op = "login" /\ request[r].step = "lookup"
        /\ request'[r].step \in {"storing", "unauthorized"}
     \/ request[r].step = "storing" /\ request'[r].step = "ok"
     \/ /\ request[r].op = "refresh" /\ request[r].step = "rotating"
        /\ request'[r].step = "ok" \/ (request'[r].step = "unauthorized" /\ ~Live(request[r].token))
     \/ request[r].op = "logout" /\ request'[r].step = "ok"

LooksTokenUp(r) ==
  /\ users' = users /\ faults' = faults /\ request[r].op = "refresh"
  /\ request'[r].email = token[request[r].token].user
  /\ request'[r].step = "rotating" \/ (request'[r].step = "unauthorized" /\ ~Live(request[r].token))

Creates(r) ==
  /\ request[r].op = "register" /\ request[r].email \notin users
  /\ users' = users \cup {request[r].email} /\ request'[r].email = request[r].email
  /\ \/ request'[r].step = "storing" /\ faults' = faults
     \/ request'[r].step = "error" /\ faults' = faults + 1

RequestMoves(r) ==
  \/ Arrives(r)
  \/ /\ request[r].step # "new"
     /\ request'[r].op = request[r].op /\ request'[r].token = request[r].token
     /\ Fails(r) \/ Proceeds(r) \/ LooksTokenUp(r) \/ Creates(r)

\* A step moves at most one request and hands out only tokens it stored.
OneMoves ==
  /\ request' \in [Requests -> Request]
  /\ held' \subseteq Tokens /\ \A t \in held' \ held : token'[t].state # "NONE"
  /\ \/ request' = request /\ users' = users /\ faults' = faults
     \/ \E r \in Requests : RequestMoves(r) /\ \A q \in Requests \ {r} : request'[q] = request[q]

\* The request a step leaves behind is typed, and the others stay.
LEMMA RequestWritten ==
  ASSUME request \in [Requests -> Request], NEW r \in Requests, NEW to \in Request,
         request' = [request EXCEPT ![r] = to]
  PROVE  /\ request' \in [Requests -> Request]
         /\ request'[r] = to
         /\ \A q \in Requests \ {r} : request'[q] = request[q]
  OBVIOUS

\* Arrivals.
LEMMA ArrivalsMove ==
  ASSUME SessionInv, NEW r \in Requests, ReceiveCredentials(r) \/ ReceiveToken(r)
  PROVE  OneMoves
<1>1. /\ request \in [Requests -> Request] /\ request[r] \in Request
      /\ held' = held /\ users' = users /\ faults' = faults /\ held \subseteq Tokens
      /\ request[r].step = "new"
  BY DEF SessionInv, SessionTypeOK, ReceiveCredentials, ReceiveToken
<1>2. CASE ReceiveCredentials(r)
  <2>1. PICK e \in Emails, op \in {"register", "login"} :
          request' = [request EXCEPT ![r] = [@ EXCEPT !.op = op, !.email = e, !.step = "lookup"]]
    BY <1>2 DEF ReceiveCredentials
  <2> DEFINE to == [request[r] EXCEPT !.op = op, !.email = e, !.step = "lookup"]
  <2>2. /\ to \in Request /\ to.op = op /\ to.email = e /\ to.step = "lookup"
        /\ to.token = request[r].token
    BY <1>1 DEF Request, Step, Operation
  <2>3. request' = [request EXCEPT ![r] = to]
    BY <2>1
  <2> HIDE DEF to
  <2>4. request' \in [Requests -> Request] /\ request'[r] = to
        /\ \A q \in Requests \ {r} : request'[q] = request[q]
    BY <1>1, <2>2, <2>3, RequestWritten
  <2> QED
    BY <1>1, <2>2, <2>4 DEF OneMoves, RequestMoves, Arrives
<1>3. CASE ReceiveToken(r)
  <2>1. PICK t \in held, op \in {"refresh", "logout"} :
          request' = [request EXCEPT ![r] =
                        [@ EXCEPT !.op = op, !.token = t,
                                  !.step = IF op = "refresh" THEN "lookup" ELSE "revoking"]]
    BY <1>3 DEF ReceiveToken
  <2> DEFINE to == [request[r] EXCEPT !.op = op, !.token = t,
                                      !.step = IF op = "refresh" THEN "lookup" ELSE "revoking"]
  <2>2. /\ to \in Request /\ to.op = op /\ to.token = t
        /\ to.step = IF op = "refresh" THEN "lookup" ELSE "revoking"
    BY <1>1 DEF Request, Step, Operation
  <2>3. request' = [request EXCEPT ![r] = to]
    BY <2>1
  <2> HIDE DEF to
  <2>4. request' \in [Requests -> Request] /\ request'[r] = to
        /\ \A q \in Requests \ {r} : request'[q] = request[q]
    BY <1>1, <2>2, <2>3, RequestWritten
  <2> QED
    BY <1>1, <2>2, <2>4 DEF OneMoves, RequestMoves, Arrives
<1> QED
  BY <1>2, <1>3

\* A request whose step is all that changes.
StepsTo(r, step) ==
  /\ request' \in [Requests -> Request]
  /\ request'[r].op = request[r].op /\ request'[r].token = request[r].token
  /\ request'[r].email = request[r].email /\ request'[r].step = step
  /\ \A q \in Requests \ {r} : request'[q] = request[q]

\* A request that moves on keeps the request table typed.
LEMMA GoesTo ==
  ASSUME request \in [Requests -> Request], NEW r \in Requests, NEW step \in Step, GoTo(r, step)
  PROVE  StepsTo(r, step)
BY DEF GoTo, StepsTo, Request

\* An answered call goes on or, with one more fault, fails.
LEMMA AnswerGoes ==
  ASSUME request \in [Requests -> Request], NEW r \in Requests,
         NEW ok \in Step, NEW error \in Step, Answer(r, ok, error)
  PROVE  \/ StepsTo(r, ok) /\ faults' = faults
         \/ StepsTo(r, error) /\ faults' = faults + 1
BY GoesTo DEF Answer

\* The calls that read, fail or create an account.
LEMMA LookupsMove ==
  ASSUME SessionInv, NEW r \in Requests,
         \/ CallFails(r) \/ FindUserToRegister(r) \/ FindUserToLogIn(r)
         \/ FindRefreshToken(r) \/ CreateUser(r)
  PROVE  OneMoves
<1>1. /\ request \in [Requests -> Request] /\ request[r] \in Request
      /\ held' = held /\ held \subseteq Tokens /\ request[r].step # "new"
  BY DEF SessionInv, SessionTypeOK, CallFails, FindUserToRegister, FindUserToLogIn,
         FindRefreshToken, CreateUser
<1>2. {"error", "unauthorized", "conflict", "creating", "storing", "rotating", "ok"} \subseteq Step
  BY DEF Step, Answers
<1>3. ASSUME NEW step \in Step, StepsTo(r, step), Fails(r) \/ Proceeds(r) \/ Creates(r)
      PROVE  OneMoves
  BY <1>1, <1>3 DEF OneMoves, RequestMoves, StepsTo
<1>4. CASE CallFails(r)
  BY <1>1, <1>2, <1>3, <1>4, GoesTo DEF CallFails, Fails, StepsTo
<1>5. CASE FindUserToRegister(r)
  BY <1>1, <1>2, <1>3, <1>5, GoesTo DEF FindUserToRegister, Proceeds, StepsTo
<1>6. CASE FindUserToLogIn(r)
  <2>1. PICK step \in {"storing", "unauthorized"} : GoTo(r, step)
    BY <1>6 DEF FindUserToLogIn
  <2>2. StepsTo(r, step) /\ step \in Step
    BY <1>1, <1>2, <2>1, GoesTo
  <2>3. Proceeds(r)
    BY <1>6, <2>2 DEF FindUserToLogIn, Proceeds, StepsTo
  <2> QED
    BY <1>3, <2>2, <2>3
<1>7. CASE CreateUser(r)
  <2>0. request[r].op = "register" /\ request[r].step = "creating"
    BY <1>7 DEF CreateUser, SessionInv, RequestsHoldTokens
  <2>1. CASE request[r].email \in users
    BY <1>1, <1>2, <1>3, <1>7, <2>0, <2>1, GoesTo DEF CreateUser, Proceeds, StepsTo
  <2>2. CASE request[r].email \notin users
    <3>1. users' = users \cup {request[r].email} /\ Answer(r, "storing", "error")
      BY <1>7, <2>2 DEF CreateUser
    <3>2. PICK step \in {"storing", "error"} :
            /\ StepsTo(r, step)
            /\ faults' = IF step = "storing" THEN faults ELSE faults + 1
      BY <1>1, <1>2, <3>1, AnswerGoes
    <3>3. Creates(r)
      BY <2>0, <2>2, <3>1, <3>2 DEF Creates, StepsTo
    <3> QED
      BY <1>2, <1>3, <3>2, <3>3
  <2> QED
    BY <2>1, <2>2
<1>8. CASE FindRefreshToken(r)
  <2> DEFINE to == [request[r] EXCEPT
                      !.step = IF Live(request[r].token) THEN "rotating" ELSE "unauthorized",
                      !.email = token[request[r].token].user]
  <2>1. token[request[r].token].user \in Emails \cup {None}
    BY <1>8 DEF FindRefreshToken, SessionInv, SessionTypeOK, RequestsHoldTokens, Row, NoRow
  <2>2. /\ to \in Request /\ to.op = request[r].op /\ to.token = request[r].token
        /\ to.email = token[request[r].token].user
        /\ to.step = IF Live(request[r].token) THEN "rotating" ELSE "unauthorized"
    BY <1>1, <1>2, <2>1 DEF Request
  <2>3. request' = [request EXCEPT ![r] = to]
    BY <1>1, <1>8 DEF FindRefreshToken
  <2> HIDE DEF to
  <2>4. request' \in [Requests -> Request] /\ request'[r] = to
        /\ \A q \in Requests \ {r} : request'[q] = request[q]
    BY <1>1, <2>2, <2>3, RequestWritten
  <2>5. LooksTokenUp(r)
    BY <1>8, <2>2, <2>4 DEF FindRefreshToken, LooksTokenUp
  <2> QED
    BY <1>1, <2>2, <2>4, <2>5 DEF OneMoves, RequestMoves
<1> QED
  BY <1>4, <1>5, <1>6, <1>7, <1>8

\* The calls that write tokens.
LEMMA IssuersMove ==
  ASSUME SessionInv, token' \in [Tokens -> Row], NEW r \in Requests,
         StoreRefreshToken(r) \/ RotateRefreshToken(r) \/ RevokeRefreshToken(r)
  PROVE  OneMoves
<1>1. /\ request \in [Requests -> Request] /\ held \subseteq Tokens /\ users' = users
      /\ token \in [Tokens -> Row] /\ request[r].step # "new"
  BY DEF SessionInv, SessionTypeOK, StoreRefreshToken, RotateRefreshToken, RevokeRefreshToken
<1>2. {"error", "unauthorized", "ok"} \subseteq Step
  BY DEF Step, Answers
<1>3. ASSUME NEW step \in Step, StepsTo(r, step), Fails(r) \/ Proceeds(r),
             held' \subseteq Tokens, \A t \in held' \ held : token'[t].state # "NONE"
      PROVE  OneMoves
  BY <1>1, <1>3 DEF OneMoves, RequestMoves, StepsTo
<1>4. ASSUME NEW s \in Tokens, NEW row \in [Tokens -> Row], NEW error \in {"error", "unauthorized"},
             Issue(r, s, row, error)
      PROVE  /\ held' \subseteq Tokens /\ \A t \in held' \ held : token'[t].state # "NONE"
             /\ \/ StepsTo(r, "ok") /\ faults' = faults
                \/ StepsTo(r, error) /\ Fails(r)
  <2>1. \/ StepsTo(r, "ok") /\ faults' = faults
        \/ StepsTo(r, error) /\ faults' = faults + 1
    BY <1>1, <1>2, <1>4, AnswerGoes DEF Issue
  <2>2. held' \subseteq held \cup {s} /\ token'[s].state = "ACTIVE"
    BY <1>4 DEF Issue, NewRow
  <2> QED
    BY <1>1, <2>1, <2>2 DEF Fails, StepsTo
<1>5. CASE StoreRefreshToken(r)
  <2>1. PICK s \in Tokens : Issue(r, s, token, "error")
    BY <1>5 DEF StoreRefreshToken
  <2>2. StepsTo(r, "ok") /\ faults' = faults => Proceeds(r)
    BY <1>1, <1>5 DEF StoreRefreshToken, Proceeds, StepsTo
  <2> QED
    BY <1>1, <1>2, <1>3, <1>4, <2>1, <2>2
<1>6. CASE RotateRefreshToken(r)
  <2>1. request[r].op = "refresh" /\ request[r].step = "rotating"
    BY <1>6 DEF RotateRefreshToken, SessionInv, RequestsHoldTokens
  <2>2. CASE ~Rotatable(request[r].token)
    <3>1. /\ GoTo(r, "unauthorized") /\ held' = held /\ faults' = faults
      BY <1>6, <2>2 DEF RotateRefreshToken
    <3>2. StepsTo(r, "unauthorized")
      BY <1>1, <1>2, <3>1, GoesTo
    <3>3. Proceeds(r)
      BY <1>1, <2>1, <2>2, <3>1, <3>2 DEF Proceeds, StepsTo, Rotatable, Live
    <3> QED
      BY <1>1, <1>2, <1>3, <3>1, <3>2, <3>3
  <2>3. CASE Rotatable(request[r].token)
    <3> DEFINE row == [token EXCEPT ![request[r].token].state = "REVOKED"]
    <3>1. PICK s \in Tokens : Issue(r, s, row, "unauthorized")
      BY <1>6, <2>3 DEF RotateRefreshToken
    <3>2. row \in [Tokens -> Row]
      <4>1. request[r].token \in Tokens /\ token[request[r].token].state = "ACTIVE"
        BY <2>1, <2>3 DEF Rotatable, SessionInv, RequestsHoldTokens
      <4>2. token[request[r].token] \in [state : {"ACTIVE", "REVOKED"}, user : Emails,
                                         expired : BOOLEAN, origin : Tokens \cup {None}]
        BY <1>1, <4>1 DEF Row, NoRow
      <4>3. [token[request[r].token] EXCEPT !.state = "REVOKED"] \in Row
        BY <4>2 DEF Row
      <4> QED
        BY <1>1, <4>1, <4>3
    <3> HIDE DEF row
    <3>3. StepsTo(r, "ok") /\ faults' = faults => Proceeds(r)
      BY <1>1, <2>1 DEF Proceeds, StepsTo
    <3> QED
      BY <1>1, <1>2, <1>3, <1>4, <3>1, <3>2, <3>3
  <2> QED
    BY <2>2, <2>3
<1>7. CASE RevokeRefreshToken(r)
  <2>1. request[r].op = "logout" /\ held' = held /\ Answer(r, "ok", "error")
    BY <1>7 DEF RevokeRefreshToken, SessionInv, RequestsHoldTokens
  <2>2. \/ StepsTo(r, "ok") /\ faults' = faults
        \/ StepsTo(r, "error") /\ faults' = faults + 1
    BY <1>1, <1>2, <2>1, AnswerGoes
  <2>3. Proceeds(r) \/ Fails(r)
    BY <1>1, <2>1, <2>2 DEF Proceeds, Fails, StepsTo
  <2> QED
    BY <1>1, <1>2, <1>3, <2>1, <2>2, <2>3
<1> QED
  BY <1>5, <1>6, <1>7

\* Every step of the system.
LEMMA StepsMoveOne ==
  ASSUME SessionInv, [Next]_vars
  PROVE  OneMoves
<1>1. token' \in [Tokens -> Row]
  BY StepsMoveTokens, TokensStaySound
<1>2. /\ request \in [Requests -> Request] /\ held \subseteq Tokens
  BY DEF SessionInv, SessionTypeOK
<1>3. CASE UNCHANGED <<users, request, held, faults>>
  BY <1>2, <1>3 DEF OneMoves
<1> QED
  BY <1>1, <1>3, ArrivalsMove, LookupsMove, IssuersMove DEF Next, vars, Expire

-----------------------------------------------------------------------------
(***************************************************************************)
(* The invariant                                                           *)
(***************************************************************************)
\* No account, no token, no request.
LEMMA SessionInitInv == Init => SessionInv
<1> SUFFICES ASSUME Init PROVE SessionInv
  OBVIOUS
<1>1. SessionTypeOK
  BY SessionAssumption DEF Init, SessionTypeOK, Row, Request, NewRequest, Step
<1>2. RequestsHoldTokens /\ OneCreator
  BY DEF Init, NewRequest, RequestsHoldTokens, OneCreator
<1>3. RotatedOnce /\ OnlyLostRegistrationsFail /\ RefusedTokenIsDead
  BY DEF Init, NewRequest, NoRow, RotatedOnce, OnlyLostRegistrationsFail, RefusedTokenIsDead
<1> QED
  BY <1>1, <1>2, <1>3 DEF SessionInv

\* Every step keeps it.
LEMMA SessionNextInv == SessionInv /\ [Next]_vars => SessionInv'
<1> SUFFICES ASSUME SessionInv, [Next]_vars PROVE SessionInv'
  OBVIOUS
<1>1. /\ token' \in [Tokens -> Row] /\ RowsOnlyAge /\ RotatedOnce' /\ OneMoves
  BY StepsMoveTokens, TokensStaySound, StepsMoveOne
<1>2. /\ users \subseteq Emails /\ held \subseteq Tokens /\ faults \in Nat
      /\ RequestsHoldTokens /\ OneCreator /\ OnlyLostRegistrationsFail /\ RefusedTokenIsDead
  BY DEF SessionInv, SessionTypeOK
<1>3. /\ users \subseteq users' /\ users' \subseteq Emails
      /\ faults' \in Nat /\ (faults' = 0 => faults = 0)
  BY <1>1, <1>2
  DEF OneMoves, RequestMoves, Arrives, Fails, Proceeds, LooksTokenUp, Creates, RequestsHoldTokens
<1>4. SessionTypeOK'
  BY <1>1, <1>3 DEF SessionTypeOK, OneMoves
<1>5. RequestsHoldTokens'
  <2>1. \A t \in held' : token'[t].state # "NONE"
    BY <1>1, <1>2 DEF RequestsHoldTokens, OneMoves, RowsOnlyAge
  <2>2. ASSUME NEW r \in Requests
        PROVE  /\ request'[r].op \in Operation \cup {"none"}
               /\ request'[r].step = "new" <=> request'[r].op = "none"
               /\ request'[r].step = "creating" => request'[r].op = "register"
               /\ request'[r].step = "storing" => request'[r].op \in {"register", "login"}
               /\ request'[r].step = "rotating" =>
                    /\ request'[r].op = "refresh"
                    /\ request'[r].email = token'[request'[r].token].user
               /\ request'[r].step = "revoking" => request'[r].op = "logout"
               /\ request'[r].op = "none" => request'[r].token = None
               /\ request'[r].op \in {"register", "login"} =>
                    request'[r].email \in Emails /\ request'[r].token = None
               /\ request'[r].op \in {"refresh", "logout"} =>
                    request'[r].token \in Tokens /\ token'[request'[r].token].state # "NONE"
    <3>1. CASE request'[r] = request[r]
      BY <1>1, <1>2, <3>1 DEF RequestsHoldTokens, RowsOnlyAge, Operation
    <3>2. CASE Arrives(r)
      BY <1>1, <1>2, <3>2 DEF RequestsHoldTokens, RowsOnlyAge, Operation, Arrives
    <3>3. CASE /\ request[r].step # "new"
               /\ request'[r].op = request[r].op /\ request'[r].token = request[r].token
               /\ Fails(r) \/ Proceeds(r) \/ LooksTokenUp(r) \/ Creates(r)
      BY <1>1, <1>2, <3>3
      DEF RequestsHoldTokens, RowsOnlyAge, Operation, Fails, Proceeds, LooksTokenUp, Creates
    <3> QED
      BY <1>1, <3>1, <3>2, <3>3 DEF OneMoves, RequestMoves
  <2> QED
    BY <2>1, <2>2 DEF RequestsHoldTokens
<1>6. ASSUME NEW q \in Requests, request[q].op = "register", request[q].step \in {"storing", "ok"},
             faults' = 0
      PROVE  /\ request'[q].op = "register" /\ request'[q].email = request[q].email
             /\ request'[q].step \in {"storing", "ok"}
  <2>1. CASE request'[q] = request[q]
    BY <1>6, <2>1
  <2>2. CASE RequestMoves(q)
    BY <1>2, <1>6, <2>2
    DEF RequestMoves, Arrives, Fails, Proceeds, LooksTokenUp, Creates, OneCreator,
        RequestsHoldTokens
  <2> QED
    BY <1>1, <2>1, <2>2 DEF OneMoves
<1>7. ASSUME NEW q \in Requests, request'[q].op = "register", request'[q].step \in {"storing", "ok"}
      PROVE  \/ /\ request[q].op = "register" /\ request[q].step \in {"storing", "ok"}
                /\ request'[q].email = request[q].email
             \/ /\ Creates(q) /\ request'[q].email \notin users
                /\ \A r \in Requests \ {q} : request'[r] = request[r]
  BY <1>1, <1>7 DEF OneMoves, RequestMoves, Arrives, Fails, Proceeds, LooksTokenUp, Creates
<1>8. OneCreator'
  <2>1. ASSUME NEW r \in Requests, request'[r].op = "register", request'[r].step \in {"storing", "ok"}
        PROVE  request'[r].email \in users'
    BY <1>2, <1>3, <1>7, <2>1 DEF OneCreator, Creates
  <2>2. ASSUME NEW q \in Requests, NEW r \in Requests,
               request'[q].op = "register", request'[q].step \in {"storing", "ok"},
               request'[r].op = "register", request'[r].step \in {"storing", "ok"},
               request'[q].email = request'[r].email
        PROVE  q = r
    BY <1>2, <1>7, <2>2 DEF OneCreator, Creates
  <2>3. ASSUME faults' = 0, NEW e \in users'
        PROVE  \E r \in Requests : /\ request'[r].op = "register"
                                   /\ request'[r].step \in {"storing", "ok"}
                                   /\ request'[r].email = e
    <3>1. CASE e \in users
      BY <1>2, <1>3, <1>6, <2>3, <3>1 DEF OneCreator
    <3>2. CASE e \notin users
      <4>1. PICK r \in Requests : RequestMoves(r) /\ users' # users
        BY <1>1, <2>3, <3>2 DEF OneMoves
      <4>2. Creates(r) /\ request'[r].op = request[r].op
        BY <4>1 DEF RequestMoves, Arrives, Fails, Proceeds, LooksTokenUp
      <4> QED
        BY <1>2, <2>3, <3>2, <4>2 DEF Creates
    <3> QED
      BY <3>1, <3>2
  <2> QED
    BY <2>1, <2>2, <2>3 DEF OneCreator
<1>9. OnlyLostRegistrationsFail'
  <2> SUFFICES ASSUME faults' = 0, NEW r \in Requests, (request[r].step = "error")'
               PROVE  /\ request'[r].op = "register"
                      /\ \E q \in Requests \ {r} :
                           /\ request'[q].op = "register" /\ request'[q].email = request'[r].email
                           /\ request'[q].step \in {"storing", "ok"}
    BY DEF OnlyLostRegistrationsFail
  <2>1. CASE request'[r] = request[r]
    BY <1>2, <1>3, <1>6, <2>1 DEF OnlyLostRegistrationsFail
  <2>2. CASE RequestMoves(r)
    <3>1. /\ request[r].op = "register" /\ request[r].step = "creating"
          /\ request[r].email \in users /\ request'[r].email = request[r].email
          /\ request'[r].op = request[r].op
      BY <1>2, <2>2
      DEF RequestMoves, Arrives, Fails, Proceeds, LooksTokenUp, Creates
    <3> QED
      BY <1>2, <1>3, <1>6, <3>1 DEF OneCreator
  <2> QED
    BY <1>1, <2>1, <2>2 DEF OneMoves
<1>10. RefusedTokenIsDead'
  <2> SUFFICES ASSUME faults' = 0, NEW r \in Requests,
                      (request[r].op = "refresh" /\ request[r].step = "unauthorized")'
               PROVE  ~Live(request[r].token)'
    BY DEF RefusedTokenIsDead
  <2>1. /\ request'[r].token = request[r].token /\ ~Live(request[r].token)
        /\ request[r].op = "refresh"
    <3>1. CASE request'[r] = request[r]
      BY <1>2, <1>3, <3>1 DEF RefusedTokenIsDead
    <3>2. CASE RequestMoves(r)
      BY <1>2, <3>2 DEF RequestMoves, Arrives, Fails, Proceeds, LooksTokenUp, Creates
    <3> QED
      BY <1>1, <3>1, <3>2 DEF OneMoves
  <2>2. request[r].token \in Tokens /\ token[request[r].token].state # "NONE"
    BY <1>2, <2>1 DEF RequestsHoldTokens
  <2>3. ~(token'[request[r].token].state = "ACTIVE" /\ ~token'[request[r].token].expired)
    BY <1>1, <2>1, <2>2 DEF RowsOnlyAge, Live
  <2> QED
    BY <2>1, <2>3 DEF Live
<1> QED
  BY <1>1, <1>4, <1>5, <1>8, <1>9, <1>10 DEF SessionInv

\* The types, the rotation tree, the registrations and the refusals.
THEOREM SessionInvariant == Spec => []SessionInv
  BY SessionInitInv, SessionNextInv, PTL DEF Spec

\* Sessions never fork: a token has one replacement at most and is then revoked.
THEOREM SessionsNeverFork == Spec => []RotatedOnce
<1>1. SessionInv => RotatedOnce
  BY DEF SessionInv
<1> QED
  BY <1>1, SessionInvariant, PTL

\* At most one registration of an address is told it succeeded.
THEOREM RegistrationsSucceedOnce == Spec => []OneRegistration
<1>1. SessionInv => OneRegistration
  BY DEF SessionInv, OneCreator, OneRegistration
<1> QED
  BY <1>1, SessionInvariant, PTL

\* While no call fails, only a lost registration race ends in an error.
THEOREM OnlyRacesFail == Spec => []OnlyLostRegistrationsFail
<1>1. SessionInv => OnlyLostRegistrationsFail
  BY DEF SessionInv
<1> QED
  BY <1>1, SessionInvariant, PTL

\* While no call fails, a client whose token is refused has lost nothing.
THEOREM AnswersAreDeserved == Spec => []RefusedTokenIsDead
<1>1. SessionInv => RefusedTokenIsDead
  BY DEF SessionInv
<1> QED
  BY <1>1, SessionInvariant, PTL

\* A revoked token is never exchanged, and an exchange revokes its token.
THEOREM RotationsConsumeTokens == Spec => OnlyActiveTokensRotate
<1>1. ASSUME SessionInv, [Next]_vars
      PROVE  \A s, t \in Tokens :
               token[s].state = "NONE" /\ token'[s].origin = t =>
                 token[t].state = "ACTIVE" /\ token'[t].state = "REVOKED"
  <2>1. TokensMove /\ token \in [Tokens -> Row] /\ None \notin Tokens
    BY <1>1, StepsMoveTokens, SessionAssumption DEF SessionInv, SessionTypeOK
  <2> SUFFICES ASSUME NEW s \in Tokens, NEW t \in Tokens, token[s].state = "NONE",
                      token'[s].origin = t
               PROVE  token[t].state = "ACTIVE" /\ token'[t].state = "REVOKED"
    OBVIOUS
  <2>2. token[s].origin = None
    BY <2>1 DEF Row, NoRow
  <2>3. CASE token' = token \/ \E x \in Tokens : Expires(x) \/ Revokes(x)
    BY <2>1, <2>2, <2>3 DEF Expires, Revokes, Live
  <2>4. CASE \E x \in Tokens, e \in Emails : Stores(x, e)
    BY <2>1, <2>2, <2>4 DEF Stores, NewRow
  <2>5. CASE \E x, y \in Tokens : Replaces(x, y)
    <3>1. PICK x \in Tokens, y \in Tokens : Replaces(x, y)
      BY <2>5
    <3>2. x # y
      BY <3>1 DEF Replaces, NoRow
    <3>3. s = x /\ t = y
      BY <2>1, <2>2, <3>1, <3>2 DEF Replaces, NewRow
    <3>4. token[y].state = "ACTIVE"
      BY <3>1 DEF Replaces
    <3>5. token'[y] = [token[y] EXCEPT !.state = "REVOKED"]
      BY <2>1, <3>1, <3>2 DEF Replaces
    <3>6. token[y] # NoRow
      BY <3>4 DEF NoRow
    <3>7. token'[y].state = "REVOKED"
      BY <2>1, <3>5, <3>6 DEF Row
    <3> QED
      BY <3>3, <3>4, <3>7
  <2> QED
    BY <2>1, <2>3, <2>4, <2>5 DEF TokensMove
<1> QED
  BY <1>1, SessionInvariant, PTL DEF Spec, OnlyActiveTokensRotate

-----------------------------------------------------------------------------
(***************************************************************************)
(* API keys: an effective revocation is immediate, unique and final        *)
(***************************************************************************)
\* A call that was received names a key that was handed out, and a
\* confirmed revocation carries the time it was received at.
RequestsNameKeys ==
  \A r \in Calls :
    /\ call[r].step # "new" => call[r].key \in Keys
    /\ call[r].step # "new" => keys[call[r].key].exists
    /\ call[r].op = "revoke" => call[r].time # 0
    /\ call[r].step \in {"revoking", "revoked"} => call[r].op = "revoke"
    /\ call[r].step = "touching" => call[r].op = "authenticate"

\* The inductive invariant.
KeyInv == ApiKeyTypeOK /\ clock # 0 /\ RequestsNameKeys /\ OneRevocation

\* A row is written by at most three calls: its creation, a use and a
\* revocation, and the last two only while it is active.
RowMoves(k) ==
  \/ keys'[k] = keys[k]
  \/ ~keys[k].exists /\ keys'[k] = [keys[k] EXCEPT !.exists = TRUE]
  \/ /\ Active(k)
     /\ \E r \in Calls : keys'[k] = [keys[k] EXCEPT !.lastUsedAt = call[r].time]
  \/ /\ Active(k)
     /\ \E r \in Calls :
          /\ call[r].step = "revoking" /\ call[r].key = k
          /\ keys'[k] = [keys[k] EXCEPT !.revokedAt = call[r].time]

\* No step writes a row in another way.
LEMMA RowChange ==
  ASSUME KeyInv, [KeyNext]_keyVars, NEW k \in Keys
  PROVE  RowMoves(k)
<1> USE DEF KeyInv, ApiKeyTypeOK, RowMoves
<1>1. CASE \E c \in Keys : CreateApiKey(c)
  BY <1>1 DEF CreateApiKey
<1>2. CASE \E r \in Calls : TouchApiKeyLastUsed(r)
  <2>1. PICK r \in Calls : TouchApiKeyLastUsed(r)
    BY <1>2
  <2>2. call[r].key \in Keys
    BY <2>1 DEF TouchApiKeyLastUsed, RequestsNameKeys
  <2>3. keys'[k] = keys[k] \/
        (Active(k) /\ keys'[k] = [keys[k] EXCEPT !.lastUsedAt = call[r].time])
    BY <2>1, <2>2 DEF TouchApiKeyLastUsed, KeyRow, NoKeyRow, Active
  <2> QED
    BY <2>3
<1>3. CASE \E r \in Calls : RevokeApiKey(r)
  <2>1. PICK r \in Calls : RevokeApiKey(r)
    BY <1>3
  <2>2. call[r].key \in Keys
    BY <2>1 DEF RevokeApiKey, RequestsNameKeys
  <2>3. keys'[k] = keys[k] \/
        (/\ Active(k) /\ call[r].step = "revoking" /\ call[r].key = k
         /\ keys'[k] = [keys[k] EXCEPT !.revokedAt = call[r].time])
    BY <2>1, <2>2 DEF RevokeApiKey, KeyRow, NoKeyRow, Active
  <2> QED
    BY <2>3
<1>4. CASE UNCHANGED keys
  BY <1>4
<1> QED
  BY <1>1, <1>2, <1>3, <1>4
  DEF KeyNext, keyVars, Tick, Receive, FindKeyByHash, FindKeyForUser

\* A call is received, looks its key up and, if it has to, updates the row;
\* the update decides on its own condition.
CallMoves(r) ==
  \/ call'[r] = call[r]
  \/ /\ call[r].step = "new" /\ call'[r].step = "lookup"
     /\ call'[r].key \in Keys /\ keys[call'[r].key].exists
     /\ call'[r].op = "authenticate" \/ (call'[r].op = "revoke" /\ call'[r].time = clock)
  \/ /\ call'[r].op = call[r].op /\ call'[r].key = call[r].key
     /\ \/ /\ call[r].op = "authenticate" /\ call[r].step = "lookup"
           /\ call'[r].step \in {"touching", "refused"} /\ call'[r].time = clock
        \/ /\ call'[r].time = call[r].time
           /\ \/ /\ call[r].step = "touching"
                 /\ call'[r].step \in {"in", "refused"}
                 /\ call'[r].step = "in" => keys[call[r].key].revokedAt = 0
                 /\ keys'[call[r].key].revokedAt = keys[call[r].key].revokedAt
              \/ /\ call[r].op = "revoke" /\ call[r].step = "lookup"
                 /\ call'[r].step \in {"revoking", "refused"}
              \/ /\ call[r].step = "revoking"
                 /\ call'[r].step = "refused"
              \/ /\ call[r].step = "revoking" /\ Active(call[r].key)
                 /\ call'[r].step = "revoked"
                 /\ keys'[call[r].key].revokedAt = call[r].time
                 /\ \A q \in Calls \ {r} : call'[q] = call[q]

\* No step moves a call in another way.
LEMMA CallChange ==
  ASSUME KeyInv, [KeyNext]_keyVars, NEW r \in Calls
  PROVE  call' \in [Calls -> Call] /\ CallMoves(r)
<1> USE DEF KeyInv, ApiKeyTypeOK
<1>1. ASSUME NEW q \in Calls, NEW k \in Keys, NEW op \in {"authenticate", "revoke"},
             Receive(q, k, op)
      PROVE  call' \in [Calls -> Call] /\ CallMoves(r)
  <2>1. (IF op = "revoke" THEN clock ELSE 0) \in Time
    BY ApiKeyAssumption DEF Time
  <2> QED
    BY <1>1, <2>1 DEF Receive, Call, CallStep, CallMoves
<1>2. ASSUME NEW q \in Calls, FindKeyByHash(q)
      PROVE  call' \in [Calls -> Call] /\ CallMoves(r)
  BY <1>2 DEF FindKeyByHash, Call, CallStep, CallMoves
<1>3. ASSUME NEW q \in Calls, TouchApiKeyLastUsed(q)
      PROVE  call' \in [Calls -> Call] /\ CallMoves(r)
  <2>1. call[q].key \in Keys
    BY <1>3 DEF TouchApiKeyLastUsed, RequestsNameKeys
  <2>2. keys'[call[q].key].revokedAt = keys[call[q].key].revokedAt
    BY <1>3, <2>1 DEF TouchApiKeyLastUsed, KeyRow, NoKeyRow
  <2> QED
    BY <1>3, <2>2 DEF TouchApiKeyLastUsed, CallGoesTo, Call, CallStep, CallMoves, Active
<1>4. ASSUME NEW q \in Calls, FindKeyForUser(q)
      PROVE  call' \in [Calls -> Call] /\ CallMoves(r)
  BY <1>4 DEF FindKeyForUser, CallGoesTo, Call, CallStep, CallMoves
<1>5. ASSUME NEW q \in Calls, RevokeApiKey(q)
      PROVE  call' \in [Calls -> Call] /\ CallMoves(r)
  <2>1. call[q].key \in Keys
    BY <1>5 DEF RevokeApiKey, RequestsNameKeys
  <2>2. Active(call[q].key) => keys'[call[q].key].revokedAt = call[q].time
    BY <1>5, <2>1 DEF RevokeApiKey, KeyRow, NoKeyRow
  <2> QED
    BY <1>5, <2>2 DEF RevokeApiKey, CallGoesTo, Call, CallStep, CallMoves
<1>6. CASE UNCHANGED call
  BY <1>6 DEF CallMoves
<1> QED
  BY <1>1, <1>2, <1>3, <1>4, <1>5, <1>6 DEF KeyNext, keyVars, Tick, CreateApiKey

\* The invariant holds when the server starts.
LEMMA KeyInitInv == KeyInit => KeyInv
BY ApiKeyAssumption
DEF KeyInit, KeyInv, ApiKeyTypeOK, RequestsNameKeys, OneRevocation, KeyRow, NoKeyRow, Call,
    NewCall, CallStep, Time

\* And every step keeps it.
LEMMA KeyNextInv == KeyInv /\ [KeyNext]_keyVars => KeyInv'
<1> SUFFICES ASSUME KeyInv, [KeyNext]_keyVars PROVE KeyInv'
  OBVIOUS
<1> USE DEF KeyInv
<1>1. clock' \in Time /\ clock' # 0
  <2>1. clock' = clock \/ Tick
    BY DEF KeyNext, keyVars, CreateApiKey, Receive, FindKeyByHash, TouchApiKeyLastUsed,
      FindKeyForUser, RevokeApiKey
  <2> QED
    BY <2>1, ApiKeyAssumption DEF ApiKeyTypeOK, Tick, Time
<1>2. \A k \in Keys : keys'[k] \in KeyRow /\ (keys[k].exists => keys'[k].exists)
  <2> TAKE k \in Keys
  <2>1. /\ keys[k] \in KeyRow
        /\ \A r \in Calls : call[r].time \in Time
    BY DEF ApiKeyTypeOK, Call
  <2>2. ASSUME keys[k].exists
        PROVE  keys[k] \in [exists : {TRUE}, lastUsedAt : Time, revokedAt : Time]
    <3>1. keys[k] # NoKeyRow
      BY <2>2 DEF NoKeyRow
    <3> QED
      BY <2>1, <3>1 DEF KeyRow
  <2>3. ~keys[k].exists => keys[k] = NoKeyRow
    BY <2>1 DEF KeyRow
  <2>4. CASE ~keys[k].exists /\ keys'[k] = [keys[k] EXCEPT !.exists = TRUE]
    <3>1. 0 \in Time
      BY ApiKeyAssumption DEF Time
    <3>2. keys[k] = NoKeyRow
      BY <2>3, <2>4
    <3>3. keys[k] \in [exists : BOOLEAN, lastUsedAt : Time, revokedAt : Time]
      BY <3>1, <3>2 DEF NoKeyRow
    <3>4. keys'[k] \in [exists : {TRUE}, lastUsedAt : Time, revokedAt : Time]
      BY <2>4, <3>3
    <3> QED
      BY <2>4, <3>4 DEF KeyRow
  <2>5. CASE /\ Active(k)
             /\ \E r \in Calls : keys'[k] = [keys[k] EXCEPT !.lastUsedAt = call[r].time]
    BY <2>1, <2>2, <2>5 DEF Active, KeyRow
  <2>6. CASE /\ Active(k)
             /\ \E r \in Calls : keys'[k] = [keys[k] EXCEPT !.revokedAt = call[r].time]
    BY <2>1, <2>2, <2>6 DEF Active, KeyRow
  <2>7. keys'[k] = keys[k] \/
        (~keys[k].exists /\ keys'[k] = [keys[k] EXCEPT !.exists = TRUE]) \/
        (/\ Active(k)
         /\ \E r \in Calls : keys'[k] = [keys[k] EXCEPT !.lastUsedAt = call[r].time]) \/
        (/\ Active(k)
         /\ \E r \in Calls : keys'[k] = [keys[k] EXCEPT !.revokedAt = call[r].time])
    BY RowChange DEF RowMoves
  <2> QED
    BY <2>1, <2>4, <2>5, <2>6, <2>7
<1>3. call' \in [Calls -> Call]
  <2>1. CASE Calls = {}
    BY <2>1 DEF ApiKeyTypeOK, KeyNext, keyVars, Tick, CreateApiKey
  <2>2. CASE Calls # {}
    BY <2>2, CallChange
  <2> QED
    BY <2>1, <2>2
<1>4. \A r \in Calls :
        call'[r].step \in {"touching", "revoking"} => call'[r].time # 0
  <2> TAKE r \in Calls
  <2>1. CallMoves(r)
    BY CallChange
  <2> QED
    BY <2>1 DEF ApiKeyTypeOK, RequestsNameKeys, CallMoves
<1>5. keys' \in [Keys -> KeyRow]
  <2>1. keys' = [k \in Keys |-> keys'[k]]
    BY DEF ApiKeyTypeOK, KeyNext, keyVars, Tick, CreateApiKey, Receive, FindKeyByHash,
      TouchApiKeyLastUsed, FindKeyForUser, RevokeApiKey, CallGoesTo
  <2> QED
    BY <2>1, <1>2
<1>6. ApiKeyTypeOK'
  BY <1>1, <1>3, <1>4, <1>5 DEF ApiKeyTypeOK
<1>7. RequestsNameKeys'
  <2> SUFFICES ASSUME NEW r \in Calls
               PROVE  /\ call'[r].step # "new" => call'[r].key \in Keys
                      /\ call'[r].step # "new" => keys'[call'[r].key].exists
                      /\ call'[r].op = "revoke" => call'[r].time # 0
                      /\ call'[r].step \in {"revoking", "revoked"} => call'[r].op = "revoke"
                      /\ call'[r].step = "touching" => call'[r].op = "authenticate"
    BY DEF RequestsNameKeys
  <2>1. CallMoves(r)
    BY CallChange
  <2> QED
    BY <1>2, <2>1 DEF RequestsNameKeys, CallMoves
<1>8. OneRevocation'
  <2> SUFFICES ASSUME NEW r \in Calls, (call[r].step = "revoked")'
               PROVE  /\ keys'[call'[r].key].revokedAt = call'[r].time
                      /\ \A q \in Calls \ {r} :
                           ~(call'[q].step = "revoked" /\ call'[q].key = call'[r].key)
    BY DEF OneRevocation
  <2>1. \A q \in Calls : call[q].step = "revoked" =>
          /\ call[q].key \in Keys /\ keys[call[q].key].exists
          /\ keys[call[q].key].revokedAt = call[q].time /\ call[q].time # 0
    BY DEF OneRevocation, RequestsNameKeys
  <2>2. \A q \in Calls : CallMoves(q)
    BY CallChange
  <2>3. CASE call'[r] = call[r]
    <3>1. keys'[call[r].key] = keys[call[r].key]
      BY <2>1, <2>3, RowChange DEF RowMoves, Active
    <3>2. ASSUME NEW q \in Calls \ {r}, call'[q].step = "revoked",
                 call'[q].key = call'[r].key
          PROVE  FALSE
      BY <2>1, <2>2, <2>3, <3>2 DEF CallMoves, Active, OneRevocation
    <3> QED
      BY <2>1, <2>3, <3>1, <3>2
  <2>4. CASE call'[r] # call[r]
    BY <2>1, <2>2, <2>4 DEF CallMoves, Active
  <2> QED
    BY <2>3, <2>4
<1> QED
  BY <1>1, <1>6, <1>7, <1>8

\* The tables and requests keep their types, and of several revocations of one
\* key exactly the one that took effect is confirmed, with its own time.
THEOREM KeyInvariant == KeySpec => [](ApiKeyTypeOK /\ OneRevocation)
<1>1. KeyInv => ApiKeyTypeOK /\ OneRevocation
  BY DEF KeyInv
<1> QED
  BY <1>1, KeyInitInv, KeyNextInv, PTL DEF KeySpec

\* A revoked row is never written again.
THEOREM RevokedRowsStayFrozen == KeySpec => RevokedRowIsFrozen
<1>1. ASSUME KeyInv, [KeyNext]_keyVars
      PROVE  \A k \in Keys : keys[k].revokedAt # 0 => keys'[k] = keys[k]
  <2> SUFFICES ASSUME NEW k \in Keys, keys[k].revokedAt # 0
               PROVE  keys'[k] = keys[k]
    OBVIOUS
  <2>1. keys[k] \in KeyRow
    BY <1>1 DEF KeyInv, ApiKeyTypeOK
  <2>2. keys[k] # NoKeyRow
    BY DEF NoKeyRow
  <2>3. keys[k].exists
    BY <2>1, <2>2 DEF KeyRow
  <2> QED
    BY <1>1, <2>3, RowChange DEF RowMoves, Active
<1> QED
  BY <1>1, KeyInitInv, KeyNextInv, PTL DEF KeySpec, RevokedRowIsFrozen

\* No call is let in with a key whose revocation has taken effect.
THEOREM RevocationsAreImmediate == KeySpec => RevocationIsImmediate
<1>1. ASSUME KeyInv, [KeyNext]_keyVars
      PROVE  \A r \in Calls :
               call[r].step # "in" /\ call'[r].step = "in" =>
                 keys'[call[r].key].revokedAt = 0
  <2>1. \A r \in Calls : CallMoves(r)
    BY <1>1, CallChange
  <2> QED
    BY <2>1 DEF CallMoves
<1> QED
  BY <1>1, KeyInitInv, KeyNextInv, PTL DEF KeySpec, RevocationIsImmediate

-----------------------------------------------------------------------------
(***************************************************************************)
(* Both                                                                    *)
(***************************************************************************)
\* Sessions and API keys do not interfere: whatever the system does is a
\* behaviour of each of its parts, so all that is proved of a part holds of it.
THEOREM CredentialsAreIndependent == CredentialsSpec => Spec /\ KeySpec
<1>1. CredentialsInit => Init /\ KeyInit
  BY DEF CredentialsInit
<1>2. [CredentialsNext]_<<vars, keyVars>> => [Next]_vars /\ [KeyNext]_keyVars
  BY DEF CredentialsNext
<1> QED
  BY <1>1, <1>2, PTL DEF CredentialsSpec, Spec, KeySpec

\* In particular, in one system: no session forks, no call is let in with a
\* revoked key, and every revocation that is confirmed took effect.
THEOREM CallersAreKnown ==
  CredentialsSpec => [](RotatedOnce /\ OneRegistration /\ OneRevocation) /\ RevocationIsImmediate
BY CredentialsAreIndependent, SessionsNeverFork, RegistrationsSucceedOnce, KeyInvariant,
   RevocationsAreImmediate, PTL
=============================================================================
