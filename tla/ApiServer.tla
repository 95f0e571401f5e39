------------------------------ MODULE ApiServer ------------------------------
(***************************************************************************)
(* The API process: start() and shutdown() of server.js around the requests*)
(* in flight.  server.close() waits for connections, not for handlers: a   *)
(* handler goes on when its client has hung up, and a report whose first   *)
(* query failed is answered while its other queries run.  Connections are  *)
(* kept alive, so that a request may still arrive on one that was open     *)
(* when the shutdown began.  Every connection carries a request: one on    *)
(* which the client never sends any is not modelled.                       *)
(***************************************************************************)
EXTENDS Naturals

CONSTANTS
  Requests,     \* HTTP requests, each sent once
  ApiMaxFaults  \* bound: how many calls may fail

VARIABLES
  server,     \* the life of the process
  exitCode,   \* what it exited with, or none
  link,       \* the connection each request came on
  handler,    \* what is left to do for each request
  apiFaults

serverVars == <<server, exitCode, link, handler, apiFaults>>

\* closing: server.close() waits; disconnecting: prisma.$disconnect() runs.
ServerStep == {"starting", "listening", "closing", "disconnecting", "exited"}
\* waiting: the client waits for the answer; open: kept alive for another
\* request; gone: closed, or taken over by a later request.
Link == {"none", "waiting", "open", "gone"}
\* A write makes two calls one after the other; a report has two queries in
\* flight at once, of which the last may be left behind by the answer.
Handler == {"new", "first", "last", "both", "behind", "done"}

ServerInit ==
  /\ server = "starting" /\ exitCode = "none"
  /\ link = [r \in Requests |-> "none"]
  /\ handler = [r \in Requests |-> "new"]
  /\ apiFaults = 0

ApiFault == apiFaults < ApiMaxFaults /\ apiFaults' = apiFaults + 1
Exit(code) == server' = "exited" /\ exitCode' = code

(***************************************************************************)
(* Requests                                                                *)
(***************************************************************************)
\* A new connection is accepted only while the server listens; a request on an
\* open one also later.
Arrive(r) ==
  /\ handler[r] = "new"
  /\ \E step \in {"first", "both"} : handler' = [handler EXCEPT ![r] = step]
  /\ \/ server = "listening" /\ link' = [link EXCEPT ![r] = "waiting"]
     \/ /\ server \in {"listening", "closing"}
        /\ \E q \in Requests :
             link[q] = "open" /\ link' = [link EXCEPT ![q] = "gone", ![r] = "waiting"]
  /\ UNCHANGED <<server, exitCode, apiFaults>>

\* The answer is sent to whom still waits for it.
Reply(r, left) ==
  /\ handler' = [handler EXCEPT ![r] = left]
  /\ link' = [link EXCEPT ![r] = IF @ = "waiting" THEN "open" ELSE @]

\* Mutant: an error of the last call is not passed on, so that nothing is sent.
CallErrorDropped(r) ==
  /\ server # "exited"
  /\ \/ /\ handler[r] \in {"first", "both"}
        /\ handler' = [handler EXCEPT ![r] = "last"] /\ UNCHANGED <<link, apiFaults>>
     \/ handler[r] \in {"last", "behind"} /\ Reply(r, "done") /\ UNCHANGED apiFaults
     \/ handler[r] = "first" /\ Reply(r, "done") /\ ApiFault
     \/ /\ handler[r] = "last" /\ ApiFault
        /\ handler' = [handler EXCEPT ![r] = "done"] /\ UNCHANGED link
     \/ handler[r] = "both" /\ Reply(r, "behind") /\ ApiFault
  /\ UNCHANGED <<server, exitCode>>

\* A database call of the handler is answered, or fails and is answered 500.
CallAnswered(r) ==
  /\ server # "exited"
  /\ \/ /\ handler[r] \in {"first", "both"}
        /\ handler' = [handler EXCEPT ![r] = "last"] /\ UNCHANGED <<link, apiFaults>>
     \/ handler[r] \in {"last", "behind"} /\ Reply(r, "done") /\ UNCHANGED apiFaults
     \/ handler[r] \in {"first", "last"} /\ Reply(r, "done") /\ ApiFault
     \/ handler[r] = "both" /\ Reply(r, "behind") /\ ApiFault
  /\ UNCHANGED <<server, exitCode>>

\* The client leaves before it has its answer; the handler goes on.
HangUp(r) ==
  /\ server # "exited"
  /\ link[r] = "waiting"
  /\ link' = [link EXCEPT ![r] = "gone"]
  /\ UNCHANGED <<server, exitCode, handler, apiFaults>>

\* An idle connection is closed: by the client, the keep-alive timeout or
\* server.close().
CloseIdle(r) ==
  /\ server # "exited"
  /\ link[r] = "open"
  /\ link' = [link EXCEPT ![r] = "gone"]
  /\ UNCHANGED <<server, exitCode, handler, apiFaults>>

(***************************************************************************)
(* The process                                                             *)
(***************************************************************************)
\* app.listen(); the port may be taken.
Listen ==
  /\ server = "starting"
  /\ \/ server' = "listening" /\ UNCHANGED <<exitCode, apiFaults>>
     \/ Exit("1") /\ ApiFault
  /\ UNCHANGED <<link, handler>>

\* The error event of the listening server ends the process.
ServerError ==
  /\ server \in {"listening", "closing", "disconnecting"}
  /\ Exit("1") /\ ApiFault
  /\ UNCHANGED <<link, handler>>

\* Mutant: no isShuttingDown; to close a closed server is an error.
SignalAgain ==
  /\ \/ server = "listening" /\ server' = "closing" /\ UNCHANGED exitCode
     \/ server \in {"closing", "disconnecting"} /\ Exit("1")
  /\ UNCHANGED <<link, handler, apiFaults>>

\* SIGINT or SIGTERM; isShuttingDown makes later ones return at once.
SignalServer ==
  /\ server = "listening"
  /\ server' = "closing"
  /\ UNCHANGED <<exitCode, link, handler, apiFaults>>

\* Every connection has ended.
Closed ==
  /\ server = "closing"
  /\ \A r \in Requests : link[r] \in {"none", "gone"}
  /\ server' = "disconnecting"
  /\ UNCHANGED <<exitCode, link, handler, apiFaults>>

Disconnected ==
  /\ server = "disconnecting"
  /\ \/ Exit("0") /\ UNCHANGED apiFaults
     \/ Exit("1") /\ ApiFault
  /\ UNCHANGED <<link, handler>>

ServerNext ==
  \/ Listen \/ SignalServer \/ Closed \/ Disconnected \/ ServerError
  \/ \E r \in Requests : Arrive(r) \/ CallAnswered(r) \/ HangUp(r) \/ CloseIdle(r)

\* Calls are answered, idle connections end, and what is awaited goes on.
ServerFairness ==
  /\ WF_serverVars(Closed) /\ WF_serverVars(Disconnected)
  /\ \A r \in Requests : WF_serverVars(CallAnswered(r)) /\ WF_serverVars(CloseIdle(r))

-----------------------------------------------------------------------------
(***************************************************************************)
(* Properties                                                              *)
(***************************************************************************)
\* "Allows existing in-flight requests to finish": whatever arrives late or on
\* kept connections and however many signals come, unless a call fails the
\* process disconnects and exits only when nobody waits for an answer, and it
\* exits with 0.  What may still run then has no client: it hung up, or was
\* answered.
ShutdownIsGraceful ==
  /\ apiFaults = 0 => exitCode # "1"
  /\ apiFaults = 0 /\ server \in {"disconnecting", "exited"} =>
       \A r \in Requests :
         /\ link[r] # "waiting"
         /\ handler[r] \in {"first", "last", "both", "behind"} => link[r] = "gone"

\* A signal ends the process, which has no timer that would force it to: it
\* waits for clients, that send finitely many requests here, and for calls.
SignalEndsServer == server = "closing" ~> server = "exited"
=============================================================================
