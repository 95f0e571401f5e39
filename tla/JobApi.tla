------------------------------- MODULE JobApi -------------------------------
(***************************************************************************)
(* The requests of job.service.js that write jobs: createJob, which looks  *)
(* an idempotency key up before it inserts, and cancelJob, which looks the *)
(* status up before it updates and reads the job again for its answer.     *)
(* They run beside each other and beside workers, which claim and finish   *)
(* jobs at any time.  A client that got no answer may send its request     *)
(* again: it is another request with the same key.                         *)
(***************************************************************************)
EXTENDS JobStore

CONSTANTS
  Keys,       \* the idempotency keys of one user
  Requests,   \* HTTP requests, each received once
  MaxFaults,  \* bound: how many database calls may fail towards the caller
  NoKey, NoJob

ASSUME ApiAssumption == MaxFaults \in Nat /\ NoKey \notin Keys /\ NoJob \notin Jobs

VARIABLES
  keyOf,    \* Job.idempotencyKey
  request,  \* what each request does and has read
  faults

apiVars == <<keyOf, request, faults>>
vars == <<jobVars, apiVars>>

\* The answers: 201 with the job that was created or found, the cancelled
\* job, 409 before and after the update, and 500 for everything unexpected.
Answers == {"created", "found", "cancelled", "notCancellable", "conflict", "error"}
Step == {"new", "lookup", "inserting", "updating", "reading"} \cup Answers
Request == [op : {"none", "create", "cancel"}, key : Keys \cup {NoKey},
            job : Jobs \cup {NoJob}, step : Step]
NewRequest == [op |-> "none", key |-> NoKey, job |-> NoJob, step |-> "new"]

ApiInit ==
  /\ JobInit
  /\ keyOf = [j \in Jobs |-> NoKey]
  /\ request = [r \in Requests |-> NewRequest]
  /\ faults = 0

GoTo(r, step) == request' = [request EXCEPT ![r].step = step]
Fault == faults < MaxFaults /\ faults' = faults + 1
Exists(j) == status[j] # "ABSENT"
Submitted(key) == {j \in Jobs : Exists(j) /\ keyOf[j] = key}

\* A call fails before it commits.
CallFails(r) ==
  /\ request[r].step \in {"lookup", "inserting", "updating", "reading"}
  /\ GoTo(r, "error")
  /\ Fault
  /\ UNCHANGED <<jobVars, keyOf>>

(***************************************************************************)
(* createJob                                                               *)
(***************************************************************************)
\* Without a key nothing is looked up.
ReceiveSubmission(r) ==
  /\ request[r].step = "new"
  /\ \E key \in Keys \cup {NoKey} :
       request' = [request EXCEPT ![r] =
                     [@ EXCEPT !.op = "create", !.key = key,
                               !.step = IF key = NoKey THEN "inserting" ELSE "lookup"]]
  /\ UNCHANGED <<jobVars, keyOf, faults>>

FindJobByIdempotencyKey(r) ==
  LET found == Submitted(request[r].key) IN
  /\ request[r].op = "create"
  /\ request[r].step = "lookup"
  /\ \/ found = {} /\ GoTo(r, "inserting")
     \/ \E j \in found : request' = [request EXCEPT ![r].job = j, ![r].step = "found"]
  /\ UNCHANGED <<jobVars, keyOf, faults>>

\* Mutant: there is no unique index on user and key.
InsertDuplicate(r) ==
  /\ request[r].step = "inserting"
  /\ \E j \in Jobs :
       /\ CreateJob(j)
       /\ keyOf' = [keyOf EXCEPT ![j] = request[r].key]
       /\ \/ (request' = [request EXCEPT ![r].job = j, ![r].step = "created"] /\ UNCHANGED faults)
          \/ (GoTo(r, "error") /\ Fault)

\* The insert.  A job with the key that appeared since the lookup violates
\* the unique index; nothing maps that error, so it is unexpected.
InsertJob(r) ==
  LET key == request[r].key IN
  /\ request[r].step = "inserting"
  /\ \/ /\ key = NoKey \/ Submitted(key) = {}
        /\ \E j \in Jobs :
             /\ CreateJob(j)
             /\ keyOf' = [keyOf EXCEPT ![j] = key]
             /\ \/ /\ request' = [request EXCEPT ![r].job = j, ![r].step = "created"]
                   /\ UNCHANGED faults
                \/ (GoTo(r, "error") /\ Fault)
     \/ /\ key # NoKey /\ Submitted(key) # {}
        /\ GoTo(r, "error")
        /\ UNCHANGED <<jobVars, keyOf, faults>>

(***************************************************************************)
(* cancelJob                                                               *)
(***************************************************************************)
ReceiveCancellation(r) ==
  /\ request[r].step = "new"
  /\ \E j \in Jobs :
       /\ Exists(j)
       /\ request' = [request EXCEPT ![r] =
                        [@ EXCEPT !.op = "cancel", !.job = j, !.step = "lookup"]]
  /\ UNCHANGED <<jobVars, keyOf, faults>>

FindJobToCancel(r) ==
  /\ request[r].op = "cancel"
  /\ request[r].step = "lookup"
  /\ GoTo(r, IF status[request[r].job] \in ClaimableStatuses THEN "updating" ELSE "notCancellable")
  /\ UNCHANGED <<jobVars, keyOf, faults>>

\* Mutant: the number of updated rows is not looked at.
CancelUnchecked(r) ==
  LET j == request[r].job IN
  /\ request[r].step = "updating"
  /\ CancelJob(j) \/ (status[j] \notin ClaimableStatuses /\ UNCHANGED jobVars)
  /\ GoTo(r, "reading")
  /\ UNCHANGED <<keyOf, faults>>

\* transitionJobStatus.
TransitionJobStatus(r) ==
  LET j == request[r].job IN
  /\ request[r].step = "updating"
  /\ \/ CancelJob(j) /\ ((GoTo(r, "reading") /\ UNCHANGED faults) \/ (GoTo(r, "error") /\ Fault))
     \/ /\ status[j] \notin ClaimableStatuses
        /\ GoTo(r, "conflict")
        /\ UNCHANGED <<jobVars, faults>>
  /\ UNCHANGED keyOf

\* The job is read once more for the answer.
ReadCancelledJob(r) ==
  /\ request[r].step = "reading"
  /\ GoTo(r, "cancelled")
  /\ UNCHANGED <<jobVars, keyOf, faults>>

(***************************************************************************)
(* The specification                                                       *)
(***************************************************************************)
Worker(j) ==
  /\ \/ BecomeDue(j)
     \/ \E w \in Workers :
          ClaimNextJob(w, j) \/ \E n \in AttemptNumbers : Finish(w, j, n)
  /\ UNCHANGED apiVars

ApiNext ==
  \/ \E r \in Requests :
       \/ ReceiveSubmission(r) \/ FindJobByIdempotencyKey(r) \/ InsertJob(r)
       \/ ReceiveCancellation(r) \/ FindJobToCancel(r) \/ TransitionJobStatus(r)
       \/ ReadCancelledJob(r) \/ CallFails(r)
  \/ \E j \in Jobs : Worker(j)

ApiSpec == ApiInit /\ [][ApiNext]_vars

-----------------------------------------------------------------------------
(***************************************************************************)
(* Properties                                                              *)
(***************************************************************************)
\* Keys and requests are well formed.
ApiTypeOK ==
  /\ JobTypeOK
  /\ keyOf \in [Jobs -> Keys \cup {NoKey}]
  /\ request \in [Requests -> Request]
  /\ faults \in Nat

\* However often and however concurrently one key is submitted, and whichever
\* answers are lost, one job exists for it and every client that is answered
\* is told of that job.
OneJobPerKey ==
  \A k \in Keys :
    /\ \A i, j \in Submitted(k) : i = j
    /\ \A r \in Requests :
         request[r].step \in {"created", "found"} /\ request[r].key = k =>
           request[r].job \in Submitted(k)

\* A client that was told its job is cancelled can rely on it: the job is
\* cancelled and none of its attempts is or will be active, and no second
\* request is told to have cancelled it.
CancelledMeansCancelled ==
  \A r \in Requests :
    request[r].op = "cancel" /\ request[r].step \in {"reading", "cancelled"} =>
      /\ status[request[r].job] = "CANCELLED"
      /\ \A n \in AttemptNumbers : attempts[request[r].job][n].status # "PROCESSING"
      /\ \A q \in Requests \ {r} :
           request[q].op = "cancel" /\ request[q].job = request[r].job =>
             request[q].step \notin {"reading", "cancelled"}

\* The API's requests and the workers are callers as JobStore allows them, so
\* everything it guarantees holds for them.
CallsTheStore == JobSpec

(***************************************************************************)
(* What the comments say and the code does not do                          *)
(***************************************************************************)
\* job.service.js: "an existing job created by the same user with that key is
\* returned instead of creating a duplicate record": without database faults
\* no submission with a key fails.
ResubmissionIsAnswered ==
  faults = 0 => \A r \in Requests : request[r].op = "create" => request[r].step # "error"
=============================================================================
