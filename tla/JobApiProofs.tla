---------------------------- MODULE JobApiProofs ----------------------------
(***************************************************************************)
(* What the submission and cancellation requests promise for any number of *)
(* requests, keys, jobs and faults, beside any workers.                    *)
(***************************************************************************)
EXTENDS JobApi, JobStoreProofs

\* Requests change a job only after they were received, and a request that
\* was told of a cancellation looks at a job that is cancelled.
RequestsHoldJobs ==
  \A r \in Requests :
    /\ request[r].step # "new" => request[r].op \in {"create", "cancel"}
    /\ request[r].step = "inserting" => request[r].op = "create"
    /\ request[r].step \in {"updating", "reading", "cancelled"} => request[r].op = "cancel"
    /\ request[r].op = "cancel" =>
         request[r].job \in Jobs /\ Exists(request[r].job) /\ request[r].step # "new"

\* A confirmed cancellation is of a cancelled job, and of no other request.
CancelledOnce ==
  \A r \in Requests :
    request[r].op = "cancel" /\ request[r].step \in {"reading", "cancelled"} =>
      /\ status[request[r].job] = "CANCELLED"
      /\ \A q \in Requests \ {r} :
           request[q].op = "cancel" /\ request[q].job = request[r].job =>
             request[q].step \notin {"reading", "cancelled"}

\* The inductive invariant.
ApiInv == JobInv /\ ApiTypeOK /\ RequestsHoldJobs /\ OneJobPerKey /\ CancelledOnce

-----------------------------------------------------------------------------
(***************************************************************************)
(* The API and the workers call the tables as JobStore allows              *)
(***************************************************************************)
\* Each request writes the tables only through createJob's insert and
\* cancelJob's conditional update.
LEMMA ApiCallsStore == ApiInv /\ [ApiNext]_vars => [JobNext]_jobVars
<1> SUFFICES ASSUME ApiInv, [ApiNext]_vars PROVE [JobNext]_jobVars
  OBVIOUS
<1>1. ASSUME NEW r \in Requests, InsertJob(r) PROVE [JobNext]_jobVars
  BY <1>1 DEF InsertJob, JobNext
<1>2. ASSUME NEW r \in Requests, TransitionJobStatus(r) PROVE [JobNext]_jobVars
  <2>1. request[r].job \in Jobs
    BY <1>2 DEF TransitionJobStatus, ApiInv, RequestsHoldJobs
  <2> QED
    BY <1>2, <2>1 DEF TransitionJobStatus, JobNext
<1>3. ASSUME NEW j \in Jobs, Worker(j) PROVE [JobNext]_jobVars
  BY <1>3 DEF Worker, JobNext
<1>4. CASE UNCHANGED vars
  BY <1>4 DEF vars
<1> QED
  BY <1>1, <1>2, <1>3, <1>4
  DEF ApiNext, ReceiveSubmission, FindJobByIdempotencyKey, ReceiveCancellation,
      FindJobToCancel, ReadCancelledJob, CallFails

\* What a request does to the jobs it does not write.
JobsOnlyGrow ==
  \A k \in Jobs :
    /\ Exists(k) => Exists(k)'
    /\ status[k] = "CANCELLED" => status'[k] = "CANCELLED"

\* No step deletes a job or takes a cancellation back.
LEMMA ApiOnlyGrows ==
  ASSUME ApiInv, [ApiNext]_vars
  PROVE  JobsOnlyGrow /\ JobInv'
<1>1. [JobNext]_jobVars /\ JobInv
  BY ApiCallsStore DEF ApiInv
<1>2. JobInv'
  BY <1>1, JobNextInv
<1>3. CASE UNCHANGED jobVars
  BY <1>2, <1>3 DEF jobVars, JobsOnlyGrow, Exists
<1>4. CASE JobNext
  <2>0. status \in [Jobs -> JobStatus]
    BY <1>1 DEF JobInv, JobTypeOK
  <2>1. PICK j \in Jobs :
          \/ CreateJob(j) \/ BecomeDue(j) \/ CancelJob(j)
          \/ \E w \in Workers : ClaimNextJob(w, j)
          \/ \E w \in Workers : \E n \in AttemptNumbers : Finish(w, j, n)
    BY <1>4 DEF JobNext
  <2>2. CASE CreateJob(j) \/ BecomeDue(j) \/ CancelJob(j)
    <3>1. \/ status' = status
          \/ /\ status[j] # "CANCELLED"
             /\ \E s \in {"SCHEDULED", "QUEUED", "CANCELLED"} : status' = [status EXCEPT ![j] = s]
      BY <2>2 DEF CreateJob, BecomeDue, CancelJob, ClaimableStatuses
    <3> QED
      BY <1>2, <2>0, <3>1 DEF JobsOnlyGrow, Exists
  <2>3. CASE \E w \in Workers : ClaimNextJob(w, j)
    <3>1. status[j] \in ClaimableStatuses /\ status' = [status EXCEPT ![j] = "PROCESSING"]
      BY <1>1, <2>3, ClaimFrame
    <3> QED
      BY <1>2, <2>0, <3>1 DEF JobsOnlyGrow, Exists, ClaimableStatuses
  <2>4. CASE \E w \in Workers : \E n \in AttemptNumbers : Finish(w, j, n)
    <3>1. PICK w \in Workers, n \in AttemptNumbers : Finish(w, j, n)
      BY <2>4
    <3>2. PICK outcome \in FinishedAttempt, s \in {"COMPLETED", "RETRYING", "DEAD_LETTER"} :
            FinishAttempt(w, j, n, outcome) /\ status' = [status EXCEPT ![j] = s]
      BY <1>1, <3>1, FinishOutcome
    <3>3. status[j] = "PROCESSING"
      BY <3>2 DEF FinishAttempt, OwnsActiveAttempt
    <3> QED
      BY <1>2, <2>0, <3>2, <3>3 DEF JobsOnlyGrow, Exists
  <2> QED
    BY <1>2, <2>1, <2>2, <2>3, <2>4
<1> QED
  BY <1>1, <1>3, <1>4

\* Workers neither create nor cancel.
LEMMA WorkersKeepJobs ==
  ASSUME JobInv, NEW j \in Jobs, Worker(j)
  PROVE  \A k \in Jobs : Exists(k)' => Exists(k)
<1>1. CASE BecomeDue(j)
  BY <1>1 DEF BecomeDue, Exists
<1>2. CASE \E w \in Workers : ClaimNextJob(w, j)
  BY <1>2, ClaimFrame DEF Exists, JobInv, JobTypeOK, ClaimableStatuses
<1>3. CASE \E w \in Workers : \E n \in AttemptNumbers : Finish(w, j, n)
  <2>1. PICK w \in Workers, n \in AttemptNumbers : Finish(w, j, n)
    BY <1>3
  <2>2. PICK outcome \in FinishedAttempt, s \in {"COMPLETED", "RETRYING", "DEAD_LETTER"} :
          FinishAttempt(w, j, n, outcome) /\ status' = [status EXCEPT ![j] = s]
    BY <2>1, FinishOutcome
  <2>3. status[j] = "PROCESSING"
    BY <2>2 DEF FinishAttempt, OwnsActiveAttempt
  <2> QED
    BY <2>2, <2>3 DEF Exists, JobInv, JobTypeOK
<1> QED
  BY <1>1, <1>2, <1>3 DEF Worker

-----------------------------------------------------------------------------
(***************************************************************************)
(* How a step moves a request and the keys                                 *)
(***************************************************************************)
\* What the step of one request writes into it, by what it found.
RequestMoves(r) ==
  \/ /\ request[r].step = "new" /\ request'[r].op = "create"
     /\ request'[r].step \in {"inserting", "lookup"}
  \/ /\ request[r].step = "new" /\ request'[r].op = "cancel" /\ request'[r].step = "lookup"
     /\ request'[r].job \in Jobs /\ Exists(request'[r].job)
  \/ /\ request[r].op = "create" /\ request'[r].op = "create"
     /\ request'[r].key = request[r].key
     /\ \/ request'[r].step = "found" /\ request'[r].job \in Submitted(request[r].key)
        \/ /\ request'[r].step = "created" /\ request'[r].job \in Jobs
           /\ status'[request'[r].job] # "ABSENT" /\ keyOf'[request'[r].job] = request[r].key
        \/ request'[r].step \in {"inserting", "error"}
  \/ /\ request[r].op = "cancel" /\ request'[r].op = "cancel"
     /\ request'[r].key = request[r].key /\ request'[r].job = request[r].job
     /\ \/ request'[r].step \in {"updating", "notCancellable", "conflict", "error"}
        \/ /\ request'[r].step = "reading"
           /\ status[request[r].job] \in ClaimableStatuses
           /\ status'[request[r].job] = "CANCELLED"
        \/ request[r].step = "reading" /\ request'[r].step = "cancelled"

\* Only an insertion gives a job its key, and no key that is in use.
KeysMove ==
  \/ keyOf' = keyOf /\ \A k \in Jobs : Exists(k)' => Exists(k)
  \/ \E j \in Jobs, key \in Keys \cup {NoKey} :
       /\ ~Exists(j)
       /\ keyOf' = [keyOf EXCEPT ![j] = key]
       /\ \A k \in Jobs \ {j} : Exists(k)' => Exists(k)
       /\ key = NoKey \/ Submitted(key) = {}

\* A step moves at most one request.
OneMoves ==
  /\ request' \in [Requests -> Request]
  /\ faults' \in Nat
  /\ KeysMove
  /\ \/ request' = request
     \/ \E r \in Requests : RequestMoves(r) /\ \A q \in Requests \ {r} : request'[q] = request[q]

\* The request a step leaves behind is typed, and so are all others.
LEMMA RequestWritten ==
  ASSUME request \in [Requests -> Request], NEW r \in Requests, NEW to \in Request,
         request' = [request EXCEPT ![r] = to]
  PROVE  /\ request' \in [Requests -> Request]
         /\ request'[r] = to
         /\ \A q \in Requests \ {r} : request'[q] = request[q]
  OBVIOUS

\* The requests that read or fail write neither jobs nor keys.
LEMMA ReadersMove ==
  ASSUME ApiInv, NEW r \in Requests,
         \/ ReceiveSubmission(r) \/ FindJobByIdempotencyKey(r) \/ ReceiveCancellation(r)
         \/ FindJobToCancel(r) \/ ReadCancelledJob(r) \/ CallFails(r)
  PROVE  OneMoves
<1>1. /\ request \in [Requests -> Request] /\ faults \in Nat
      /\ keyOf' = keyOf /\ status' = status
  BY DEF ApiInv, ApiTypeOK, jobVars, ReceiveSubmission, FindJobByIdempotencyKey,
         ReceiveCancellation, FindJobToCancel, ReadCancelledJob, CallFails
<1>2. KeysMove
  BY <1>1 DEF KeysMove, Exists
<1>0. request[r] \in Request
  BY <1>1
<1>3. CASE ReceiveSubmission(r)
  <2>1. PICK key \in Keys \cup {NoKey} :
          request' = [request EXCEPT ![r] =
                        [@ EXCEPT !.op = "create", !.key = key,
                                  !.step = IF key = NoKey THEN "inserting" ELSE "lookup"]]
    BY <1>3 DEF ReceiveSubmission
  <2> DEFINE to == [request[r] EXCEPT !.op = "create", !.key = key,
                                      !.step = IF key = NoKey THEN "inserting" ELSE "lookup"]
  <2>2. to \in Request /\ to.op = "create" /\ to.step \in {"inserting", "lookup"}
    BY <1>0 DEF Request, Step
  <2>3. request' = [request EXCEPT ![r] = to]
    BY <2>1
  <2> HIDE DEF to
  <2>4. request' \in [Requests -> Request] /\ request'[r] = to
        /\ \A q \in Requests \ {r} : request'[q] = request[q]
    BY <1>1, <2>2, <2>3, RequestWritten
  <2>5. faults' = faults /\ request[r].step = "new"
    BY <1>3 DEF ReceiveSubmission
  <2> QED
    BY <1>1, <1>2, <2>2, <2>4, <2>5 DEF OneMoves, RequestMoves
<1>4. CASE FindJobByIdempotencyKey(r)
  <2>1. request[r].op = "create" /\ faults' = faults
    BY <1>4 DEF FindJobByIdempotencyKey
  <2>2. CASE GoTo(r, "inserting")
    BY <1>1, <1>2, <2>1, <2>2 DEF GoTo, OneMoves, RequestMoves, Request, Step
  <2>3. CASE \E j \in Submitted(request[r].key) :
               request' = [request EXCEPT ![r].job = j, ![r].step = "found"]
    <3>1. PICK j \in Submitted(request[r].key) :
                 request' = [request EXCEPT ![r].job = j, ![r].step = "found"]
      BY <2>3
    <3>2. j \in Jobs
      BY DEF Submitted
    <3> DEFINE to == [request[r] EXCEPT !.job = j, !.step = "found"]
    <3>3. to \in Request /\ to.op = "create" /\ to.key = request[r].key
          /\ to.step = "found" /\ to.job = j
      BY <1>0, <2>1, <3>2 DEF Request, Step, Answers
    <3>4. request' = [request EXCEPT ![r] = to]
      BY <1>1, <3>1
    <3> HIDE DEF to
    <3>5. request' \in [Requests -> Request] /\ request'[r] = to
          /\ \A q \in Requests \ {r} : request'[q] = request[q]
      BY <1>1, <3>3, <3>4, RequestWritten
    <3> QED
      BY <1>1, <1>2, <2>1, <3>3, <3>5 DEF OneMoves, RequestMoves
  <2> QED
    BY <1>4, <2>2, <2>3 DEF FindJobByIdempotencyKey
<1>5. CASE ReceiveCancellation(r)
  <2>1. PICK j \in Jobs :
          /\ Exists(j)
          /\ request' = [request EXCEPT ![r] =
                           [@ EXCEPT !.op = "cancel", !.job = j, !.step = "lookup"]]
    BY <1>5 DEF ReceiveCancellation
  <2> DEFINE to == [request[r] EXCEPT !.op = "cancel", !.job = j, !.step = "lookup"]
  <2>2. to \in Request /\ to.op = "cancel" /\ to.step = "lookup" /\ to.job = j
    BY <1>0 DEF Request, Step
  <2>3. request' = [request EXCEPT ![r] = to]
    BY <2>1
  <2> HIDE DEF to
  <2>4. request' \in [Requests -> Request] /\ request'[r] = to
        /\ \A q \in Requests \ {r} : request'[q] = request[q]
    BY <1>1, <2>2, <2>3, RequestWritten
  <2>5. faults' = faults /\ request[r].step = "new"
    BY <1>5 DEF ReceiveCancellation
  <2> QED
    BY <1>1, <1>2, <2>1, <2>2, <2>4, <2>5 DEF OneMoves, RequestMoves
<1>6. CASE FindJobToCancel(r)
  BY <1>1, <1>2, <1>6
  DEF FindJobToCancel, OneMoves, RequestMoves, Request, Step, Answers, GoTo
<1>7. CASE ReadCancelledJob(r)
  BY <1>1, <1>2, <1>7
  DEF ReadCancelledJob, OneMoves, RequestMoves, Request, Step, Answers, GoTo, ApiInv,
      RequestsHoldJobs
<1>8. CASE CallFails(r)
  <2>1. request[r].op \in {"create", "cancel"}
    BY <1>1, <1>8 DEF CallFails, ApiInv, RequestsHoldJobs, Request
  <2> QED
    BY <1>1, <1>2, <1>8, <2>1
    DEF CallFails, OneMoves, RequestMoves, Request, Step, Answers, GoTo, Fault
<1> QED
  BY <1>3, <1>4, <1>5, <1>6, <1>7, <1>8

\* The two requests that write.
LEMMA WritersMove ==
  ASSUME ApiInv, JobsOnlyGrow, NEW r \in Requests, InsertJob(r) \/ TransitionJobStatus(r)
  PROVE  OneMoves
<1>1. /\ request \in [Requests -> Request] /\ faults \in Nat
      /\ keyOf \in [Jobs -> Keys \cup {NoKey}] /\ status \in [Jobs -> JobStatus]
  BY DEF ApiInv, ApiTypeOK, JobTypeOK
<1>2. CASE InsertJob(r)
  <2>1. request[r].op = "create" /\ request[r].key \in Keys \cup {NoKey}
    BY <1>1, <1>2 DEF InsertJob, ApiInv, RequestsHoldJobs, Request
  <2>2. CASE UNCHANGED <<jobVars, keyOf, faults>> /\ GoTo(r, "error")
    BY <1>1, <2>1, <2>2
    DEF OneMoves, RequestMoves, KeysMove, Exists, jobVars, GoTo, Request, Step, Answers
  <2>3. CASE ~(UNCHANGED <<jobVars, keyOf, faults>> /\ GoTo(r, "error"))
    <3>1. PICK j \in Jobs :
            /\ CreateJob(j)
            /\ keyOf' = [keyOf EXCEPT ![j] = request[r].key]
            /\ \/ /\ request' = [request EXCEPT ![r].job = j, ![r].step = "created"]
                  /\ UNCHANGED faults
               \/ (GoTo(r, "error") /\ Fault)
      BY <1>2, <2>3 DEF InsertJob
    <3>2. ~Exists(j) /\ status' \in [Jobs -> JobStatus] /\ Exists(j)'
          /\ \A k \in Jobs \ {j} : status'[k] = status[k]
      BY <1>1, <3>1 DEF CreateJob, Exists, JobStatus, ClaimableStatuses
    <3>3. request[r].key = NoKey \/ Submitted(request[r].key) = {}
      BY <1>2, <2>3 DEF InsertJob
    <3>4. KeysMove
      BY <2>1, <3>1, <3>2, <3>3 DEF KeysMove, Exists
    <3>5. CASE request' = [request EXCEPT ![r].job = j, ![r].step = "created"] /\ UNCHANGED faults
      <4>1. keyOf'[j] = request[r].key
        BY <1>1, <3>1
      <4> DEFINE to == [request[r] EXCEPT !.job = j, !.step = "created"]
      <4>2. to \in Request /\ to.op = "create" /\ to.key = request[r].key
            /\ to.step = "created" /\ to.job = j
        BY <1>1, <2>1 DEF Request, Step, Answers
      <4>3. request' = [request EXCEPT ![r] = to]
        BY <1>1, <3>5
      <4> HIDE DEF to
      <4>4. request' \in [Requests -> Request] /\ request'[r] = to
            /\ \A q \in Requests \ {r} : request'[q] = request[q]
        BY <1>1, <4>2, <4>3, RequestWritten
      <4>5. RequestMoves(r)
        BY <2>1, <3>2, <4>1, <4>2, <4>4 DEF RequestMoves, Exists
      <4> QED
        BY <1>1, <3>4, <3>5, <4>4, <4>5 DEF OneMoves
    <3>6. CASE GoTo(r, "error") /\ Fault
      BY <1>1, <2>1, <3>4, <3>6 DEF OneMoves, RequestMoves, GoTo, Fault, Request, Step, Answers
    <3> QED
      BY <3>1, <3>5, <3>6
  <2> QED
    BY <2>2, <2>3
<1>3. CASE TransitionJobStatus(r)
  <2>1. request[r].op = "cancel" /\ request[r].job \in Jobs /\ Exists(request[r].job)
    BY <1>3 DEF TransitionJobStatus, ApiInv, RequestsHoldJobs
  <2>2. CASE CancelJob(request[r].job)
    <3>1. /\ status[request[r].job] \in ClaimableStatuses
          /\ status' = [status EXCEPT ![request[r].job] = "CANCELLED"]
      BY <2>2 DEF CancelJob
    <3>2. keyOf' = keyOf
      BY <1>3 DEF TransitionJobStatus
    <3>3. KeysMove
      BY <1>1, <2>1, <3>1, <3>2 DEF KeysMove, Exists
    <3>4. \/ GoTo(r, "reading") /\ UNCHANGED faults
          \/ GoTo(r, "error") /\ Fault
      BY <1>3, <3>1 DEF TransitionJobStatus
    <3> QED
      BY <1>1, <2>1, <3>1, <3>3, <3>4
      DEF OneMoves, RequestMoves, GoTo, Fault, Request, Step, Answers
  <2>3. CASE UNCHANGED <<jobVars, faults>> /\ GoTo(r, "conflict")
    BY <1>1, <1>3, <2>1, <2>3
    DEF TransitionJobStatus, OneMoves, RequestMoves, KeysMove, Exists, jobVars, GoTo, Request,
        Step, Answers
  <2> QED
    BY <1>3, <2>2, <2>3 DEF TransitionJobStatus
<1> QED
  BY <1>2, <1>3

\* Workers move neither requests nor keys.
LEMMA StepsMoveOne ==
  ASSUME ApiInv, [ApiNext]_vars
  PROVE  OneMoves
<1>0. request \in [Requests -> Request] /\ faults \in Nat
  BY DEF ApiInv, ApiTypeOK
<1>1. JobsOnlyGrow
  BY ApiOnlyGrows
<1>2. ASSUME NEW j \in Jobs, Worker(j) PROVE OneMoves
  BY <1>0, <1>2, WorkersKeepJobs DEF ApiInv, Worker, apiVars, OneMoves, KeysMove
<1>3. CASE UNCHANGED vars
  BY <1>0, <1>3 DEF vars, jobVars, apiVars, OneMoves, KeysMove, Exists
<1> QED
  BY <1>1, <1>2, <1>3, ReadersMove, WritersMove DEF ApiNext

-----------------------------------------------------------------------------
(***************************************************************************)
(* The invariant                                                           *)
(***************************************************************************)
\* Nothing is submitted before the first request.
LEMMA ApiInitInv == ApiInit => ApiInv
<1> SUFFICES ASSUME ApiInit PROVE ApiInv
  OBVIOUS
<1>1. JobInv
  BY JobInitInv DEF ApiInit
<1>2. ApiTypeOK
  BY <1>1, ApiAssumption DEF ApiInit, ApiTypeOK, JobInv, Request, NewRequest, Step
<1>3. RequestsHoldJobs /\ OneJobPerKey /\ CancelledOnce
  BY ApiAssumption
  DEF ApiInit, JobInit, NewRequest, RequestsHoldJobs, OneJobPerKey, CancelledOnce, Submitted,
      Exists
<1> QED
  BY <1>1, <1>2, <1>3 DEF ApiInv

\* Every step of a request, a worker or a fault keeps it.
LEMMA ApiNextInv == ApiInv /\ [ApiNext]_vars => ApiInv'
<1> SUFFICES ASSUME ApiInv, [ApiNext]_vars PROVE ApiInv'
  OBVIOUS
<1>1. JobInv' /\ JobsOnlyGrow /\ OneMoves
  BY ApiOnlyGrows, StepsMoveOne
<1>2. /\ keyOf \in [Jobs -> Keys \cup {NoKey}] /\ RequestsHoldJobs /\ OneJobPerKey
      /\ CancelledOnce /\ request \in [Requests -> Request]
  BY DEF ApiInv, ApiTypeOK
<1>3. ApiTypeOK'
  <2>1. keyOf' \in [Jobs -> Keys \cup {NoKey}]
    BY <1>1, <1>2 DEF OneMoves, KeysMove
  <2> QED
    BY <1>1, <2>1 DEF ApiTypeOK, JobInv, OneMoves
<1>4. RequestsHoldJobs'
  BY <1>1, <1>2 DEF RequestsHoldJobs, JobsOnlyGrow, OneMoves, RequestMoves, Submitted
<1>5. ASSUME NEW k \in Keys
      PROVE  /\ Submitted(k) \subseteq Submitted(k)'
             /\ \A i, j \in Submitted(k)' : i = j
  BY <1>1, <1>2, <1>5, ApiAssumption
  DEF OneMoves, KeysMove, JobsOnlyGrow, Submitted, Exists, OneJobPerKey
<1>6. OneJobPerKey'
  <2>1. ASSUME NEW k \in Keys, NEW r \in Requests,
               request'[r].step \in {"created", "found"}, request'[r].key = k
        PROVE  request'[r].job \in Submitted(k)'
    <3>1. CASE request'[r] = request[r]
      BY <1>2, <1>5, <2>1, <3>1 DEF OneJobPerKey
    <3>2. CASE RequestMoves(r)
      <4>1. request'[r].key = request[r].key
        BY <2>1, <3>2 DEF RequestMoves
      <4>2. CASE request'[r].job \in Submitted(request[r].key)
        BY <1>5, <2>1, <4>1, <4>2
      <4>3. CASE /\ request'[r].job \in Jobs
                 /\ status'[request'[r].job] # "ABSENT" /\ keyOf'[request'[r].job] = request[r].key
        BY <2>1, <4>1, <4>3 DEF Submitted, Exists
      <4> QED
        BY <2>1, <3>2, <4>2, <4>3 DEF RequestMoves
    <3> QED
      BY <1>1, <3>1, <3>2 DEF OneMoves
  <2> QED
    BY <1>5, <2>1 DEF OneJobPerKey
<1>7. CancelledOnce'
  BY <1>1, <1>2 DEF OneMoves, RequestMoves, JobsOnlyGrow, CancelledOnce, ClaimableStatuses,
     RequestsHoldJobs
<1> QED
  BY <1>1, <1>3, <1>4, <1>6, <1>7 DEF ApiInv

\* The types of the tables and the requests.
THEOREM ApiInvariant == ApiSpec => []ApiInv
  BY ApiInitInv, ApiNextInv, PTL DEF ApiSpec

\* One job exists for an idempotency key, and every answered submission of the
\* key names it.
THEOREM OneJobForEveryKey == ApiSpec => []OneJobPerKey
<1>1. ApiInv => OneJobPerKey
  BY DEF ApiInv
<1> QED
  BY <1>1, ApiInvariant, PTL

\* A confirmed cancellation is final, unique and leaves no active attempt.
THEOREM CancellationsHold == ApiSpec => []CancelledMeansCancelled
<1>1. ApiInv => CancelledMeansCancelled
  BY DEF ApiInv, JobInv, OneActiveAttempt, CancelledOnce, CancelledMeansCancelled,
         RequestsHoldJobs
<1> QED
  BY <1>1, ApiInvariant, PTL

\* Requests and workers are callers as JobStore allows them.
THEOREM ApiUsesStore == ApiSpec => CallsTheStore
<1>1. ApiInit => JobInit
  BY DEF ApiInit
<1> QED
  BY <1>1, ApiInvariant, ApiCallsStore, PTL DEF ApiSpec, CallsTheStore, JobSpec

\* So what the tables guarantee under arbitrary callers, the API keeps.
COROLLARY ApiKeepsHistory ==
  ApiSpec => HistoryIsFinal /\ SettledByCurrentAttempt /\ ImplementsQueue
  BY ApiUsesStore, HistoryStaysFinal, JobsSettleByCurrentAttempt, JobStoreImplementsQueue, PTL
     DEF CallsTheStore
=============================================================================
