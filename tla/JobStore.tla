------------------------------ MODULE JobStore ------------------------------
(***************************************************************************)
(* The tables jobs, job_attempts and job_logs, and every transaction that  *)
(* writes them: the API's createJob and cancelJob, the worker's claim,     *)
(* completion, retry and dead-letter transactions, and the two recovery    *)
(* transactions.  The callers are arbitrary here: any worker may present   *)
(* any attempt of any job at any time, so what this module guarantees      *)
(* holds however late, often or out of order the processes call it.        *)
(* WorkerFleet composes these actions with the processes that call them.   *)
(*                                                                         *)
(* Atomicity: every transaction that writes an existing job first updates  *)
(* (or SELECTs FOR UPDATE) that job's row and holds its lock until commit, *)
(* so transactions on one job are serialised, and a transaction whose      *)
(* guard matches no row throws and is rolled back as a whole.              *)
(***************************************************************************)
EXTENDS Naturals

CONSTANTS
  Jobs,          \* the job rows that may be submitted
  Workers,       \* the ids of worker_instances rows, one per process run
  MaxAttempts,   \* each job's maxAttempts, fixed by the submission
  AttemptBound,  \* attempt numbers range over 1..AttemptBound
  NoWorker       \* SQL NULL in locked_by_worker_id

ASSUME JobStoreAssumption ==
  /\ AttemptBound \in Nat
  /\ MaxAttempts \in [Jobs -> 1 .. AttemptBound]
  /\ NoWorker \notin Workers

VARIABLES
  status,        \* Job.status, or ABSENT before the row exists
  owner,         \* Job.lockedByWorkerId
  attemptCount,  \* Job.attemptCount
  due,           \* whether Job.availableAt has passed
  attempts,      \* the JobAttempt rows of each job, by attemptNumber
  lastEvent      \* the event of the job's newest JobLog row

jobVars == <<status, owner, attemptCount, due, attempts, lastEvent>>

(***************************************************************************)
(* Vocabulary of the schema                                                *)
(***************************************************************************)
\* The enum also has FAILED, which no code assigns to a job.
ClaimableStatuses == {"SCHEDULED", "QUEUED", "RETRYING"}
TerminalStatuses == {"COMPLETED", "DEAD_LETTER", "CANCELLED"}
JobStatus == {"ABSENT", "PROCESSING"} \cup ClaimableStatuses \cup TerminalStatuses

FinishedAttempt == {"COMPLETED", "FAILED", "TIMED_OUT"}
AttemptStatus == {"NONE", "PROCESSING"} \cup FinishedAttempt

\* The enum also has JOB_FAILED, which no code writes.
LogEvent == {"NONE", "JOB_SCHEDULED", "JOB_QUEUED", "JOB_PROCESSING", "JOB_RETRYING",
             "JOB_COMPLETED", "JOB_DEAD_LETTERED", "JOB_CANCELLED"}

AttemptNumbers == 1 .. AttemptBound
Attempt == [status : AttemptStatus, worker : Workers \cup {NoWorker}]
NoAttempt == [status |-> "NONE", worker |-> NoWorker]
ActiveAttempt(w) == [status |-> "PROCESSING", worker |-> w]

JobInit ==
  /\ status = [j \in Jobs |-> "ABSENT"]
  /\ owner = [j \in Jobs |-> NoWorker]
  /\ attemptCount = [j \in Jobs |-> 0]
  /\ due = [j \in Jobs |-> FALSE]
  /\ attempts = [j \in Jobs |-> [n \in AttemptNumbers |-> NoAttempt]]
  /\ lastEvent = [j \in Jobs |-> "NONE"]

(***************************************************************************)
(* The API: submission and cancellation, and the clock                     *)
(***************************************************************************)
CreateJob(j) ==
  /\ status[j] = "ABSENT"
  /\ \E scheduled \in BOOLEAN :   \* determineInitialStatus
       /\ status' = [status EXCEPT ![j] = IF scheduled THEN "SCHEDULED" ELSE "QUEUED"]
       /\ lastEvent' = [lastEvent EXCEPT ![j] =
                          IF scheduled THEN "JOB_SCHEDULED" ELSE "JOB_QUEUED"]
       /\ due' = [due EXCEPT ![j] = ~scheduled]
  /\ UNCHANGED <<owner, attemptCount, attempts>>

\* Time reaches availableAt, the end of a schedule or of a retry backoff.
BecomeDue(j) ==
  /\ status[j] # "ABSENT"
  /\ ~due[j]
  /\ due' = [due EXCEPT ![j] = TRUE]
  /\ UNCHANGED <<status, owner, attemptCount, attempts, lastEvent>>

\* Mutant: the update repeats no status condition (time of check, time of use).
CancelAnyJob(j) ==
  /\ status[j] # "ABSENT"
  /\ status' = [status EXCEPT ![j] = "CANCELLED"]
  /\ owner' = [owner EXCEPT ![j] = NoWorker]
  /\ UNCHANGED <<attemptCount, due, attempts, lastEvent>>

\* Mutant: running jobs can be cancelled too.
CancelRunningJob(j) ==
  /\ status[j] \in ClaimableStatuses \cup {"PROCESSING"}
  /\ status' = [status EXCEPT ![j] = "CANCELLED"]
  /\ owner' = [owner EXCEPT ![j] = NoWorker]
  /\ UNCHANGED <<attemptCount, due, attempts, lastEvent>>

\* The conditional update of cancelJob: it unlocks the row but writes no log.
CancelJob(j) ==
  /\ status[j] \in ClaimableStatuses
  /\ status' = [status EXCEPT ![j] = "CANCELLED"]
  /\ owner' = [owner EXCEPT ![j] = NoWorker]
  /\ UNCHANGED <<attemptCount, due, attempts, lastEvent>>

(***************************************************************************)
(* The worker's transactions                                               *)
(***************************************************************************)
\* Mutants: the claim query without its status, or without its lock condition.
ClaimableInAnyStatus(j) == due[j] /\ owner[j] = NoWorker
ClaimableWhileLocked(j) == due[j] /\ status[j] \in ClaimableStatuses \cup {"PROCESSING"}

Claimable(j) ==
  /\ status[j] \in ClaimableStatuses
  /\ due[j]
  /\ owner[j] = NoWorker

\* Mutant: the claim does not increment attemptCount.
ClaimWithoutIncrement(w, j) ==
  LET n == attemptCount[j] + 1 IN
  /\ Claimable(j)
  /\ attempts[j][n] = NoAttempt
  /\ status' = [status EXCEPT ![j] = "PROCESSING"]
  /\ owner' = [owner EXCEPT ![j] = w]
  /\ attempts' = [attempts EXCEPT ![j][n] = ActiveAttempt(w)]
  /\ lastEvent' = [lastEvent EXCEPT ![j] = "JOB_PROCESSING"]
  /\ UNCHANGED <<due, attemptCount>>

\* Mutant: a retry after a recovery goes on with the attempt that timed out.
ClaimResumesAttempt(w, j) ==
  LET last == attemptCount[j]
      n == IF last > 0 /\ attempts[j][last].status = "TIMED_OUT" THEN last ELSE last + 1 IN
  /\ Claimable(j)
  /\ status' = [status EXCEPT ![j] = "PROCESSING"]
  /\ owner' = [owner EXCEPT ![j] = w]
  /\ attemptCount' = [attemptCount EXCEPT ![j] = n]
  /\ attempts' = [attempts EXCEPT ![j][n] = ActiveAttempt(w)]
  /\ lastEvent' = [lastEvent EXCEPT ![j] = "JOB_PROCESSING"]
  /\ UNCHANGED due

\* SKIP LOCKED lets a claim pass over any row that a concurrent transaction
\* holds, so at this level the claim may take any claimable job.
ClaimNextJob(w, j) ==
  LET n == attemptCount[j] + 1 IN
  /\ Claimable(j)
  /\ attempts[j][n] = NoAttempt   \* @@unique([jobId, attemptNumber])
  /\ status' = [status EXCEPT ![j] = "PROCESSING"]
  /\ owner' = [owner EXCEPT ![j] = w]
  /\ attemptCount' = [attemptCount EXCEPT ![j] = n]
  /\ attempts' = [attempts EXCEPT ![j][n] = ActiveAttempt(w)]
  /\ lastEvent' = [lastEvent EXCEPT ![j] = "JOB_PROCESSING"]
  /\ UNCHANGED due

\* Mutants: only the job row is guarded, with and without the lock column.
OwnsJob(w, j, n) == status[j] = "PROCESSING" /\ owner[j] = w
JobIsProcessing(w, j, n) == status[j] = "PROCESSING"

\* The two guarded updates every finishing transaction starts with.
OwnsActiveAttempt(w, j, n) ==
  /\ status[j] = "PROCESSING"
  /\ owner[j] = w
  /\ attempts[j][n] = ActiveAttempt(w)

\* What the finishing transactions share: unlock the job, finish the attempt.
FinishAttempt(w, j, n, outcome) ==
  /\ OwnsActiveAttempt(w, j, n)
  /\ owner' = [owner EXCEPT ![j] = NoWorker]
  /\ attempts' = [attempts EXCEPT ![j][n].status = outcome]
  /\ UNCHANGED attemptCount

CompleteClaimedJob(w, j, n) ==
  /\ FinishAttempt(w, j, n, "COMPLETED")
  /\ status' = [status EXCEPT ![j] = "COMPLETED"]
  /\ lastEvent' = [lastEvent EXCEPT ![j] = "JOB_COMPLETED"]
  /\ UNCHANGED due

\* A retry pushes availableAt into the future by the backoff.
Retry(w, j, n, outcome) ==
  /\ FinishAttempt(w, j, n, outcome)
  /\ status' = [status EXCEPT ![j] = "RETRYING"]
  /\ due' = [due EXCEPT ![j] = FALSE]
  /\ lastEvent' = [lastEvent EXCEPT ![j] = "JOB_RETRYING"]

DeadLetter(w, j, n, outcome) ==
  /\ FinishAttempt(w, j, n, outcome)
  /\ status' = [status EXCEPT ![j] = "DEAD_LETTER"]
  /\ lastEvent' = [lastEvent EXCEPT ![j] = "JOB_DEAD_LETTERED"]
  /\ UNCHANGED due

\* attemptsRemain of the job processor and of the recovery service: both
\* decide from the attemptCount they read with the attempt, which is n.
AttemptsRemain(j, n) == n < MaxAttempts[j]

ReleaseJobForRetry(w, j, n) == AttemptsRemain(j, n) /\ Retry(w, j, n, "FAILED")
MoveJobToDeadLetter(w, j, n) == ~AttemptsRemain(j, n) /\ DeadLetter(w, j, n, "FAILED")
RecoverJobForRetry(w, j, n) == AttemptsRemain(j, n) /\ Retry(w, j, n, "TIMED_OUT")
RecoverJobToDeadLetter(w, j, n) == ~AttemptsRemain(j, n) /\ DeadLetter(w, j, n, "TIMED_OUT")

(***************************************************************************)
(* The specification                                                       *)
(***************************************************************************)
Finish(w, j, n) ==
  \/ CompleteClaimedJob(w, j, n)
  \/ ReleaseJobForRetry(w, j, n)
  \/ MoveJobToDeadLetter(w, j, n)
  \/ RecoverJobForRetry(w, j, n)
  \/ RecoverJobToDeadLetter(w, j, n)

JobNext ==
  \E j \in Jobs :
    \/ CreateJob(j)
    \/ BecomeDue(j)
    \/ CancelJob(j)
    \/ \E w \in Workers :
         \/ ClaimNextJob(w, j)
         \/ \E n \in AttemptNumbers : Finish(w, j, n)

JobSpec == JobInit /\ [][JobNext]_jobVars

-----------------------------------------------------------------------------
(***************************************************************************)
(* Properties                                                              *)
(***************************************************************************)
\* Every column holds a value that the code may give it.
JobTypeOK ==
  /\ status \in [Jobs -> JobStatus]
  /\ owner \in [Jobs -> Workers \cup {NoWorker}]
  /\ attemptCount \in [Jobs -> 0 .. AttemptBound]
  /\ due \in [Jobs -> BOOLEAN]
  /\ attempts \in [Jobs -> [AttemptNumbers -> Attempt]]
  /\ lastEvent \in [Jobs -> LogEvent]

\* The lock column and the attempt history agree with the job's status: a
\* job has an active attempt exactly while it is PROCESSING, that attempt is
\* the newest one, and it belongs to the worker holding the lock.  This is
\* what findProcessingJobsLockedByWorker relies on when it takes "the" active
\* attempt of a job, and what cancelJob and the claim query rely on when they
\* read the status without looking at the attempts.
OneActiveAttempt ==
  \A j \in Jobs :
    /\ status[j] = "PROCESSING" <=> owner[j] # NoWorker
    /\ status[j] = "PROCESSING" =>
         attemptCount[j] > 0 /\ attempts[j][attemptCount[j]] = ActiveAttempt(owner[j])
    /\ \A n \in AttemptNumbers :
         attempts[j][n].status = "PROCESSING" => status[j] = "PROCESSING" /\ n = attemptCount[j]

\* The attempts of a job are numbered 1..attemptCount without gaps and every
\* one but the newest was unsuccessful, so no job is run again after an
\* attempt has been recorded COMPLETED, and the job is COMPLETED exactly when
\* its newest attempt is.
AttemptHistory ==
  \A j \in Jobs :
    /\ \A n \in AttemptNumbers :
         /\ attempts[j][n].status = "NONE" <=> n > attemptCount[j]
         /\ attempts[j][n].status = "COMPLETED" <=>
              status[j] = "COMPLETED" /\ n = attemptCount[j]
    /\ status[j] = "COMPLETED" => attemptCount[j] > 0
    /\ status[j] \in {"ABSENT", "SCHEDULED", "QUEUED"} => attemptCount[j] = 0

\* No schedule of claims, failures and recoveries runs a job more often than
\* its maxAttempts: a job that may still be claimed has an attempt left, and
\* a job is dead-lettered only when its budget is used up.
AttemptBudget ==
  \A j \in Jobs :
    /\ attemptCount[j] <= MaxAttempts[j]
    /\ status[j] \in ClaimableStatuses => attemptCount[j] < MaxAttempts[j]
    /\ status[j] = "DEAD_LETTER" => attemptCount[j] = MaxAttempts[j]

JobInv == JobTypeOK /\ OneActiveAttempt /\ AttemptHistory /\ AttemptBudget

FinalStep ==
  \A j \in Jobs :
    /\ status[j] \in TerminalStatuses => status'[j] = status[j] /\ attempts'[j] = attempts[j]
    /\ \A n \in AttemptNumbers :
         attempts[j][n].status \in FinishedAttempt => attempts'[j][n] = attempts[j][n]

\* What was recorded stays recorded: a terminal job and a finished attempt
\* are never written again, by however late a worker or recoverer.
HistoryIsFinal == [][FinalStep]_jobVars

\* The status an attempt's outcome leads to.
StatusAfter(j, outcome) ==
  IF outcome = "COMPLETED" THEN "COMPLETED"
  ELSE IF attemptCount[j] < MaxAttempts[j] THEN "RETRYING" ELSE "DEAD_LETTER"

SettlingStep ==
  \A j \in Jobs :
    status[j] = "PROCESSING" /\ status'[j] # "PROCESSING" =>
      LET outcome == attempts'[j][attemptCount[j]].status IN
      /\ attempts[j][attemptCount[j]].status = "PROCESSING"
      /\ outcome \in FinishedAttempt
      /\ status'[j] = StatusAfter(j, outcome)

\* A worker that lost its job cannot settle it: a job stops being PROCESSING
\* only in the step that finishes its newest attempt, and the outcome of that
\* attempt decides the next status ("verify the current worker lock to prevent
\* stale workers from updating jobs they no longer own").
SettledByCurrentAttempt == [][SettlingStep]_jobVars

-----------------------------------------------------------------------------
(***************************************************************************)
(* The store implements the queue: SCHEDULED, QUEUED and RETRYING are one  *)
(* phase, the lock column is the lease and attemptCount counts the tries.  *)
(***************************************************************************)
PhaseOf(s) ==
  CASE s = "ABSENT" -> "absent"
    [] s \in ClaimableStatuses -> "waiting"
    [] s = "PROCESSING" -> "leased"
    [] s = "COMPLETED" -> "succeeded"
    [] s = "DEAD_LETTER" -> "exhausted"
    [] OTHER -> "withdrawn"

Queue == INSTANCE JobQueue WITH
  Budget <- MaxAttempts, Nobody <- NoWorker,
  phase <- [j \in Jobs |-> PhaseOf(status[j])], holder <- owner, tries <- attemptCount

\* Every behaviour of the tables, under any callers, is one of the queue.
ImplementsQueue == Queue!QueueSpec
=============================================================================
