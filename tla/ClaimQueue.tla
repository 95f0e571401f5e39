----------------------------- MODULE ClaimQueue -----------------------------
(***************************************************************************)
(* The claim transaction of worker.repository.js statement by statement,   *)
(* with the row locks it takes: SELECT ... ORDER BY priority, available_at,*)
(* created_at FOR UPDATE SKIP LOCKED LIMIT 1, then the update that makes   *)
(* the selected job PROCESSING.  JobStore has the claim as one step that   *)
(* may take any claimable job.  Here several claims, a cancellation and    *)
(* the transactions that end an attempt overlap, and the questions are     *)
(* which job a claim takes and whether the job is still claimable when its *)
(* update runs.                                                            *)
(*                                                                         *)
(* PostgreSQL at READ COMMITTED: the SELECT sees the rows committed when it*)
(* starts, sorts those that match, then visits them in that order.  A row  *)
(* that another transaction has locked is passed over.  A row that was     *)
(* changed since is matched again in its newest version.  Changes are seen *)
(* by others, and locks are gone, when the transaction commits.            *)
(***************************************************************************)
EXTENDS Naturals

CONSTANTS
  Jobs,         \* the job rows that may be submitted
  Workers,      \* the worker processes
  Priorities,   \* values of Job.priority: 3 for HIGH, 2 for MEDIUM, 1 for LOW
  MaxAttempts,  \* Job.maxAttempts
  BaseDelay,    \* retryBaseDelayMs
  MaxDelay,     \* retryMaxDelayMs
  MaxTime,      \* bound of the clock that all processes share
  NoWorker,     \* SQL NULL in locked_by_worker_id; no lock on a row
  Canceller     \* the transaction of a cancellation

ASSUME ClaimQueueAssumption ==
  /\ Priorities \subseteq 1 .. 3
  /\ MaxAttempts \in [Jobs -> Nat \ {0}]
  /\ BaseDelay \in Nat \ {0}
  /\ MaxDelay \in Nat /\ BaseDelay <= MaxDelay
  /\ MaxTime \in Nat
  /\ NoWorker \notin Workers
  /\ Canceller \notin Workers \cup {NoWorker}

VARIABLES
  now,        \* the clock
  row,        \* the committed version of each job row
  lock,       \* the transaction that holds the lock of a row
  tx,         \* the claim transaction of each worker
  disturbed   \* history: the rows that others locked or changed since a
              \* worker's SELECT started

queueVars == <<now, row, lock, tx, disturbed>>

(***************************************************************************)
(* The retry delay of job-processor.js, also used by recovery              *)
(***************************************************************************)
Least(a, b) == IF a < b THEN a ELSE b

\* The operator ** on 2; a number too large for JavaScript is Infinity there,
\* of which the cap makes the same.
PowerOfTwo[n \in Nat] == IF n = 0 THEN 1 ELSE 2 * PowerOfTwo[n - 1]

\* Mutant: one doubling too many.
LateRetryDelay(n) == Least(BaseDelay * PowerOfTwo[n], MaxDelay)

\* calculateRetryDelayMs, for the attempt that was the n-th.
RetryDelay(n) == Least(BaseDelay * PowerOfTwo[n - 1], MaxDelay)

(***************************************************************************)
(* State                                                                   *)
(***************************************************************************)
Time == 0 .. MaxTime
ClaimableStatuses == {"SCHEDULED", "QUEUED", "RETRYING"}
JobStatus == ClaimableStatuses \cup
  {"ABSENT", "PROCESSING", "COMPLETED", "DEAD_LETTER", "CANCELLED"}

\* finishedAt is that of the newest JobAttempt, as long as a retry waits; the
\* times are 0 where they are null or no longer compared.
Row == [status : JobStatus, priority : Priorities \cup {0}, owner : Workers \cup {NoWorker},
        attemptCount : Nat, availableAt : Nat, createdAt : Time, finishedAt : Time]
NoRow == [status |-> "ABSENT", priority |-> 0, owner |-> NoWorker, attemptCount |-> 0, availableAt |-> 0,
          createdAt |-> 0, finishedAt |-> 0]

\* A claim is called with a time, selects among the rows left to visit, and
\* has then selected a job or found none.
ClaimStep == {"idle", "called", "visiting", "selected", "none"}
Claim == [step : ClaimStep, claimedAt : Time, rows : SUBSET Jobs, seen : [Jobs -> Nat],
          job : SUBSET Jobs]
NoClaim == [step |-> "idle", claimedAt |-> 0, rows |-> {}, seen |-> [j \in Jobs |-> 0],
            job |-> {}]

Init ==
  /\ now = 0
  /\ row = [j \in Jobs |-> NoRow]
  /\ lock = [j \in Jobs |-> NoWorker]
  /\ tx = [w \in Workers |-> NoClaim]
  /\ disturbed = [w \in Workers |-> {}]

\* Job j is locked or changed by the claim of t, or by none: every other claim
\* that is in progress after the step meets this.
Disturbs(t, j) ==
  disturbed' = [w \in Workers |->
    IF tx'[w].step \notin {"visiting", "selected", "none"} THEN {}
    ELSE IF w = t THEN disturbed[w]
    ELSE disturbed[w] \cup {j}]

Unlocked(j) == lock[j] = NoWorker
Write(j, new) == row' = [row EXCEPT ![j] = new]

Tick == now < MaxTime /\ now' = now + 1 /\ UNCHANGED <<row, lock, tx, disturbed>>

(***************************************************************************)
(* The claim                                                               *)
(***************************************************************************)
\* The WHERE clause of the claim query.
Matches(j, time) ==
  /\ row[j].status \in ClaimableStatuses
  /\ row[j].availableAt <= time
  /\ row[j].owner = NoWorker

\* The ORDER BY of the claim query, of rows with the times at; the order of
\* rows that agree in all three is up to the database.
Before(j, k, at) ==
  \/ row[j].priority > row[k].priority
  \/ /\ row[j].priority = row[k].priority
     /\ \/ at[j] < at[k]
        \/ at[j] = at[k] /\ row[j].createdAt < row[k].createdAt

\* pollNow has one claim in progress at a time.  The runtime may still own jobs
\* whose claim it had to drop; these are not told apart here from the one it
\* executes, during which the code does not claim, so that more is allowed than
\* the code does.  claimedAt is taken before the transaction begins.
CallClaim(w) ==
  /\ tx[w].step \in {"idle", "none"}
  /\ tx' = [tx EXCEPT ![w] = [NoClaim EXCEPT !.step = "called", !.claimedAt = now]]
  /\ disturbed' = [disturbed EXCEPT ![w] = {}]
  /\ UNCHANGED <<now, row, lock>>

StartSelect(w) ==
  /\ tx[w].step = "called"
  /\ tx' = [tx EXCEPT ![w].step = "visiting",
                      ![w].rows = {j \in Jobs : Matches(j, tx[w].claimedAt)},
                      ![w].seen = [j \in Jobs |-> row[j].availableAt]]
  /\ disturbed' = [disturbed EXCEPT ![w] = {j \in Jobs : ~Unlocked(j)}]
  /\ UNCHANGED <<now, row, lock>>

\* Mutant: the first two keys of the ORDER BY swapped.
NextRowsByTime(w) ==
  {j \in tx[w].rows : \A k \in tx[w].rows :
     \/ tx[w].seen[j] < tx[w].seen[k]
     \/ tx[w].seen[j] = tx[w].seen[k] /\ ~Before(k, j, tx[w].seen)}

\* The rows that may be visited next.
NextRows(w) ==
  {j \in tx[w].rows : \A k \in tx[w].rows : ~Before(k, j, tx[w].seen)}

\* SKIP LOCKED, or the newest version of the row no longer matches.
PassOver(w, j) ==
  /\ tx[w].step = "visiting" /\ j \in NextRows(w)
  /\ ~Unlocked(j) \/ ~Matches(j, tx[w].claimedAt)
  /\ tx' = [tx EXCEPT ![w].rows = @ \ {j}]
  /\ UNCHANGED <<now, row, lock, disturbed>>

\* Mutant: no FOR UPDATE.
SelectWithoutLock(w, j) ==
  /\ tx[w].step = "visiting" /\ j \in NextRows(w)
  /\ Unlocked(j) /\ Matches(j, tx[w].claimedAt)
  /\ tx' = [tx EXCEPT ![w].step = "selected", ![w].job = {j}, ![w].rows = {}]
  /\ UNCHANGED <<now, row, lock, disturbed>>

Select(w, j) ==
  /\ tx[w].step = "visiting" /\ j \in NextRows(w)
  /\ Unlocked(j) /\ Matches(j, tx[w].claimedAt)
  /\ tx' = [tx EXCEPT ![w].step = "selected", ![w].job = {j}, ![w].rows = {}]
  /\ lock' = [lock EXCEPT ![j] = w]
  /\ Disturbs(w, j)
  /\ UNCHANGED <<now, row>>

\* claimableJobs[0] is undefined, so claimNextJob returns null.
FindNothing(w) ==
  /\ tx[w].step = "visiting" /\ tx[w].rows = {}
  /\ tx' = [tx EXCEPT ![w].step = "none", ![w].seen = NoClaim.seen]
  /\ UNCHANGED <<now, row, lock, disturbed>>

\* The update, the new attempt and the log row, and COMMIT.  The update has
\* no condition but the id of the selected row.
CommitClaim(w, j) ==
  /\ tx[w].step = "selected" /\ j \in tx[w].job
  /\ Write(j, [row[j] EXCEPT !.status = "PROCESSING", !.owner = w, !.attemptCount = @ + 1])
  /\ lock' = [lock EXCEPT ![j] = NoWorker]
  /\ tx' = [tx EXCEPT ![w] = NoClaim]
  /\ Disturbs(w, j)
  /\ UNCHANGED now

\* The transaction fails, times out, or its connection is lost.
RollBackClaim(w) ==
  /\ tx[w].step \in {"called", "visiting", "selected"}
  /\ lock' = [j \in Jobs |-> IF lock[j] = w THEN NoWorker ELSE lock[j]]
  /\ tx' = [tx EXCEPT ![w] = NoClaim]
  /\ disturbed' = [disturbed EXCEPT ![w] = {}]
  /\ UNCHANGED <<now, row>>

(***************************************************************************)
(* The other writers of the table                                          *)
(***************************************************************************)
\* createJob, with the time of the request or any availableAt of the client;
\* one that has passed is stored as it is.
Submit(j, priority, availableAt) ==
  /\ row[j].status = "ABSENT"
  /\ Write(j, [NoRow EXCEPT !.status = IF availableAt > now THEN "SCHEDULED" ELSE "QUEUED",
                            !.priority = priority, !.availableAt = availableAt,
                            !.createdAt = now])
  /\ UNCHANGED <<now, lock, tx>>
  /\ Disturbs(NoWorker, j)

\* Mutant: the status is not looked at again when the lock is there.
LockToCancelAny(j) ==
  /\ Unlocked(j) /\ row[j].status # "ABSENT"
  /\ lock' = [lock EXCEPT ![j] = Canceller]
  /\ UNCHANGED <<now, row, tx>>
  /\ Disturbs(NoWorker, j)

\* The UPDATE of transitionJobStatus waits for the lock, then looks at the
\* newest version of the row; a row that does not match is left alone.
LockToCancel(j) ==
  /\ Unlocked(j) /\ row[j].status \in ClaimableStatuses
  /\ lock' = [lock EXCEPT ![j] = Canceller]
  /\ UNCHANGED <<now, row, tx>>
  /\ Disturbs(NoWorker, j)

EndCancel(j) ==
  /\ lock[j] = Canceller
  /\ \/ Write(j, [row[j] EXCEPT !.status = "CANCELLED", !.owner = NoWorker])
     \/ UNCHANGED row   \* rolled back
  /\ lock' = [lock EXCEPT ![j] = NoWorker]
  /\ UNCHANGED <<now, tx>>
  /\ Disturbs(NoWorker, j)

\* The transactions of the owner, or of a recovery in its name, wait for the
\* lock and are one step here: nobody else may change a PROCESSING row.  The
\* time they record is older: a recovery takes it before it reads the jobs, so
\* that the attempt it ends may have begun later.
EndAttempt(w, j, endedAt, status, availableAt) ==
  /\ row[j].status = "PROCESSING" /\ row[j].owner = w
  /\ Unlocked(j)
  /\ endedAt <= now
  /\ Write(j, [row[j] EXCEPT !.status = status, !.owner = NoWorker, !.availableAt = availableAt,
                             !.finishedAt = IF status = "RETRYING" THEN endedAt ELSE 0])
  /\ UNCHANGED <<now, lock, tx>>
  /\ Disturbs(NoWorker, j)

Complete(w, j, endedAt) == EndAttempt(w, j, endedAt, "COMPLETED", row[j].availableAt)

\* Mutant: retried without a delay.
RetryAtOnce(w, j, endedAt) ==
  row[j].attemptCount < MaxAttempts[j] /\ EndAttempt(w, j, endedAt, "RETRYING", endedAt)

ReleaseForRetry(w, j, endedAt) ==
  /\ row[j].attemptCount < MaxAttempts[j]
  /\ EndAttempt(w, j, endedAt, "RETRYING", endedAt + RetryDelay(row[j].attemptCount))

MoveToDeadLetter(w, j, endedAt) ==
  /\ row[j].attemptCount >= MaxAttempts[j]
  /\ EndAttempt(w, j, endedAt, "DEAD_LETTER", row[j].availableAt)

(***************************************************************************)
(* The specification                                                       *)
(***************************************************************************)
ClaimNext(w) ==
  \/ CallClaim(w) \/ StartSelect(w) \/ FindNothing(w) \/ RollBackClaim(w)
  \/ \E j \in Jobs : PassOver(w, j) \/ Select(w, j) \/ CommitClaim(w, j)

AttemptEnds(w, j) ==
  \E endedAt \in Time :
    Complete(w, j, endedAt) \/ ReleaseForRetry(w, j, endedAt) \/ MoveToDeadLetter(w, j, endedAt)

Next ==
  \/ Tick
  \/ \E w \in Workers : ClaimNext(w)
  \/ \E j \in Jobs :
       \/ \E p \in Priorities, availableAt \in Time : Submit(j, p, availableAt)
       \/ LockToCancel(j) \/ EndCancel(j)
       \/ \E w \in Workers : AttemptEnds(w, j)

Spec == Init /\ [][Next]_queueVars

-----------------------------------------------------------------------------
(***************************************************************************)
(* Properties                                                              *)
(***************************************************************************)
\* Every column and every transaction holds a value that the code gives it.
ClaimQueueTypeOK ==
  /\ now \in Time
  /\ row \in [Jobs -> Row]
  /\ lock \in [Jobs -> Workers \cup {NoWorker, Canceller}]
  /\ tx \in [Workers -> Claim]
  /\ disturbed \in [Workers -> SUBSET Jobs]

\* The update of the claim names the row by its id alone and repeats no
\* condition: that is safe because, from the SELECT to COMMIT, the row stays
\* locked, claimable and available.  This is why JobStore may have the claim
\* as one guarded step.
SelectedIsClaimable ==
  \A w \in Workers : tx[w].step = "selected" =>
    \E j \in Jobs :
      /\ tx[w].job = {j}
      /\ lock[j] = w
      /\ Matches(j, tx[w].claimedAt)

\* "Claim ordering: 1. Highest priority first. 2. Earliest availability time.
\* 3. Oldest creation time": a claim takes a job, or returns null, only if
\* every better job, or every job, that was there to take has been locked or
\* changed by somebody else since its SELECT started.  SKIP LOCKED allows no
\* other way for an important job to be passed over.  Better is what the
\* SELECT saw: a job that is claimed and recovered while it looks may have
\* moved in the order and is still visited at its old place.
BestFirst ==
  \A w \in Workers, k \in Jobs :
    k \notin disturbed[w] /\ Matches(k, tx[w].claimedAt) =>
      /\ tx[w].step # "none"
      /\ tx[w].step = "selected" =>
           \A j \in tx[w].job : ~Before(k, j, tx[w].seen)

\* The delay between the end of an attempt and the next one.
DelayKept ==
  \A j \in Jobs :
    row[j].status = "RETRYING" /\ row'[j].status = "PROCESSING" =>
      tx[row'[j].owner].claimedAt >=
        row[j].finishedAt + RetryDelay(row[j].attemptCount)

\* A retried job is not claimed before its backoff has passed, whatever the
\* claims in progress saw when they started.
BackoffRespected == [][DelayKept]_queueVars

\* The delay as its comment describes it: base, then twice as much for each
\* further attempt until the cap, which is never exceeded.
DelayAsDescribed[n \in Nat \ {0}] ==
  IF n = 1 THEN BaseDelay
  ELSE IF 2 * DelayAsDescribed[n - 1] < MaxDelay THEN 2 * DelayAsDescribed[n - 1]
  ELSE MaxDelay

\* A job that waits for its retry becomes available when that delay is over,
\* and calculateRetryDelayMs would go on to compute it for every later
\* attempt, also long after the cap has been reached.
BackoffIsExact ==
  \A j \in Jobs : row[j].status = "RETRYING" =>
    /\ row[j].availableAt = row[j].finishedAt + RetryDelay(row[j].attemptCount)
    /\ \A n \in row[j].attemptCount .. row[j].attemptCount + 8 : RetryDelay(n) = DelayAsDescribed[n]

-----------------------------------------------------------------------------
(***************************************************************************)
(* With its locks and statements the claim still implements the queue.     *)
(***************************************************************************)
PhaseOf(s) ==
  CASE s = "ABSENT" -> "absent"
    [] s \in ClaimableStatuses -> "waiting"
    [] s = "PROCESSING" -> "leased"
    [] s = "COMPLETED" -> "succeeded"
    [] s = "DEAD_LETTER" -> "exhausted"
    [] OTHER -> "withdrawn"

Queue == INSTANCE JobQueue WITH
  Budget <- MaxAttempts, Nobody <- NoWorker,
  phase <- [j \in Jobs |-> PhaseOf(row[j].status)],
  holder <- [j \in Jobs |-> row[j].owner],
  tries <- [j \in Jobs |-> row[j].attemptCount]

\* Every behaviour of the transactions is one of the queue: no two claims
\* take one job, and none takes a job that is cancelled meanwhile.
ClaimsImplementQueue == Queue!QueueSpec
=============================================================================
