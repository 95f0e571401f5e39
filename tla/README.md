# DispatchIQ in TLA+

DispatchIQ is a job queue on PostgreSQL. Clients submit jobs to an HTTP API;
worker processes claim them from the `jobs` table, run a handler and record the
outcome. Execution is at least once: a job whose worker dies is recovered by
another worker and run again, at most `maxAttempts` times.

## 1. The system

| Component | State | Operations |
| --- | --- | --- |
| Job tables (`worker.repository.js`, `stale-worker.repository.js`, API `job.repository.js`) | `jobs`, `job_attempts`, `job_logs` | create, cancel, claim, complete, release for retry, dead-letter, recover for retry, recover to dead letter: one transaction each |
| Worker runtime (`worker-runtime.js`, `job-processor.js`) | `started/stopping/stopped`, `activePoll`, `activeExecution`, the claim in memory | poll, claim, set BUSY, run handler, record outcome, set ONLINE, stop |
| Worker rows (`worker-instance.*`) | `worker_instances.status`, `lastHeartbeatAt` | register, online, busy, available, heartbeat, stopping, offline |
| Stale-worker recovery (`stale-worker.service.js`, `recovery-scheduler.js`) | batch, target, snapshot of its locked jobs | scan, condemn (UNHEALTHY), read jobs, recover each, OFFLINE |
| Worker process (`worker.js`) | started, shutting down | start, roll back a failed start, shut down |
| API process (`server.js`) | `isShuttingDown`, the HTTP server | start, graceful shutdown |
| Submission and cancellation (`job.service.js`) | none of its own | find by idempotency key, create; find, check, cancel |
| Sessions (`auth.*`) | `users`, `refresh_tokens` | register, login, refresh (rotate), logout, revoke all |
| API keys (`api-key.*`, `authenticate-api-key.js`) | `api_keys` | create, revoke, authenticate and touch `lastUsedAt` |
| Metrics, worker health, dashboard (`metrics.*`, `workers/*`, `dashboard.service.js`) | none | count by parallel queries, classify |

Components meet only in the database. A job row is shared by the API, the worker
that claims it and the recovery of every process; a worker row by its process and
every recovery. Nothing is sent from process to process, so what one of them
knows about the others is as old as its last query: this is where the hazards are.

PROJECT.json lists each hazard at its line with the properties that cover it.

### How the parts interact

* A client's request is one HTTP call; the services turn it into a few database
  calls with `await` between them (find, check, write, read again). A second
  request, or a worker, may run between any two of them.
* A worker process runs three timers in one event loop: the poll (claim, set
  BUSY, run the handler, record the outcome, set ONLINE), the heartbeat, and the
  stale-worker recovery. Each skips a tick while its last run is unsettled.
  `shutdown()` stops them in the order recovery, heartbeat, poll.
* Recovery of any process may condemn the row of any other whose
  `lastHeartbeatAt` is older than `staleAfterMs`, and then finishes the attempts
  of the condemned worker in its name.
* A report of the dashboard sends all its queries at once and outside any
  transaction: each sees the tables at a moment of its own.
* The API process serves until a signal, then lets its connections end; it has no
  timer that would force its exit.
* Every write but one repeats its precondition in its `WHERE` clause and looks at the
  number of rows it changed. The exception is the update of a claim, which names the
  row its `SELECT ... FOR UPDATE SKIP LOCKED` has locked by id alone. This, and
  the transactions, are all the synchronisation there is.

### What is hard, and what makes each part correct

| Component | Hard behaviour | Correct if |
| --- | --- | --- |
| Job tables | late, repeated and concurrent transactions on one job | one active attempt at most, gap-free history, budget kept, nothing recorded is rewritten |
| Claim query | rows locked, changed, claimed and released while it looks | the row stays claimable until the update; a better job is passed over only if somebody else touched it; no retry before its backoff |
| Worker runtime | lost answers, lock lost while the handler runs, stop during a claim | a settled or recovered attempt cannot be settled again; every claim is executed or recovered |
| Recovery | several recoverers, late heartbeats, crash half-way | one recoverer per worker, only of dead processes when heartbeats are in time, every lock of a dead process released |
| Worker process | signals, failed start, runs in progress while stopping | shutdown ends, disconnects last, the row's transitions never collide |
| API process | requests on kept connections after the signal, clients that hang up, queries left behind by an error | it exits, with 0 and after the last waiting client unless a call fails |
| Dashboard | torn reads, different status lists and thresholds | no waiting job and no silent worker hidden; right when nothing moves |
| Submission, cancellation | check, then act | one job per key, an answered cancellation holds |
| Sessions, API keys | one token or key used by several requests at once | exchanged once, revoked at once, refused only if dead |

## 2. The modules

```
JobQueue  <=implements=  JobStore  <-- WorkerFleet <-- Dashboard   (<-- EXTENDS)
          <=implements=  ClaimQueue    JobStore <-- JobApi
WorkerProcess, ApiServer <-- Processes
Sessions, ApiKeys        <-- Credentials
```

| Module | Models | State and its source | Actions |
| --- | --- | --- | --- |
| `JobQueue` | what a client may rely on: a job waits, is leased to one worker, ends; at most `Budget` leases | none in the code: the specification to implement | submit, withdraw, lease, and the three ends of a lease |
| `JobStore` | every transaction that writes `jobs`, `job_attempts`, `job_logs`, with arbitrary callers and arguments | `status`, `owner` (`lockedByWorkerId`), `attemptCount`, `due` (`availableAt` passed), `attempts`, `lastEvent` (the newest log row) | `CreateJob`, `BecomeDue`, `CancelJob`, `ClaimNextJob`, `CompleteClaimedJob`, `ReleaseJobForRetry`, `MoveJobToDeadLetter`, `RecoverJobForRetry`, `RecoverJobToDeadLetter` |
| `ClaimQueue` | the claim transaction statement by statement beside the other writers, and the retry delay | `row` (the job rows with priority and times), `lock` (PostgreSQL's row locks), `tx` (per claim: time, rows left to visit, what it saw), `now`; `disturbed` is history | call, `SELECT`, visit or pass over a row, commit, roll back; submit, cancel in two steps, end an attempt |
| `WorkerFleet` | many processes on those tables | `row` and `stale` are the `worker_instances` row; `phase`, `poll`, `claim`, `rec` are the memory of a process | one per database call, together with the synchronous code up to the next call |
| `WorkerProcess` | one process from the inside | the flags of `worker.js`, `worker-runtime.js`, `heartbeat.js`, `recovery-scheduler.js`: timers, run in progress, progress of start, stop, shutdown | one per stretch between two awaits |
| `ApiServer` | the API process around its requests | `server`, `exitCode` (`server.js`), `link` and `handler` per request | listen, arrive, a call is answered, hang up, signal, close, disconnect |
| `Processes` | the two kinds of process side by side | those of `WorkerProcess` and `ApiServer` | theirs |
| `Dashboard` | `getSystemHealth` with its queries beside `WorkerFleet` | `report` (limits and answers so far), `silent` (60 s without heartbeat); `during` is history | send the queries, one answer each, a step of the fleet |
| `JobApi` | `createJob` and `cancelJob` beside workers | `keyOf` (`idempotencyKey`), and per request what it has read | one per database call |
| `Sessions` | register, login, refresh, logout | `users`, `token` (the `refresh_tokens` rows), `held` (tokens clients know), requests | one per database call, and expiry |
| `ApiKeys` | create, authenticate, revoke | `keys` (the rows with their time stamps), calls, `clock` | one per database call, and the clock |
| `Credentials` | sessions and API keys in one instance | those of `Sessions` and `ApiKeys` | theirs; no property relates the two, so one of them moves per behaviour |

`JobStore` lets anybody call any transaction with any worker, job and attempt
number. What it guarantees therefore does not depend on how `WorkerFleet` or
`JobApi` call it, and holds for both: they extend it and are proved to take only
its steps. The `MC` modules hold the constants that a `.cfg` cannot express and
the symmetry sets. `*Proofs` modules hold the theorems. A definition marked
"Mutant" is an erroneous variant of the one after it; no specification uses it.

### Abstractions

* **Transactions are atomic.** PostgreSQL row locks serialise the transactions on
  one job and each repeats its condition in the update, so a conditional update
  with its transaction is one action. The claim of `JobStore` may take any
  claimable job; `ClaimQueue` shows why it may be one guarded step, and in which
  order it takes jobs. What `ClaimQueue` assumes of PostgreSQL (READ COMMITTED,
  rows visited in the order of the snapshot, changed rows matched again) is
  said in its header. There a runtime may claim while it owns a job, as the code
  does after a claim it had to drop; it may also do so while it executes one,
  which the code does not, so its safety properties hold of more than the code.
* **A call has two outcomes for its caller.** It commits and is answered, commits
  and the answer is lost, or fails without effect (`Answer`, `Refused`,
  `CallFails`). The process learns the same, an error, in the last two. Commit
  and answer are one step. What could come between them is the process's own
  `stop()`, which the code looks for at each answer: after a claim or an outcome has
  committed, `TakeUpClaim` and `Settle` therefore have both continuations, the
  one of an answer before `stop()` and the one of an answer after it. A crash with
  a call in flight is a crash before or after it.
* **A heartbeat in flight when `stop()` begins** is waited for by `stop()`; in
  `WorkerFleet` it counts as committed before. `WorkerProcess` has it as a run
  of its own.
* **Time** is a boolean where only "older than" matters (`stale`, `due`,
  `expired`) and a bounded counter in `ApiKeys` and `ClaimQueue`, where time
  stamps are compared. In `Dashboard` the limits of a report are the sets of rows
  that lie before them.
  `lastHeartbeatAt` of rows outside STARTING, ONLINE and BUSY is not compared by
  the code and not tracked.
* **A process is one run of it**: `registerWorker` creates a new row at each
  start, so a restart is another element of `Workers`.
* **The answer of a report** is not the table of numbers but what is decided from
  them: the queries that enter a classification are modelled, the others (throughput,
  averages, ages) are not.
* **Payloads**, types, names, error texts and logging to the console
  are left out; of the `job_logs` table the newest event is kept.

## 3. The runs

Every passing run checks its properties over all reachable states of its
instance; a run that is expected to fail shows one sentence of the repository's
own text that the code does not keep.

| Run | Instance | Checks |
| --- | --- | --- |
| `fleet_chaos` | 2 processes, 1 job of 2 tries, a crash, a failed or unanswered call, late heartbeats, signals | `OneRecoverer`, `AttemptRunsOnce`, `NoReturn`, `Fenced`: whoever comes late, a stale worker is recovered by one process, no attempt is executed twice, a row never becomes active again, and a process whose attempt was ended by recovery changes no job |
| `fleet_serving` | 2 processes, 2 jobs of 2 tries, a crash, a failed call, heartbeats in time, no signals, fair | `ExclusiveExecution`, `ExecutionIsCurrent`: no job runs twice at once. `NothingStranded`: until a call fails or a second process crashes, no lock is forgotten. `CrashedJobsRecovered`, `JobsEnd`: unless a call fails, dead locks are released and every job ends |
| `claim_queue` | 2 claims, 2 jobs, 2 priorities, a budget of 1 and one of 2, 2 instants | `SelectedIsClaimable`: the update by id is safe. `BestFirst`: the order of the comment, and exactly when it may be broken. `BackoffIsExact`, `BackoffRespected`: the delay is the one described, and is waited for. `ClaimsImplementQueue` |
| `job_api` | 3 requests, 2 jobs, 1 key, 2 workers, a failed call | `OneJobPerKey`, `CancelledMeansCancelled`, and what the tables promise under arbitrary workers: `OneActiveAttempt`, `AttemptHistory`, `HistoryIsFinal`, `SettledByCurrentAttempt`, `ImplementsQueue` (which contains the attempt budget) |
| `processes` | 1 worker process, 2 failing calls; 1 API process, 2 requests, a failing call; fair | `TransitionsAreLegal`, `DisconnectIsLast`, `NoOverlap`, `ShutdownSettles` of the worker: whatever is in progress the shutdown comes to its end, with the error of the first call that failed; `ShutdownIsGraceful`, `SignalEndsServer` of the API |
| `credentials` | 4 requests, 2 addresses, 4 tokens, a failed call; 3 calls, 1 key, 3 instants | `RotatedOnce`, `OnlyActiveTokensRotate`, `OneRegistration`, `OnlyLostRegistrationsFail`, `RefusedTokenIsDead`; `OneRevocation`, `RevocationIsImmediate`, `RevokedRowIsFrozen` |
| `dashboard` | a fleet of 2 processes and 1 job with a crash; one report at a time, one step of the fleet between its answers | `WaitingJobIsReported`, `SilentWorkerIsReported`: torn reads hide neither. `QuietReportIsRight`: the classifications are those of the comments, and the status lists of the API those of the worker; since the rates are rounded to two digits, execution is critical from a failure rate of 50 % on, may be from 49.99 % on, and is not below |
| `duplicate_submission` | as `job_api`, 1 worker | refuted: `ResubmissionIsAnswered` |
| `graceful_exit` | 1 process, 1 job, signals | refuted: `GracefulExitOwnsNothing` |
| `drain_recovered` | 2 processes, 1 job, signals | refuted: `DrainIsUndisturbed` |
| `recovery_fault` | 2 processes, 1 job, a crash, a failed call, fair | refuted: `LaterRecoveryAttempt` |
| `dead_fleet` | 1 process, 1 job, a crash | refuted: `DeadFleetIsCritical` |

### Bounds, and why they suffice

* Two tries per job: a first attempt, a retry by the same or another process, and
  exhaustion all occur. `AttemptBound` is one more than the budget in most runs, so that
  an attempt beyond it would be an ordinary state.
* Two processes: every step of one is interleaved with every step of the other,
  and each may recover the other. Recovery of a third by two at once needs three
  processes; `OneRecoverer` is proved for any number.
* One crash leaves a survivor. With two crashes nobody is left to recover, and
  the liveness properties would be false for that reason alone.
* One failed call: each place where one call fails is reached. In `processes` the
  worker has two, so that a run in progress and the stop that waits for it can both fail.
* Two claims: one looks while the other locks, commits, or rolls back. Two
  jobs: one is better than the other, and a job can be claimed, recovered and
  retried while a claim looks. Two instants: a job is scheduled for later, is
  submitted with a time that has passed, or its backoff ends later.
  `BackoffIsExact` looks at eight attempts beyond each retry, well past the cap. The
  theorems hold for any number of each.
* `MaxMoves` = 1: one step of the fleet between any two of the seven answers is
  what a torn read needs; each further one multiplies the states by the fleet's.
* Two HTTP requests: one in flight and one that takes over its kept connection.
* Requests: enough for two of the operations that race to overlap with a third
  request that observes or disturbs them. Symmetry is used over requests,
  workers, jobs and tokens, and only where no liveness property is checked.
* Deadlock is not checked: a fleet whose jobs are terminal and whose processes
  have ended, and a set of requests all answered, have nothing left to do.

### Fairness

`FleetFairness` says that time passes (`BecomeDue`, `HeartbeatLapses`), that a
running process is scheduled and its calls are answered, that a handler ends, and
that recovery runs. The timers are `setInterval` and Node's event loop is fair
among ready callbacks; the handlers of the repository are finite. It is weak
fairness throughout, per action: each such action stays enabled until it is taken
or another makes it pointless. Nothing is assumed of clients, signals, crashes
and failing calls, nor of heartbeats: that they are in time is the constant
`SlowHeartbeats = FALSE`. `ProcessFairness` assumes the same of one
process and nothing of `Tick` and of signals. `ServerFairness` says that calls are
answered and that idle connections end (Node closes them, `server.close()` at once);
of clients it assumes that they send finitely many requests and none opens a
connection without ever sending one on it. Nothing in `server.js` bounds how long
`server.close()` waits for such a connection, which is left to Node and the network.

## 4. What the code does not do as written

The runs that end in a counterexample, each quoted in full in PROJECT.json:

1. `duplicate_submission`: of two concurrent submissions with one key the loser
   violates the unique index and gets 500 instead of the existing job. A
   repetition after the winner has committed is answered properly.
2. `graceful_exit`: a claim that commits after `stop()` was called is dropped in
   memory and stays locked by a worker that then goes OFFLINE. No recovery looks
   at OFFLINE rows.
3. `drain_recovered`: the heartbeat stops when draining begins while the row is still
   BUSY, so a handler longer than `staleAfterMs` is recovered during a graceful
   shutdown.
4. `recovery_fault`: a recovery that fails after the row became UNHEALTHY is not
   attempted again, because scans select STARTING, ONLINE and BUSY.
5. `dead_fleet`: the queue's health counts worker rows by status. When all
   processes have crashed nobody condemns their rows, so a queue with waiting jobs
   that nobody will serve is "degraded" for ever, never "critical".

The models also contain behaviours that no text of the repository excludes and
that are no findings: `cancelJob` writes no log row, and no
code writes `JOB_CANCELLED`; a live process that was recovered goes on polling with
an OFFLINE row, and each job it then claims stays locked; a failed `setWorkerAvailable` leaves a row BUSY for good and
strands every later claim; a registration that loses the race for an address is
answered 500; any error of a token rotation is answered 401; a rotation whose
answer is lost leaves the client without a token; `lastUsedAt` of a key may move
backwards; a cluster is reported healthy once if its ailing worker is condemned
between two queries of the report; a handler whose client has hung up may still run
when Prisma is disconnected.

## 5. What is proved

The theorems hold for every value of the constants: any number of jobs, workers,
requests, tokens and keys, any attempt budgets, any number of crashes and failing
calls. They use the named assumptions of the modules and nothing else:
`JobStoreAssumption` (budgets are between 1 and `AttemptBound`, and no worker is
called `NoWorker`), `FleetAssumption`, `ApiAssumption`, `SessionAssumption`,
`ApiKeyAssumption`, `ClaimQueueAssumption`, `ProcessAssumption` (bounds are
numbers, the "none" values are not members, the base delay does not exceed the cap),
and `DashboardAssumption` (jobs and workers are finitely many, as what is counted must be). The
bounds `MaxFaults`, `MaxCrashes` and `MaxTime` are arbitrary numbers.

**Job tables** (`JobStoreProofs`). `JobInv` is the conjunction of the type
invariant with `OneActiveAttempt`, `AttemptHistory` and `AttemptBudget`. None of
the three is inductive alone: that a claim opens attempt `attemptCount + 1` on a
free number follows from the history; that finishing attempt `n` unlocks the
right job needs the one active attempt to be the newest, and that a released job
has a try left needs the budget. The proof has one lemma per group of
transactions (those that leave the attempts alone, the claim, the finish) and a
common lemma for the five finishing transactions, which differ in outcome and next status only.
From `JobInv` follow the action properties `HistoryIsFinal` and
`SettledByCurrentAttempt`, and `ImplementsQueue`: every step of the tables maps to
a step of `JobQueue` or to a stutter.

**Claims** (`ClaimQueueProofs`). `ClaimInv` says that a claim locks the row it has
selected and no other (`LocksAreHeld`), what a row may hold in each status, and that a
row nobody has touched since a `SELECT` began is still to be visited by it, or no
better than what it selected (`ClaimsAreFair`). The last is what makes `BestFirst`
inductive: the property speaks of the end of a search, the invariant of every moment of
it. `SelectedIsClaimable` follows from the locks, `BackoffRespected` from the row's
`availableAt`, and with the budget every commit maps to a step of `JobQueue`.
`PowerOfTwo` and `DelayAsDescribed` are recursive functions. That they exist, and that
`calculateRetryDelayMs` computes for every attempt the delay its comment describes
(`DelayIsAsDescribed`), is proved by induction, stated over sets of numbers
(`Inductive`, `Iteration`) because the library's induction theorem takes an operator.
`BackoffIsExact` and `ClaimQueueTypeOK` rest on it.

**Fleet** (`WorkerFleetProofs`). `FleetInv` adds `HeldClaims` (a polling loop
past its claim holds one, a recovery in progress has a target) and
`OneRecoverer`. The latter is inductive because a target's row has left the
statuses in which it can be condemned, and `NoReturn` keeps it out of them.
Every step of a process is then a step of `JobStore` or leaves it alone, so
`FleetSpec` implements `JobSpec` and, through it, `JobQueue`, and inherits the
table properties. `Fenced` needs no more: a settling call presents the claim that is
held, and succeeds only while its attempt is active.

`AttemptRunsOnce` is inductive together with `ClaimsAreCounted`: the number of every
claim in memory is at most the job's `attemptCount`, no transaction ever lowers
that count, and a claim takes the next number, which nobody can hold yet. With
the budget of the tables, the handlers started for a job are at most
`maxAttempts` (`TriesAreBudgeted`), whatever crashes or is answered late.

**Serving fleet** (`FleetServingProofs`). With heartbeats in time and no
shutdown, `ServingInv` adds that only crashed or exited processes grow stale, so
only those are recovered (`OnlyDeadAreRecovered`), and that whoever executes
holds the lock and the active attempt (`ClaimsAreHeld`). The second needs the
first: a lock is lost only to a transaction in the name of its owner, and
those of recovery name a dead process. `ExclusiveExecution` and
`ExecutionIsCurrent` follow, for any number of processes and faults.

`NothingStranded` (theorem `NoLockIsForgotten`) holds until a call fails or a second
process crashes. `TidyInv` adds four facts to `ServingInv`: the row of a live process says
what it does (`RowsAreExpected`), what a recovery has read is still locked by its
dead target (`SnapshotsHold`), a failing execution still has its lock
(`FailuresAreHeld`), and every lock is in the hands of its living owner, or of a
recovery, or still to be found by a scan (`LocksInHand`). They depend on one
another: a lock is lost for good if `setWorkerBusy` is refused, which
`RowsAreExpected` excludes, or if a recovery stops in the middle, which needs a
refused call that `SnapshotsHold` excludes (`CallsAreNotRefused`).

**API** (`JobApiProofs`). `ApiInv` adds to `JobInv` that a cancellation past its first
step names an existing job and that a confirmed one is the only one of its job, which
is CANCELLED. `OneJobPerKey` and `CancelledMeansCancelled` follow, and `ApiSpec`
implements `JobSpec`.

**Sessions and API keys** (`CredentialsProofs`). The invariant of the sessions joins
`RotatedOnce`, what a request past its lookup knows of its token, that one request at
most has created the user of an address, and the two properties about errors. It
is kept because rows only age: a token goes from absent to active to revoked and an
expiry is never taken back. That of the keys says that the requests in progress name
existing keys with a time stamp other than null, and `OneRevocation`; the two
action properties follow from it. A behaviour of both together is a behaviour of
each (`CredentialsAreIndependent`), so every property holds of the system
(`CallersAreKnown`).

**Processes** (`ProcessesProofs`). `ProcessInv` says for each step of start,
shutdown and stop of a worker process which timers and runs it has already ended
(`StartIsInOrder`, `StopIsInOrder`), that a run is noted exactly while it is in progress
(`RunsAreNoted`), and which status the row has while no call failed (`RowIsExpected`).
`NoOverlap`, `DisconnectIsLast` and `TransitionsAreLegal` each need several of them: a
disconnect is last because nothing that was stopped comes back. `ServerInv` of the API
process says that the exit code and the open links agree with how far the shutdown is;
`ShutdownIsGraceful` follows for any number of requests. The two are independent
(`ProcessesAreIndependent`), and what is proved of one holds beside the other.

**Dashboard** (`DashboardProofs`). A report reads what the fleet writes, so the fleet with
reports is the fleet (`ReportsDisturbNothing`). `ReportInv` relates each answer already
given to the moment of its query: a job that could be claimed throughout is among
those counted (`WaitingIsCounted`), a fleet without active workers throughout is counted so
(`UnmannedIsCounted`), a silent worker is in the count (`SilenceIsCounted`), and when
nothing moved every answer is that of now (`QuietAnswers`). Lemmas about
cardinalities turn "is among those counted" into the comparisons the classification
makes, and one about integer division bounds the rounding of the rates.

PROJECT.json lists the theorems with the properties they state.

### Only model-checked

* Liveness (`CrashedJobsRecovered`, `JobsEnd`, `ShutdownSettles`,
  `SignalEndsServer`): temporal properties under fairness and ENABLED are outside what
  the prover handles. Every other property of a passing run is a theorem.
* The five refutations are counterexamples of TLC.

## 6. What is not modelled

Routing, validation, authorisation and error mapping, which are functions of one
request; rate limiting, which a library does in the memory of one process; handlers,
which simulate work; listing and paging of jobs, keys and workers, and the numbers of
the metrics nothing is decided from; sample data (`seed.js`); configuration, logging,
cryptography; the Prisma client and PostgreSQL, whose promises are assumptions here;
the web application, which is empty. PROJECT.json gives the reason for each.

## 7. Plan

Done, in this order: `JobQueue`, `JobStore`, `WorkerFleet`, `JobApi`, `Sessions`,
`ApiKeys`, `WorkerProcess`; then `ClaimQueue`, `ApiServer` with `Processes`, and
`Dashboard`, with the runs and theorems above.

Then proofs of all that remained model-checked among the safety properties:
`NothingStranded`, the exact retry delay, `ShutdownIsGraceful` with any number of
requests, the reports of the dashboard, and that each attempt runs once.

What would add most next:

1. That the life of a process in `WorkerProcess` implements the one in `WorkerFleet`
   (`phase` and `poll` as functions of its flags), by a specification of one process's
   life and row that both implement.
2. The sound part of the refuted sentences as theorems: a submission that is repeated
   after the winner has committed is answered, and a graceful exit with no claim in
   flight and no failed call owns nothing.
3. The age of the oldest claimable job and the throughput counts of the metrics, if
   decisions come to depend on them.
