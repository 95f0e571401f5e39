------------------------------ MODULE Dashboard ------------------------------
(***************************************************************************)
(* GET /dashboard/health beside the fleet it reports on: getSystemHealth   *)
(* of dashboard.service.js with the queries of the metrics and of the      *)
(* worker service that its answer depends on.  They are sent together      *)
(* (Promise.all) outside any transaction, so each sees the tables at a     *)
(* moment of its own, in any order, while WorkerFleet moves jobs and       *)
(* worker rows.  The three states of the answer are computed from the      *)
(* answers of the queries as the code does; the properties compare them    *)
(* with the tables and with the processes themselves.                      *)
(***************************************************************************)
EXTENDS WorkerFleet, FiniteSets

CONSTANT MaxMoves  \* bound: steps of the fleet while one report is made

\* A table has finitely many rows.
ASSUME DashboardAssumption == MaxMoves \in Nat /\ IsFiniteSet(Jobs) /\ IsFiniteSet(Workers)

VARIABLES
  silent,  \* the workers whose lastHeartbeatAt is 60 s old; staleAfterMs of
           \* the recovery, which stale stands for, is 30 s
  report,  \* the request: what lies before its time, and its answers so far
  during   \* history: what the fleet did while the report was made

dashboardVars == <<silent, report, during>>
allVars == <<vars, dashboardVars>>

Queries == {"jobsByStatus", "claimable", "workersByStatus", "attemptsByStatus",
            "clusterByStatus", "clusterActive", "clusterStale"}
NoAnswers == [q \in {} |-> 0]

\* silentThen and dueThen: rows whose time stamp was at or before the limit
\* that the request computed from its own time, and has not moved since.
NoReport == [asked |-> FALSE, silentThen |-> {}, dueThen |-> {}, answer |-> NoAnswers]
Quiet == [moves |-> 0, touched |-> {}, waiting |-> {}, unmanned |-> FALSE]

DashboardInit == FleetInit /\ silent = {} /\ report = NoReport /\ during = Quiet

(***************************************************************************)
(* The queries of metrics.repository.js and worker.repository.js           *)
(***************************************************************************)
CountByStatus(S, statusOf, statuses) ==
  [s \in statuses |-> Cardinality({x \in S : statusOf[x] = s})]

\* Mutant: jobs that wait for a retry are forgotten.
FirstAttemptsOnly == {"SCHEDULED", "QUEUED"}

\* CLAIMABLE_JOB_STATUSES, a list of its own beside that of the claim query.
ReportedClaimableStatuses == {"SCHEDULED", "QUEUED", "RETRYING"}

\* ACTIVE_WORKER_STATUSES, and the sum of the metrics service.
ActiveWorkerStatuses == {"STARTING", "ONLINE", "BUSY"}

Rows == {w \in Workers : row[w] # "NONE"}
AttemptRows == {a \in Jobs \X AttemptNumbers : attempts[a[1]][a[2]] # NoAttempt}

CountClaimableJobs ==
  Cardinality({j \in report.dueThen : status[j] \in ReportedClaimableStatuses /\ owner[j] = NoWorker})

CountActiveWorkers == Cardinality({w \in Rows : row[w] \in ActiveWorkerStatuses})

\* Mutant: only workers between two jobs are compared.
CountStaleIdle == Cardinality({w \in report.silentThen : row[w] = "ONLINE"})

CountStaleWorkers ==
  Cardinality({w \in report.silentThen : row[w] \in ActiveWorkerStatuses})

\* The enum values FAILED of jobs, which no code assigns, are counted too.
ResultOf(q) ==
  CASE q = "jobsByStatus" -> CountByStatus(Jobs, status, JobStatus \cup {"FAILED"})
    [] q = "claimable" -> CountClaimableJobs
    [] q \in {"workersByStatus", "clusterByStatus"} -> CountByStatus(Rows, row, WorkerStatus)
    [] q = "attemptsByStatus" ->
         CountByStatus(AttemptRows, [a \in AttemptRows |-> attempts[a[1]][a[2]].status], AttemptStatus)
    [] q = "clusterActive" -> CountActiveWorkers
    [] q = "clusterStale" -> CountStaleWorkers

(***************************************************************************)
(* The classification                                                      *)
(***************************************************************************)
\* Mutant: a worker that runs a job is not counted.
IdleInMetrics ==
  LET count == report.answer["workersByStatus"] IN
  count["STARTING"] + count["ONLINE"]

ActiveInMetrics ==
  LET count == report.answer["workersByStatus"] IN
  count["STARTING"] + count["ONLINE"] + count["BUSY"]

\* deriveQueueHealth.
QueueHealth ==
  LET jobs == report.answer["jobsByStatus"]
      claimable == report.answer["claimable"]
  IN IF claimable > 0 /\ ActiveInMetrics = 0 THEN "critical"
     ELSE IF jobs["FAILED"] > 0 \/ jobs["DEAD_LETTER"] > 0 \/ claimable > 0 THEN "degraded"
     ELSE "healthy"

\* getWorkerHealth and deriveWorkerHealth, which renames its states.
WorkerHealth ==
  IF report.answer["clusterActive"] = 0 THEN "critical"
  ELSE IF report.answer["clusterStale"] > 0 \/ report.answer["clusterByStatus"]["UNHEALTHY"] > 0
  THEN "degraded" ELSE "healthy"

\* Hundredths of a percent, rounded half up; no ended attempt makes 0.
Rate(part, whole) == IF whole = 0 THEN 0 ELSE (20000 * part + whole) \div (2 * whole)

\* calculatePercentage, deriveExecutionHealth.
ExecutionHealth ==
  LET count == report.answer["attemptsByStatus"]
      ended == count["COMPLETED"] + count["FAILED"] + count["TIMED_OUT"]
      pressure == Rate(count["FAILED"], ended) + Rate(count["TIMED_OUT"], ended)
  IN IF pressure >= 5000 THEN "critical"
     ELSE IF count["FAILED"] > 0 \/ count["TIMED_OUT"] > 0 THEN "degraded" ELSE "healthy"

\* resolveOverallHealth.
SystemHealth ==
  LET states == {QueueHealth, WorkerHealth, ExecutionHealth} IN
  IF "critical" \in states THEN "critical"
  ELSE IF "degraded" \in states THEN "degraded" ELSE "healthy"

(***************************************************************************)
(* The request and the fleet                                               *)
(***************************************************************************)
Answered == report.asked /\ DOMAIN report.answer = Queries

\* For the history: no worker row is active.
Unmanned == \A w \in Workers : row[w] \notin StaleCandidateStatuses

\* asOf is taken and all queries are sent.
GetSystemHealth ==
  /\ ~report.asked
  /\ report' = [NoReport EXCEPT !.asked = TRUE, !.silentThen = silent,
                                !.dueThen = {j \in Jobs : due[j]}]
  /\ during' = [Quiet EXCEPT !.waiting = {j \in Jobs : Claimable(j)}, !.unmanned = Unmanned]
  /\ UNCHANGED <<vars, silent>>

QueryAnswered(q) ==
  /\ report.asked /\ q \notin DOMAIN report.answer
  /\ report' = [report EXCEPT !.answer =
       [p \in DOMAIN report.answer \cup {q} |-> IF p = q THEN ResultOf(q) ELSE report.answer[p]]]
  /\ UNCHANGED <<vars, silent, during>>

\* 60 s without a heartbeat have passed.  While a report is made this would
\* change nothing it looks at.
FallSilent(w) ==
  /\ ~report.asked
  /\ row[w] \in StaleCandidateStatuses /\ stale[w] /\ w \notin silent
  /\ silent' = silent \cup {w}
  /\ UNCHANGED <<vars, report, during>>

\* A step of the fleet; the report, once sent, is forgotten.
FleetMoves ==
  /\ FleetNext
  /\ silent' = {w \in silent : stale'[w]}
  /\ IF report.asked /\ ~Answered
     THEN /\ during.moves < MaxMoves
          /\ report' = [report EXCEPT !.silentThen = {w \in @ : stale'[w]},
                                      !.dueThen = {j \in @ : due'[j]}]
          /\ during' = [moves |-> during.moves + 1,
                        touched |-> during.touched \cup {w \in Workers : row'[w] # row[w] \/ stale'[w] # stale[w]},
                        waiting |-> {j \in during.waiting : Claimable(j)'},
                        unmanned |-> during.unmanned /\ Unmanned']
     ELSE report' = NoReport /\ during' = Quiet

DashboardNext ==
  \/ GetSystemHealth
  \/ \E q \in Queries : QueryAnswered(q)
  \/ \E w \in Workers : FallSilent(w)
  \/ FleetMoves

DashboardSpec == DashboardInit /\ [][DashboardNext]_allVars

-----------------------------------------------------------------------------
(***************************************************************************)
(* Properties                                                              *)
(***************************************************************************)
\* The three states as the comments of the services describe them, of the
\* tables as they are.
QueueIs(state) ==
  LET waiting == \E j \in Jobs : Claimable(j)
      nobody == \A w \in Workers : row[w] \notin StaleCandidateStatuses
  IN CASE state = "critical" -> waiting /\ nobody
       [] state = "degraded" ->
            (waiting /\ ~nobody) \/ (~waiting /\ \E j \in Jobs : status[j] = "DEAD_LETTER")
       [] state = "healthy" -> ~waiting /\ \A j \in Jobs : status[j] # "DEAD_LETTER"

WorkersAre(state) ==
  LET active == {w \in Workers : row[w] \in StaleCandidateStatuses}
      ailing == \E w \in Workers : row[w] = "UNHEALTHY" \/ (w \in active /\ w \in silent)
  IN CASE state = "critical" -> active = {}
       [] state = "degraded" -> active # {} /\ ailing
       [] state = "healthy" -> active # {} /\ ~ailing

\* "combined failure/timeout rate is 50% or greater": both rates are rounded to
\* a hundredth of a percent before they are added, so the answer is critical
\* from 50 % on and may be so from 49.99 % on.
EndedWith(outcomes) ==
  Cardinality({a \in Jobs \X AttemptNumbers : attempts[a[1]][a[2]].status \in outcomes})

ExecutionIs(state) ==
  LET bad == EndedWith({"FAILED", "TIMED_OUT"})
      ended == EndedWith(FinishedAttempt)
  IN CASE state = "critical" -> bad > 0 /\ 10000 * bad >= 4999 * ended
       [] state = "degraded" -> bad > 0 /\ 2 * bad < ended
       [] state = "healthy" -> bad = 0

\* A report during which nothing moved says what the comments of the three
\* classifications promise, of the jobs that a claim could take now, of the
\* worker rows that recovery regards as serving, and of all attempts that
\* ended: the status lists of the API agree with those of the worker.
QuietReportIsRight ==
  Answered /\ during.moves = 0 =>
    QueueIs(QueueHealth) /\ WorkersAre(WorkerHealth) /\ ExecutionIs(ExecutionHealth)

\* Torn reads hide no waiting job: one that could be claimed all the time
\* keeps the queue from being reported healthy, and if no worker row was active
\* all the time either, queue, workers and system are reported critical.
WaitingJobIsReported ==
  Answered /\ during.waiting # {} =>
    /\ QueueHealth # "healthy" /\ SystemHealth # "healthy"
    /\ during.unmanned =>
         QueueHealth = "critical" /\ WorkerHealth = "critical" /\ SystemHealth = "critical"

\* Torn reads hide no silent worker: one that had no heartbeat for 60 s, or is
\* UNHEALTHY, and whose row nobody wrote while the report was made, keeps the
\* workers from being reported healthy.
SilentWorkerIsReported ==
  Answered =>
    \A w \in Workers \ during.touched :
      row[w] = "UNHEALTHY" \/ (row[w] \in StaleCandidateStatuses /\ w \in silent) =>
        WorkerHealth # "healthy"

(***************************************************************************)
(* What the comments say and the code does not do                          *)
(***************************************************************************)
\* dashboard.service.js: "critical: claimable work exists while no worker
\* capacity is available": also when every process has crashed, has been
\* silent for 60 s, and a job waits.
DeadFleetIsCritical ==
  /\ Answered /\ during.moves = 0
  /\ \A w \in Workers : phase[w] = "crashed" /\ w \in silent
  /\ \E j \in Jobs : Claimable(j)
  => QueueHealth = "critical"
=============================================================================
