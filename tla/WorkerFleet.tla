---------------------------- MODULE WorkerFleet ----------------------------
(***************************************************************************)
(* The worker processes around the job tables: their worker_instances      *)
(* rows, the polling loop that claims and executes jobs, the heartbeat,    *)
(* the stale-worker recovery that every process runs, graceful shutdown,   *)
(* crashes, and database calls that fail or whose answer is lost.  Each    *)
(* action is one database call together with the synchronous code between  *)
(* its answer and the next call; what other processes do in between is     *)
(* the interleaving.  A restarted process registers a new row, so one      *)
(* element of Workers is one run of a process.                             *)
(***************************************************************************)
EXTENDS JobStore

CONSTANTS
  MaxCrashes,      \* bound: how many processes may crash
  MaxFaults,       \* bound: how many database calls may fail towards the caller
  SlowHeartbeats,  \* whether a live worker's heartbeat may exceed staleAfterMs
  Shutdowns,       \* whether processes receive SIGINT or SIGTERM
  NoClaim          \* a polling loop that holds no claim

ASSUME FleetAssumption ==
  /\ MaxCrashes \in Nat
  /\ MaxFaults \in Nat
  /\ SlowHeartbeats \in BOOLEAN
  /\ Shutdowns \in BOOLEAN
  /\ NoClaim \notin [job : Jobs, attempt : AttemptNumbers]

VARIABLES
  row,      \* WorkerInstance.status, or NONE before registration
  stale,    \* whether lastHeartbeatAt is older than staleAfterMs
  phase,    \* the life of the process: started, stopping, stopped of its runtime
  poll,     \* where the polling loop is (activePoll, activeExecution)
  claim,    \* the claim the polling loop holds in memory
  rec,      \* the recovery run of the process and what it has read
  crashes, faults

fleetVars == <<row, stale, phase, poll, claim, rec, crashes, faults>>
vars == <<jobVars, fleetVars>>

WorkerStatus == {"STARTING", "ONLINE", "BUSY", "UNHEALTHY", "STOPPING", "OFFLINE"}

\* Mutants: candidates that were condemned before, that are not executing, or
\* that are not between two jobs.
WithUnhealthy == {"STARTING", "ONLINE", "BUSY", "UNHEALTHY"}
WithoutBusy == {"STARTING", "ONLINE"}
WithoutOnline == {"STARTING", "BUSY"}

StaleCandidateStatuses == {"STARTING", "ONLINE", "BUSY"}

\* up: serving.  signalled: shutdown waits for the recovery scheduler while
\* polling goes on.  draining: runtime.stop() set stopping and ended the
\* heartbeat.  stopping: the row is STOPPING.
Phase == {"down", "starting", "up", "signalled", "draining", "stopping", "exited", "crashed"}
Running == {"starting", "up", "signalled", "draining", "stopping"}
PollStep == {"idle", "claiming", "claimed", "handling", "failing", "settled"}

Claim == [job : Jobs, attempt : AttemptNumbers]
Recovery == [step : {"idle", "scanned", "marked", "recovering"},
             batch : SUBSET Workers, target : Workers \cup {NoWorker}, jobs : SUBSET Claim]
NoRecovery == [step |-> "idle", batch |-> {}, target |-> NoWorker, jobs |-> {}]

FleetInit ==
  /\ JobInit
  /\ row = [w \in Workers |-> "NONE"]
  /\ stale = [w \in Workers |-> FALSE]
  /\ phase = [w \in Workers |-> "down"]
  /\ poll = [w \in Workers |-> "idle"]
  /\ claim = [w \in Workers |-> NoClaim]
  /\ rec = [w \in Workers |-> NoRecovery]
  /\ crashes = 0
  /\ faults = 0

(***************************************************************************)
(* Helpers                                                                 *)
(***************************************************************************)
Fault == faults < MaxFaults /\ faults' = faults + 1

\* The caller of a committed call sees its result, or an error if the answer
\* is lost; the two say which value the variable f takes for w.
GoTo(f, w, to) == f' = [f EXCEPT ![w] = to]
Answer(f, w, ok, error) ==
  \/ (GoTo(f, w, ok) /\ UNCHANGED faults)
  \/ (GoTo(f, w, error) /\ Fault)

\* A call that matches no row is answered with an error; any call may fail
\* before it commits.  Either way the caller sees an error and nothing else
\* happened.
Refused(f, w, matched, error) ==
  /\ GoTo(f, w, error)
  /\ (~matched /\ UNCHANGED faults) \/ Fault

\* An update of the row by its own worker; all of them write lastHeartbeatAt.
WriteRow(w, from, to) ==
  /\ row[w] \in from
  /\ GoTo(row, w, to)
  /\ GoTo(stale, w, FALSE)

(***************************************************************************)
(* Start and graceful shutdown                                             *)
(***************************************************************************)
\* registerWorker.
Register(w) ==
  /\ phase[w] = "down"
  /\ \/ WriteRow(w, {"NONE"}, "STARTING") /\ Answer(phase, w, "starting", "exited")
     \/ Refused(phase, w, TRUE, "exited") /\ UNCHANGED <<row, stale>>
  /\ UNCHANGED <<jobVars, poll, claim, rec, crashes>>

\* markWorkerOnline; an error rolls the startup back and ends the process.
GoOnline(w) ==
  /\ phase[w] = "starting"
  /\ \/ WriteRow(w, {"STARTING"}, "ONLINE") /\ Answer(phase, w, "up", "exited")
     \/ Refused(phase, w, row[w] = "STARTING", "exited") /\ UNCHANGED <<row, stale>>
  /\ UNCHANGED <<jobVars, poll, claim, rec, crashes>>

\* SIGTERM: shutdown() first stops the recovery scheduler.
Signal(w) ==
  /\ Shutdowns
  /\ phase[w] = "up"
  /\ GoTo(phase, w, "signalled")
  /\ UNCHANGED <<jobVars, row, stale, poll, claim, rec, crashes, faults>>

\* The recovery run has settled; runtime.stop() sets stopping, clears the
\* polling timer and stops the heartbeat.
BeginDrain(w) ==
  /\ phase[w] = "signalled"
  /\ rec[w].step = "idle"
  /\ GoTo(phase, w, "draining")
  /\ UNCHANGED <<jobVars, row, stale, poll, claim, rec, crashes, faults>>

\* activePoll has settled: markWorkerStopping.
StopRow(w) ==
  /\ phase[w] = "draining"
  /\ poll[w] = "idle"
  /\ \/ /\ WriteRow(w, StaleCandidateStatuses \cup {"UNHEALTHY"}, "STOPPING")
        /\ Answer(phase, w, "stopping", "exited")
     \/ /\ Refused(phase, w, row[w] \in StaleCandidateStatuses \cup {"UNHEALTHY"}, "exited")
        /\ UNCHANGED <<row, stale>>
  /\ UNCHANGED <<jobVars, poll, claim, rec, crashes>>

\* markWorkerOffline, after which the process ends.
OfflineRow(w) ==
  /\ phase[w] = "stopping"
  /\ \/ WriteRow(w, {"STOPPING"}, "OFFLINE") /\ Answer(phase, w, "exited", "exited")
     \/ Refused(phase, w, row[w] = "STOPPING", "exited") /\ UNCHANGED <<row, stale>>
  /\ UNCHANGED <<jobVars, poll, claim, rec, crashes>>

\* The process dies; its row, locks and attempts stay as they are.
Crash(w) ==
  /\ phase[w] \in Running
  /\ crashes < MaxCrashes
  /\ crashes' = crashes + 1
  /\ GoTo(phase, w, "crashed")
  /\ GoTo(poll, w, "idle")
  /\ GoTo(claim, w, NoClaim)
  /\ GoTo(rec, w, NoRecovery)
  /\ UNCHANGED <<jobVars, row, stale, faults>>

(***************************************************************************)
(* Heartbeat                                                               *)
(***************************************************************************)
\* Mutant: a heartbeat proves the worker healthy.
HeartbeatRevives(w) ==
  /\ phase[w] \in {"up", "signalled"}
  /\ WriteRow(w, {"STARTING", "ONLINE", "BUSY", "STOPPING", "UNHEALTHY"}, "ONLINE")
  /\ UNCHANGED <<jobVars, phase, poll, claim, rec, crashes, faults>>

\* updateWorkerHeartbeat.  On a row of another status it matches nothing, and
\* the error is only reported: the process goes on.
Heartbeat(w) ==
  /\ phase[w] \in {"up", "signalled"}
  /\ WriteRow(w, StaleCandidateStatuses \cup {"STOPPING"}, row[w])
  /\ UNCHANGED <<jobVars, phase, poll, claim, rec, crashes, faults>>

\* Mutant: the handler blocks the heartbeat.
HeartbeatLapsesInHandler(w) ==
  /\ row[w] \in StaleCandidateStatuses
  /\ ~stale[w]
  /\ SlowHeartbeats \/ phase[w] \notin {"starting", "up", "signalled"} \/ poll[w] = "handling"
  /\ GoTo(stale, w, TRUE)
  /\ UNCHANGED <<jobVars, row, phase, poll, claim, rec, crashes, faults>>

\* staleAfterMs passes without a heartbeat: after the process died or stopped
\* its heartbeat, or, with SlowHeartbeats, because event loop or database are
\* slower than that.  Rows of other statuses are never compared.
HeartbeatLapses(w) ==
  /\ row[w] \in StaleCandidateStatuses
  /\ ~stale[w]
  /\ SlowHeartbeats \/ phase[w] \notin {"starting", "up", "signalled"}
  /\ GoTo(stale, w, TRUE)
  /\ UNCHANGED <<jobVars, row, phase, poll, claim, rec, crashes, faults>>

(***************************************************************************)
(* The polling loop: claim, execute, record the outcome                    *)
(***************************************************************************)
\* A timer tick of pollNow; overlapping cycles are skipped.
StartPoll(w) ==
  /\ phase[w] \in {"up", "signalled"}
  /\ poll[w] = "idle"
  /\ GoTo(poll, w, "claiming")
  /\ UNCHANGED <<jobVars, row, stale, phase, claim, rec, crashes, faults>>

\* claimNextJob answers.  It does not look at the worker's own row.  pollNow
\* drops the claim when stop() was called meanwhile.
ClaimAnswers(w) ==
  /\ poll[w] = "claiming"
  /\ \/ \E j \in Jobs :
          /\ ClaimNextJob(w, j)
          /\ \/ /\ phase[w] # "draining"
                /\ GoTo(claim, w, [job |-> j, attempt |-> attemptCount'[j]])
                /\ GoTo(poll, w, "claimed")
                /\ UNCHANGED faults
             \/ /\ GoTo(poll, w, "idle")
                /\ (phase[w] = "draining" /\ UNCHANGED faults) \/ Fault
                /\ UNCHANGED claim
     \/ /\ Refused(poll, w, \E j \in Jobs : Claimable(j), "idle")
        /\ UNCHANGED <<jobVars, claim>>
  /\ UNCHANGED <<row, stale, phase, rec, crashes>>

DropClaim(w) == GoTo(poll, w, "idle") /\ GoTo(claim, w, NoClaim)

\* setWorkerBusy: the row is BUSY and the handler starts, or the claim is
\* dropped because the row is not ONLINE or the call fails.  A stop() since
\* the claim has committed finds this call not made yet, and then the claim is
\* dropped, or in flight, and then it is waited for with the execution.
TakeUpClaim(w) ==
  /\ poll[w] = "claimed"
  /\ \/ /\ WriteRow(w, {"ONLINE"}, "BUSY")
        /\ \/ GoTo(poll, w, "handling") /\ UNCHANGED <<claim, faults>>
           \/ DropClaim(w) /\ Fault
     \/ /\ DropClaim(w)
        /\ ((phase[w] = "draining" \/ row[w] # "ONLINE") /\ UNCHANGED faults) \/ Fault
        /\ UNCHANGED <<row, stale>>
  /\ UNCHANGED <<jobVars, phase, rec, crashes>>

\* The guarded call of the processor on the claim it holds.
Holds(w) == OwnsActiveAttempt(w, claim[w].job, claim[w].attempt)

\* The outcome is answered.  The finally block goes on to make the worker
\* available, or ends the cycle when stop() was called meanwhile.
EndExecution(w) ==
  \/ phase[w] # "draining" /\ GoTo(poll, w, "settled") /\ UNCHANGED claim
  \/ phase[w] = "draining" /\ DropClaim(w)

\* The handler returned: completeClaimedJob.  Any error, the loss of the
\* lock and a failed call included, is handled as a failed execution.
HandlerReturns(w) ==
  /\ poll[w] = "handling"
  /\ \/ /\ CompleteClaimedJob(w, claim[w].job, claim[w].attempt)
        /\ \/ EndExecution(w) /\ UNCHANGED faults
           \/ GoTo(poll, w, "failing") /\ Fault /\ UNCHANGED claim
     \/ Refused(poll, w, Holds(w), "failing") /\ UNCHANGED <<jobVars, claim>>
  /\ UNCHANGED <<row, stale, phase, rec, crashes>>

HandlerThrows(w) ==
  /\ poll[w] = "handling"
  /\ GoTo(poll, w, "failing")
  /\ UNCHANGED <<jobVars, row, stale, phase, claim, rec, crashes, faults>>

\* The catch block: releaseJobForRetry or moveJobToDeadLetter.
RecordFailure(w) ==
  /\ poll[w] = "failing"
  /\ \/ /\ \/ ReleaseJobForRetry(w, claim[w].job, claim[w].attempt)
           \/ MoveJobToDeadLetter(w, claim[w].job, claim[w].attempt)
        /\ UNCHANGED faults \/ Fault
     \/ /\ (~Holds(w) /\ UNCHANGED faults) \/ Fault
        /\ UNCHANGED jobVars
  /\ EndExecution(w)
  /\ UNCHANGED <<row, stale, phase, rec, crashes>>

\* Mutant: the worker is not made available again.
SettleBusy(w) ==
  /\ poll[w] = "settled"
  /\ DropClaim(w)
  /\ UNCHANGED <<jobVars, row, stale, phase, rec, crashes, faults>>

\* setWorkerAvailable.  Its error is reported, and the row stays as it is.  A
\* stop() since the outcome has committed finds this call not made yet, and
\* then it is not made, or in flight.
Settle(w) ==
  /\ poll[w] = "settled"
  /\ DropClaim(w)
  /\ \/ /\ WriteRow(w, {"BUSY"}, "ONLINE")
        /\ UNCHANGED faults \/ Fault
     \/ /\ ((phase[w] = "draining" \/ row[w] # "BUSY") /\ UNCHANGED faults) \/ Fault
        /\ UNCHANGED <<row, stale>>
  /\ UNCHANGED <<jobVars, phase, rec, crashes>>

(***************************************************************************)
(* Stale-worker recovery                                                   *)
(***************************************************************************)
\* The loop of recoverAllWorkers goes on with the next worker of its batch,
\* whether the last recovery succeeded, was skipped or threw.
NextInBatch(batch) ==
  [NoRecovery EXCEPT !.step = IF batch = {} THEN "idle" ELSE "scanned", !.batch = batch]

\* findStaleWorkers: a snapshot of the stale candidates.
Scan(r) ==
  LET found == {w \in Workers : row[w] \in StaleCandidateStatuses /\ stale[w]} IN
  /\ phase[r] = "up"
  /\ rec[r].step = "idle"
  /\ found # {}
  /\ GoTo(rec, r, NextInBatch(found))
  /\ UNCHANGED <<jobVars, row, stale, phase, poll, claim, crashes, faults>>

\* markWorkerUnhealthy checks status and heartbeat again; if it matches
\* nothing the worker is skipped.
Condemn(r) ==
  /\ rec[r].step = "scanned"
  /\ \E w \in rec[r].batch :
       LET rest == rec[r].batch \ {w} IN
       \/ /\ row[w] \in StaleCandidateStatuses /\ stale[w]
          /\ GoTo(row, w, "UNHEALTHY")
          /\ Answer(rec, r, [step |-> "marked", batch |-> rest, target |-> w, jobs |-> {}],
                    NextInBatch(rest))
       \/ /\ Refused(rec, r, row[w] \in StaleCandidateStatuses /\ stale[w], NextInBatch(rest))
          /\ UNCHANGED row
  /\ UNCHANGED <<jobVars, stale, phase, poll, claim, crashes>>

\* Mutant: the query forgets its conditions.
AllJobs(w) == {[job |-> j, attempt |-> attemptCount[j]] : j \in Jobs}

\* findProcessingJobsLockedByWorker: the jobs and active attempts of w.
LockedJobs(w) ==
  {c \in Claim : OwnsActiveAttempt(w, c.job, c.attempt)}

ReadLockedJobs(r) ==
  LET w == rec[r].target IN
  /\ rec[r].step = "marked"
  /\ Answer(rec, r, [rec[r] EXCEPT !.step = "recovering", !.jobs = LockedJobs(w)],
            NextInBatch(rec[r].batch))
  /\ UNCHANGED <<jobVars, row, stale, phase, poll, claim, crashes>>

\* recoverLockedJob, for one job of the snapshot; an error ends the recovery
\* of this worker and leaves it UNHEALTHY.
RecoverLockedJob(r) ==
  LET w == rec[r].target IN
  /\ rec[r].step = "recovering"
  /\ \E c \in rec[r].jobs :
       \/ /\ \/ RecoverJobForRetry(w, c.job, c.attempt)
             \/ RecoverJobToDeadLetter(w, c.job, c.attempt)
          /\ Answer(rec, r, [rec[r] EXCEPT !.jobs = @ \ {c}], NextInBatch(rec[r].batch))
       \/ /\ Refused(rec, r, OwnsActiveAttempt(w, c.job, c.attempt), NextInBatch(rec[r].batch))
          /\ UNCHANGED jobVars
  /\ UNCHANGED <<row, stale, phase, poll, claim, crashes>>

\* markRecoveredWorkerOffline, which leaves lastHeartbeatAt alone.
MarkRecovered(r) ==
  LET w == rec[r].target IN
  /\ rec[r].step = "recovering"
  /\ rec[r].jobs = {}
  /\ GoTo(rec, r, NextInBatch(rec[r].batch))
  /\ \/ row[w] = "UNHEALTHY" /\ GoTo(row, w, "OFFLINE") /\ UNCHANGED faults
     \/ row[w] # "UNHEALTHY" /\ UNCHANGED <<row, faults>>
     \/ Fault /\ UNCHANGED row
  /\ UNCHANGED <<jobVars, stale, phase, poll, claim, crashes>>

(***************************************************************************)
(* The specification                                                       *)
(***************************************************************************)
Client(j) == (CreateJob(j) \/ BecomeDue(j) \/ CancelJob(j)) /\ UNCHANGED fleetVars

Lifecycle(w) ==
  Register(w) \/ GoOnline(w) \/ Signal(w) \/ BeginDrain(w) \/ StopRow(w) \/ OfflineRow(w)
    \/ Crash(w) \/ Heartbeat(w) \/ HeartbeatLapses(w)

Execution(w) ==
  StartPoll(w) \/ ClaimAnswers(w) \/ TakeUpClaim(w) \/ HandlerReturns(w) \/ HandlerThrows(w)
    \/ RecordFailure(w) \/ Settle(w)

RecoveryStep(r) ==
  Scan(r) \/ Condemn(r) \/ ReadLockedJobs(r) \/ RecoverLockedJob(r) \/ MarkRecovered(r)

FleetNext ==
  \/ \E j \in Jobs : Client(j)
  \/ \E w \in Workers : Lifecycle(w) \/ Execution(w) \/ RecoveryStep(w)

FleetSpec == FleetInit /\ [][FleetNext]_vars

\* Processes that run are scheduled and their calls are answered; handlers
\* end; time passes.  Clients, signals, crashes and faults owe nothing.
FleetFairness ==
  /\ \A j \in Jobs : WF_vars(BecomeDue(j) /\ UNCHANGED fleetVars)
  /\ \A w \in Workers :
       /\ WF_vars(Register(w)) /\ WF_vars(GoOnline(w))
       /\ WF_vars(BeginDrain(w)) /\ WF_vars(StopRow(w)) /\ WF_vars(OfflineRow(w))
       /\ WF_vars(HeartbeatLapses(w))
       /\ WF_vars(StartPoll(w)) /\ WF_vars(ClaimAnswers(w)) /\ WF_vars(TakeUpClaim(w))
       /\ WF_vars(HandlerReturns(w) \/ HandlerThrows(w))
       /\ WF_vars(RecordFailure(w)) /\ WF_vars(Settle(w))
       /\ WF_vars(RecoveryStep(w))

FairFleetSpec == FleetSpec /\ FleetFairness

-----------------------------------------------------------------------------
(***************************************************************************)
(* Properties                                                              *)
(***************************************************************************)
\* Rows, process states, held claims and recovery snapshots are well formed.
FleetTypeOK ==
  /\ JobTypeOK
  /\ row \in [Workers -> WorkerStatus \cup {"NONE"}]
  /\ stale \in [Workers -> BOOLEAN]
  /\ phase \in [Workers -> Phase]
  /\ poll \in [Workers -> PollStep]
  /\ claim \in [Workers -> Claim \cup {NoClaim}]
  /\ rec \in [Workers -> Recovery]
  /\ crashes \in Nat
  /\ faults \in Nat

\* However many processes scan at once, a stale worker is recovered by one of
\* them at most: the conditional update to UNHEALTHY is the election, and a
\* worker under recovery has left the statuses in which it could be elected
\* on again.
OneRecoverer ==
  \A r \in Workers :
    rec[r].target # NoWorker =>
      /\ row[rec[r].target] \in {"UNHEALTHY", "STOPPING", "OFFLINE"}
      /\ \A q \in Workers \ {r} : rec[q].target # rec[r].target

\* What a process holds in memory is a claim while it needs one, and a
\* recovery has a target while it works on one.
HeldClaims ==
  \A w \in Workers :
    /\ poll[w] \in {"claimed", "handling", "failing"} => claim[w] \in Claim
    /\ rec[w].step \in {"marked", "recovering"} => rec[w].target \in Workers

\* The inductive invariant behind OneRecoverer and the claims on the store.
FleetInv == JobInv /\ FleetTypeOK /\ HeldClaims /\ OneRecoverer

\* "UNHEALTHY and OFFLINE workers have already left the active-worker pool":
\* no heartbeat, late state change or startup of the worker itself brings a
\* row back once it is UNHEALTHY, STOPPING or OFFLINE.
NoReturn ==
  [][\A w \in Workers :
       row[w] \in {"UNHEALTHY", "STOPPING", "OFFLINE"} =>
         row'[w] \in {"UNHEALTHY", "STOPPING", "OFFLINE"}]_vars

\* A recovered attempt is never mistaken for a live one: a process whose
\* attempt was ended by recovery changes nothing of the job any more, however
\* late it settles.
Fenced ==
  [][\A w \in Workers :
       /\ poll[w] \in {"handling", "failing"}
       /\ attempts[claim[w].job][claim[w].attempt].status = "TIMED_OUT"
       /\ poll'[w] # poll[w]
       => UNCHANGED jobVars]_vars

\* Execution is at least once, but each attempt runs once: whatever crashes,
\* stalls, is recovered or is answered late, no two processes ever hold the
\* same attempt, so the handlers started for a job are not more than its
\* maxAttempts.
Holding == {"claimed", "handling", "failing"}

AttemptRunsOnce ==
  \A v, w \in Workers :
    v # w /\ poll[v] \in Holding /\ poll[w] \in Holding => claim[v] # claim[w]

\* While heartbeats are in time and nobody shuts down, no job runs in two
\* processes at once, whatever crashes and database errors happen: recovery
\* takes jobs from dead processes only.
ExclusiveExecution ==
  ~SlowHeartbeats /\ ~Shutdowns =>
    \A v, w \in Workers :
      v # w /\ poll[v] = "handling" /\ poll[w] = "handling" => claim[v].job # claim[w].job

\* Under the same conditions the handler that runs is the attempt the tables
\* show as active, so its completion will be accepted.
ExecutionIsCurrent ==
  ~SlowHeartbeats /\ ~Shutdowns =>
    \A w \in Workers : poll[w] \in {"claimed", "handling"} => Holds(w)

\* Under the same conditions, with one crash at most and no failed call, no
\* PROCESSING job is forgotten: a live process holds its claim in memory, or
\* the owner is dead and still to be found by recovery or being recovered with
\* this attempt.
InHand(w, c) == poll[w] \in Holding /\ claim[w] = c

UnderRecovery(w, c) ==
  \E r \in Workers : rec[r].target = w /\ (rec[r].step = "marked" \/ c \in rec[r].jobs)

Untroubled == ~SlowHeartbeats /\ ~Shutdowns /\ faults = 0 /\ crashes <= 1

NothingStranded ==
  Untroubled =>
    \A w \in Workers : \A c \in LockedJobs(w) :
      \/ InHand(w, c)
      \/ phase[w] = "crashed" /\ (row[w] \in StaleCandidateStatuses \/ UnderRecovery(w, c))

\* "Deterministic recovery of abandoned processing jobs after worker crashes":
\* the locks of a crashed worker are eventually released, unless a call fails.
CrashedJobsRecovered ==
  \A w \in Workers : phase[w] = "crashed" ~> faults > 0 \/ \A j \in Jobs : owner[j] # w

\* Every submitted job ends, as long as a worker survives and no call fails.
JobsEnd == \A j \in Jobs : status[j] # "ABSENT" ~> faults > 0 \/ status[j] \in TerminalStatuses

(***************************************************************************)
(* What the comments and the changelog say and the code does not do        *)
(***************************************************************************)
\* CHANGELOG: "graceful shutdown that waits for active job completion before
\* exiting": a worker that stopped gracefully leaves no job locked.
GracefulExitOwnsNothing ==
  \A w \in Workers :
    phase[w] = "exited" /\ row[w] = "OFFLINE" => \A j \in Jobs : owner[j] # w

\* stale-worker.service.js: "A recovery failure intentionally leaves the worker
\* UNHEALTHY for investigation or a later recovery attempt": while processes
\* serve, some recovery attempt resolves an UNHEALTHY worker.
LaterRecoveryAttempt ==
  \A w \in Workers :
    row[w] = "UNHEALTHY" ~> row[w] # "UNHEALTHY" \/ \A r \in Workers : phase[r] # "up"

\* stale-worker.repository.js: "graceful shutdown has already begun and should
\* be allowed to finish through its normal lifecycle."
DrainIsUndisturbed ==
  [][\A w \in Workers :
       phase[w] = "draining" => ~(row[w] # "UNHEALTHY" /\ row'[w] = "UNHEALTHY")]_vars
=============================================================================
