-------------------------- MODULE FleetServingProofs --------------------------
(***************************************************************************)
(* A fleet whose heartbeats are in time and that nobody shuts down, for any*)
(* number of processes and jobs.  With any crashes and failing calls no job*)
(* runs in two processes at once; until a call fails or a second process   *)
(* crashes no lock is forgotten.                                           *)
(***************************************************************************)
EXTENDS WorkerFleetProofs

\* A process that crashed or gave up its start executes nothing any more.
Dead == {"crashed", "exited"}

\* Only the dead grow stale, so only they are recovered; only who serves
\* executes.
OnlyDeadAreRecovered ==
  \A w \in Workers :
    /\ phase[w] \in {"down", "starting", "up"} \cup Dead
    /\ phase[w] = "down" => row[w] = "NONE"
    /\ stale[w] => phase[w] \in Dead
    /\ rec[w].target # NoWorker => phase[rec[w].target] \in Dead
    /\ poll[w] # "idle" => phase[w] = "up"

\* Whoever executes holds the lock and the active attempt of its claim.
ClaimsAreHeld == \A w \in Workers : poll[w] \in {"claimed", "handling"} => Holds(w)

Serving == OnlyDeadAreRecovered /\ ClaimsAreHeld

\* The inductive invariant, which speaks of the timely fleet only.
ServingInv == FleetInv /\ (~SlowHeartbeats /\ ~Shutdowns => Serving)

\* A job under the lock of w is neither claimed nor cancelled, and only a
\* transaction in the name of w finishes its attempt.
LEMMA OthersLeaveLocks ==
  ASSUME JobInv, NEW w \in Workers, NEW k \in Jobs, NEW m \in AttemptNumbers, NEW j \in Jobs,
         \/ CreateJob(j) \/ BecomeDue(j) \/ CancelJob(j)
         \/ \E v \in Workers : ClaimNextJob(v, j)
         \/ \E v \in Workers \ {w}, n \in AttemptNumbers : Finish(v, j, n)
  PROVE  OwnsActiveAttempt(w, k, m) => OwnsActiveAttempt(w, k, m)'
<1> SUFFICES ASSUME OwnsActiveAttempt(w, k, m) PROVE OwnsActiveAttempt(w, k, m)'
  OBVIOUS
<1>2. status[k] = "PROCESSING" /\ owner[k] = w /\ attempts[k][m] = ActiveAttempt(w)
  BY DEF OwnsActiveAttempt
<1>3. /\ status \in [Jobs -> JobStatus] /\ owner \in [Jobs -> Workers \cup {NoWorker}]
      /\ attempts \in [Jobs -> [AttemptNumbers -> Attempt]]
  BY DEF JobInv, JobTypeOK
<1>4. SUFFICES status'[k] = status[k] /\ owner'[k] = owner[k] /\ attempts'[k] = attempts[k]
  BY <1>2, <1>4 DEF OwnsActiveAttempt
<1>5. CASE CreateJob(j) \/ BecomeDue(j) \/ CancelJob(j)
  BY <1>2, <1>3, <1>5 DEF CreateJob, BecomeDue, CancelJob, ClaimableStatuses
<1>6. CASE \E v \in Workers : ClaimNextJob(v, j)
  BY <1>2, <1>3, <1>6 DEF ClaimNextJob, Claimable, ClaimableStatuses
<1>7. CASE \E v \in Workers \ {w}, n \in AttemptNumbers : Finish(v, j, n)
  <2>1. PICK v \in Workers \ {w}, n \in AttemptNumbers : Finish(v, j, n)
    BY <1>7
  <2>2. PICK outcome \in FinishedAttempt, s \in {"COMPLETED", "RETRYING", "DEAD_LETTER"} :
          FinishAttempt(v, j, n, outcome) /\ status' = [status EXCEPT ![j] = s]
    BY <2>1, FinishOutcome
  <2>3. owner[j] = v
    BY <2>2 DEF FinishAttempt, OwnsActiveAttempt
  <2>4. j # k
    BY <1>2, <2>3
  <2> QED
    BY <1>3, <2>2, <2>4 DEF FinishAttempt
<1> QED
  BY <1>5, <1>6, <1>7

\* So an unchanged claim stays held.
LEMMA OthersLeaveClaims ==
  ASSUME JobInv, NEW w \in Workers, NEW j \in Jobs, claim[w] \in Claim, claim'[w] = claim[w],
         \/ CreateJob(j) \/ BecomeDue(j) \/ CancelJob(j)
         \/ \E v \in Workers : ClaimNextJob(v, j)
         \/ \E v \in Workers \ {w}, n \in AttemptNumbers : Finish(v, j, n)
  PROVE  Holds(w) => Holds(w)'
<1>1. claim[w].job \in Jobs /\ claim[w].attempt \in AttemptNumbers
  BY ClaimIsTyped
<1>2. \A k \in Jobs, m \in AttemptNumbers :
        OwnsActiveAttempt(w, k, m) => OwnsActiveAttempt(w, k, m)'
  BY OthersLeaveLocks
<1> QED
  BY <1>1, <1>2 DEF Holds, OwnsActiveAttempt

-----------------------------------------------------------------------------
(***************************************************************************)
(* Only the dead are recovered                                             *)
(***************************************************************************)
\* Starting, dying and beating never make a live process stale.
LEMMA LifecycleKeepsServing ==
  ASSUME FleetInv, OnlyDeadAreRecovered, ~SlowHeartbeats, ~Shutdowns,
         NEW w \in Workers, Lifecycle(w)
  PROVE  OnlyDeadAreRecovered'
<1>0. /\ row \in [Workers -> WorkerStatus \cup {"NONE"}] /\ stale \in [Workers -> BOOLEAN]
      /\ phase \in [Workers -> Phase] /\ poll \in [Workers -> PollStep]
      /\ rec \in [Workers -> Recovery]
  BY DEF FleetInv, FleetTypeOK
<1>1. \A v \in Workers : rec[v].target \in Workers \cup {NoWorker}
  BY <1>0 DEF Recovery
<1>2. CASE Register(w)
  <2>1. /\ phase[w] = "down" /\ poll' = poll /\ rec' = rec
        /\ phase' = [phase EXCEPT ![w] = "starting"] \/ phase' = [phase EXCEPT ![w] = "exited"]
        /\ \A v \in Workers \ {w} : row'[v] = row[v] /\ stale'[v] = stale[v]
        /\ stale'[w] => stale[w]
    BY <1>0, <1>2 DEF Register, Answer, Refused, WriteRow, GoTo
  <2> QED
    BY <1>0, <1>1, <2>1 DEF OnlyDeadAreRecovered, Dead
<1>3. CASE GoOnline(w)
  <2>1. /\ phase[w] = "starting" /\ poll' = poll /\ rec' = rec
        /\ phase' = [phase EXCEPT ![w] = "up"] \/ phase' = [phase EXCEPT ![w] = "exited"]
        /\ \A v \in Workers \ {w} : row'[v] = row[v] /\ stale'[v] = stale[v]
        /\ stale'[w] => stale[w]
    BY <1>0, <1>3 DEF GoOnline, Answer, Refused, WriteRow, GoTo
  <2> QED
    BY <1>0, <1>1, <2>1 DEF OnlyDeadAreRecovered, Dead
<1>4. CASE Signal(w) \/ BeginDrain(w) \/ StopRow(w) \/ OfflineRow(w)
  BY <1>4 DEF Signal, BeginDrain, StopRow, OfflineRow, OnlyDeadAreRecovered, Dead
<1>5. CASE Crash(w)
  <2>1. NoRecovery.target = NoWorker
    BY DEF NoRecovery
  <2>2. /\ phase' = [phase EXCEPT ![w] = "crashed"] /\ poll' = [poll EXCEPT ![w] = "idle"]
        /\ rec' = [rec EXCEPT ![w] = NoRecovery] /\ row' = row /\ stale' = stale
    BY <1>5 DEF Crash, GoTo
  <2> QED
    BY <1>0, <1>1, <2>1, <2>2 DEF OnlyDeadAreRecovered, Dead
<1>6. CASE Heartbeat(w)
  <2>1. /\ phase[w] = "up" /\ row' = row /\ phase' = phase /\ poll' = poll /\ rec' = rec
        /\ stale' = [stale EXCEPT ![w] = FALSE]
    BY <1>0, <1>6 DEF Heartbeat, WriteRow, GoTo, OnlyDeadAreRecovered, Dead
  <2> QED
    BY <1>0, <2>1 DEF OnlyDeadAreRecovered
<1>7. CASE HeartbeatLapses(w)
  <2>1. /\ phase[w] \in Dead /\ row' = row /\ phase' = phase /\ poll' = poll /\ rec' = rec
        /\ stale' = [stale EXCEPT ![w] = TRUE]
    BY <1>7 DEF HeartbeatLapses, GoTo, OnlyDeadAreRecovered, Dead, StaleCandidateStatuses
  <2> QED
    BY <1>0, <2>1 DEF OnlyDeadAreRecovered
<1> QED
  BY <1>2, <1>3, <1>4, <1>5, <1>6, <1>7 DEF Lifecycle

\* Polling and executing write the own row only.
LEMMA ExecutionKeepsServing ==
  ASSUME FleetInv, OnlyDeadAreRecovered, ~Shutdowns, NEW w \in Workers, Execution(w)
  PROVE  OnlyDeadAreRecovered'
<1>0. /\ row \in [Workers -> WorkerStatus \cup {"NONE"}] /\ stale \in [Workers -> BOOLEAN]
      /\ poll \in [Workers -> PollStep]
  BY DEF FleetInv, FleetTypeOK
<1>1. phase[w] = "up" /\ phase' = phase /\ rec' = rec
  BY DEF Execution, StartPoll, ClaimAnswers, TakeUpClaim, HandlerReturns, HandlerThrows,
         RecordFailure, Settle, OnlyDeadAreRecovered, Dead
<1>2. \A v \in Workers \ {w} : row'[v] = row[v] /\ stale'[v] = stale[v] /\ poll'[v] = poll[v]
  BY <1>0
  DEF Execution, StartPoll, ClaimAnswers, TakeUpClaim, HandlerReturns, HandlerThrows,
      RecordFailure, EndExecution, Settle, DropClaim, Refused, WriteRow, GoTo
<1>3. stale'[w] => stale[w]
  BY <1>0
  DEF Execution, StartPoll, ClaimAnswers, TakeUpClaim, HandlerReturns, HandlerThrows,
      RecordFailure, Settle, WriteRow, GoTo
<1> QED
  BY <1>1, <1>2, <1>3 DEF OnlyDeadAreRecovered, Dead

\* A recovery condemns only a process whose heartbeat is stale.
LEMMA RecoveryKeepsServing ==
  ASSUME FleetInv, OnlyDeadAreRecovered, NEW r \in Workers, RecoveryStep(r)
  PROVE  OnlyDeadAreRecovered'
<1>0. /\ row \in [Workers -> WorkerStatus \cup {"NONE"}] /\ stale \in [Workers -> BOOLEAN]
      /\ rec \in [Workers -> Recovery] /\ rec[r].target \in Workers \cup {NoWorker}
  BY DEF FleetInv, FleetTypeOK, Recovery
<1>1. phase' = phase /\ poll' = poll /\ stale' = stale
  BY DEF RecoveryStep, Scan, Condemn, ReadLockedJobs, RecoverLockedJob, MarkRecovered
<1>2. \A batch : NextInBatch(batch).target = NoWorker
  BY DEF NextInBatch, NoRecovery
<1>3. ASSUME NEW to, rec' = [rec EXCEPT ![r] = to],
             to.target # NoWorker => phase[to.target] \in Dead,
             \A v \in Workers : row'[v] # row[v] => phase[v] \in Dead
      PROVE  OnlyDeadAreRecovered'
  BY <1>0, <1>1, <1>3 DEF OnlyDeadAreRecovered, Dead
<1>4. CASE Scan(r)
  BY <1>0, <1>2, <1>3, <1>4 DEF Scan, GoTo
<1>5. CASE Condemn(r)
  <2>1. PICK w \in rec[r].batch :
          \/ /\ stale[w] /\ row' = [row EXCEPT ![w] = "UNHEALTHY"]
             /\ \/ rec' = [rec EXCEPT ![r] = [step |-> "marked", batch |-> rec[r].batch \ {w},
                                            target |-> w, jobs |-> {}]]
                \/ rec' = [rec EXCEPT ![r] = NextInBatch(rec[r].batch \ {w})]
          \/ row' = row /\ rec' = [rec EXCEPT ![r] = NextInBatch(rec[r].batch \ {w})]
    BY <1>5 DEF Condemn, Answer, Refused, GoTo
  <2>2. w \in Workers
    BY <1>0 DEF Recovery
  <2>3. CASE row' = row
    BY <1>0, <1>2, <1>3, <2>1, <2>2, <2>3 DEF OnlyDeadAreRecovered
  <2>4. CASE stale[w] /\ row' = [row EXCEPT ![w] = "UNHEALTHY"]
    BY <1>0, <1>2, <1>3, <2>1, <2>2, <2>4 DEF OnlyDeadAreRecovered
  <2> QED
    BY <2>1, <2>3, <2>4
<1>6. CASE ReadLockedJobs(r)
  <2> DEFINE to == [rec[r] EXCEPT !.step = "recovering", !.jobs = LockedJobs(rec[r].target)]
  <2>1. /\ row' = row
        /\ rec' = [rec EXCEPT ![r] = to] \/ rec' = [rec EXCEPT ![r] = NextInBatch(rec[r].batch)]
    BY <1>6 DEF ReadLockedJobs, Answer, GoTo
  <2>2. to.target = rec[r].target
    BY <1>0 DEF Recovery
  <2> HIDE DEF to
  <2> QED
    BY <1>2, <1>3, <2>1, <2>2 DEF OnlyDeadAreRecovered
<1>7. CASE RecoverLockedJob(r)
  <2>1. PICK c \in rec[r].jobs :
          /\ row' = row
          /\ \/ rec' = [rec EXCEPT ![r] = [rec[r] EXCEPT !.jobs = @ \ {c}]]
             \/ rec' = [rec EXCEPT ![r] = NextInBatch(rec[r].batch)]
    BY <1>7 DEF RecoverLockedJob, Answer, Refused, GoTo
  <2> DEFINE to == [rec[r] EXCEPT !.jobs = @ \ {c}]
  <2>2. to.target = rec[r].target
    BY <1>0 DEF Recovery
  <2>3. rec' = [rec EXCEPT ![r] = to] \/ rec' = [rec EXCEPT ![r] = NextInBatch(rec[r].batch)]
    BY <2>1
  <2> HIDE DEF to
  <2> QED
    BY <1>2, <1>3, <2>1, <2>2, <2>3 DEF OnlyDeadAreRecovered
<1>8. CASE MarkRecovered(r)
  <2>1. rec[r].target \in Workers
    BY <1>8 DEF MarkRecovered, FleetInv, HeldClaims
  <2>2. /\ rec' = [rec EXCEPT ![r] = NextInBatch(rec[r].batch)]
        /\ row' = row \/ row' = [row EXCEPT ![rec[r].target] = "OFFLINE"]
    BY <1>8 DEF MarkRecovered, GoTo
  <2>3. phase[rec[r].target] \in Dead
    BY <2>1, JobStoreAssumption DEF OnlyDeadAreRecovered
  <2> QED
    BY <1>0, <1>2, <1>3, <2>2, <2>3
<1> QED
  BY <1>4, <1>5, <1>6, <1>7, <1>8 DEF RecoveryStep

-----------------------------------------------------------------------------
(***************************************************************************)
(* Claims stay held while they are executed                                *)
(***************************************************************************)
\* The tables as they are: an unchanged claim stays held.
LEMMA IdleTables ==
  ASSUME ClaimsAreHeld, UNCHANGED jobVars,
         \A u \in Workers : poll'[u] \in {"claimed", "handling"} =>
           poll[u] \in {"claimed", "handling"} /\ claim'[u] = claim[u]
  PROVE  ClaimsAreHeld'
BY DEF ClaimsAreHeld, Holds, OwnsActiveAttempt, jobVars

\* A process writes only jobs it holds, and its own execution ends there.
LEMMA ExecutionKeepsClaims ==
  ASSUME FleetInv, ClaimsAreHeld, NEW w \in Workers, Execution(w)
  PROVE  ClaimsAreHeld'
<1>0. /\ poll \in [Workers -> PollStep] /\ claim \in [Workers -> Claim \cup {NoClaim}]
      /\ JobInv /\ HeldClaims
  BY DEF FleetInv, FleetTypeOK
<1>1. \A u \in Workers \ {w} : poll'[u] = poll[u] /\ claim'[u] = claim[u]
  BY <1>0
  DEF Execution, StartPoll, ClaimAnswers, TakeUpClaim, HandlerReturns, HandlerThrows,
      RecordFailure, EndExecution, Settle, DropClaim, Refused, WriteRow, GoTo
<1>2. CASE UNCHANGED jobVars
  <2>1. CASE StartPoll(w) \/ HandlerThrows(w) \/ Settle(w) \/ HandlerReturns(w)
             \/ RecordFailure(w) \/ ClaimAnswers(w)
    <3>1. poll'[w] \notin {"claimed", "handling"}
      <4>1. CASE ClaimAnswers(w)
        <5>1. ASSUME NEW j \in Jobs, ClaimNextJob(w, j) PROVE FALSE
          BY <1>0, <1>2, <5>1
          DEF ClaimNextJob, Claimable, ClaimableStatuses, jobVars, JobInv, JobTypeOK
        <5> QED
          BY <1>0, <4>1, <5>1 DEF ClaimAnswers, Refused, GoTo
      <4> QED
        BY <1>0, <2>1, <4>1
        DEF StartPoll, HandlerThrows, Settle, DropClaim, HandlerReturns, RecordFailure,
            EndExecution, Refused, GoTo
    <3> QED
      BY <1>1, <1>2, <3>1, IdleTables
  <2>2. CASE TakeUpClaim(w)
    <3>1. poll'[w] \in {"claimed", "handling"} => poll[w] = "claimed" /\ claim'[w] = claim[w]
      BY <1>0, <2>2 DEF TakeUpClaim, DropClaim, GoTo
    <3> QED
      BY <1>1, <1>2, <3>1, IdleTables
  <2> QED
    BY <2>1, <2>2 DEF Execution
<1>3. ASSUME NEW j \in Jobs, ClaimNextJob(w, j), ClaimAnswers(w)
      PROVE  ClaimsAreHeld'
  <2>1. ASSUME NEW u \in Workers \ {w}, poll[u] \in {"claimed", "handling"}
        PROVE  Holds(u)'
    <3>1. claim[u] \in Claim /\ claim'[u] = claim[u] /\ Holds(u)
      BY <1>0, <1>1, <2>1 DEF HeldClaims, ClaimsAreHeld
    <3> QED
      BY <1>0, <1>3, <3>1, OthersLeaveClaims
  <2>2. ASSUME poll'[w] \in {"claimed", "handling"} PROVE Holds(w)'
    <3>1. PICK i \in Jobs : ClaimNextJob(w, i) /\ GoTo(claim, w, [job |-> i, attempt |-> attemptCount'[i]])
      BY <1>0, <1>3, <2>2 DEF ClaimAnswers, Refused, GoTo
    <3> DEFINE n == attemptCount[i] + 1
    <3>2. attemptCount'[i] = n
      BY <1>0, <3>1 DEF ClaimNextJob, JobInv, JobTypeOK
    <3>3. n \in AttemptNumbers
      BY <1>0, <3>1, <3>2, ClaimedAttempt
    <3>4. claim'[w].job = i /\ claim'[w].attempt = n
      BY <1>0, <3>1, <3>2 DEF GoTo
    <3>5. status'[i] = "PROCESSING" /\ owner'[i] = w /\ attempts'[i][n] = ActiveAttempt(w)
      BY <1>0, <3>1, <3>3 DEF ClaimNextJob, JobInv, JobTypeOK
    <3> QED
      BY <3>4, <3>5 DEF Holds, OwnsActiveAttempt
  <2> QED
    BY <1>1, <2>1, <2>2 DEF ClaimsAreHeld
<1>4. ASSUME NEW c \in Claim, Finish(w, c.job, c.attempt),
             poll'[w] \notin {"claimed", "handling"}
      PROVE  ClaimsAreHeld'
  <2>1. ASSUME NEW u \in Workers \ {w}, poll[u] \in {"claimed", "handling"}
        PROVE  Holds(u)'
    <3>1. claim[u] \in Claim /\ claim'[u] = claim[u] /\ Holds(u)
      BY <1>0, <1>1, <2>1 DEF HeldClaims, ClaimsAreHeld
    <3>2. c.job \in Jobs /\ c.attempt \in AttemptNumbers /\ w \in Workers \ {u}
      BY <2>1, ClaimIsTyped
    <3> QED
      BY <1>0, <1>4, <3>1, <3>2, OthersLeaveClaims
  <2> QED
    BY <1>1, <1>4, <2>1 DEF ClaimsAreHeld
<1>5. CASE HandlerReturns(w) \/ RecordFailure(w)
  <2>1. claim[w] \in Claim /\ poll'[w] \notin {"claimed", "handling"}
    BY <1>0, <1>5
    DEF HandlerReturns, RecordFailure, EndExecution, DropClaim, HeldClaims, Refused, GoTo
  <2>2. Finish(w, claim[w].job, claim[w].attempt) \/ UNCHANGED jobVars
    BY <1>5 DEF HandlerReturns, RecordFailure, Finish
  <2> QED
    BY <1>2, <1>4, <2>1, <2>2
<1>6. CASE ClaimAnswers(w)
  BY <1>2, <1>3, <1>6 DEF ClaimAnswers
<1> QED
  BY <1>2, <1>5, <1>6 DEF Execution, StartPoll, TakeUpClaim, HandlerThrows, Settle

\* A recovery writes only jobs of its target, which is dead.
LEMMA RecoveryKeepsClaims ==
  ASSUME FleetInv, Serving, NEW r \in Workers, RecoveryStep(r)
  PROVE  ClaimsAreHeld'
<1>0. poll' = poll /\ claim' = claim /\ ClaimsAreHeld /\ OnlyDeadAreRecovered
  BY DEF RecoveryStep, Scan, Condemn, ReadLockedJobs, RecoverLockedJob, MarkRecovered, Serving
<1>1. CASE UNCHANGED jobVars
  BY <1>0, <1>1, IdleTables
<1>2. CASE RecoverLockedJob(r) /\ ~UNCHANGED jobVars
  <2>1. rec[r].target \in Workers /\ rec[r].jobs \subseteq Claim
    BY <1>2 DEF RecoverLockedJob, FleetInv, HeldClaims, FleetTypeOK, Recovery
  <2>2. PICK c \in Claim : Finish(rec[r].target, c.job, c.attempt)
    BY <1>2, <2>1 DEF RecoverLockedJob, Finish
  <2>3. phase[rec[r].target] \in Dead
    BY <1>0, <2>1, JobStoreAssumption DEF OnlyDeadAreRecovered
  <2>4. ASSUME NEW u \in Workers, poll[u] \in {"claimed", "handling"}
        PROVE  Holds(u)'
    <3>1. claim[u] \in Claim /\ claim'[u] = claim[u] /\ Holds(u) /\ JobInv
      BY <1>0, <2>4 DEF FleetInv, HeldClaims, ClaimsAreHeld
    <3>2. phase[u] = "up"
      BY <1>0, <2>4 DEF OnlyDeadAreRecovered
    <3>3. rec[r].target \in Workers \ {u} /\ c.job \in Jobs /\ c.attempt \in AttemptNumbers
      BY <2>1, <2>3, <3>2, ClaimIsTyped DEF Dead
    <3> QED
      BY <2>2, <3>1, <3>3, OthersLeaveClaims
  <2> QED
    BY <1>0, <2>4 DEF ClaimsAreHeld
<1> QED
  BY <1>1, <1>2 DEF RecoveryStep, Scan, Condemn, ReadLockedJobs, MarkRecovered

-----------------------------------------------------------------------------
(***************************************************************************)
(* The invariant                                                           *)
(***************************************************************************)
\* No process has started.
LEMMA ServingInitInv == FleetInit => ServingInv
<1> SUFFICES ASSUME FleetInit PROVE ServingInv
  OBVIOUS
<1>1. OnlyDeadAreRecovered /\ ClaimsAreHeld
  BY DEF FleetInit, NoRecovery, OnlyDeadAreRecovered, ClaimsAreHeld
<1> QED
  BY <1>1, FleetInitInv DEF ServingInv, Serving

\* Every step keeps it.
LEMMA ServingNextInv == ServingInv /\ [FleetNext]_vars => ServingInv'
<1> SUFFICES ASSUME FleetInv, Serving, ~SlowHeartbeats, ~Shutdowns, [FleetNext]_vars
             PROVE  Serving'
  BY FleetNextInv DEF ServingInv
<1>0. OnlyDeadAreRecovered /\ ClaimsAreHeld
  BY DEF Serving
<1>1. ASSUME NEW j \in Jobs, Client(j) PROVE Serving'
  <2>1. UNCHANGED fleetVars /\ (CreateJob(j) \/ BecomeDue(j) \/ CancelJob(j))
    BY <1>1 DEF Client
  <2>2. OnlyDeadAreRecovered'
    BY <1>0, <2>1 DEF OnlyDeadAreRecovered, fleetVars
  <2>3. ASSUME NEW u \in Workers, poll[u] \in {"claimed", "handling"} PROVE Holds(u)'
    <3>1. claim[u] \in Claim /\ claim'[u] = claim[u] /\ Holds(u) /\ JobInv
      BY <1>0, <2>1, <2>3 DEF FleetInv, HeldClaims, ClaimsAreHeld, fleetVars
    <3> QED
      BY <2>1, <3>1, OthersLeaveClaims
  <2> QED
    BY <2>1, <2>2, <2>3 DEF Serving, ClaimsAreHeld, fleetVars
<1>2. ASSUME NEW w \in Workers, Lifecycle(w) PROVE Serving'
  <2>1. UNCHANGED jobVars /\ \A u \in Workers : \/ poll'[u] = poll[u] /\ claim'[u] = claim[u]
                                              \/ poll'[u] = "idle"
    BY <1>2
    DEF Lifecycle, Register, GoOnline, Signal, BeginDrain, StopRow, OfflineRow, Crash, Heartbeat,
        HeartbeatLapses, GoTo, FleetInv, FleetTypeOK
  <2> QED
    BY <1>0, <1>2, <2>1, IdleTables, LifecycleKeepsServing DEF Serving
<1>3. ASSUME NEW w \in Workers, Execution(w) PROVE Serving'
  BY <1>0, <1>3, ExecutionKeepsServing, ExecutionKeepsClaims DEF Serving
<1>4. ASSUME NEW w \in Workers, RecoveryStep(w) PROVE Serving'
  BY <1>0, <1>4, RecoveryKeepsServing, RecoveryKeepsClaims DEF Serving
<1>5. CASE UNCHANGED vars
  <2>1. UNCHANGED jobVars /\ UNCHANGED fleetVars
    BY <1>5 DEF vars
  <2> QED
    BY <1>0, <2>1, IdleTables DEF Serving, OnlyDeadAreRecovered, fleetVars
<1> QED
  BY <1>1, <1>2, <1>3, <1>4, <1>5 DEF FleetNext

\* The handler that runs is the attempt the tables show as active.
THEOREM ExecutionsAreCurrent == FleetSpec => []ExecutionIsCurrent
<1>1. ServingInv => ExecutionIsCurrent
  BY DEF ServingInv, Serving, ClaimsAreHeld, ExecutionIsCurrent
<1> QED
  BY <1>1, ServingInitInv, ServingNextInv, PTL DEF FleetSpec

\* No job runs in two processes at once.
THEOREM ExecutionsAreExclusive == FleetSpec => []ExclusiveExecution
<1>1. ServingInv => ExclusiveExecution
  BY DEF ServingInv, Serving, ClaimsAreHeld, ExclusiveExecution, Holds, OwnsActiveAttempt
<1> QED
  BY <1>1, ServingInitInv, ServingNextInv, PTL DEF FleetSpec

-----------------------------------------------------------------------------
(***************************************************************************)
(* No lock is forgotten                                                    *)
(***************************************************************************)
\* The row of a live process says what its polling loop does, so that none of
\* its updates is refused.
RowsAreExpected ==
  \A w \in Workers :
    /\ phase[w] # "exited"
    /\ crashes = 0 => phase[w] # "crashed"
    /\ phase[w] = "starting" => row[w] = "STARTING"
    /\ phase[w] = "up" =>
         row[w] = IF poll[w] \in {"idle", "claiming", "claimed"} THEN "ONLINE" ELSE "BUSY"

\* A recovery reads its snapshot of one target, and what it still has to
\* recover is locked as it was read.
SnapshotsHold ==
  \A r \in Workers :
    /\ rec[r].step \in {"idle", "scanned"} => rec[r].target = NoWorker
    /\ rec[r].step # "recovering" => rec[r].jobs = {}
    /\ \A c \in rec[r].jobs : OwnsActiveAttempt(rec[r].target, c.job, c.attempt)

FailuresAreHeld == \A w \in Workers : poll[w] = "failing" => Holds(w)

LocksInHand ==
  \A w \in Workers : \A c \in LockedJobs(w) :
    \/ InHand(w, c)
    \/ phase[w] = "crashed" /\ (row[w] \in StaleCandidateStatuses \/ UnderRecovery(w, c))

Tidy == RowsAreExpected /\ SnapshotsHold /\ FailuresAreHeld /\ LocksInHand

\* The inductive invariant: the last part speaks of the time until a call fails
\* or a second process crashes.
TidyInv == ServingInv /\ (Untroubled => Tidy)

\* What is known of such a state, in one place.
LEMMA UntroubledFacts ==
  ASSUME TidyInv, Untroubled
  PROVE  /\ ~SlowHeartbeats /\ ~Shutdowns /\ faults = 0
         /\ FleetInv /\ JobInv /\ HeldClaims /\ OneRecoverer
         /\ OnlyDeadAreRecovered /\ ClaimsAreHeld
         /\ RowsAreExpected /\ SnapshotsHold /\ FailuresAreHeld /\ LocksInHand
         /\ row \in [Workers -> WorkerStatus \cup {"NONE"}]
         /\ phase \in [Workers -> Phase] /\ poll \in [Workers -> PollStep]
         /\ claim \in [Workers -> Claim \cup {NoClaim}] /\ rec \in [Workers -> Recovery]
BY DEF TidyInv, Untroubled, ServingInv, Serving, Tidy, FleetInv, FleetTypeOK

\* Submitting, cancelling and finishing create no lock.
LEMMA NoNewLocks ==
  ASSUME JobInv, NEW w \in Workers, NEW k \in Jobs, NEW m \in AttemptNumbers, NEW j \in Jobs,
         \/ CreateJob(j) \/ BecomeDue(j) \/ CancelJob(j)
         \/ \E v \in Workers, n \in AttemptNumbers : Finish(v, j, n)
  PROVE  OwnsActiveAttempt(w, k, m)' => OwnsActiveAttempt(w, k, m)
<1>1. /\ status \in [Jobs -> JobStatus] /\ owner \in [Jobs -> Workers \cup {NoWorker}]
      /\ attempts \in [Jobs -> [AttemptNumbers -> Attempt]]
  BY DEF JobInv, JobTypeOK
<1>2. CASE CreateJob(j) \/ BecomeDue(j) \/ CancelJob(j)
  BY <1>1, <1>2 DEF CreateJob, BecomeDue, CancelJob, OwnsActiveAttempt
<1>3. CASE \E v \in Workers, n \in AttemptNumbers : Finish(v, j, n)
  <2>1. PICK v \in Workers, n \in AttemptNumbers : Finish(v, j, n)
    BY <1>3
  <2>2. PICK outcome \in FinishedAttempt, s \in {"COMPLETED", "RETRYING", "DEAD_LETTER"} :
          FinishAttempt(v, j, n, outcome) /\ status' = [status EXCEPT ![j] = s]
    BY <2>1, FinishOutcome
  <2> QED
    BY <1>1, <2>2 DEF FinishAttempt, OwnsActiveAttempt
<1> QED
  BY <1>2, <1>3

\* A finished attempt is locked no more, and nor is any other of the job.
LEMMA FinishUnlocks ==
  ASSUME JobInv, NEW v \in Workers, NEW j \in Jobs, NEW n \in AttemptNumbers, Finish(v, j, n),
         NEW w \in Workers, NEW m
  PROVE  ~OwnsActiveAttempt(w, j, m)'
<1>1. PICK outcome \in FinishedAttempt, s \in {"COMPLETED", "RETRYING", "DEAD_LETTER"} :
        FinishAttempt(v, j, n, outcome) /\ status' = [status EXCEPT ![j] = s]
  BY FinishOutcome
<1> QED
  BY <1>1 DEF JobInv, JobTypeOK, OwnsActiveAttempt

\* A claim locks one attempt, for one worker, and changes no other lock.
LEMMA ClaimLocksOne ==
  ASSUME JobInv, NEW v \in Workers, NEW j \in Jobs, ClaimNextJob(v, j),
         NEW w \in Workers, NEW k \in Jobs, NEW m \in AttemptNumbers,
         OwnsActiveAttempt(w, k, m)'
  PROVE  OwnsActiveAttempt(w, k, m) \/ (w = v /\ k = j /\ m = attemptCount'[j])
<1>1. /\ status \in [Jobs -> JobStatus] /\ owner \in [Jobs -> Workers \cup {NoWorker}]
      /\ attempts \in [Jobs -> [AttemptNumbers -> Attempt]] /\ attemptCount \in [Jobs -> Nat]
  BY JobStoreAssumption DEF JobInv, JobTypeOK
<1>2. CASE k # j
  BY <1>1, <1>2 DEF ClaimNextJob, OwnsActiveAttempt
<1>3. CASE k = j
  <2> DEFINE n == attemptCount[j] + 1
  <2>1. owner'[j] = v /\ attemptCount'[j] = n /\ w = v /\ status[j] # "PROCESSING"
    BY <1>1, <1>3 DEF ClaimNextJob, OwnsActiveAttempt, Claimable, ClaimableStatuses
  <2>2. m # n => attempts'[j][m] = attempts[j][m]
    BY <1>1 DEF ClaimNextJob
  <2>3. attempts[j][m] # ActiveAttempt(w)
    <3>1. attempts[j][m].status = "PROCESSING" => status[j] = "PROCESSING"
      BY DEF JobInv, OneActiveAttempt
    <3>2. ActiveAttempt(w).status = "PROCESSING"
      BY DEF ActiveAttempt
    <3> QED
      BY <2>1, <3>1, <3>2
  <2>4. attempts'[j][m] = ActiveAttempt(w)
    BY <1>3 DEF OwnsActiveAttempt
  <2> QED
    BY <1>3, <2>1, <2>2, <2>3, <2>4
<1> QED
  BY <1>2, <1>3

\* Tables that stay as they are keep every lock.
LEMMA SameTablesSameLocks ==
  ASSUME UNCHANGED jobVars, NEW w
  PROVE  /\ \A k, m : OwnsActiveAttempt(w, k, m)' <=> OwnsActiveAttempt(w, k, m)
         /\ LockedJobs(w)' = LockedJobs(w)
BY DEF OwnsActiveAttempt, jobVars, LockedJobs

\* A finishing transaction writes one job.
LEMMA OtherJobsStayLocked ==
  ASSUME JobInv, NEW v \in Workers, NEW j \in Jobs, NEW n \in AttemptNumbers, Finish(v, j, n),
         NEW w \in Workers, NEW k \in Jobs \ {j}, NEW m \in AttemptNumbers,
         OwnsActiveAttempt(w, k, m)
  PROVE  OwnsActiveAttempt(w, k, m)'
<1>1. PICK outcome \in FinishedAttempt, s \in {"COMPLETED", "RETRYING", "DEAD_LETTER"} :
        FinishAttempt(v, j, n, outcome) /\ status' = [status EXCEPT ![j] = s]
  BY FinishOutcome
<1> QED
  BY <1>1 DEF JobInv, JobTypeOK, FinishAttempt, OwnsActiveAttempt

\* While no call fails, an answer is the result and a refusal has its reason.
LEMMA QuietCalls ==
  ASSUME faults = 0, faults' = 0, NEW w, NEW ok, NEW error, NEW matched
  PROVE  /\ ~Fault
         /\ Answer(phase, w, ok, error) => phase' = [phase EXCEPT ![w] = ok]
         /\ Answer(poll, w, ok, error) => poll' = [poll EXCEPT ![w] = ok]
         /\ Answer(rec, w, ok, error) => rec' = [rec EXCEPT ![w] = ok]
         /\ Refused(phase, w, matched, error) => ~matched
         /\ Refused(poll, w, matched, error) => ~matched
         /\ Refused(rec, w, matched, error) => ~matched /\ rec' = [rec EXCEPT ![w] = error]
BY DEF Fault, Answer, Refused, GoTo

\* A live process that holds no claim has no lock.
LEMMA IdleLocksNothing ==
  ASSUME LocksInHand, NEW w \in Workers, phase[w] # "crashed",
         poll[w] \notin {"claimed", "handling", "failing"}
  PROVE  LockedJobs(w) = {}
BY DEF LocksInHand, InHand, Holding

\* What a recovery has read is a set of claims of its target.
LEMMA SnapshotIsTyped ==
  ASSUME FleetInv, SnapshotsHold, NEW r \in Workers, NEW c \in rec[r].jobs
  PROVE  /\ c \in Claim /\ c.job \in Jobs /\ c.attempt \in AttemptNumbers
         /\ rec[r].target \in Workers
         /\ OwnsActiveAttempt(rec[r].target, c.job, c.attempt)
<1>1. c \in Claim
  BY DEF FleetInv, FleetTypeOK, Recovery
<1>2. rec[r].step = "recovering"
  BY DEF SnapshotsHold
<1> QED
  BY <1>1, <1>2, ClaimIsTyped DEF FleetInv, HeldClaims, SnapshotsHold

\* Submission and cancellation leave locks and processes alone.
LEMMA ClientKeepsTidy ==
  ASSUME TidyInv, Untroubled, NEW j \in Jobs, Client(j)
  PROVE  Tidy'
<1>0. /\ FleetInv /\ JobInv /\ HeldClaims
      /\ RowsAreExpected /\ SnapshotsHold /\ FailuresAreHeld /\ LocksInHand
  BY UntroubledFacts
<1>1. /\ row' = row /\ phase' = phase /\ poll' = poll /\ claim' = claim /\ rec' = rec
      /\ crashes' = crashes
      /\ CreateJob(j) \/ BecomeDue(j) \/ CancelJob(j)
  BY DEF Client, fleetVars
<1>2. RowsAreExpected'
  BY <1>0, <1>1 DEF RowsAreExpected
<1>3. SnapshotsHold'
  <2>1. ASSUME NEW r \in Workers, NEW c \in rec[r].jobs
        PROVE  OwnsActiveAttempt(rec[r].target, c.job, c.attempt)'
    <3>1. \A w \in Workers, k \in Jobs, m \in AttemptNumbers :
            OwnsActiveAttempt(w, k, m) => OwnsActiveAttempt(w, k, m)'
      BY <1>0, <1>1, OthersLeaveLocks
    <3>2. OwnsActiveAttempt(rec[r].target, c.job, c.attempt) => 
            OwnsActiveAttempt(rec[r].target, c.job, c.attempt)'
      BY <1>0, <1>1, <3>1, SnapshotIsTyped DEF OwnsActiveAttempt
    <3> QED
      BY <1>0, <3>2, SnapshotIsTyped
  <2> QED
    BY <1>0, <1>1, <2>1 DEF SnapshotsHold
<1>4. FailuresAreHeld'
  <2>1. ASSUME NEW w \in Workers, poll[w] = "failing" PROVE Holds(w)'
    <3>1. claim[w] \in Claim /\ Holds(w)
      BY <1>0, <2>1 DEF HeldClaims, FailuresAreHeld
    <3> QED
      BY <1>0, <1>1, <3>1, OthersLeaveClaims
  <2> QED
    BY <1>1, <2>1 DEF FailuresAreHeld
<1>5. LocksInHand'
  <2>1. ASSUME NEW w \in Workers, NEW c \in Claim, OwnsActiveAttempt(w, c.job, c.attempt)'
        PROVE  OwnsActiveAttempt(w, c.job, c.attempt)
    BY <1>0, <1>1, <2>1, ClaimIsTyped, NoNewLocks
  <2>2. \A w \in Workers : LockedJobs(w)' \subseteq LockedJobs(w)
    BY <2>1 DEF LockedJobs
  <2> QED
    BY <1>0, <1>1, <2>2 DEF LocksInHand, InHand, Holding, UnderRecovery
<1> QED
  BY <1>2, <1>3, <1>4, <1>5 DEF Tidy
\* A step of one living process that changes neither tables nor memory.
LEMMA RowStepKeepsLocks ==
  ASSUME SnapshotsHold, FailuresAreHeld, LocksInHand, UNCHANGED <<jobVars, poll, claim, rec>>,
         \A w \in Workers : phase[w] = "crashed" => phase'[w] = "crashed" /\ row'[w] = row[w]
  PROVE  SnapshotsHold' /\ FailuresAreHeld' /\ LocksInHand'
<1>1. SnapshotsHold' /\ FailuresAreHeld'
  BY DEF SnapshotsHold, FailuresAreHeld, Holds, OwnsActiveAttempt, jobVars
<1>2. \A w : LockedJobs(w)' = LockedJobs(w)
  BY SameTablesSameLocks
<1>3. LocksInHand'
  BY <1>2 DEF LocksInHand, InHand, Holding, UnderRecovery
<1> QED
  BY <1>1, <1>3

\* Starting and beating put the row where it is expected; the lock of the one
\* process that crashes is left to recovery.
LEMMA LifecycleKeepsTidy ==
  ASSUME TidyInv, Untroubled, Untroubled', NEW w \in Workers, Lifecycle(w)
  PROVE  Tidy'
<1>0. /\ ~SlowHeartbeats /\ ~Shutdowns /\ faults = 0
      /\ OnlyDeadAreRecovered /\ RowsAreExpected /\ SnapshotsHold /\ FailuresAreHeld
      /\ LocksInHand
      /\ row \in [Workers -> WorkerStatus \cup {"NONE"}]
      /\ phase \in [Workers -> Phase] /\ poll \in [Workers -> PollStep]
      /\ claim \in [Workers -> Claim \cup {NoClaim}] /\ rec \in [Workers -> Recovery]
  BY UntroubledFacts
<1>1. faults' = 0 /\ crashes \in Nat /\ crashes' <= 1
  BY DEF Untroubled, TidyInv, ServingInv, FleetInv, FleetTypeOK
<1>2. CASE Register(w)
  <2>1. /\ phase[w] = "down" /\ phase' = [phase EXCEPT ![w] = "starting"]
        /\ row' = [row EXCEPT ![w] = "STARTING"]
        /\ UNCHANGED <<jobVars, poll, claim, rec, crashes>>
    BY <1>0, <1>1, <1>2, QuietCalls DEF Register, WriteRow, GoTo
  <2>2. poll[w] = "idle"
    BY <1>0, <2>1 DEF OnlyDeadAreRecovered
  <2>3. RowsAreExpected'
    BY <1>0, <2>1, <2>2 DEF RowsAreExpected
  <2> QED
    BY <1>0, <2>1, <2>3, RowStepKeepsLocks DEF Tidy
<1>3. CASE GoOnline(w)
  <2>1. phase[w] = "starting" /\ row[w] = "STARTING" /\ poll[w] = "idle"
    BY <1>0, <1>3 DEF GoOnline, RowsAreExpected, OnlyDeadAreRecovered
  <2>2. /\ phase' = [phase EXCEPT ![w] = "up"] /\ row' = [row EXCEPT ![w] = "ONLINE"]
        /\ UNCHANGED <<jobVars, poll, claim, rec, crashes>>
    BY <1>0, <1>1, <1>3, <2>1, QuietCalls DEF GoOnline, WriteRow, GoTo
  <2>3. RowsAreExpected'
    BY <1>0, <2>1, <2>2 DEF RowsAreExpected
  <2> QED
    BY <1>0, <2>1, <2>2, <2>3, RowStepKeepsLocks DEF Tidy
<1>4. CASE Signal(w) \/ BeginDrain(w) \/ StopRow(w) \/ OfflineRow(w)
  BY <1>0, <1>4 DEF Signal, BeginDrain, StopRow, OfflineRow, OnlyDeadAreRecovered, Dead
<1>5. CASE Crash(w)
  <2>1. /\ phase' = [phase EXCEPT ![w] = "crashed"] /\ poll' = [poll EXCEPT ![w] = "idle"]
        /\ claim' = [claim EXCEPT ![w] = NoClaim] /\ rec' = [rec EXCEPT ![w] = NoRecovery]
        /\ row' = row /\ crashes' = crashes + 1 /\ UNCHANGED jobVars
    BY <1>5 DEF Crash, GoTo
  <2>2. crashes = 0 /\ crashes' # 0
    BY <1>1, <2>1
  <2>3. \A v \in Workers : phase[v] \notin Dead
    BY <1>0, <2>2 DEF RowsAreExpected, Dead
  <2>4. RowsAreExpected'
    BY <1>0, <2>1, <2>2 DEF RowsAreExpected
  <2>5. SnapshotsHold'
    <3>1. \A r \in Workers : rec'[r] = IF r = w THEN NoRecovery ELSE rec[r]
      BY <1>0, <2>1
    <3>2. NoRecovery.target = NoWorker /\ NoRecovery.jobs = {}
      BY DEF NoRecovery
    <3>3. \A v, k, m : OwnsActiveAttempt(v, k, m)' <=> OwnsActiveAttempt(v, k, m)
      BY <2>1, SameTablesSameLocks
    <3> QED
      BY <1>0, <3>1, <3>2, <3>3 DEF SnapshotsHold
  <2>6. FailuresAreHeld'
    BY <1>0, <2>1 DEF FailuresAreHeld, Holds, OwnsActiveAttempt, jobVars
  <2>7. LocksInHand'
    <3>1. ASSUME NEW v \in Workers, NEW c \in LockedJobs(v) PROVE InHand(v, c)
      BY <1>0, <2>3, <3>1 DEF LocksInHand, Dead
    <3>2. \A v : LockedJobs(v)' = LockedJobs(v)
      BY <2>1, SameTablesSameLocks
    <3>3. ASSUME NEW c \in LockedJobs(w) PROVE row[w] \in StaleCandidateStatuses
      <4>1. poll[w] \in {"claimed", "handling", "failing"}
        BY <3>1, <3>3 DEF InHand, Holding
      <4>2. phase[w] = "up"
        BY <1>0, <4>1 DEF OnlyDeadAreRecovered
      <4> QED
        BY <1>0, <4>2 DEF RowsAreExpected, StaleCandidateStatuses
    <3>4. phase'[w] = "crashed" /\ row' = row
      BY <1>0, <2>1
    <3>5. ASSUME NEW v \in Workers \ {w}, NEW c \in LockedJobs(v) PROVE InHand(v, c)'
      BY <1>0, <2>1, <3>1, <3>5 DEF InHand, Holding
    <3> QED
      BY <3>2, <3>3, <3>4, <3>5 DEF LocksInHand
  <2> QED
    BY <2>4, <2>5, <2>6, <2>7 DEF Tidy
<1>6. CASE Heartbeat(w) \/ HeartbeatLapses(w)
  <2>1. row' = row /\ UNCHANGED <<jobVars, phase, poll, claim, rec, crashes>>
    BY <1>0, <1>6 DEF Heartbeat, HeartbeatLapses, WriteRow, GoTo
  <2>2. RowsAreExpected'
    BY <1>0, <2>1 DEF RowsAreExpected
  <2> QED
    BY <1>0, <2>1, <2>2, RowStepKeepsLocks DEF Tidy
<1> QED
  BY <1>2, <1>3, <1>4, <1>5, <1>6 DEF Lifecycle
\* What an executing process moves of its own, apart from the tables.
ExecutionMove(w, step, held, status_) ==
  /\ poll' = [poll EXCEPT ![w] = step]
  /\ claim' = [claim EXCEPT ![w] = held]
  /\ row' = [row EXCEPT ![w] = status_]
  /\ UNCHANGED <<phase, rec, crashes>>

\* Locks of other processes are where they were when only w executes.
LEMMA OthersKeepTheirHands ==
  ASSUME LocksInHand, NEW w \in Workers, NEW step, NEW held, NEW status_,
         ExecutionMove(w, step, held, status_),
         NEW v \in Workers \ {w}, NEW c \in LockedJobs(v)
  PROVE  \/ InHand(v, c)'
         \/ /\ phase'[v] = "crashed"
            /\ row'[v] \in StaleCandidateStatuses \/ UnderRecovery(v, c)'
<1>1. /\ poll'[v] = poll[v] /\ claim'[v] = claim[v] /\ row'[v] = row[v]
      /\ phase' = phase /\ rec' = rec
  BY DEF ExecutionMove
<1>2. \/ InHand(v, c)
      \/ phase[v] = "crashed" /\ (row[v] \in StaleCandidateStatuses \/ UnderRecovery(v, c))
  BY DEF LocksInHand
<1> QED
  BY <1>1, <1>2 DEF InHand, Holding, UnderRecovery

\* Steps of the polling loop between two calls on the job tables.
LEMMA LoopKeepsTidy ==
  ASSUME TidyInv, Untroubled, Untroubled', NEW w \in Workers,
         StartPoll(w) \/ TakeUpClaim(w) \/ HandlerThrows(w) \/ Settle(w)
  PROVE  Tidy'
<1>0. /\ ~SlowHeartbeats /\ ~Shutdowns /\ faults = 0 /\ HeldClaims
      /\ OnlyDeadAreRecovered /\ ClaimsAreHeld /\ RowsAreExpected /\ SnapshotsHold
      /\ FailuresAreHeld /\ LocksInHand
      /\ row \in [Workers -> WorkerStatus \cup {"NONE"}]
      /\ phase \in [Workers -> Phase] /\ poll \in [Workers -> PollStep]
      /\ claim \in [Workers -> Claim \cup {NoClaim}] /\ rec \in [Workers -> Recovery]
  BY UntroubledFacts
<1>1. faults' = 0 /\ ~Fault
  BY <1>0, QuietCalls DEF Untroubled
<1>2. phase[w] = "up"
  BY <1>0 DEF StartPoll, TakeUpClaim, HandlerThrows, Settle, OnlyDeadAreRecovered, Dead
<1>3. UNCHANGED jobVars
  BY DEF StartPoll, TakeUpClaim, HandlerThrows, Settle
<1>4. \/ poll[w] = "idle" /\ ExecutionMove(w, "claiming", claim[w], row[w])
      \/ poll[w] = "claimed" /\ ExecutionMove(w, "handling", claim[w], "BUSY")
      \/ poll[w] = "handling" /\ ExecutionMove(w, "failing", claim[w], row[w])
      \/ poll[w] = "settled" /\ ExecutionMove(w, "idle", NoClaim, "ONLINE")
  <2>1. CASE StartPoll(w)
    BY <1>0, <2>1 DEF StartPoll, GoTo, ExecutionMove
  <2>2. CASE TakeUpClaim(w)
    <3>1. poll[w] = "claimed" /\ row[w] = "ONLINE"
      BY <1>0, <1>2, <2>2 DEF TakeUpClaim, RowsAreExpected
    <3> QED
      BY <1>0, <1>1, <1>2, <2>2, <3>1 DEF TakeUpClaim, WriteRow, GoTo, ExecutionMove
  <2>3. CASE HandlerThrows(w)
    BY <1>0, <2>3 DEF HandlerThrows, GoTo, ExecutionMove
  <2>4. CASE Settle(w)
    <3>1. poll[w] = "settled" /\ row[w] = "BUSY"
      BY <1>0, <1>2, <2>4 DEF Settle, RowsAreExpected
    <3> QED
      BY <1>0, <1>1, <1>2, <2>4, <3>1 DEF Settle, DropClaim, WriteRow, GoTo, ExecutionMove
  <2> QED
    BY <2>1, <2>2, <2>3, <2>4
<1>5. RowsAreExpected'
  BY <1>0, <1>2, <1>4 DEF RowsAreExpected, ExecutionMove
<1>6. \A v, k, m : OwnsActiveAttempt(v, k, m)' <=> OwnsActiveAttempt(v, k, m)
  BY <1>3, SameTablesSameLocks
<1>7. rec' = rec
  BY <1>4 DEF ExecutionMove
<1>8. SnapshotsHold'
  BY <1>0, <1>6, <1>7 DEF SnapshotsHold
<1>9. FailuresAreHeld'
  <2>1. ASSUME NEW v \in Workers, poll'[v] = "failing" PROVE Holds(v)'
    <3>1. claim'[v] = claim[v] /\ (poll[v] = "failing" \/ poll[v] = "handling")
      BY <1>0, <1>4, <2>1 DEF ExecutionMove
    <3>2. Holds(v)
      BY <1>0, <3>1 DEF FailuresAreHeld, ClaimsAreHeld
    <3> QED
      BY <1>6, <3>1, <3>2 DEF Holds
  <2> QED
    BY <2>1 DEF FailuresAreHeld
<1>10. LocksInHand'
  <2>1. \A v : LockedJobs(v)' = LockedJobs(v)
    BY <1>3, SameTablesSameLocks
  <2>2. ASSUME NEW c \in LockedJobs(w) PROVE InHand(w, c)'
    <3>1. InHand(w, c)
      BY <1>0, <1>2, <2>2 DEF LocksInHand
    <3> QED
      BY <1>0, <1>4, <3>1 DEF InHand, Holding, ExecutionMove
  <2>3. ASSUME NEW v \in Workers \ {w}, NEW c \in LockedJobs(v)
        PROVE  \/ InHand(v, c)'
               \/ /\ phase'[v] = "crashed"
                  /\ row'[v] \in StaleCandidateStatuses \/ UnderRecovery(v, c)'
    BY <1>0, <1>4, OthersKeepTheirHands
  <2> QED
    BY <2>1, <2>2, <2>3 DEF LocksInHand
<1> QED
  BY <1>5, <1>8, <1>9, <1>10 DEF Tidy

\* A claim that is answered is held in memory before anything else happens.
LEMMA ClaimKeepsTidy ==
  ASSUME TidyInv, Untroubled, Untroubled', NEW w \in Workers, ClaimAnswers(w)
  PROVE  Tidy'
<1>0. /\ ~SlowHeartbeats /\ ~Shutdowns /\ faults = 0 /\ FleetInv /\ JobInv /\ HeldClaims
      /\ OnlyDeadAreRecovered /\ ClaimsAreHeld /\ RowsAreExpected /\ SnapshotsHold
      /\ FailuresAreHeld /\ LocksInHand
      /\ row \in [Workers -> WorkerStatus \cup {"NONE"}]
      /\ phase \in [Workers -> Phase] /\ poll \in [Workers -> PollStep]
      /\ claim \in [Workers -> Claim \cup {NoClaim}] /\ rec \in [Workers -> Recovery]
  BY UntroubledFacts
<1>1. faults' = 0 /\ ~Fault
  BY <1>0, QuietCalls DEF Untroubled
<1>2. poll[w] = "claiming" /\ phase[w] = "up" /\ UNCHANGED <<row, phase, rec, crashes>>
  BY <1>0 DEF ClaimAnswers, OnlyDeadAreRecovered
<1>3. LockedJobs(w) = {}
  BY <1>0, <1>2, IdleLocksNothing
<1>4. CASE UNCHANGED jobVars
  <2>1. ASSUME NEW j \in Jobs, ClaimNextJob(w, j) PROVE FALSE
    BY <1>0, <1>4, <2>1
    DEF ClaimNextJob, Claimable, ClaimableStatuses, jobVars, JobInv, JobTypeOK
  <2>2. claim' = claim /\ poll' = [poll EXCEPT ![w] = "idle"]
    BY <2>1 DEF ClaimAnswers, Refused, GoTo
  <2>3. RowsAreExpected' /\ SnapshotsHold' /\ FailuresAreHeld'
    BY <1>0, <1>2, <1>4, <2>2
    DEF RowsAreExpected, SnapshotsHold, FailuresAreHeld, Holds, OwnsActiveAttempt, jobVars
  <2>4. ExecutionMove(w, "idle", claim[w], row[w])
    BY <1>0, <1>2, <2>2 DEF ExecutionMove
  <2>5. \A v : LockedJobs(v)' = LockedJobs(v)
    BY <1>4, SameTablesSameLocks
  <2>6. LocksInHand'
    BY <1>0, <1>3, <2>4, <2>5, OthersKeepTheirHands DEF LocksInHand
  <2> QED
    BY <2>3, <2>6 DEF Tidy
<1>5. CASE ~UNCHANGED jobVars
  <2>1. PICK j \in Jobs :
          /\ ClaimNextJob(w, j)
          /\ claim' = [claim EXCEPT ![w] = [job |-> j, attempt |-> attemptCount'[j]]]
          /\ poll' = [poll EXCEPT ![w] = "claimed"]
    BY <1>1, <1>2, <1>5 DEF ClaimAnswers, GoTo
  <2>2. PICK held : held = [job |-> j, attempt |-> attemptCount'[j]]
    OBVIOUS
  <2>3. /\ ClaimNextJob(w, j)
        /\ claim' = [claim EXCEPT ![w] = held]
        /\ poll' = [poll EXCEPT ![w] = "claimed"]
    BY <2>1, <2>2
  <2>4. ExecutionMove(w, "claimed", held, row[w])
    BY <1>0, <1>2, <2>3 DEF ExecutionMove
  <2>5. RowsAreExpected'
    BY <1>0, <1>2, <2>3 DEF RowsAreExpected
  <2>6. \A v \in Workers, k \in Jobs, m \in AttemptNumbers :
          OwnsActiveAttempt(v, k, m) => OwnsActiveAttempt(v, k, m)'
    BY <1>0, <2>3, OthersLeaveLocks
  <2>7. SnapshotsHold'
    <3>1. ASSUME NEW r \in Workers, NEW c \in rec[r].jobs
          PROVE  OwnsActiveAttempt(rec[r].target, c.job, c.attempt)'
      <4>1. /\ c.job \in Jobs /\ c.attempt \in AttemptNumbers /\ rec[r].target \in Workers
            /\ OwnsActiveAttempt(rec[r].target, c.job, c.attempt)
        BY <1>0, SnapshotIsTyped
      <4>2. \A v \in Workers :
              OwnsActiveAttempt(v, c.job, c.attempt) => OwnsActiveAttempt(v, c.job, c.attempt)'
        BY <2>6, <4>1
      <4> QED
        BY <1>2, <4>1, <4>2 DEF OwnsActiveAttempt
    <3> QED
      BY <1>0, <1>2, <3>1 DEF SnapshotsHold
  <2>8. FailuresAreHeld'
    <3>1. ASSUME NEW v \in Workers \ {w}, poll[v] = "failing" PROVE Holds(v)'
      <4>1. claim[v] \in Claim /\ claim'[v] = claim[v] /\ Holds(v)
        BY <1>0, <2>3, <3>1 DEF HeldClaims, FailuresAreHeld
      <4> QED
        BY <1>0, <2>3, <4>1, OthersLeaveClaims
    <3> QED
      BY <1>0, <2>3, <3>1 DEF FailuresAreHeld
  <2>9. LocksInHand'
    <3>1. ASSUME NEW v \in Workers, NEW c \in LockedJobs(v)'
          PROVE  c \in LockedJobs(v) \/ (v = w /\ c = held)
      <4>1. c \in Claim /\ OwnsActiveAttempt(v, c.job, c.attempt)'
        BY <3>1 DEF LockedJobs
      <4>2. \/ OwnsActiveAttempt(v, c.job, c.attempt)
            \/ v = w /\ c.job = j /\ c.attempt = attemptCount'[j]
        BY <1>0, <2>3, <4>1, ClaimIsTyped, ClaimLocksOne
      <4> QED
        BY <2>2, <4>1, <4>2 DEF LockedJobs, Claim
    <3>2. InHand(w, held)'
      BY <1>0, <2>3 DEF InHand, Holding
    <3> QED
      BY <1>0, <1>3, <2>4, <3>1, <3>2, OthersKeepTheirHands DEF LocksInHand
  <2> QED
    BY <2>5, <2>7, <2>8, <2>9 DEF Tidy
<1> QED
  BY <1>4, <1>5
\* A process settles the one attempt it holds, so its lock goes with its claim.
LEMMA FinishKeepsTidy ==
  ASSUME TidyInv, Untroubled, Untroubled', NEW w \in Workers,
         HandlerReturns(w) \/ RecordFailure(w)
  PROVE  Tidy'
<1>0. /\ ~SlowHeartbeats /\ ~Shutdowns /\ faults = 0 /\ FleetInv /\ JobInv /\ HeldClaims
      /\ OnlyDeadAreRecovered /\ ClaimsAreHeld /\ RowsAreExpected /\ SnapshotsHold
      /\ FailuresAreHeld /\ LocksInHand
      /\ row \in [Workers -> WorkerStatus \cup {"NONE"}]
      /\ phase \in [Workers -> Phase] /\ poll \in [Workers -> PollStep]
      /\ claim \in [Workers -> Claim \cup {NoClaim}] /\ rec \in [Workers -> Recovery]
  BY UntroubledFacts
<1>1. faults' = 0
  BY DEF Untroubled
<1>2. /\ poll[w] \in {"handling", "failing"} /\ phase[w] = "up" /\ claim[w] \in Claim /\ Holds(w)
      /\ UNCHANGED <<row, phase, claim, rec, crashes>>
  BY <1>0
  DEF HandlerReturns, RecordFailure, EndExecution, OnlyDeadAreRecovered, HeldClaims,
      ClaimsAreHeld, FailuresAreHeld
<1>3. /\ Finish(w, claim[w].job, claim[w].attempt)
      /\ poll' = [poll EXCEPT ![w] = "settled"]
  BY <1>0, <1>1, <1>2, QuietCalls
  DEF HandlerReturns, RecordFailure, EndExecution, GoTo, Fault, Finish
<1>4. PICK j \in Jobs, n \in AttemptNumbers :
        claim[w] = [job |-> j, attempt |-> n] /\ Finish(w, j, n)
  <2>1. PICK c \in Claim : c = claim[w]
    BY <1>2
  <2> QED
    BY <1>3, <2>1 DEF Claim
<1>5. ExecutionMove(w, "settled", claim[w], row[w])
  BY <1>0, <1>2, <1>3 DEF ExecutionMove
<1>6. RowsAreExpected'
  BY <1>0, <1>2, <1>3 DEF RowsAreExpected
<1>7. ASSUME NEW v \in Workers \ {w}, NEW k \in Jobs, NEW m \in AttemptNumbers,
             OwnsActiveAttempt(v, k, m)
      PROVE  OwnsActiveAttempt(v, k, m)'
  <2>1. w \in Workers \ {v}
    OBVIOUS
  <2> QED
    BY <1>0, <1>4, <1>7, <2>1, OthersLeaveLocks
<1>8. SnapshotsHold'
  <2>1. ASSUME NEW r \in Workers, NEW c \in rec[r].jobs, NEW t, t = rec[r].target
        PROVE  OwnsActiveAttempt(t, c.job, c.attempt)'
    <3>1. /\ c.job \in Jobs /\ c.attempt \in AttemptNumbers /\ t \in Workers
          /\ OwnsActiveAttempt(t, c.job, c.attempt)
      BY <1>0, <2>1, SnapshotIsTyped
    <3>2. phase[t] \in Dead
      BY <1>0, <2>1, <3>1, JobStoreAssumption DEF OnlyDeadAreRecovered
    <3>3. t # w
      BY <1>2, <3>2 DEF Dead
    <3> QED
      BY <1>7, <3>1, <3>3
  <2>2. \A r \in Workers : \A c \in rec[r].jobs : OwnsActiveAttempt(rec[r].target, c.job, c.attempt)'
    BY <1>2, <2>1 DEF OwnsActiveAttempt
  <2> QED
    BY <1>0, <1>2, <2>2 DEF SnapshotsHold
<1>9. FailuresAreHeld'
  <2>1. ASSUME NEW v \in Workers \ {w}, poll[v] = "failing" PROVE Holds(v)'
    <3>1. claim[v] \in Claim /\ claim'[v] = claim[v] /\ Holds(v) /\ w \in Workers \ {v}
      BY <1>0, <1>2, <2>1 DEF HeldClaims, FailuresAreHeld
    <3> QED
      BY <1>0, <1>4, <3>1, OthersLeaveClaims
  <2> QED
    BY <1>0, <1>3, <2>1 DEF FailuresAreHeld
<1>10. LocksInHand'
  <2>1. ASSUME NEW v \in Workers, NEW c \in LockedJobs(v)'
        PROVE  c \in LockedJobs(v) /\ c # claim[w]
    <3>1. c \in Claim /\ OwnsActiveAttempt(v, c.job, c.attempt)'
      BY <2>1 DEF LockedJobs
    <3>2. c.job # j
      BY <1>0, <1>4, <3>1, FinishUnlocks
    <3>3. OwnsActiveAttempt(v, c.job, c.attempt)
      BY <1>0, <1>4, <3>1, ClaimIsTyped, NoNewLocks
    <3> QED
      BY <1>4, <3>1, <3>2, <3>3 DEF LockedJobs
  <2>2. LockedJobs(w)' = {}
    BY <1>0, <1>2, <2>1 DEF LocksInHand, InHand, Holding
  <2> QED
    BY <1>0, <1>5, <2>1, <2>2, OthersKeepTheirHands DEF LocksInHand
<1> QED
  BY <1>6, <1>8, <1>9, <1>10 DEF Tidy

\* Recovery finds the dead, takes over their locks and releases them all.
LEMMA RecoveryKeepsTidy ==
  ASSUME TidyInv, Untroubled, Untroubled', NEW r \in Workers, RecoveryStep(r)
  PROVE  Tidy'
<1>0. /\ ~SlowHeartbeats /\ ~Shutdowns /\ faults = 0
      /\ FleetInv /\ JobInv /\ HeldClaims /\ OneRecoverer
      /\ OnlyDeadAreRecovered /\ ClaimsAreHeld /\ RowsAreExpected /\ SnapshotsHold
      /\ FailuresAreHeld /\ LocksInHand
      /\ row \in [Workers -> WorkerStatus \cup {"NONE"}]
      /\ phase \in [Workers -> Phase] /\ poll \in [Workers -> PollStep]
      /\ claim \in [Workers -> Claim \cup {NoClaim}] /\ rec \in [Workers -> Recovery]
  BY UntroubledFacts
<1>1. faults' = 0 /\ ~Fault
  BY <1>0, QuietCalls DEF Untroubled
<1>2. phase' = phase /\ poll' = poll /\ claim' = claim /\ crashes' = crashes
  BY DEF RecoveryStep, Scan, Condemn, ReadLockedJobs, RecoverLockedJob, MarkRecovered
<1>3. \A batch : /\ NextInBatch(batch).target = NoWorker /\ NextInBatch(batch).jobs = {}
                 /\ NextInBatch(batch).step \in {"idle", "scanned"}
  BY DEF NextInBatch, NoRecovery
<1>4. ASSUME UNCHANGED jobVars, NEW to, rec' = [rec EXCEPT ![r] = to],
             to.step \in {"idle", "scanned"} => to.target = NoWorker,
             to.step # "recovering" => to.jobs = {},
             \A c \in to.jobs : OwnsActiveAttempt(to.target, c.job, c.attempt),
             \A v \in Workers : row'[v] # row[v] => phase[v] \in Dead,
             \A v \in Workers : \A c \in LockedJobs(v) :
               phase[v] = "crashed" =>
                 row'[v] \in StaleCandidateStatuses \/ UnderRecovery(v, c)'
      PROVE  Tidy'
  <2>1. RowsAreExpected'
    BY <1>0, <1>2, <1>4 DEF RowsAreExpected, Dead
  <2>2. \A v, k, m : OwnsActiveAttempt(v, k, m)' <=> OwnsActiveAttempt(v, k, m)
    BY <1>4, SameTablesSameLocks
  <2>3. \A v : LockedJobs(v)' = LockedJobs(v)
    BY <1>4, SameTablesSameLocks
  <2>4. SnapshotsHold'
    <3>1. \A q \in Workers : rec'[q] = IF q = r THEN to ELSE rec[q]
      BY <1>0, <1>4
    <3> QED
      BY <1>0, <1>4, <2>2, <3>1 DEF SnapshotsHold
  <2>5. FailuresAreHeld'
    BY <1>0, <1>2, <2>2 DEF FailuresAreHeld, Holds
  <2>6. LocksInHand'
    <3>1. \A v \in Workers : \A c \in LockedJobs(v) : InHand(v, c) => InHand(v, c)'
      BY <1>2 DEF InHand, Holding
    <3> QED
      BY <1>0, <1>2, <1>4, <2>3, <3>1 DEF LocksInHand
  <2> QED
    BY <2>1, <2>4, <2>5, <2>6 DEF Tidy
<1>5. ASSUME NEW v \in Workers, NEW c \in LockedJobs(v), phase[v] = "crashed"
      PROVE  row[v] \in StaleCandidateStatuses \/ UnderRecovery(v, c)
  <2>1. \/ InHand(v, c) \/ row[v] \in StaleCandidateStatuses \/ UnderRecovery(v, c)
    BY <1>0, <1>5 DEF LocksInHand
  <2>2. poll[v] = "idle"
    BY <1>0, <1>5 DEF OnlyDeadAreRecovered
  <2> QED
    BY <2>1, <2>2 DEF InHand, Holding
<1>6. ASSUME NEW v \in Workers, NEW c, rec[r].target # v, UnderRecovery(v, c),
             \A q \in Workers \ {r} : rec'[q] = rec[q]
      PROVE  UnderRecovery(v, c)'
  BY <1>6 DEF UnderRecovery
<1>7. rec[r].step \in {"idle", "scanned"} => rec[r].target = NoWorker
  BY <1>0 DEF SnapshotsHold
<1>8. CASE Scan(r)
  <2>1. PICK batch : rec' = [rec EXCEPT ![r] = NextInBatch(batch)]
    BY <1>8 DEF Scan, GoTo
  <2>2. rec[r].target = NoWorker /\ UNCHANGED jobVars /\ row' = row
    BY <1>7, <1>8 DEF Scan
  <2>3. \A v \in Workers : \A c \in LockedJobs(v) :
          phase[v] = "crashed" => row'[v] \in StaleCandidateStatuses \/ UnderRecovery(v, c)'
    BY <1>0, <1>5, <1>6, <2>1, <2>2, JobStoreAssumption
  <2> QED
    BY <1>3, <1>4, <2>1, <2>2, <2>3
<1>9. CASE Condemn(r)
  <2>1. PICK w \in rec[r].batch :
          \/ /\ row[w] \in StaleCandidateStatuses /\ stale[w]
             /\ row' = [row EXCEPT ![w] = "UNHEALTHY"]
             /\ rec' = [rec EXCEPT ![r] = [step |-> "marked", batch |-> rec[r].batch \ {w},
                                           target |-> w, jobs |-> {}]]
          \/ /\ row' = row
             /\ rec' = [rec EXCEPT ![r] = NextInBatch(rec[r].batch \ {w})]
    BY <1>0, <1>1, <1>9, QuietCalls DEF Condemn, GoTo
  <2>2. w \in Workers /\ rec[r].target = NoWorker /\ UNCHANGED jobVars
    BY <1>0, <1>7, <1>9, <2>1 DEF Condemn, Recovery
  <2>3. \A v \in Workers : rec[r].target # v
    BY <2>2, JobStoreAssumption
  <2>4. CASE row' = row /\ rec' = [rec EXCEPT ![r] = NextInBatch(rec[r].batch \ {w})]
    <3>1. \A v \in Workers : \A c \in LockedJobs(v) :
            phase[v] = "crashed" => row'[v] \in StaleCandidateStatuses \/ UnderRecovery(v, c)'
      BY <1>0, <1>5, <1>6, <2>3, <2>4
    <3> QED
      BY <1>3, <1>4, <2>2, <2>4, <3>1
  <2>5. CASE /\ row[w] \in StaleCandidateStatuses /\ stale[w]
             /\ row' = [row EXCEPT ![w] = "UNHEALTHY"]
             /\ rec' = [rec EXCEPT ![r] = [step |-> "marked", batch |-> rec[r].batch \ {w},
                                           target |-> w, jobs |-> {}]]
    <3> DEFINE to == [step |-> "marked", batch |-> rec[r].batch \ {w}, target |-> w, jobs |-> {}]
    <3>1. stale[w] /\ row' = [row EXCEPT ![w] = "UNHEALTHY"] /\ rec' = [rec EXCEPT ![r] = to]
      BY <2>5
    <3>2. phase[w] \in Dead
      BY <1>0, <2>2, <3>1 DEF OnlyDeadAreRecovered
    <3>3. to.step = "marked" /\ to.target = w /\ to.jobs = {}
      OBVIOUS
    <3> HIDE DEF to
    <3>4. rec'[r] = to
      BY <1>0, <3>1
    <3>5. \A c : UnderRecovery(w, c)'
      BY <3>3, <3>4 DEF UnderRecovery
    <3>6. ASSUME NEW v \in Workers \ {w}, NEW c \in LockedJobs(v), phase[v] = "crashed"
          PROVE  row'[v] \in StaleCandidateStatuses \/ UnderRecovery(v, c)'
      BY <1>0, <1>5, <1>6, <2>3, <3>1, <3>6
    <3>7. \A v \in Workers : \A c \in LockedJobs(v) :
            phase[v] = "crashed" => row'[v] \in StaleCandidateStatuses \/ UnderRecovery(v, c)'
      BY <3>5, <3>6
    <3>8. \A v \in Workers : row'[v] # row[v] => phase[v] \in Dead
      BY <1>0, <3>1, <3>2
    <3> QED
      BY <1>4, <2>2, <3>1, <3>3, <3>7, <3>8
  <2> QED
    BY <2>1, <2>4, <2>5
<1>10. CASE ReadLockedJobs(r)
  <2>0. PICK t : t = rec[r].target
    OBVIOUS
  <2> DEFINE to == [rec[r] EXCEPT !.step = "recovering", !.jobs = LockedJobs(rec[r].target)]
  <2>1. rec' = [rec EXCEPT ![r] = to] /\ row' = row /\ UNCHANGED jobVars
    <3>1. Answer(rec, r, to, NextInBatch(rec[r].batch)) /\ row' = row /\ UNCHANGED jobVars
      BY <1>10 DEF ReadLockedJobs
    <3>2. Answer(rec, r, to, NextInBatch(rec[r].batch)) => rec' = [rec EXCEPT ![r] = to]
      BY <1>1 DEF Answer, GoTo
    <3> QED
      BY <3>1, <3>2
  <2>2. to.step = "recovering" /\ to.target = t /\ to.jobs = LockedJobs(t)
    BY <1>0, <2>0 DEF Recovery
  <2> HIDE DEF to
  <2>3. rec'[r] = to
    BY <1>0, <2>1
  <2>4. \A c \in LockedJobs(t) : UnderRecovery(t, c)'
    BY <2>2, <2>3 DEF UnderRecovery
  <2>5. ASSUME NEW v \in Workers, NEW c \in LockedJobs(v), phase[v] = "crashed"
        PROVE  row'[v] \in StaleCandidateStatuses \/ UnderRecovery(v, c)'
    <3>1. CASE v = t
      BY <2>4, <2>5, <3>1
    <3>2. CASE v # t
      BY <1>0, <1>5, <1>6, <2>0, <2>1, <2>5, <3>2
    <3> QED
      BY <3>1, <3>2
  <2>6. \A c \in to.jobs : OwnsActiveAttempt(to.target, c.job, c.attempt)
    BY <2>2 DEF LockedJobs
  <2>7. \A v \in Workers : row'[v] # row[v] => phase[v] \in Dead
    BY <2>1
  <2> QED
    BY <1>4, <2>1, <2>2, <2>5, <2>6, <2>7
<1>11. CASE RecoverLockedJob(r)
  <2>0. PICK t : t = rec[r].target
    OBVIOUS
  <2>1. PICK c \in rec[r].jobs :
          \/ /\ \/ RecoverJobForRetry(t, c.job, c.attempt)
                \/ RecoverJobToDeadLetter(t, c.job, c.attempt)
             /\ Answer(rec, r, [rec[r] EXCEPT !.jobs = @ \ {c}], NextInBatch(rec[r].batch))
          \/ Refused(rec, r, OwnsActiveAttempt(t, c.job, c.attempt), NextInBatch(rec[r].batch))
    BY <1>11, <2>0 DEF RecoverLockedJob
  <2>2. /\ c \in Claim /\ c.job \in Jobs /\ c.attempt \in AttemptNumbers /\ t \in Workers
        /\ OwnsActiveAttempt(t, c.job, c.attempt)
    BY <1>0, <2>0, SnapshotIsTyped
  <2> DEFINE to == [rec[r] EXCEPT !.jobs = @ \ {c}]
  <2>3. Finish(t, c.job, c.attempt) /\ rec' = [rec EXCEPT ![r] = to] /\ row' = row
    <3>1. ~Refused(rec, r, OwnsActiveAttempt(t, c.job, c.attempt), NextInBatch(rec[r].batch))
      BY <1>1, <2>2 DEF Refused
    <3>2. Answer(rec, r, to, NextInBatch(rec[r].batch)) => rec' = [rec EXCEPT ![r] = to]
      BY <1>1 DEF Answer, GoTo
    <3> QED
      BY <1>11, <2>1, <3>1, <3>2 DEF Finish, RecoverLockedJob
  <2>4. to.step = rec[r].step /\ to.target = t /\ to.jobs = rec[r].jobs \ {c}
    BY <1>0, <2>0 DEF Recovery
  <2>5. rec[r].step = "recovering" /\ t # NoWorker /\ phase[t] \in Dead
    BY <1>0, <1>11, <2>0, <2>2, JobStoreAssumption DEF RecoverLockedJob, OnlyDeadAreRecovered
  <2> HIDE DEF to
  <2>6. \A q \in Workers : rec'[q] = IF q = r THEN to ELSE rec[q]
    BY <1>0, <2>3
  <2>7. RowsAreExpected'
    BY <1>0, <1>2, <2>3 DEF RowsAreExpected
  <2>8. ASSUME NEW d \in Claim, d # c, OwnsActiveAttempt(t, d.job, d.attempt)
        PROVE  OwnsActiveAttempt(t, d.job, d.attempt)'
    <3>1. d.job # c.job
      <4>1. attempts[c.job][c.attempt].status = "PROCESSING"
            /\ attempts[d.job][d.attempt].status = "PROCESSING"
        BY <2>2, <2>8 DEF OwnsActiveAttempt, ActiveAttempt
      <4>2. c.attempt = attemptCount[c.job] /\ d.attempt = attemptCount[d.job]
        BY <1>0, <2>2, <4>1, ClaimIsTyped DEF JobInv, OneActiveAttempt
      <4> QED
        BY <2>2, <2>8, <4>2 DEF Claim
    <3> QED
      BY <1>0, <2>2, <2>3, <2>8, <3>1, ClaimIsTyped, OtherJobsStayLocked
  <2>9. ASSUME NEW q \in Workers \ {r}, NEW d \in rec[q].jobs, NEW u, u = rec[q].target
        PROVE  OwnsActiveAttempt(u, d.job, d.attempt)'
    <3>1. /\ d.job \in Jobs /\ d.attempt \in AttemptNumbers /\ u \in Workers
          /\ OwnsActiveAttempt(u, d.job, d.attempt)
      BY <1>0, <2>9, SnapshotIsTyped
    <3>2. u # t
      BY <1>0, <2>0, <2>5, <2>9 DEF OneRecoverer
    <3>3. t \in Workers \ {u}
      BY <2>2, <3>2
    <3> QED
      BY <1>0, <2>2, <2>3, <3>1, <3>3, OthersLeaveLocks
  <2>10. SnapshotsHold'
    <3>1. ASSUME NEW q \in Workers, NEW d \in rec'[q].jobs, NEW u, u = rec'[q].target
          PROVE  OwnsActiveAttempt(u, d.job, d.attempt)'
      <4>1. ASSUME NEW e \in to.jobs PROVE OwnsActiveAttempt(t, e.job, e.attempt)'
        <5>1. e \in rec[r].jobs /\ e # c
          BY <2>4, <4>1
        <5>2. e \in Claim /\ OwnsActiveAttempt(t, e.job, e.attempt)
          BY <1>0, <2>0, <5>1, SnapshotIsTyped
        <5> QED
          BY <2>8, <5>1, <5>2
      <4> QED
        BY <2>4, <2>6, <2>9, <3>1, <4>1
    <3>2. \A q \in Workers :
            /\ rec'[q].step \in {"idle", "scanned"} => rec'[q].target = NoWorker
            /\ rec'[q].step # "recovering" => rec'[q].jobs = {}
      BY <1>0, <2>4, <2>5, <2>6 DEF SnapshotsHold
    <3> QED
      BY <3>1, <3>2 DEF SnapshotsHold
  <2>11. FailuresAreHeld'
    <3>1. ASSUME NEW v \in Workers, poll[v] = "failing" PROVE Holds(v)'
      <4>1. claim[v] \in Claim /\ claim'[v] = claim[v] /\ Holds(v) /\ phase[v] = "up"
        BY <1>0, <1>2, <3>1 DEF HeldClaims, FailuresAreHeld, OnlyDeadAreRecovered
      <4>2. t \in Workers \ {v}
        BY <2>2, <2>5, <4>1 DEF Dead
      <4> QED
        BY <1>0, <2>2, <2>3, <4>1, <4>2, OthersLeaveClaims
    <3> QED
      BY <1>2, <3>1 DEF FailuresAreHeld
  <2>12. LocksInHand'
    <3>1. ASSUME NEW v \in Workers, NEW d \in LockedJobs(v)' PROVE d \in LockedJobs(v) /\ d # c
      <4>1. d \in Claim /\ OwnsActiveAttempt(v, d.job, d.attempt)'
        BY <3>1 DEF LockedJobs
      <4>2. d.job # c.job
        BY <1>0, <2>2, <2>3, <4>1, FinishUnlocks
      <4>3. OwnsActiveAttempt(v, d.job, d.attempt)
        BY <1>0, <2>2, <2>3, <4>1, ClaimIsTyped, NoNewLocks
      <4> QED
        BY <4>1, <4>2, <4>3 DEF LockedJobs
    <3>2. \A v \in Workers : \A d \in LockedJobs(v) :
            d # c /\ UnderRecovery(v, d) => UnderRecovery(v, d)'
      BY <2>0, <2>4, <2>6 DEF UnderRecovery
    <3>3. \A v \in Workers : \A d \in LockedJobs(v) : InHand(v, d) => InHand(v, d)'
      BY <1>2 DEF InHand, Holding
    <3> QED
      BY <1>0, <1>2, <2>3, <3>1, <3>2, <3>3 DEF LocksInHand
  <2> QED
    BY <2>7, <2>10, <2>11, <2>12 DEF Tidy
<1>12. CASE MarkRecovered(r)
  <2>0. PICK t : t = rec[r].target
    OBVIOUS
  <2>1. /\ rec[r].step = "recovering" /\ rec[r].jobs = {} /\ t \in Workers
        /\ rec' = [rec EXCEPT ![r] = NextInBatch(rec[r].batch)]
        /\ row' = row \/ row' = [row EXCEPT ![t] = "OFFLINE"]
        /\ UNCHANGED jobVars
    BY <1>0, <1>12, <2>0 DEF MarkRecovered, GoTo, HeldClaims
  <2>2. phase[t] \in Dead /\ t # NoWorker
    BY <1>0, <2>0, <2>1, JobStoreAssumption DEF OnlyDeadAreRecovered
  <2>3. row[t] \notin StaleCandidateStatuses /\ \A q \in Workers \ {r} : rec[q].target # t
    BY <1>0, <2>0, <2>2 DEF OneRecoverer, StaleCandidateStatuses
  <2>4. \A c : ~UnderRecovery(t, c)
    BY <2>0, <2>1, <2>3 DEF UnderRecovery
  <2>5. ASSUME NEW v \in Workers, NEW c \in LockedJobs(v), phase[v] = "crashed"
        PROVE  row'[v] \in StaleCandidateStatuses \/ UnderRecovery(v, c)'
    <3>1. v # t
      BY <1>5, <2>3, <2>4, <2>5
    <3> QED
      BY <1>0, <1>5, <1>6, <2>0, <2>1, <2>5, <3>1
  <2>6. \A v \in Workers : row'[v] # row[v] => phase[v] \in Dead
    BY <1>0, <2>1, <2>2
  <2> QED
    BY <1>3, <1>4, <2>1, <2>5, <2>6
<1> QED
  BY <1>8, <1>9, <1>10, <1>11, <1>12 DEF RecoveryStep

\* No process has started, and no job is locked.
LEMMA TidyInitInv == FleetInit => TidyInv
<1> SUFFICES ASSUME FleetInit PROVE Tidy
  BY ServingInitInv DEF TidyInv
<1>1. \A w \in Workers : LockedJobs(w) = {}
  BY ClaimIsTyped DEF FleetInit, JobInit, LockedJobs, OwnsActiveAttempt
<1> QED
  BY <1>1
  DEF FleetInit, NoRecovery, Tidy, RowsAreExpected, SnapshotsHold, FailuresAreHeld, LocksInHand

\* Failed calls and crashes are counted, never forgotten.
LEMMA TroubleIsCounted ==
  ASSUME FleetNext
  PROVE  (UNCHANGED faults \/ Fault) /\ (UNCHANGED crashes \/ crashes' = crashes + 1)
<1>1. ASSUME NEW j \in Jobs, Client(j) PROVE UNCHANGED <<faults, crashes>>
  BY <1>1 DEF Client, fleetVars
<1>2. ASSUME NEW w \in Workers, Lifecycle(w)
      PROVE  (UNCHANGED faults \/ Fault) /\ (UNCHANGED crashes \/ crashes' = crashes + 1)
  BY <1>2
  DEF Lifecycle, Register, GoOnline, Signal, BeginDrain, StopRow, OfflineRow, Crash, Heartbeat,
      HeartbeatLapses, Answer, Refused
<1>3. ASSUME NEW w \in Workers, Execution(w)
      PROVE  (UNCHANGED faults \/ Fault) /\ UNCHANGED crashes
  BY <1>3
  DEF Execution, StartPoll, ClaimAnswers, TakeUpClaim, HandlerReturns, HandlerThrows,
      RecordFailure, Settle, Answer, Refused
<1>4. ASSUME NEW r \in Workers, RecoveryStep(r)
      PROVE  (UNCHANGED faults \/ Fault) /\ UNCHANGED crashes
  BY <1>4
  DEF RecoveryStep, Scan, Condemn, ReadLockedJobs, RecoverLockedJob, MarkRecovered, Answer, Refused
<1> QED
  BY <1>1, <1>2, <1>3, <1>4 DEF FleetNext

\* So a fleet that is untroubled after a step was so before it.
LEMMA TroubleRemains == FleetInv /\ [FleetNext]_vars /\ Untroubled' => Untroubled
<1> SUFFICES ASSUME FleetInv, [FleetNext]_vars, Untroubled' PROVE Untroubled
  OBVIOUS
<1>1. crashes \in Nat /\ faults \in Nat
  BY DEF FleetInv, FleetTypeOK
<1>2. CASE UNCHANGED vars
  BY <1>2 DEF Untroubled, vars, fleetVars
<1>3. CASE FleetNext
  BY <1>1, <1>3, TroubleIsCounted DEF Untroubled, Fault
<1> QED
  BY <1>2, <1>3

\* Every step keeps the invariant.
LEMMA TidyNextInv == TidyInv /\ [FleetNext]_vars => TidyInv'
<1> SUFFICES ASSUME TidyInv, [FleetNext]_vars PROVE TidyInv'
  OBVIOUS
<1>1. ServingInv'
  BY ServingNextInv DEF TidyInv
<1>2. ASSUME Untroubled' PROVE Tidy'
  <2>1. Untroubled
    BY <1>2, TroubleRemains DEF TidyInv, ServingInv
  <2>2. ASSUME NEW j \in Jobs, Client(j) PROVE Tidy'
    BY <2>1, <2>2, ClientKeepsTidy
  <2>3. ASSUME NEW w \in Workers, Lifecycle(w) PROVE Tidy'
    BY <1>2, <2>1, <2>3, LifecycleKeepsTidy
  <2>4. ASSUME NEW w \in Workers, Execution(w) PROVE Tidy'
    BY <1>2, <2>1, <2>4, LoopKeepsTidy, ClaimKeepsTidy, FinishKeepsTidy DEF Execution
  <2>5. ASSUME NEW w \in Workers, RecoveryStep(w) PROVE Tidy'
    BY <1>2, <2>1, <2>5, RecoveryKeepsTidy
  <2>6. CASE UNCHANGED vars
    <3>1. UNCHANGED <<row, phase, poll, claim, rec, crashes>> /\ UNCHANGED jobVars
      BY <2>6 DEF vars, fleetVars
    <3>2. Tidy
      BY <2>1 DEF TidyInv
    <3> QED
      BY <3>1, <3>2, RowStepKeepsLocks DEF Tidy, RowsAreExpected
  <2> QED
    BY <2>2, <2>3, <2>4, <2>5, <2>6 DEF FleetNext
<1> QED
  BY <1>1, <1>2 DEF TidyInv

\* While heartbeats are in time and nobody shuts down, until a call fails or a
\* second process crashes: whatever is PROCESSING is in the hands of a live
\* process, or its dead owner is still to be found or is being recovered with
\* that very attempt.
THEOREM NoLockIsForgotten == FleetSpec => []NothingStranded
<1>1. TidyInv => NothingStranded
  BY DEF TidyInv, Tidy, LocksInHand, NothingStranded
<1> QED
  BY <1>1, TidyInitInv, TidyNextInv, PTL DEF FleetSpec

\* Under the same conditions the row of a live process says what it does, so
\* setWorkerBusy and setWorkerAvailable are never refused, and what a recovery
\* has read is still locked when it comes to release it.
THEOREM CallsAreNotRefused == FleetSpec => [](Untroubled => RowsAreExpected /\ SnapshotsHold)
<1>1. TidyInv => (Untroubled => RowsAreExpected /\ SnapshotsHold)
  BY DEF TidyInv, Tidy
<1> QED
  BY <1>1, TidyInitInv, TidyNextInv, PTL DEF FleetSpec
=============================================================================
